-------------------------- MODULE SendUserOperation --------------------------
(***************************************************************************)
(* Usecase.SendUserOperation (usecase.go:52-162), one action per call that *)
(* leaves the process.  Requests run it concurrently; what a request reads *)
(* from the chain (code, nonce, gas, fees) is state it acts upon later.    *)
(***************************************************************************)
EXTENDS MintToken, EntryPoint

CONSTANTS
    TransferData,  \* call data of withdrawETH and withdrawERC20
    Estimates,     \* what eth_estimateUserOperationGas may answer
    Fees,          \* gas prices the node and the bundler may answer (gwei)
    Times          \* what time.Now may read

ASSUME CallDataAssumption == "0x" \notin TransferData

\* The answers are read into big.Ints, whatever they say.
ASSUME AnswerAssumption ==
    /\ Fees \subseteq Int
    /\ \A e \in Estimates : /\ e.callGasLimit \in Int
                            /\ e.verificationGasLimit \in Int

CallDatas == {"0x"} \cup TransferData

Hour == 3600

NoSalt == 0      \* a nil SimpleUserOperation.WalletSalt

VARIABLES
    opPc,         \* where each call of SendUserOperation is
    walletSalt,   \* argument simpleOp.WalletSalt
    op            \* the model.UserOperation under construction

opVars == <<opPc, walletSalt, op>>
sendVars == <<mintVars, chainVars, opVars>>

OpInFlight == {"codeAt", "mint", "getNonce", "estimate", "priorityFee",
               "gasPrice", "paymasterHash", "userOpHash", "send"}
OpPcs == {"idle", "sent", "err", "panic", "dead"} \cup OpInFlight

OpInit ==
    /\ opPc = [r \in Requests |-> "idle"]
    /\ walletSalt = [r \in Requests |-> NoSalt]
    /\ op = [r \in Requests |-> NewUserOp(ZeroAddress, 0, ZeroAddress, <<>>, "0x")]

------------------------------------------------------------------------------
OpGoto(r, from, to) ==
    /\ opPc[r] = from
    /\ opPc' = [opPc EXCEPT ![r] = to]

SetOp(r, userOp) == op' = [op EXCEPT ![r] = userOp]

OpOnly == UNCHANGED <<mintVars, chainVars, walletSalt>>

\* The call: simpleOp names a sender, or else the salt determines it.
CallSend(r, salt, sender, callData) ==
    /\ OpGoto(r, "idle", "codeAt")
    /\ walletSalt' = [walletSalt EXCEPT ![r] = salt]
    /\ SetOp(r, NewUserOp(IF salt = NoSalt THEN sender ELSE GetSenderAddres(salt),
                          0, ZeroAddress, <<>>, callData))

\* The sender has code: no factory, no mint.
CodeAtDeployed(r) ==
    /\ OpGoto(r, "codeAt", "getNonce")
    /\ HasCode(op[r].sender)
    /\ UNCHANGED op
    /\ OpOnly

\* Fault: the tokens are minted for the factory.
CodeAtUndeployedFactory(r) ==
    /\ OpGoto(r, "codeAt", "mint")
    /\ ~HasCode(op[r].sender)
    /\ walletSalt[r] # NoSalt
    /\ SetOp(r, [op[r] EXCEPT !.factory = AccountFactory,
                              !.factoryData = <<walletSalt[r]>>])
    /\ CallMintToken(r, AccountFactory)
    /\ UNCHANGED <<chainVars, walletSalt>>

\* The sender has no code: the account is to be created, and MintToken is called.
CodeAtUndeployed(r) ==
    /\ OpGoto(r, "codeAt", "mint")
    /\ ~HasCode(op[r].sender)
    /\ walletSalt[r] # NoSalt
    /\ SetOp(r, [op[r] EXCEPT !.factory = AccountFactory,
                              !.factoryData = <<walletSalt[r]>>])
    /\ CallMintToken(r, op[r].sender)
    /\ UNCHANGED <<chainVars, walletSalt>>

\* [32]byte(simpleOp.WalletSalt) of a nil slice: the handler's goroutine panics.
CodeAtPanic(r) ==
    /\ OpGoto(r, "codeAt", "panic")
    /\ ~HasCode(op[r].sender)
    /\ walletSalt[r] = NoSalt
    /\ UNCHANGED op
    /\ OpOnly

\* Fault: the mint is not waited for.
MintReturnedEarly(r) ==
    /\ \/ mintPc[r] \in {"wait", "ok"} /\ OpGoto(r, "mint", "getNonce")
       \/ mintPc[r] = "err" /\ OpGoto(r, "mint", "err")
    /\ UNCHANGED op
    /\ OpOnly

MintReturned(r) ==
    /\ \/ mintPc[r] = "ok" /\ OpGoto(r, "mint", "getNonce")
       \/ mintPc[r] = "err" /\ OpGoto(r, "mint", "err")
    /\ UNCHANGED op
    /\ OpOnly

\* Fault: the nonce before the next.
GetNonceLast(r) ==
    /\ OpGoto(r, "getNonce", "estimate")
    /\ SetOp(r, [op[r] EXCEPT !.nonce = entryNonce[op[r].sender] - 1])
    /\ OpOnly

\* Fault: the nonce after that of the account's pooled operation.
GetNoncePending(r) ==
    /\ OpGoto(r, "getNonce", "estimate")
    /\ SetOp(r, [op[r] EXCEPT !.nonce =
                   entryNonce[op[r].sender] +
                   IF \E p \in mempool : p.sender = op[r].sender THEN 1 ELSE 0])
    /\ OpOnly

GetNonce(r) ==
    /\ OpGoto(r, "getNonce", "estimate")
    /\ SetOp(r, [op[r] EXCEPT !.nonce = entryNonce[op[r].sender]])
    /\ OpOnly

\* Three of the four estimated limits are used; the paymaster's is discarded.
EstimateUserOpGas(r) ==
    /\ OpGoto(r, "estimate", "priorityFee")
    /\ \E e \in Estimates :
          \E preVerification \in markUpGas(e.preVerificationGas),
             call \in markUpGas(e.callGasLimit),
             verification \in markUpGas(e.verificationGasLimit) :
                SetOp(r, [op[r] EXCEPT !.preVerificationGas = preVerification,
                                       !.callGasLimit = call,
                                       !.verificationGasLimit = verification])
    /\ OpOnly

GetMaxPriorityFeePerGas(r) ==
    /\ OpGoto(r, "priorityFee", "gasPrice")
    /\ \E fee \in Fees : SetOp(r, [op[r] EXCEPT !.maxPriorityFeePerGas = fee])
    /\ OpOnly

SuggestGasPrice(r) ==
    /\ OpGoto(r, "gasPrice", "paymasterHash")
    /\ \E baseFee \in Fees :
          SetOp(r, [op[r] EXCEPT
                      !.maxFeePerGas = baseFee + op[r].maxPriorityFeePerGas])
    /\ OpOnly

\* GetPaymasterSignature and EncodePaymasterData, unless the paymaster is absent.
SignPaymaster(r) ==
    /\ OpGoto(r, "paymasterHash", "userOpHash")
    /\ \E now \in Times :
          LET validUntil == now + Hour
              hash == PaymasterHash(Pack(op[r]), validUntil, now)
          IN  IF IsZeroAddress(Pointer(op[r].paymaster))
              THEN UNCHANGED op
              ELSE SetOp(r, EncodePaymasterData(op[r], validUntil, now,
                                personalSign(hash, "paymasterSigner")))
    /\ OpOnly

SignUserOp(r) ==
    /\ OpGoto(r, "userOpHash", "send")
    /\ SetOp(r, [op[r] EXCEPT
                   !.signature = personalSign(UserOpHash(Pack(op[r])), "owner")])
    /\ OpOnly

\* Every RPC of the pipeline may fail, and then the request does.
OpRpcError(r) ==
    /\ \E from \in OpInFlight \ {"mint"} : OpGoto(r, from, "err")
    /\ UNCHANGED op
    /\ OpOnly

SendOp(r) ==
    /\ OpGoto(r, "send", "sent")
    /\ InRange(op[r])
    /\ AcceptOp(SendRequest(op[r]))
    /\ UNCHANGED <<mintVars, walletSalt, op>>

\* Fault: when the answer got lost, the request goes on from its nonce.
SendOpLostRetried(r) ==
    /\ OpGoto(r, "send", "getNonce")
    /\ InRange(op[r])
    /\ AcceptOp(SendRequest(op[r]))
    /\ UNCHANGED <<mintVars, walletSalt, op>>

\* The bundler took the operation and its answer got lost.
SendOpLost(r) ==
    /\ OpGoto(r, "send", "err")
    /\ InRange(op[r])
    /\ AcceptOp(SendRequest(op[r]))
    /\ UNCHANGED <<mintVars, walletSalt, op>>

OpStep(r) ==
    \/ CodeAtDeployed(r)
    \/ CodeAtUndeployed(r)
    \/ CodeAtPanic(r)
    \/ MintReturned(r)
    \/ GetNonce(r)
    \/ EstimateUserOpGas(r)
    \/ GetMaxPriorityFeePerGas(r)
    \/ SuggestGasPrice(r)
    \/ SignPaymaster(r)
    \/ SignUserOp(r)
    \/ OpRpcError(r)
    \/ SendOp(r)
    \/ SendOpLost(r)
    \/ MintStep(r) /\ UNCHANGED <<chainVars, opVars>>

\* What the node and the bundler do on their own.
ChainStep ==
    \/ MintMine /\ UNCHANGED <<chainVars, opVars>>
    \/ IncludeOp /\ UNCHANGED <<mintVars, opVars>>
    \/ EvictOp /\ UNCHANGED <<mintVars, opVars>>

SendRestart ==
    /\ MintRestart
    /\ opPc' = [r \in Requests |->
                  IF opPc[r] \in OpInFlight THEN "dead" ELSE opPc[r]]
    /\ UNCHANGED <<chainVars, walletSalt, op>>

\* The handlers' two ways to call: by salt, to create an account, and by sender,
\* which may be any address.
CallOp(r) ==
    \/ \E salt \in Salts : CallSend(r, salt, ZeroAddress, "0x")
    \/ \E a \in Addresses, callData \in CallDatas : CallSend(r, NoSalt, a, callData)

SendInit == MintInit /\ ChainInit /\ OpInit

SendNext ==
    \/ \E r \in Requests :
          \/ CallOp(r) /\ UNCHANGED <<mintVars, chainVars>>
          \/ OpStep(r)
    \/ ChainStep
    \/ SendRestart

SendSpec == SendInit /\ [][SendNext]_sendVars

------------------------------------------------------------------------------
OpTypeOK ==
    /\ opPc \in [Requests -> OpPcs]
    /\ walletSalt \in [Requests -> Salts \cup {NoSalt}]
    /\ DOMAIN op = Requests
    /\ \A r \in Requests : /\ {"sender", "nonce", "callData"} \subseteq DOMAIN op[r]
                           /\ op[r].sender \in Addresses
                           /\ op[r].nonce \in Nat

SendTypeOK == MintTypeOK /\ ChainTypeOK /\ OpTypeOK

\* Whatever was answered for the gas, the fees and the clock, and wherever the
\* request found its account, what the bundler assembles from the request's
\* members hashes to what the owner and the paymaster signed: no field is set
\* after the signature that covers it, and Pack agrees with the request.
SubmittedVerifies ==
    \A p \in submitted : OwnerSignatureValid(p) /\ PaymasterSignatureValid(p)

\* No operation that creates an account is submitted before a mint for that
\* account is on chain: the paymaster is paid in the tokens minted, and MintToken
\* waits for its transaction before SendUserOperation goes on.
CreationFunded ==
    \A p \in submitted :
        CreatesAccount(p) => \E tx \in mined : tx.to = p.sender

\* The nonce of an operation is read from the chain several RPCs before the
\* operation is submitted.  It never runs ahead or behind in the mempool: every
\* pooled operation carries the nonce its account will use next, so that none
\* waits behind a gap or has been overtaken.
MempoolCurrent ==
    \A p \in mempool : p.nonce = entryNonce[p.sender]

\* SendUserOperation looks at the account's code before the mint and reads its nonce
\* after it.  If another operation creates the account in between, what is submitted
\* asks for a creation that the EntryPoint cannot do any more.  This takes two
\* requests that create the account by its salt: any other pooled operation asks for
\* the creation exactly if its account does not exist.
CreatedTwice(a) ==
    \E q, r \in Requests :
        /\ q # r
        /\ NoSalt \notin {walletSalt[q], walletSalt[r]}
        /\ GetSenderAddres(walletSalt[q]) = a
        /\ GetSenderAddres(walletSalt[r]) = a

StrandedByCreations ==
    \A p \in mempool :
        \/ CreatesAccount(p) <=> p.sender \notin code
        \/ CreatesAccount(p) /\ CreatedTwice(p.sender)

\* As the nonce does not count pooled operations, an account has at most one.
AtMostOneLiveOp ==
    \A p, q \in mempool : p.sender = q.sender => p = q

\* The operations of an account that the EntryPoint executed, by their nonces.
Executions(a) ==
    [k \in 1..entryNonce[a] |->
        (CHOOSE x \in receipts : x.op.sender = a /\ x.op.nonce = k - 1).op]

\* However requests for an account overlap, are replaced, evicted or lost, the
\* account lives as AccountLife says: paid for, created by its first operation, and
\* then served one operation after the other.
Life == INSTANCE AccountLife WITH
    Accounts <- Addresses,
    Creates <- CreatesAccount,
    funded <- {tx.to : tx \in mined},
    live <- [a \in Addresses |-> {p \in mempool : p.sender = a}],
    executed <- [a \in Addresses |-> Executions(a)]

ImplementsLife == Life!LifeSpec

\* The request to the bundler leaves the factory out when it is the zero address,
\* as the guard in front of it (bundler.go:69) asks.
OmitsZeroFactory ==
    \A p \in submitted : p.initCode # <<>> => p.initCode[1] # ZeroAddress
==============================================================================
