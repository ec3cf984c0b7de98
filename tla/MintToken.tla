------------------------------ MODULE MintToken ------------------------------
(***************************************************************************)
(* Contracts.MintToken (contracts.go:210-241) as executed by concurrent    *)
(* HTTP handlers.  A call divides the grant, reads the owner's pending     *)
(* nonce and the gas price from the node, submits a mint transaction and   *)
(* waits until it is mined.                                                *)
(*                                                                         *)
(* The grant is one big.Int: NewUseCase allocates it, every handler shares *)
(* the pointer (Usecase is copied, initialETH is not), and getValueInToken *)
(* divides it in place and returns the same pointer.  Hence the value      *)
(* minted is read from the shared cell when the transaction is built, two  *)
(* RPC round trips after the division, and the division itself is an       *)
(* unsynchronised read followed by a write.                                *)
(***************************************************************************)
EXTENDS OwnerAccount, Accounts, FiniteSets

CONSTANTS
    Requests,      \* one identity per HTTP request; each calls at most once
    InitialETH,    \* "1 ether" of NewUseCase
    MaxRestarts,   \* bound on process crashes
    Sequential     \* TRUE: the clients never let two requests overlap

ASSUME GrantAssumption == InitialETH \in Nat
ASSUME RestartAssumption == MaxRestarts \in Nat
ASSUME SequentialAssumption == Sequential \in BOOLEAN

VARIABLES
    initialETH,   \* the shared big.Int
    restarts,     \* how often the process has been restarted
    mintPc,       \* where each call of MintToken is
    mintTo,       \* argument addr
    quotient,     \* value computed by Div and not yet stored
    authNonce     \* auth.Nonce

localVars == <<mintTo, quotient, authNonce>>
mintVars == <<ownerVars, initialETH, restarts, mintPc, localVars>>

MintInFlight == {"divLoad", "divStore", "getNonce", "gasPrice", "send", "wait"}
MintPcs == {"idle", "ok", "err", "dead"} \cup MintInFlight

Tx == [by : Requests, nonce : Nat, to : Addresses, amount : Nat]

MintTx(r) == [by |-> r, nonce |-> authNonce[r], to |-> mintTo[r],
              amount |-> initialETH]

MintInit ==
    /\ OwnerInit
    /\ initialETH = InitialETH
    /\ restarts = 0
    /\ mintPc = [r \in Requests |-> "idle"]
    /\ mintTo = [r \in Requests |-> ZeroAddress]
    /\ quotient = [r \in Requests |-> 0]
    /\ authNonce = [r \in Requests |-> 0]

------------------------------------------------------------------------------
MintGoto(r, from, to) ==
    /\ mintPc[r] = from
    /\ mintPc' = [mintPc EXCEPT ![r] = to]

CallMintToken(r, a) ==
    /\ Sequential => \A q \in Requests : mintPc[q] \notin MintInFlight
    /\ MintGoto(r, "idle", "divLoad")
    /\ mintTo' = [mintTo EXCEPT ![r] = a]
    /\ UNCHANGED <<ownerVars, initialETH, restarts, quotient, authNonce>>

\* amountInETH.Div(amountInETH, 100): the operand is read ...
DivLoad(r) ==
    /\ MintGoto(r, "divLoad", "divStore")
    /\ quotient' = [quotient EXCEPT ![r] = initialETH \div 100]
    /\ UNCHANGED <<ownerVars, initialETH, restarts, mintTo, authNonce>>

\* Fault: the quotient is not stored.
DivStoreDropped(r) ==
    /\ MintGoto(r, "divStore", "getNonce")
    /\ UNCHANGED <<ownerVars, initialETH, restarts, localVars>>

\* Fault: the stored value is a hundredth of the quotient.
DivStoreAgain(r) ==
    /\ MintGoto(r, "divStore", "getNonce")
    /\ initialETH' = quotient[r] \div 100
    /\ UNCHANGED <<ownerVars, restarts, localVars>>

\* ... and the result overwrites the same big.Int.
DivStore(r) ==
    /\ MintGoto(r, "divStore", "getNonce")
    /\ initialETH' = quotient[r]
    /\ UNCHANGED <<ownerVars, restarts, localVars>>

\* Fault: the nonce of the last transaction, not of the next.
GetOwnerNonceLast(r) ==
    /\ MintGoto(r, "getNonce", "gasPrice")
    /\ authNonce' = [authNonce EXCEPT ![r] = pendingNonce - 1]
    /\ UNCHANGED <<ownerVars, initialETH, restarts, mintTo, quotient>>

\* Fault: a nonce is left out.
GetOwnerNonceSkip(r) ==
    /\ MintGoto(r, "getNonce", "gasPrice")
    /\ authNonce' = [authNonce EXCEPT ![r] = pendingNonce + 1]
    /\ UNCHANGED <<ownerVars, initialETH, restarts, mintTo, quotient>>

GetOwnerNonce(r) ==
    /\ MintGoto(r, "getNonce", "gasPrice")
    /\ authNonce' = [authNonce EXCEPT ![r] = pendingNonce]
    /\ UNCHANGED <<ownerVars, initialETH, restarts, mintTo, quotient>>

MintGasPrice(r) ==
    /\ MintGoto(r, "gasPrice", "send")
    /\ UNCHANGED <<ownerVars, initialETH, restarts, localVars>>

\* Fault: the error of MintTokens is not looked at.
MintRpcErrorIgnored(r) ==
    /\ \/ \E from \in {"getNonce", "gasPrice"} : MintGoto(r, from, "err")
       \/ MintGoto(r, "send", "wait")
    /\ UNCHANGED <<ownerVars, initialETH, restarts, localVars>>

\* PendingNonceAt or SuggestGasPrice fails, or the node refuses the mint.
MintRpcError(r) ==
    /\ \E from \in {"getNonce", "gasPrice", "send"} : MintGoto(r, from, "err")
    /\ UNCHANGED <<ownerVars, initialETH, restarts, localVars>>

\* Paymaster.MintTokens(auth, addr, tokenValue), answered.
SendMintTx(r) ==
    /\ MintGoto(r, "send", "wait")
    /\ AcceptTx(MintTx(r))
    /\ UNCHANGED <<initialETH, restarts, localVars>>

\* The node took the transaction and its answer got lost.
SendMintTxLost(r) ==
    /\ MintGoto(r, "send", "err")
    /\ AcceptTx(MintTx(r))
    /\ UNCHANGED <<initialETH, restarts, localVars>>

\* Fault: any transaction with the nonce of this one will do.
WaitMinedByNonce(r) ==
    /\ MintGoto(r, "wait", "ok")
    /\ \E tx \in mined : tx.nonce = authNonce[r]
    /\ UNCHANGED <<ownerVars, initialETH, restarts, localVars>>

\* Fault: the wait is for a later transaction to confirm this one.
WaitMinedConfirmed(r) ==
    /\ MintGoto(r, "wait", "ok")
    /\ \E tx \in mined : tx.by = r
    /\ ownerNonce > authNonce[r] + 1
    /\ UNCHANGED <<ownerVars, initialETH, restarts, localVars>>

\* bind.WaitMined polls for the receipt of this very transaction, on a
\* context that is never cancelled; the receipt's status is not looked at.
WaitMined(r) ==
    /\ MintGoto(r, "wait", "ok")
    /\ \E tx \in mined : tx.by = r
    /\ UNCHANGED <<ownerVars, initialETH, restarts, localVars>>

MintMine ==
    /\ MineTx
    /\ UNCHANGED <<initialETH, restarts, mintPc, localVars>>

\* The process dies and main builds a new Usecase: the calls in flight are
\* gone, their transactions are not, and the grant starts afresh.
MintRestart ==
    /\ restarts < MaxRestarts
    /\ restarts' = restarts + 1
    /\ initialETH' = InitialETH
    /\ mintPc' = [r \in Requests |->
                    IF mintPc[r] \in MintInFlight THEN "dead" ELSE mintPc[r]]
    /\ UNCHANGED <<ownerVars, localVars>>

MintStep(r) ==
    \/ DivLoad(r)
    \/ DivStore(r)
    \/ GetOwnerNonce(r)
    \/ MintGasPrice(r)
    \/ MintRpcError(r)
    \/ SendMintTx(r)
    \/ SendMintTxLost(r)
    \/ WaitMined(r)

MintNext ==
    \/ \E r \in Requests :
          \/ \E salt \in Salts : CallMintToken(r, GetSenderAddres(salt))
          \/ MintStep(r)
    \/ MintMine
    \/ MintRestart

MintSpec == MintInit /\ [][MintNext]_mintVars

\* Goroutines are scheduled, the node answers every RPC, and blocks are mined.
MintFairSpec ==
    /\ MintSpec
    /\ \A r \in Requests : WF_mintVars(MintStep(r))
    /\ WF_mintVars(MintMine)

------------------------------------------------------------------------------
MintTypeOK ==
    /\ ownerNonce \in Nat
    /\ pendingNonce \in Nat
    /\ txPool \subseteq Tx
    /\ mined \subseteq Tx
    /\ initialETH \in Nat
    /\ restarts \in 0..MaxRestarts
    /\ mintPc \in [Requests -> MintPcs]
    /\ mintTo \in [Requests -> Addresses]
    /\ quotient \in [Requests -> Nat]
    /\ authNonce \in [Requests -> Nat]

\* However the divisions of the shared big.Int interleave, no mint transaction
\* carries more than a hundredth of "1 ether": getValueInToken has been applied
\* to the cell by the time any call reads the amount from it.
GrantBounded ==
    \A tx \in Accepted : tx.amount <= InitialETH \div 100

\* A call may mint the smaller quotient that another call has put into the cell, but
\* however the reads and writes of the divisions interleave, "1 ether" is divided no
\* more often than there are calls that have stored a quotient, or died.
Hundredths[n \in Nat] ==
    IF n = 0 THEN InitialETH ELSE Hundredths[n - 1] \div 100

Stored == {r \in Requests : mintPc[r] \notin {"idle", "divLoad", "divStore"}}

DividedOncePerCall ==
    \A tx \in Accepted : tx.amount >= Hundredths[Cardinality(Stored)]

\* MintToken reads the owner's nonce two RPCs before it uses it, and calls overlap.
\* Nonces may be used twice, but never ahead: the transactions the node accepted
\* cover exactly the nonces it gave out, so that none is stuck behind a gap.
NoncesContiguous ==
    {tx.nonce : tx \in Accepted} = 0..(pendingNonce - 1)

\* The transaction a caller waits for was accepted, and what became of it is
\* known: it is pooled, mined, or another call's transaction took its nonce.
Superseded(r) ==
    /\ mintPc[r] = "wait"
    /\ \A tx \in Accepted : tx.by # r
    /\ \E tx \in Accepted : tx.nonce = authNonce[r]

WaiterAccountedFor ==
    \A r \in Requests :
        mintPc[r] = "wait" => \/ \E tx \in Accepted : tx.by = r
                              \/ Superseded(r)

\* Every wallet is granted the same share of the one initialETH that NewUseCase
\* parses from "1 ether" (usecase.go:37): the field is named, and passed, as
\* the initial grant of each new wallet.
EqualGrants ==
    \A s, t \in Accepted : s.amount = t.amount

\* A call of MintToken ends, unless the transaction it waits for has been
\* replaced in the pool: then WaitMined polls for ever.
MintReturns ==
    \A r \in Requests :
        mintPc[r] = "divLoad" ~> \/ mintPc[r] \in {"ok", "err", "dead"}
                                 \/ Superseded(r)
==============================================================================
