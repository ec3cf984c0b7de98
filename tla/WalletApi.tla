------------------------------ MODULE WalletApi ------------------------------
(***************************************************************************)
(* The HTTP handlers of api.go that create wallets and send operations,    *)
(* over the wallet table of sqlite.go and SendUserOperation.  Echo runs a  *)
(* handler per request, concurrently; only the table outlives the process. *)
(*                                                                         *)
(* The table's schema is not part of the repository.  If it makes address  *)
(* unique, refusing a duplicate is one of the failures of InsertFails.     *)
(***************************************************************************)
EXTENDS SendUserOperation, FiniteSets

VARIABLES
    wallet,   \* rows of table wallet, in the order of insertion
    apiPc     \* where each request's handler is, or how it was answered

apiVars == <<wallet, apiPc>>
vars == <<sendVars, apiVars>>

Handling == {"sending", "inserting"}
Answered == {"ok", "badRequest"}
ApiPcs == {"idle", "panicked", "lost"} \cup Handling \cup Answered

Init ==
    /\ SendInit
    /\ wallet = <<>>
    /\ apiPc = [r \in Requests |-> "idle"]

Rows == {wallet[i] : i \in DOMAIN wallet}

------------------------------------------------------------------------------
ApiGoto(r, from, to) ==
    /\ apiPc[r] = from
    /\ apiPc' = [apiPc EXCEPT ![r] = to]

Accept(r) ==
    /\ Sequential => \A q \in Requests : apiPc[q] \notin Handling
    /\ ApiGoto(r, "idle", "sending")
    /\ UNCHANGED <<mintVars, chainVars, wallet>>

\* Fault: counts the row about to be written.
CountWalletNext == Len(wallet) + 1

\* Fault: the newest row is not counted.
CountWalletOthers == IF wallet = <<>> THEN 0 ELSE Len(wallet) - 1

\* POST /wallet: the salt is the number of rows, plus one.
CountWallet == Len(wallet)

\* Fault: the salt after those that operations were submitted for.
PostWalletBySubmitted(r) ==
    LET count == Cardinality({p.sender : p \in submitted})
    IN  /\ count < MaxSalt
        /\ Accept(r)
        /\ CallSend(r, count + 1, ZeroAddress, "0x")

PostWallet(r) ==
    /\ CountWallet < MaxSalt
    /\ Accept(r)
    /\ CallSend(r, CountWallet + 1, ZeroAddress, "0x")

\* POST /wallet/:address/send: any address; the callData of the payload is not used.
PostSend(r) ==
    /\ Accept(r)
    /\ \E a \in Addresses : CallSend(r, NoSalt, a, "0x")

\* Fault: the table is not consulted.
PostTransferUnchecked(r) ==
    /\ Accept(r)
    /\ \E salt \in Salts, callData \in TransferData :
          CallSend(r, NoSalt, GetSenderAddres(salt), callData)

\* POST /wallet/:wallet/eth/transfer and /wallet/:wallet/:tokenAddress/transfer:
\* the wallet must be in the table.
PostTransfer(r) ==
    /\ Accept(r)
    /\ \E a \in Rows, callData \in TransferData :
          CallSend(r, NoSalt, a, callData)

\* Bind, CountWallet or GetWallet fails: the request ends where it started.
Reject(r) ==
    /\ ApiGoto(r, "idle", "badRequest")
    /\ UNCHANGED <<sendVars, wallet>>

\* Fault: a creation is registered whether it was submitted or not.
SendReturnedUnchecked(r) ==
    /\ \/ /\ opPc[r] \in {"sent", "err"}
          /\ ApiGoto(r, "sending", IF walletSalt[r] = NoSalt THEN "ok"
                                                             ELSE "inserting")
       \/ opPc[r] = "panic" /\ ApiGoto(r, "sending", "panicked")
    /\ UNCHANGED <<sendVars, wallet>>

\* Fault: a panic leaves the request open.
SendReturnedNoPanic(r) ==
    /\ \/ /\ opPc[r] = "sent"
          /\ ApiGoto(r, "sending", IF walletSalt[r] = NoSalt THEN "ok"
                                                             ELSE "inserting")
       \/ opPc[r] = "err" /\ ApiGoto(r, "sending", "badRequest")
    /\ UNCHANGED <<sendVars, wallet>>

\* SendUserOperation is back: a creation goes on to insert the wallet.  After a panic
\* the connection is closed without a response.
SendReturned(r) ==
    /\ \/ /\ opPc[r] = "sent"
          /\ ApiGoto(r, "sending", IF walletSalt[r] = NoSalt THEN "ok"
                                                             ELSE "inserting")
       \/ opPc[r] = "err" /\ ApiGoto(r, "sending", "badRequest")
       \/ opPc[r] = "panic" /\ ApiGoto(r, "sending", "panicked")
    /\ UNCHANGED <<sendVars, wallet>>

\* Fault: the row holds the salt.
CreateWalletSalt(r) ==
    /\ ApiGoto(r, "inserting", "ok")
    /\ wallet' = Append(wallet, walletSalt[r])
    /\ UNCHANGED sendVars

CreateWallet(r) ==
    /\ ApiGoto(r, "inserting", "ok")
    /\ wallet' = Append(wallet, GetSenderAddres(walletSalt[r]))
    /\ UNCHANGED sendVars

\* Fault: the error of CreateWallet is not looked at.
InsertFailsIgnored(r) ==
    /\ ApiGoto(r, "inserting", "ok")
    /\ UNCHANGED <<sendVars, wallet>>

InsertFails(r) ==
    /\ ApiGoto(r, "inserting", "badRequest")
    /\ UNCHANGED <<sendVars, wallet>>

\* The process dies; the requests in flight are never answered.
Restart ==
    /\ SendRestart
    /\ apiPc' = [r \in Requests |->
                   IF apiPc[r] \in Handling THEN "lost" ELSE apiPc[r]]
    /\ UNCHANGED wallet

HandlerStep(r) ==
    \/ SendReturned(r)
    \/ CreateWallet(r)
    \/ InsertFails(r)
    \/ OpStep(r) /\ UNCHANGED apiVars

Next ==
    \/ \E r \in Requests :
          \/ PostWallet(r)
          \/ PostSend(r)
          \/ PostTransfer(r)
          \/ Reject(r)
          \/ HandlerStep(r)
    \/ ChainStep /\ UNCHANGED apiVars
    \/ Restart

Spec == Init /\ [][Next]_vars

\* Goroutines are scheduled, every RPC and every statement on the table returns,
\* and blocks are mined.  Nothing is assumed of the bundler.
FairSpec ==
    /\ Spec
    /\ \A r \in Requests : WF_vars(HandlerStep(r))
    /\ WF_vars(MintMine /\ UNCHANGED <<chainVars, opVars, apiVars>>)

------------------------------------------------------------------------------
TypeOK ==
    /\ SendTypeOK
    /\ wallet \in Seq(Addresses)
    /\ apiPc \in [Requests -> ApiPcs]

\* Handlers count the rows, spend many RPCs on the operation and only then insert.
\* However they overlap and whichever of them fail, the i-th row holds the wallet
\* of one of the first i salts, so that the salt in use never runs ahead of the rows.
\* It may fall behind: two overlapping creations insert one wallet twice, and the
\* next creation passes a salt over.
RowsWithinIndex ==
    \A i \in DOMAIN wallet :
        \E salt \in 1..i : salt \in Salts /\ wallet[i] = GetSenderAddres(salt)

\* A creation starts on a wallet that is not in the table, whatever the creations
\* before it have inserted: two rows are of one wallet only when its creations
\* counted the rows before either had inserted its own.
CreationIsFresh ==
    [][\A r \in Requests :
          walletSalt'[r] # walletSalt[r] => GetSenderAddres(walletSalt'[r]) \notin Rows]_vars

\* However requests overlap, fail or die, what was minted for or submitted is the
\* wallet of a salt that the table has reached or of the next one: nothing is
\* provided for beyond the salt that the next creation takes.
ProvidedWithinNext ==
    \A a \in {tx.to : tx \in Accepted} \cup {p.sender : p \in submitted} :
        \E salt \in 1..(Len(wallet) + 1) :
            salt \in Salts /\ a = GetSenderAddres(salt)

\* A wallet is in the table only if the bundler accepted an operation of it.
RegisteredWasSubmitted ==
    \A a \in Rows : \E p \in submitted : p.sender = a

\* Only wallets of the table ever spend: an operation with a transfer's call data
\* is of a registered account.
SpenderRegistered ==
    \A p \in submitted : p.callData \in TransferData => p.sender \in Rows

\* When requests do not overlap, the table lists the wallets of the salts 1, 2, ...
\* without a repetition, in spite of failures, lost answers and crashes.
RowsAreSalts ==
    \A i \in DOMAIN wallet : wallet[i] = GetSenderAddres(i)

\* When requests do not overlap, an account that was provided for (its mint or its
\* operation got through) but is not in the table, because the request failed or
\* died half way, is that of the next salt: the next POST /wallet takes it up, and
\* no account is orphaned.
OrphanIsNext ==
    \A a \in {tx.to : tx \in Accepted} \cup {p.sender : p \in submitted} :
        a \in Rows \/ a = GetSenderAddres(Len(wallet) + 1)

\* When requests do not overlap, the service implements WalletRegistry.
Provisioned ==
    Cardinality({p.sender : p \in submitted})

Registry == INSTANCE WalletRegistry WITH
    provisioned <- Provisioned, registered <- Len(wallet)

ImplementsRegistry == Registry!RegistrySpec

\* Every request that is accepted gets a response, with three exceptions: it is lost
\* in a crash; its mint has been superseded, and the handler waits for ever; or it
\* names an address without code instead of a salt, and usecase.go:77 panics, which
\* a creation never does.
Unanswerable(r) ==
    \/ apiPc[r] = "lost"
    \/ Superseded(r)
    \/ apiPc[r] = "panicked" /\ walletSalt[r] = NoSalt

RequestAnswered ==
    \A r \in Requests :
        apiPc[r] = "sending" ~> apiPc[r] \in Answered \/ Unanswerable(r)
==============================================================================
