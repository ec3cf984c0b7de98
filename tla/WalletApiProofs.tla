--------------------------- MODULE WalletApiProofs ---------------------------
(***************************************************************************)
(* Proofs about WalletApi, for any number of requests, salts and restarts, *)
(* with requests overlapping or not.                                       *)
(***************************************************************************)
EXTENDS WalletApi, SendUserOperationProofs, FiniteSetTheorems

(***************************************************************************)
(* The salt of a request is at most the number of rows plus one when it is *)
(* chosen, and the table never shrinks.                                    *)
(***************************************************************************)
RowsInv ==
    /\ wallet \in Seq(Addresses)
    /\ apiPc \in [Requests -> ApiPcs]
    /\ \A r \in Requests : walletSalt[r] <= Len(wallet) + 1
    /\ \A r \in Requests : apiPc[r] = "inserting" => walletSalt[r] # NoSalt
    /\ RowsWithinIndex

ApiInv == SendInv /\ RowsInv

\* A wallet of the table is that of some salt.
LEMMA RowsAreDerived ==
    ASSUME RowsInv, NEW a \in Rows
    PROVE  \E salt \in Salts : a = GetSenderAddres(salt)
  BY DEF RowsInv, Rows, RowsWithinIndex

\* What Append does to a sequence.
LEMMA AppendedRows ==
    ASSUME NEW S, NEW s \in Seq(S), NEW e \in S
    PROVE  /\ Append(s, e) \in Seq(S)
           /\ Len(Append(s, e)) = Len(s) + 1
           /\ DOMAIN Append(s, e) = DOMAIN s \cup {Len(s) + 1}
           /\ \A i \in DOMAIN s : Append(s, e)[i] = s[i]
           /\ Append(s, e)[Len(s) + 1] = e
  OBVIOUS

\* The handlers call SendUserOperation as CallOp does.
LEMMA HandlersCallOp ==
    ASSUME ApiInv, NEW r \in Requests,
           PostWallet(r) \/ PostSend(r) \/ PostTransfer(r)
    PROVE  CallOp(r) /\ UNCHANGED <<mintVars, chainVars, wallet>>
  <1>1. CASE PostWallet(r)
    <2>1. CountWallet + 1 \in Salts
      BY <1>1, SaltAssumption
         DEF PostWallet, CountWallet, Salts, ApiInv, RowsInv
    <2>2. QED
      BY <1>1, <2>1 DEF PostWallet, Accept, CallOp
  <1>2. CASE PostSend(r)
    BY <1>2 DEF PostSend, Accept, CallOp, CallDatas
  <1>3. CASE PostTransfer(r)
    <2>1. PICK a \in Rows, callData \in TransferData :
             CallSend(r, NoSalt, a, callData)
      BY <1>3 DEF PostTransfer
    <2>2. a \in Addresses
      BY DEF ApiInv, RowsInv, Rows
    <2>3. QED
      BY <1>3, <2>1, <2>2 DEF PostTransfer, Accept, CallOp, CallDatas
  <1>4. QED
    BY <1>1, <1>2, <1>3

\* The handlers add nothing to what SendUserOperation does but calls of it.
LEMMA ApiStepSends ==
    ASSUME ApiInv, [Next]_vars
    PROVE  [SendNext]_sendVars
  <1>1. ASSUME NEW r \in Requests,
               PostWallet(r) \/ PostSend(r) \/ PostTransfer(r)
        PROVE  SendNext
    BY <1>1, HandlersCallOp DEF SendNext
  <1>2. ASSUME NEW r \in Requests, Reject(r)
        PROVE  UNCHANGED sendVars
    BY <1>2 DEF Reject
  <1>3. ASSUME NEW r \in Requests, HandlerStep(r)
        PROVE  [SendNext]_sendVars
    BY <1>3 DEF HandlerStep, SendReturned, CreateWallet, InsertFails, SendNext
  <1>4. CASE ChainStep /\ UNCHANGED apiVars
    BY <1>4 DEF SendNext
  <1>5. CASE Restart
    BY <1>5 DEF Restart, SendNext
  <1>6. CASE UNCHANGED vars
    BY <1>6 DEF vars
  <1>7. QED
    BY <1>1, <1>2, <1>3, <1>4, <1>5, <1>6 DEF Next

\* Steps that leave the table and the salts alone.
LEMMA RowsInvKept ==
    ASSUME RowsInv, UNCHANGED <<wallet, walletSalt>>,
           apiPc' \in [Requests -> ApiPcs],
           \A r \in Requests : apiPc'[r] = "inserting" => walletSalt[r] # NoSalt
    PROVE  RowsInv'
  BY DEF RowsInv, RowsWithinIndex, GetSenderAddres

LEMMA RowsInvUnchanged ==
    ASSUME RowsInv, UNCHANGED <<apiPc, wallet, walletSalt>>
    PROVE  RowsInv'
  BY DEF RowsInv, RowsWithinIndex, GetSenderAddres

\* The row that CreateWallet appends is the wallet of one of the first salts.
LEMMA CreateWalletRows ==
    ASSUME ApiInv, NEW r \in Requests, CreateWallet(r)
    PROVE  RowsInv'
  <1> USE DEF ApiInv, RowsInv, SendInv, OpTypeOK
  <1> DEFINE salt == walletSalt[r]
             row == GetSenderAddres(salt)
  <1>1. salt \in Salts /\ salt \in 1..(Len(wallet) + 1)
    BY DEF CreateWallet, ApiGoto, Salts, NoSalt
  <1>2. row \in Addresses
    BY <1>1, SenderIsAddress
  <1>3. wallet' = Append(wallet, row) /\ UNCHANGED walletSalt
    BY DEF CreateWallet, sendVars, opVars
  <1> HIDE DEF row
  <1>4. /\ wallet' \in Seq(Addresses)
        /\ Len(wallet') = Len(wallet) + 1
        /\ DOMAIN wallet' = DOMAIN wallet \cup {Len(wallet) + 1}
        /\ \A i \in DOMAIN wallet : wallet'[i] = wallet[i]
        /\ wallet'[Len(wallet) + 1] = row
    BY <1>2, <1>3, AppendedRows
  <1>5. RowsWithinIndex'
    <2>1. ASSUME NEW i \in DOMAIN wallet
          PROVE  \E s \in 1..i : s \in Salts /\ wallet'[i] = GetSenderAddres(s)
      BY <1>4 DEF RowsWithinIndex
    <2>2. \E s \in 1..(Len(wallet) + 1) :
             s \in Salts /\ wallet'[Len(wallet) + 1] = GetSenderAddres(s)
      BY <1>1, <1>4 DEF row
    <2>3. \A i \in DOMAIN wallet' :
             \E s \in 1..i : s \in Salts /\ wallet'[i] = GetSenderAddres(s)
      BY <1>4, <2>1, <2>2
    <2>4. QED
      BY <2>3 DEF RowsWithinIndex, GetSenderAddres
  <1>6. \A q \in Requests : walletSalt'[q] <= Len(wallet') + 1
    BY <1>3, <1>4 DEF Salts, NoSalt
  <1>7. QED
    BY <1>3, <1>4, <1>5, <1>6 DEF CreateWallet, ApiGoto, ApiPcs, Answered

LEMMA ApiInvStep ==
    ASSUME ApiInv, [Next]_vars
    PROVE  ApiInv'
  <1>0. SendInv'
    BY ApiStepSends, SendInvStep DEF ApiInv
  <1> USE DEF ApiGoto, ApiPcs, Handling, Answered
  <1>1. ASSUME NEW r \in Requests, PostWallet(r)
        PROVE  RowsInv'
    BY <1>1 DEF PostWallet, Accept, CountWallet, CallSend, ApiInv, SendInv,
       OpTypeOK, RowsInv, RowsWithinIndex, GetSenderAddres
  <1>2. ASSUME NEW r \in Requests, PostSend(r) \/ PostTransfer(r)
        PROVE  RowsInv'
    <2>1. walletSalt' = [walletSalt EXCEPT ![r] = NoSalt]
      BY <1>2 DEF PostSend, PostTransfer, CallSend
    <2>2. /\ UNCHANGED wallet
          /\ apiPc' = [apiPc EXCEPT ![r] = "sending"]
      BY <1>2 DEF PostSend, PostTransfer, Accept
    <2>3. \A q \in Requests : walletSalt'[q] <= Len(wallet') + 1
      BY <2>1, <2>2 DEF ApiInv, SendInv, OpTypeOK, RowsInv, NoSalt
    <2>4. \A q \in Requests :
             apiPc'[q] = "inserting" => walletSalt'[q] # NoSalt
      BY <2>1, <2>2 DEF ApiInv, SendInv, OpTypeOK, RowsInv
    <2>5. apiPc' \in [Requests -> ApiPcs]
      BY <2>2 DEF ApiInv, RowsInv
    <2>6. QED
      BY <2>2, <2>3, <2>4, <2>5
         DEF ApiInv, RowsInv, RowsWithinIndex, GetSenderAddres
  <1>3. ASSUME NEW r \in Requests, Reject(r)
        PROVE  RowsInv'
    BY <1>3, RowsInvKept DEF Reject, sendVars, opVars, ApiInv, RowsInv
  <1>4. ASSUME NEW r \in Requests, SendReturned(r)
        PROVE  RowsInv'
    BY <1>4, RowsInvKept DEF SendReturned, sendVars, opVars, ApiInv, RowsInv
  <1>5. ASSUME NEW r \in Requests, CreateWallet(r)
        PROVE  RowsInv'
    BY <1>5, CreateWalletRows
  <1>6. ASSUME NEW r \in Requests, InsertFails(r)
        PROVE  RowsInv'
    BY <1>6, RowsInvKept DEF InsertFails, sendVars, opVars, ApiInv, RowsInv
  <1>7. ASSUME NEW r \in Requests, OpStep(r), UNCHANGED apiVars
        PROVE  RowsInv'
    BY <1>7, OpStepFrame, RowsInvKept DEF apiVars, ApiInv, SendInv, RowsInv
  <1>8. ASSUME ChainStep, UNCHANGED apiVars
        PROVE  RowsInv'
    <2>1. UNCHANGED <<apiPc, wallet, walletSalt>>
      BY <1>8, ChainStepFrame DEF apiVars, opVars
    <2>2. QED
      BY <2>1, RowsInvUnchanged DEF ApiInv
  <1>9. ASSUME Restart
        PROVE  RowsInv'
    <2>1. UNCHANGED <<wallet, walletSalt>>
      BY <1>9 DEF Restart, SendRestart
    <2>2. apiPc' \in [Requests -> ApiPcs]
      BY <1>9 DEF Restart, ApiInv, RowsInv
    <2>3. \A r \in Requests : apiPc'[r] # "inserting"
      BY <1>9 DEF Restart, ApiInv, RowsInv
    <2>4. QED
      BY <2>1, <2>2, <2>3, RowsInvKept DEF ApiInv
  <1>10. ASSUME UNCHANGED vars
        PROVE  RowsInv'
    BY <1>10, RowsInvUnchanged DEF vars, sendVars, opVars, apiVars, ApiInv
  <1>11. QED
    BY <1>0, <1>1, <1>2, <1>3, <1>4, <1>5, <1>6, <1>7, <1>8, <1>9, <1>10
       DEF Next, HandlerStep, ApiInv

\* ApiInv: salts are at most the next one, and rows are wallets of the first salts.
THEOREM ApiInvariant == Spec => []ApiInv
<1>1. Init => ApiInv
  <2> SUFFICES ASSUME Init PROVE ApiInv
    OBVIOUS
  <2>1. SendInv
    BY SendInvInit DEF Init
  <2>2. RowsInv
    BY DEF Init, SendInit, OpInit, RowsInv, ApiPcs, NoSalt, RowsWithinIndex
  <2>3. QED
    BY <2>1, <2>2 DEF ApiInv
<1>2. QED
  BY <1>1, ApiInvStep, PTL DEF Spec

\* SendSpec: the handlers use SendUserOperation as SendUserOperation.tla has it,
\* so that what is proved of SendSpec and of MintSpec holds of the service.
THEOREM ApiImplementsSend == Spec => SendSpec
<1>1. Init => SendInit
  BY DEF Init
<1>2. QED
  BY <1>1, ApiStepSends, ApiInvariant, PTL DEF Spec, SendSpec

\* TypeOK: the state of the service is well typed.
THEOREM TypeCorrect == Spec => []TypeOK
<1>1. SendTypeOK /\ ApiInv => TypeOK
  BY DEF ApiInv, RowsInv, TypeOK
<1>2. QED
  BY <1>1, ApiImplementsSend, SendTypeCorrect, ApiInvariant, PTL

\* RowsWithinIndex: the i-th row is the wallet of one of the first i salts, however
\* handlers overlap between CountWallet and CreateWallet, fail or die.
THEOREM RowsAreWithinIndex == Spec => []RowsWithinIndex
<1>1. ApiInv => RowsWithinIndex
  BY DEF ApiInv, RowsInv
<1>2. QED
  BY <1>1, ApiInvariant, PTL

\* CreationIsFresh: the salt a creation takes is past those of all rows, whichever
\* creations have overlapped before, and another salt is another wallet.
THEOREM CreationsAreFresh == Spec => CreationIsFresh
<1> DEFINE Fresh == \A r \in Requests : walletSalt'[r] # walletSalt[r] =>
                        GetSenderAddres(walletSalt'[r]) \notin Rows
<1>1. ASSUME ApiInv, [Next]_vars
      PROVE  Fresh
  <2>1. ASSUME NEW r \in Requests, PostWallet(r)
        PROVE  Fresh
    <3> DEFINE salt == Len(wallet) + 1
    <3>1. /\ walletSalt' = [walletSalt EXCEPT ![r] = salt]
          /\ CountWallet < MaxSalt
      BY <2>1 DEF PostWallet, CountWallet, CallSend
    <3>2. salt \in Salts /\ Len(wallet) \in Nat
      BY <1>1, <3>1, SaltAssumption DEF CountWallet, Salts, ApiInv, RowsInv
    <3>3. ASSUME NEW i \in DOMAIN wallet
          PROVE  wallet[i] # GetSenderAddres(salt)
      <4>1. \E s \in 1..i : s \in Salts /\ wallet[i] = GetSenderAddres(s)
        BY <1>1 DEF ApiInv, RowsInv, RowsWithinIndex
      <4>2. i \in 1..Len(wallet)
        BY <1>1 DEF ApiInv, RowsInv
      <4>3. \A s \in 1..i : s # salt
        BY <3>2, <4>2
      <4> QED BY <3>2, <4>1, <4>3, AddressAssumption DEF GetSenderAddres
    <3>4. GetSenderAddres(salt) \notin Rows
      BY <3>3 DEF Rows
    <3> HIDE DEF salt
    <3> QED BY <1>1, <3>1, <3>4 DEF ApiInv, SendInv, OpTypeOK
  <2>2. ASSUME NEW r \in Requests, PostSend(r) \/ PostTransfer(r)
        PROVE  Fresh
    <3>1. /\ opPc[r] = "idle"
          /\ walletSalt' = [walletSalt EXCEPT ![r] = NoSalt]
      BY <2>2 DEF PostSend, PostTransfer, CallSend, OpGoto
    <3>2. walletSalt[r] = NoSalt
      BY <1>1, <3>1 DEF ApiInv, SendInv
    <3> QED BY <1>1, <3>1, <3>2 DEF ApiInv, SendInv, OpTypeOK
  <2>3. CASE UNCHANGED walletSalt
    BY <2>3
  <2>4. ASSUME NEW r \in Requests, HandlerStep(r) \/ Reject(r)
        PROVE  UNCHANGED walletSalt
    <3>1. CASE OpStep(r)
      BY <1>1, <3>1, OpStepFrame DEF ApiInv, SendInv
    <3> QED
      BY <2>4, <3>1 DEF Reject, HandlerStep, SendReturned, CreateWallet, InsertFails,
         sendVars, opVars
  <2>5. ASSUME ChainStep \/ Restart
        PROVE  UNCHANGED walletSalt
    BY <2>5, ChainStepFrame DEF Restart, SendRestart, opVars
  <2>6. \/ \E r \in Requests : PostWallet(r)
        \/ \E r \in Requests : PostSend(r) \/ PostTransfer(r)
        \/ UNCHANGED walletSalt
    BY <1>1, <2>4, <2>5 DEF Next, vars, sendVars, opVars
  <2> QED BY <2>1, <2>2, <2>3, <2>6
<1>2. QED
  BY <1>1, ApiInvariant, PTL DEF Spec, CreationIsFresh

------------------------------------------------------------------------------
(***************************************************************************)
(* What the table owes to the bundler.  A handler inserts a wallet after   *)
(* SendUserOperation has returned without an error, the operation's sender *)
(* is the wallet of the request's salt, and what was submitted stays so.   *)
(***************************************************************************)
Senders == {p.sender : p \in submitted}

SubmitInv ==
    /\ \A r \in Requests : opPc[r] = "sent" => op[r].sender \in Senders
    /\ \A r \in Requests : apiPc[r] = "inserting" => opPc[r] = "sent"
    /\ Rows \subseteq Senders

\* After it is sent, nothing changes about an operation.
LEMMA SentStays ==
    ASSUME OpTypeOK, NEW r \in Requests, OpStep(r)
    PROVE  /\ opPc[r] = "sent" => UNCHANGED opVars
           /\ opPc'[r] = "sent" => opPc[r] = "sent" \/ SendOp(r)
  BY DEF OpTypeOK, OpStep, CodeAtDeployed, CodeAtUndeployed, CodeAtPanic,
     MintReturned, GetNonce, EstimateUserOpGas, GetMaxPriorityFeePerGas,
     SuggestGasPrice, SignPaymaster, SignUserOp, OpRpcError, SendOp,
     SendOpLost, OpGoto, OpInFlight, opVars

\* What was submitted stays so.
LEMMA SubmittedGrows ==
    ASSUME ApiInv, [Next]_vars
    PROVE  submitted \subseteq submitted'
  <1>1. ASSUME NEW r \in Requests, OpStep(r)
        PROVE  submitted \subseteq submitted'
    BY <1>1, OpStepChain DEF ApiInv, SendInv, chainVars, AcceptOp
  <1>2. ASSUME ChainStep
        PROVE  submitted \subseteq submitted'
    BY <1>2, ChainStepFrame DEF chainVars, IncludeOp, EvictOp
  <1>3. QED
    BY <1>1, <1>2 DEF Next, HandlerStep, PostWallet, PostSend, PostTransfer,
       Accept, Reject, SendReturned, CreateWallet, InsertFails, Restart,
       SendRestart, vars, sendVars, chainVars

LEMMA SubmitInvStep ==
    ASSUME ApiInv, SubmitInv, [Next]_vars
    PROVE  SubmitInv'
  <1> USE DEF ApiInv, SendInv, OpTypeOK, RowsInv, SubmitInv
  <1>0. Senders \subseteq Senders'
    BY SubmittedGrows DEF Senders
  <1>1. ASSUME UNCHANGED <<opVars, apiVars>>
        PROVE  SubmitInv'
    BY <1>0, <1>1 DEF opVars, apiVars, Rows
  <1>2. ASSUME NEW r \in Requests,
               PostWallet(r) \/ PostSend(r) \/ PostTransfer(r)
        PROVE  SubmitInv'
    <2>1. CallOp(r) /\ UNCHANGED wallet
      BY <1>2, HandlersCallOp
    <2>2. apiPc' = [apiPc EXCEPT ![r] = "sending"]
      BY <1>2 DEF PostWallet, PostSend, PostTransfer, Accept, ApiGoto
    <2>3. /\ opPc'[r] = "codeAt"
          /\ \A q \in Requests \ {r} : op'[q] = op[q] /\ opPc'[q] = opPc[q]
      BY <2>1, CallOpFrame
    <2>4. Rows' = Rows
      BY <2>1 DEF Rows
    <2>5. \A q \in Requests :
             opPc'[q] = "sent" => op'[q].sender \in Senders'
      BY <1>0, <2>3
    <2>6. \A q \in Requests : apiPc'[q] = "inserting" => opPc'[q] = "sent"
      BY <2>2, <2>3
    <2>7. QED
      BY <1>0, <2>4, <2>5, <2>6
  <1>3. ASSUME NEW r \in Requests, Reject(r) \/ InsertFails(r)
        PROVE  SubmitInv'
    <2>1. UNCHANGED <<opPc, op, wallet>>
      BY <1>3 DEF Reject, InsertFails, sendVars, opVars
    <2>2. apiPc' = [apiPc EXCEPT ![r] = "badRequest"]
      BY <1>3 DEF Reject, InsertFails, ApiGoto
    <2>3. QED
      BY <1>0, <2>1, <2>2 DEF Rows
  <1>4. ASSUME NEW r \in Requests, SendReturned(r)
        PROVE  SubmitInv'
    <2>1. UNCHANGED <<opPc, op, wallet>>
      BY <1>4 DEF SendReturned, sendVars, opVars
    <2>2. PICK to \in {"ok", "inserting", "badRequest", "panicked"} :
             /\ apiPc' = [apiPc EXCEPT ![r] = to]
             /\ to = "inserting" => opPc[r] = "sent"
      BY <1>4 DEF SendReturned, ApiGoto
    <2>3. QED
      BY <1>0, <2>1, <2>2 DEF Rows
  <1>5. ASSUME NEW r \in Requests, CreateWallet(r)
        PROVE  SubmitInv'
    <2>1. UNCHANGED <<opPc, op, walletSalt>>
      BY <1>5 DEF CreateWallet, sendVars, opVars
    <2>2. /\ apiPc[r] = "inserting" /\ apiPc' = [apiPc EXCEPT ![r] = "ok"]
          /\ wallet' = Append(wallet, GetSenderAddres(walletSalt[r]))
      BY <1>5 DEF CreateWallet, ApiGoto
    <2>3. SenderDerived(r) /\ walletSalt[r] # NoSalt /\ opPc[r] = "sent"
      BY <2>2
    <2>4. op[r].sender = GetSenderAddres(walletSalt[r])
      BY <2>3 DEF SenderDerived
    <2>5. GetSenderAddres(walletSalt[r]) \in Addresses
      BY <2>4
    <2>6. Rows' = Rows \cup {op[r].sender}
      BY <2>2, <2>4, <2>5, AppendedRows DEF Rows
    <2>7. Rows' \subseteq Senders'
      BY <1>0, <2>3, <2>6
    <2>8. \A q \in Requests :
             opPc'[q] = "sent" => op'[q].sender \in Senders'
      BY <1>0, <2>1
    <2>9. \A q \in Requests : apiPc'[q] = "inserting" => opPc'[q] = "sent"
      BY <2>1, <2>2
    <2>10. QED
      BY <2>7, <2>8, <2>9
  <1>6. ASSUME NEW r \in Requests, OpStep(r), UNCHANGED apiVars
        PROVE  SubmitInv'
    <2>1. CASE SendOp(r)
      <3>1. op[r].sender \in Senders'
        <4>1. SendRequest(op[r]) \in submitted'
          BY <2>1 DEF SendOp, AcceptOp
        <4>2. SendRequest(op[r]).sender = op[r].sender
          BY DEF SendRequest
        <4>3. QED
          BY <4>1, <4>2 DEF Senders
      <3>2. \A q \in Requests :
               opPc'[q] = "sent" => op'[q].sender \in Senders'
        <4>1. op'[r].sender \in Senders'
          BY <1>6, <3>1, OpStepFrame
        <4>2. \A q \in Requests \ {r} : op'[q] = op[q] /\ opPc'[q] = opPc[q]
          BY <1>6, OpStepFrame
        <4>3. \A q \in Requests \ {r} :
                 opPc'[q] = "sent" => op'[q].sender \in Senders'
          BY <1>0, <4>2
        <4>4. QED
          BY <4>1, <4>3
      <3>3. \A q \in Requests : apiPc'[q] = "inserting" => opPc'[q] = "sent"
        BY <1>6, <2>1, OpStepFrame DEF apiVars, SendOp, OpGoto
      <3>4. Rows' = Rows
        BY <1>6 DEF apiVars, Rows
      <3>5. QED
        BY <1>0, <3>2, <3>3, <3>4
    <2>2. CASE ~SendOp(r)
      <3>1. \A q \in Requests :
               /\ opPc[q] = "sent" => opPc'[q] = "sent"
               /\ opPc'[q] = "sent" => opPc[q] = "sent" /\ op'[q].sender = op[q].sender
        BY <1>6, <2>2, OpStepFrame, SentStays DEF opVars
      <3>2. UNCHANGED <<apiPc, Rows>>
        BY <1>6 DEF apiVars, Rows
      <3>3. \A q \in Requests : opPc'[q] = "sent" => op'[q].sender \in Senders'
        BY <1>0, <3>1
      <3>4. \A q \in Requests : apiPc'[q] = "inserting" => opPc'[q] = "sent"
        BY <3>1, <3>2
      <3>5. QED
        BY <1>0, <3>2, <3>3, <3>4
    <2>3. QED
      BY <2>1, <2>2
  <1>7. ASSUME ChainStep, UNCHANGED apiVars
        PROVE  SubmitInv'
    BY <1>1, <1>7, ChainStepFrame
  <1>8. ASSUME Restart
        PROVE  SubmitInv'
    <2>1. UNCHANGED <<op, wallet>>
      BY <1>8 DEF Restart, SendRestart
    <2>2. \A r \in Requests : opPc'[r] = "sent" => opPc[r] = "sent"
      BY <1>8 DEF Restart, SendRestart
    <2>3. \A r \in Requests : apiPc'[r] # "inserting"
      BY <1>8 DEF Restart, Handling
    <2>4. QED
      BY <1>0, <2>1, <2>2, <2>3 DEF Rows
  <1>9. ASSUME UNCHANGED vars
        PROVE  SubmitInv'
    BY <1>1, <1>9 DEF vars, sendVars
  <1>10. QED
    BY <1>2, <1>3, <1>4, <1>5, <1>6, <1>7, <1>8, <1>9 DEF Next, HandlerStep

\* SubmitInv: handlers insert only after the bundler has taken the operation.
THEOREM SubmitInvariant == Spec => []SubmitInv
<1>1. Init => SubmitInv
  BY DEF Init, SendInit, OpInit, SubmitInv, Rows
<1>2. QED
  BY <1>1, SubmitInvStep, ApiInvariant, PTL DEF Spec

\* RegisteredWasSubmitted: whatever fails on the way, a wallet is in the table only
\* after the bundler has accepted an operation of it.
THEOREM RegisteredWasSubmittedFirst == Spec => []RegisteredWasSubmitted
<1>1. SubmitInv => RegisteredWasSubmitted
  BY DEF SubmitInv, Senders, RegisteredWasSubmitted
<1>2. QED
  BY <1>1, SubmitInvariant, PTL

------------------------------------------------------------------------------
(***************************************************************************)
(* What the bundler owes to the table.  A transfer's sender is a row when  *)
(* its handler looks it up; the pipeline keeps the sender and the call     *)
(* data, and rows stay.                                                    *)
(***************************************************************************)
SpendInv ==
    /\ \A r \in Requests : op[r].callData \in TransferData => op[r].sender \in Rows
    /\ SpenderRegistered

\* Only CreateWallet writes the table.
LEMMA TableIsAppended ==
    ASSUME [Next]_vars
    PROVE  UNCHANGED wallet \/ \E r \in Requests : CreateWallet(r)
  BY DEF Next, HandlerStep, PostWallet, PostSend, PostTransfer, Accept, Reject,
     SendReturned, InsertFails, Restart, vars, apiVars

\* Rows stay as they are, in their places.
LEMMA TableGrows ==
    ASSUME ApiInv, [Next]_vars
    PROVE  /\ wallet' \in Seq(Addresses)
           /\ Len(wallet) <= Len(wallet')
           /\ \A i \in 1..Len(wallet) : wallet'[i] = wallet[i]
  <1>0. wallet \in Seq(Addresses) /\ wallet' \in Seq(Addresses)
    BY ApiInvStep DEF ApiInv, RowsInv
  <1>1. CASE UNCHANGED wallet
    BY <1>0, <1>1
  <1>2. ASSUME NEW r \in Requests, CreateWallet(r)
        PROVE  /\ Len(wallet) <= Len(wallet')
               /\ \A i \in 1..Len(wallet) : wallet'[i] = wallet[i]
    <2>1. wallet' = Append(wallet, GetSenderAddres(walletSalt[r]))
      BY <1>2 DEF CreateWallet
    <2>2. QED
      BY <1>0, <2>1
  <1>3. QED
    BY <1>0, <1>1, <1>2, TableIsAppended

LEMMA RowsGrow ==
    ASSUME ApiInv, [Next]_vars
    PROVE  Rows \subseteq Rows'
  <1>1. wallet \in Seq(Addresses)
    BY DEF ApiInv, RowsInv
  <1>2. QED
    BY <1>1, TableGrows DEF Rows

LEMMA SpendInvStep ==
    ASSUME ApiInv, SpendInv, [Next]_vars
    PROVE  SpendInv'
  <1> USE DEF ApiInv, SendInv, OpTypeOK, SpendInv
  <1>0. Rows \subseteq Rows'
    BY RowsGrow
  <1>1. ASSUME UNCHANGED submitted
        PROVE  SpenderRegistered'
    BY <1>0, <1>1 DEF SpenderRegistered
  <1>2. ASSUME UNCHANGED <<op, submitted>>
        PROVE  SpendInv'
    BY <1>0, <1>1, <1>2
  <1>3. ASSUME NEW r \in Requests,
               PostWallet(r) \/ PostSend(r) \/ PostTransfer(r)
        PROVE  SpendInv'
    <2>1. CallOp(r) /\ UNCHANGED <<chainVars, wallet>>
      BY <1>3, HandlersCallOp
    <2>2. \A q \in Requests \ {r} : op'[q] = op[q]
      BY <2>1, CallOpFrame
    <2>3. op'[r].callData \in TransferData => op'[r].sender \in Rows
      <3>1. CASE PostWallet(r) \/ PostSend(r)
        <4>1. PICK salt, sender : CallSend(r, salt, sender, "0x")
          BY <3>1 DEF PostWallet, PostSend
        <4>2. op'[r].callData = "0x"
          BY <4>1 DEF CallSend, SetOp, NewUserOp
        <4>3. QED
          BY <4>2, CallDataAssumption
      <3>2. CASE PostTransfer(r)
        <4>1. PICK a \in Rows, callData \in TransferData :
                 CallSend(r, NoSalt, a, callData)
          BY <3>2 DEF PostTransfer
        <4>2. op'[r].sender = a
          BY <4>1 DEF CallSend, SetOp, NewUserOp
        <4>3. QED
          BY <4>2
      <3>3. QED
        BY <1>3, <3>1, <3>2
    <2>4. QED
      BY <1>0, <1>1, <2>1, <2>2, <2>3 DEF chainVars
  <1>4. ASSUME NEW r \in Requests, Reject(r) \/ SendReturned(r)
                                      \/ CreateWallet(r) \/ InsertFails(r)
        PROVE  SpendInv'
    BY <1>2, <1>4 DEF Reject, SendReturned, CreateWallet, InsertFails, sendVars,
       opVars, chainVars
  <1>5. ASSUME NEW r \in Requests, OpStep(r), UNCHANGED apiVars
        PROVE  SpendInv'
    <2>1. \A q \in Requests : /\ op'[q].sender = op[q].sender
                              /\ op'[q].callData = op[q].callData
      BY <1>5, OpStepFrame
    <2>2. SpenderRegistered'
      <3>1. CASE UNCHANGED chainVars
        BY <1>1, <3>1 DEF chainVars
      <3>2. CASE AcceptOp(SendRequest(op[r]))
        <4>1. submitted' = submitted \cup {SendRequest(op[r])}
          BY <3>2 DEF AcceptOp
        <4>2. /\ SendRequest(op[r]).sender = op[r].sender
              /\ SendRequest(op[r]).callData = op[r].callData
          BY DEF SendRequest
        <4>3. QED
          BY <1>0, <4>1, <4>2 DEF SpenderRegistered
      <3>3. QED
        BY <1>5, <3>1, <3>2, OpStepChain
    <2>3. QED
      BY <1>0, <2>1, <2>2
  <1>6. ASSUME ChainStep, UNCHANGED apiVars
        PROVE  SpendInv'
    BY <1>2, <1>6, ChainStepFrame DEF opVars, chainVars, IncludeOp, EvictOp
  <1>7. ASSUME Restart
        PROVE  SpendInv'
    BY <1>2, <1>7 DEF Restart, SendRestart, chainVars
  <1>8. ASSUME UNCHANGED vars
        PROVE  SpendInv'
    BY <1>2, <1>8 DEF vars, sendVars, opVars, chainVars
  <1>9. QED
    BY <1>3, <1>4, <1>5, <1>6, <1>7, <1>8 DEF Next, HandlerStep

\* SpenderRegistered: what spends is a wallet of the table, however creations,
\* transfers, failures and restarts interleave.
THEOREM SpendersAreRegistered == Spec => []SpenderRegistered
<1>1. Init => SpendInv
  <2> SUFFICES ASSUME Init PROVE SpendInv
    OBVIOUS
  <2>1. \A r \in Requests :
           op[r] = NewUserOp(ZeroAddress, 0, ZeroAddress, <<>>, "0x")
    BY DEF Init, SendInit, OpInit
  <2>2. \A r \in Requests : op[r].callData = "0x"
    BY <2>1 DEF NewUserOp
  <2>3. SpenderRegistered
    BY DEF Init, SendInit, ChainInit, SpenderRegistered
  <2>4. QED
    BY <2>2, <2>3, CallDataAssumption DEF SpendInv
<1>2. SpendInv => SpenderRegistered
  BY DEF SpendInv
<1>3. QED
  BY <1>1, <1>2, SpendInvStep, ApiInvariant, PTL DEF Spec

------------------------------------------------------------------------------
(***************************************************************************)
(* Accounts that are provided for: with code, submitted for, minted for,   *)
(* or about to be.  All of them lie in a set S if those found without code *)
(* do, as an operation goes on with the sender it was called for.  (The    *)
(* contracts that are no accounts have code, too, and are not accepted.)   *)
(***************************************************************************)
ProvidedIn(S) ==
    /\ code \subseteq Senders
    /\ Senders \subseteq S
    /\ \A r \in Requests : mintPc[r] # "idle" => mintTo[r] \in S
    /\ \A r \in Requests :
          opPc[r] \in OpInFlight \ {"codeAt"} =>
             op[r].sender \in S \cup ConfiguredContracts

\* An account found without code by a request with a salt is the wallet of that salt,
\* which was at most the next one.
LEMMA UndeployedIsDerived ==
    ASSUME ApiInv, NEW r \in Requests, CodeAtUndeployed(r)
    PROVE  /\ walletSalt[r] \in Salts
           /\ walletSalt[r] <= Len(wallet) + 1
           /\ op[r].sender = GetSenderAddres(walletSalt[r])
  <1> USE DEF ApiInv, SendInv, OpTypeOK
  <1>1. opPc[r] = "codeAt" /\ walletSalt[r] # NoSalt
    BY DEF CodeAtUndeployed, OpGoto
  <1>2. SenderDerived(r)
    BY <1>1
  <1>3. QED
    BY <1>1, <1>2 DEF SenderDerived, RowsInv

\* The sender a request goes on with after "codeAt" is in S: it has code, or it was
\* found without.
LEMMA OpStepProvides ==
    ASSUME ApiInv, NEW S, ProvidedIn(S), NEW r \in Requests, OpStep(r),
           CodeAtUndeployed(r) => op[r].sender \in S,
           opPc'[r] \in OpInFlight \ {"codeAt"}
    PROVE  op[r].sender \in S \cup ConfiguredContracts
  <1>1. CASE CodeAtDeployed(r)
    BY <1>1 DEF CodeAtDeployed, HasCode, ProvidedIn
  <1>2. CASE CodeAtUndeployed(r)
    BY <1>2
  <1>3. CASE ~CodeAtDeployed(r) /\ ~CodeAtUndeployed(r)
    <2>1. opPc[r] \in OpInFlight \ {"codeAt"}
      BY <1>3 DEF OpStep, CodeAtPanic, MintReturned, GetNonce,
         EstimateUserOpGas, GetMaxPriorityFeePerGas, SuggestGasPrice,
         SignPaymaster, SignUserOp, OpRpcError, SendOp, SendOpLost, OpGoto,
         OpInFlight, opVars, ApiInv, SendInv, OpTypeOK
    <2>2. QED
      BY <2>1 DEF ProvidedIn
  <1>4. QED
    BY <1>1, <1>2, <1>3

\* Apart from the call for an undeployed sender, mints go on as they were called.
LEMMA MintStepTarget ==
    ASSUME MintTypeOK, NEW r \in Requests, MintStep(r)
    PROVE  /\ UNCHANGED mintTo
           /\ \A q \in Requests : mintPc'[q] # "idle" => mintPc[q] # "idle"
  BY DEF MintTypeOK, MintStep, DivLoad, DivStore, GetOwnerNonce, MintGasPrice,
     MintRpcError, SendMintTx, SendMintTxLost, WaitMined, MintGoto, localVars

\* A step keeps all that is provided for in S, which may grow to T.
LEMMA ProvidedStep ==
    ASSUME ApiInv, MintTypeOK, NEW S, NEW T, S \subseteq T, ProvidedIn(S),
           \A r \in Requests : CodeAtUndeployed(r) => op[r].sender \in S,
           [Next]_vars
    PROVE  ProvidedIn(T)'
  <1> USE DEF ApiInv, SendInv, OpTypeOK
  <1> DEFINE Chain == code' \subseteq Senders' /\ Senders' \subseteq T
             Mints == \A r \in Requests : mintPc'[r] # "idle" => mintTo'[r] \in T
             Ops == \A r \in Requests :
                       opPc'[r] \in OpInFlight \ {"codeAt"} =>
                          op'[r].sender \in T \cup ConfiguredContracts
  <1>a. Chain /\ Mints /\ Ops => ProvidedIn(T)'
    BY DEF ProvidedIn
  <1>1. Senders \subseteq Senders'
    BY SubmittedGrows DEF Senders
  <1>b. UNCHANGED chainVars => Chain
    BY DEF ProvidedIn, Senders, chainVars
  <1>c. UNCHANGED <<mintPc, mintTo>> => Mints
    BY DEF ProvidedIn
  <1>d. UNCHANGED <<op, opPc>> => Ops
    BY DEF ProvidedIn
  <1>2. ASSUME UNCHANGED <<opPc, op, mintPc, mintTo, chainVars>>
        PROVE  ProvidedIn(T)'
    BY <1>2, <1>a, <1>b, <1>c, <1>d
  <1>3. ASSUME NEW r \in Requests,
               PostWallet(r) \/ PostSend(r) \/ PostTransfer(r)
        PROVE  ProvidedIn(T)'
    <2>1. CallOp(r) /\ UNCHANGED <<mintVars, chainVars>>
      BY <1>3, HandlersCallOp
    <2>2. /\ opPc'[r] = "codeAt"
          /\ \A q \in Requests \ {r} : op'[q] = op[q] /\ opPc'[q] = opPc[q]
      BY <2>1, CallOpFrame
    <2>3. Ops
      BY <2>2 DEF ProvidedIn
    <2>4. QED
      BY <1>a, <1>b, <1>c, <2>1, <2>3 DEF mintVars, localVars
  <1>4. ASSUME NEW r \in Requests, Reject(r) \/ SendReturned(r)
                                      \/ CreateWallet(r) \/ InsertFails(r)
        PROVE  ProvidedIn(T)'
    BY <1>2, <1>4 DEF Reject, SendReturned, CreateWallet, InsertFails, sendVars,
       opVars, mintVars, localVars
  <1>5. ASSUME NEW r \in Requests, OpStep(r), UNCHANGED apiVars
        PROVE  ProvidedIn(T)'
    <2>1. \A q \in Requests : op'[q].sender = op[q].sender
      BY <1>5, OpStepFrame
    <2>2. Ops
      <3>1. ASSUME NEW q \in Requests, q # r
            PROVE  opPc'[q] = opPc[q]
        BY <1>5, <3>1, OpStepFrame
      <3>2. opPc'[r] \in OpInFlight \ {"codeAt"} =>
               op[r].sender \in S \cup ConfiguredContracts
        BY <1>5, OpStepProvides
      <3>3. QED
        BY <2>1, <3>1, <3>2 DEF ProvidedIn
    <2>3. Mints
      <3>1. CASE CodeAtUndeployed(r)
        <4>1. /\ mintTo' = [mintTo EXCEPT ![r] = op[r].sender]
              /\ mintPc' = [mintPc EXCEPT ![r] = "divLoad"]
          BY <3>1 DEF CodeAtUndeployed, CallMintToken, MintGoto
        <4>2. QED
          BY <3>1, <4>1 DEF ProvidedIn, MintTypeOK
      <3>2. CASE MintStep(r)
        BY <3>2, MintStepTarget DEF ProvidedIn
      <3>3. CASE ~CodeAtUndeployed(r) /\ ~MintStep(r)
        <4>1. UNCHANGED <<mintPc, mintTo>>
          BY <1>5, <3>3 DEF OpStep, CodeAtDeployed, CodeAtPanic, MintReturned,
             GetNonce, EstimateUserOpGas, GetMaxPriorityFeePerGas,
             SuggestGasPrice, SignPaymaster, SignUserOp, OpRpcError, SendOp,
             SendOpLost, OpOnly, mintVars, localVars
        <4>2. QED
          BY <1>c, <4>1
      <3>4. QED
        BY <3>1, <3>2, <3>3
    <2>4. Chain
      <3>1. CASE UNCHANGED chainVars
        BY <1>b, <3>1
      <3>2. CASE opPc[r] = "send" /\ AcceptOp(SendRequest(op[r]))
        <4>1. SendRequest(op[r]).sender = op[r].sender
          BY DEF SendRequest
        <4>2. Senders' = Senders \cup {op[r].sender}
          BY <3>2, <4>1 DEF AcceptOp, Senders
        <4>3. op[r].sender \in S
          BY <3>2, <4>1 DEF ProvidedIn, OpInFlight, AcceptOp
        <4>4. QED
          BY <1>1, <3>2, <4>2, <4>3 DEF ProvidedIn, AcceptOp
      <3>3. QED
        BY <1>5, <3>1, <3>2, OpStepChain
    <2>5. QED
      BY <1>a, <2>2, <2>3, <2>4
  <1>6. ASSUME ChainStep, UNCHANGED apiVars
        PROVE  ProvidedIn(T)'
    <2>1. UNCHANGED <<op, opPc, mintPc, mintTo>>
      BY <1>6 DEF ChainStep, MintMine, mintVars, localVars, opVars
    <2>2. CASE UNCHANGED chainVars
      BY <1>2, <2>1, <2>2
    <2>3. CASE IncludeOp
      <3>1. UNCHANGED submitted
        BY <2>3 DEF IncludeOp
      <3>2. PICK p \in mempool : code' = code \cup {p.sender}
        BY <2>3 DEF IncludeOp
      <3>3. p.sender \in Senders
        BY <3>2 DEF ChainTypeOK, Senders
      <3>4. Chain
        BY <3>1, <3>2, <3>3 DEF ProvidedIn, Senders
      <3>5. QED
        BY <1>a, <1>c, <1>d, <2>1, <3>4
    <2>4. CASE EvictOp
      <3>1. Chain
        BY <2>4 DEF EvictOp, ProvidedIn, Senders
      <3>2. QED
        BY <1>a, <1>c, <1>d, <2>1, <3>1
    <2>5. QED
      BY <1>6, <2>2, <2>3, <2>4, ChainStepFrame
  <1>7. ASSUME Restart
        PROVE  ProvidedIn(T)'
    <2>1. UNCHANGED <<op, mintTo, chainVars>>
      BY <1>7 DEF Restart, SendRestart, MintRestart, localVars
    <2>2. \A r \in Requests : opPc'[r] \notin OpInFlight
      BY <1>7 DEF Restart, SendRestart, OpInFlight
    <2>3. \A r \in Requests : mintPc'[r] # "idle" => mintPc[r] # "idle"
      BY <1>7 DEF Restart, SendRestart, MintRestart, MintTypeOK, MintInFlight
    <2>4. Mints
      BY <2>1, <2>3 DEF ProvidedIn
    <2>5. Ops
      BY <2>2
    <2>6. Chain
      BY <1>b, <2>1 DEF chainVars
    <2>7. QED
      BY <1>a, <2>4, <2>5, <2>6
  <1>8. ASSUME UNCHANGED vars
        PROVE  ProvidedIn(T)'
    BY <1>2, <1>8 DEF vars, sendVars, opVars, mintVars, localVars
  <1>9. QED
    BY <1>3, <1>4, <1>5, <1>6, <1>7, <1>8 DEF Next, HandlerStep

\* What a mint was sent for, too, is provided for.
LEMMA AcceptedAreProvided ==
    ASSUME MintTypeOK, TargetInv, NEW S, ProvidedIn(S)
    PROVE  {tx.to : tx \in Accepted} \cup {p.sender : p \in submitted} \subseteq S
  <1>1. ASSUME NEW tx \in Accepted
        PROVE  tx.to \in S
    <2>1. tx.by \in Requests
      BY DEF Accepted, MintTypeOK, Tx
    <2>2. tx.to = mintTo[tx.by] /\ mintPc[tx.by] # "idle"
      BY DEF TargetInv
    <2>3. QED
      BY <2>1, <2>2 DEF ProvidedIn
  <1>2. {p.sender : p \in submitted} \subseteq S
    BY DEF ProvidedIn, Senders
  <1>3. QED
    BY <1>1, <1>2

\* The wallets of the salts that the table has reached, and of the next one.
Reached == {GetSenderAddres(salt) : salt \in (1..(Len(wallet) + 1)) \cap Salts}

\* The table grows, and with it what it has reached.
LEMMA ReachedGrows ==
    ASSUME ApiInv, [Next]_vars
    PROVE  Reached \subseteq Reached'
  <1>1. Len(wallet) \in Nat /\ Len(wallet') \in Nat
    BY ApiInvStep DEF ApiInv, RowsInv
  <1>2. Len(wallet) <= Len(wallet')
    BY TableGrows
  <1>3. 1..(Len(wallet) + 1) \subseteq 1..(Len(wallet') + 1)
    BY <1>1, <1>2
  <1>4. QED
    BY <1>3 DEF Reached, GetSenderAddres

\* The wallets that the table has reached are such a set.
LEMMA ReachedStep ==
    ASSUME ApiInv, MintTypeOK, ProvidedIn(Reached), [Next]_vars
    PROVE  ProvidedIn(Reached)'
  <1>1. PICK S : S = Reached
    OBVIOUS
  <1>2. PICK T : T = Reached'
    OBVIOUS
  <1>3. S \subseteq T
    BY <1>1, <1>2, ReachedGrows
  <1>4. ASSUME NEW r \in Requests, CodeAtUndeployed(r)
        PROVE  op[r].sender \in S
    <2>1. /\ walletSalt[r] \in Salts /\ walletSalt[r] <= Len(wallet) + 1
          /\ op[r].sender = GetSenderAddres(walletSalt[r])
      BY <1>4, UndeployedIsDerived
    <2>2. walletSalt[r] \in 1..(Len(wallet) + 1)
      BY <2>1 DEF Salts, ApiInv, RowsInv
    <2>3. QED
      BY <1>1, <2>1, <2>2 DEF Reached
  <1>5. ProvidedIn(S)
    BY <1>1
  <1>6. ProvidedIn(T)'
    BY <1>3, <1>4, <1>5, ProvidedStep
  <1>7. QED
    BY <1>2, <1>6 DEF ProvidedIn

\* Whatever is provided for is a wallet that the table has reached, or the next.
THEOREM ReachedInvariant == Spec => []ProvidedIn(Reached)
<1>1. Init => ProvidedIn(Reached)
  BY DEF Init, SendInit, MintInit, ChainInit, OpInit, ProvidedIn, Senders,
     OpInFlight
<1>2. Spec => []MintTypeOK
  BY ApiImplementsSend, SendImplementsMint, MintTypeCorrect, PTL
<1>3. QED
  BY <1>1, <1>2, ReachedStep, ApiInvariant, PTL DEF Spec

\* ProvidedWithinNext: however requests overlap, fail or die, what was minted for or
\* submitted is the wallet of a salt that the table has reached or of the next one.
THEOREM ProvidedAreWithinNext == Spec => []ProvidedWithinNext
<1>1. MintTypeOK /\ TargetInv /\ ProvidedIn(Reached) => ProvidedWithinNext
  <2> SUFFICES ASSUME MintTypeOK, TargetInv, ProvidedIn(Reached)
               PROVE  ProvidedWithinNext
    OBVIOUS
  <2>1. {tx.to : tx \in Accepted} \cup {p.sender : p \in submitted} \subseteq Reached
    BY AcceptedAreProvided
  <2>2. QED
    BY <2>1 DEF ProvidedWithinNext, Reached
<1>2. Spec => []MintTypeOK /\ []TargetInv
  BY ApiImplementsSend, SendImplementsMint, MintTypeCorrect, TargetInvariant, PTL
<1>3. QED
  BY <1>1, <1>2, ReachedInvariant, PTL

------------------------------------------------------------------------------
(***************************************************************************)
(* Requests that do not overlap.  At most one is being handled, and the    *)
(* salt of a creation is still the next when its row is written.  An       *)
(* account is known once it is in the table or that of the next salt: only *)
(* the latter is ever appended, so that what is known stays so, and all    *)
(* that is minted for and submitted is known.  An account that has code    *)
(* was submitted before.                                                   *)
(***************************************************************************)
Known == Rows \cup {GetSenderAddres(Len(wallet) + 1)}

SequentialInv ==
    /\ \A q, r \in Requests :
          apiPc[q] \in Handling /\ apiPc[r] \in Handling => q = r
    /\ \A r \in Requests :
          apiPc[r] \in Handling => walletSalt[r] \in {NoSalt, Len(wallet) + 1}
    /\ \A r \in Requests : opPc[r] \in OpInFlight => apiPc[r] = "sending"
    /\ RowsAreSalts

LEMMA SequentialInvStep ==
    ASSUME Sequential, ApiInv, SequentialInv, [Next]_vars
    PROVE  SequentialInv'
  <1> USE DEF ApiInv, SendInv, OpTypeOK, RowsInv, SequentialInv, Handling
  <1>1. ASSUME UNCHANGED wallet
        PROVE  RowsAreSalts'
    BY <1>1 DEF RowsAreSalts, GetSenderAddres
  <1>2. ASSUME NEW r \in Requests,
               PostWallet(r) \/ PostSend(r) \/ PostTransfer(r)
        PROVE  SequentialInv'
    <2>1. CallOp(r) /\ UNCHANGED wallet
      BY <1>2, HandlersCallOp
    <2>2. /\ apiPc' = [apiPc EXCEPT ![r] = "sending"]
          /\ \A q \in Requests : apiPc[q] \notin Handling
      BY <1>2 DEF PostWallet, PostSend, PostTransfer, Accept, ApiGoto
    <2>3. walletSalt'[r] \in {NoSalt, Len(wallet) + 1}
      BY <1>2 DEF PostWallet, PostSend, PostTransfer, CallSend, CountWallet
    <2>4. \A q \in Requests \ {r} : opPc'[q] = opPc[q]
      BY <2>1, CallOpFrame
    <2>5. QED
      BY <1>1, <2>1, <2>2, <2>3, <2>4
  <1>3. ASSUME NEW r \in Requests, Reject(r) \/ InsertFails(r)
        PROVE  SequentialInv'
    <2>1. UNCHANGED <<opPc, walletSalt, wallet>>
      BY <1>3 DEF Reject, InsertFails, sendVars, opVars
    <2>2. /\ apiPc' = [apiPc EXCEPT ![r] = "badRequest"]
          /\ apiPc[r] # "sending"
      BY <1>3 DEF Reject, InsertFails, ApiGoto
    <2>3. QED
      BY <1>1, <2>1, <2>2
  <1>4. ASSUME NEW r \in Requests, SendReturned(r)
        PROVE  SequentialInv'
    <2>1. UNCHANGED <<opPc, walletSalt, wallet>>
      BY <1>4 DEF SendReturned, sendVars, opVars
    <2>2. /\ apiPc[r] = "sending" /\ opPc[r] \notin OpInFlight
          /\ \A q \in Requests \ {r} : apiPc'[q] = apiPc[q]
      BY <1>4 DEF SendReturned, ApiGoto, OpInFlight
    <2>3. QED
      BY <1>1, <2>1, <2>2
  <1>5. ASSUME NEW r \in Requests, CreateWallet(r)
        PROVE  SequentialInv'
    <2>1. UNCHANGED <<opPc, walletSalt>>
      BY <1>5 DEF CreateWallet, sendVars, opVars
    <2>2. apiPc[r] = "inserting" /\ apiPc' = [apiPc EXCEPT ![r] = "ok"]
      BY <1>5 DEF CreateWallet, ApiGoto
    <2>3. walletSalt[r] = Len(wallet) + 1 /\ walletSalt[r] \in Salts
      BY <2>2
    <2>4. wallet' = Append(wallet, GetSenderAddres(Len(wallet) + 1))
      BY <1>5, <2>3 DEF CreateWallet
    <2>5. GetSenderAddres(Len(wallet) + 1) \in Addresses
      BY <2>3, SenderIsAddress
    <2>6. RowsAreSalts'
      BY <2>4, <2>5, AppendedRows DEF RowsAreSalts, GetSenderAddres
    <2>7. \A q \in Requests : apiPc'[q] \notin Handling
      BY <2>2
    <2>8. \A q \in Requests : opPc'[q] \notin OpInFlight
      BY <2>1, <2>2
    <2>9. QED
      BY <2>6, <2>7, <2>8
  <1>6. ASSUME NEW r \in Requests, OpStep(r), UNCHANGED apiVars
        PROVE  SequentialInv'
    <2>1. opPc'[r] \in OpInFlight => opPc[r] \in OpInFlight
      BY <1>6 DEF OpStep, CodeAtDeployed, CodeAtUndeployed, CodeAtPanic,
         MintReturned, GetNonce, EstimateUserOpGas, GetMaxPriorityFeePerGas,
         SuggestGasPrice, SignPaymaster, SignUserOp, OpRpcError, SendOp,
         SendOpLost, OpGoto, OpInFlight, opVars
    <2>2. /\ UNCHANGED <<walletSalt, wallet, apiPc>>
          /\ \A q \in Requests \ {r} : opPc'[q] = opPc[q]
      BY <1>6, OpStepFrame DEF apiVars
    <2>3. QED
      BY <1>1, <2>1, <2>2
  <1>7. ASSUME ChainStep, UNCHANGED apiVars
        PROVE  SequentialInv'
    BY <1>1, <1>7, ChainStepFrame DEF opVars, apiVars
  <1>8. ASSUME Restart
        PROVE  SequentialInv'
    <2>1. UNCHANGED <<walletSalt, wallet>>
      BY <1>8 DEF Restart, SendRestart
    <2>2. /\ \A r \in Requests : apiPc'[r] \notin Handling
          /\ \A r \in Requests : opPc'[r] \notin OpInFlight
      BY <1>8 DEF Restart, SendRestart, OpInFlight
    <2>3. QED
      BY <1>1, <2>1, <2>2
  <1>9. ASSUME UNCHANGED vars
        PROVE  SequentialInv'
    BY <1>1, <1>9 DEF vars, sendVars, opVars, apiVars
  <1>10. QED
    BY <1>2, <1>3, <1>4, <1>5, <1>6, <1>7, <1>8, <1>9 DEF Next, HandlerStep

\* SequentialInv: without overlap, a creation's salt is still the next when it inserts.
THEOREM SequentialInvariant ==
    ASSUME Sequential
    PROVE  Spec => []SequentialInv
<1>1. Init => SequentialInv
  BY DEF Init, SendInit, OpInit, SequentialInv, Handling, OpInFlight,
     RowsAreSalts
<1>2. ApiInv /\ SequentialInv /\ [Next]_vars => SequentialInv'
  BY SequentialInvStep
<1>3. QED
  BY <1>1, <1>2, ApiInvariant, PTL DEF Spec

\* RowsAreSalts: as long as requests do not overlap, the table lists the wallets of
\* the salts in order, whichever requests fail and whenever the process dies.
THEOREM TableListsSalts ==
    ASSUME Sequential
    PROVE  Spec => []RowsAreSalts
<1>1. SequentialInv => RowsAreSalts
  BY DEF SequentialInv
<1>2. QED
  BY <1>1, SequentialInvariant, PTL

OrphanInv == ProvidedIn(Known)

\* Once known, an account stays so.
LEMMA KnownGrows ==
    ASSUME ApiInv, SequentialInv, [Next]_vars
    PROVE  Known \subseteq Known'
  <1> USE DEF ApiInv, SendInv, OpTypeOK, RowsInv
  <1>1. ASSUME NEW r \in Requests, CreateWallet(r)
        PROVE  Known \subseteq Known'
    <2>1. walletSalt[r] = Len(wallet) + 1 /\ walletSalt[r] \in Salts
      BY <1>1 DEF CreateWallet, ApiGoto, SequentialInv, Handling
    <2> DEFINE next == GetSenderAddres(Len(wallet) + 1)
    <2>2. wallet' = Append(wallet, next)
      BY <1>1, <2>1 DEF CreateWallet
    <2>3. next \in Addresses
      BY <2>1, SenderIsAddress
    <2>4. Known = Rows \cup {next}
      BY DEF Known
    <2> HIDE DEF next
    <2>5. Rows' = Rows \cup {next}
      BY <2>2, <2>3, AppendedRows DEF Rows
    <2>6. QED
      BY <2>4, <2>5 DEF Known
  <1>2. CASE UNCHANGED wallet
    BY <1>2 DEF Known, Rows, GetSenderAddres
  <1>3. QED
    BY <1>1, <1>2, TableIsAppended

LEMMA OrphanInvStep ==
    ASSUME ApiInv, MintTypeOK, SequentialInv, OrphanInv, [Next]_vars
    PROVE  OrphanInv'
  <1>1. PICK S : S = Known
    OBVIOUS
  <1>2. PICK T : T = Known'
    OBVIOUS
  <1>3. S \subseteq T
    BY <1>1, <1>2, KnownGrows
  <1>4. ASSUME NEW r \in Requests, CodeAtUndeployed(r)
        PROVE  op[r].sender \in S
    <2>1. op[r].sender = GetSenderAddres(walletSalt[r]) /\ walletSalt[r] \in Salts
      BY <1>4, UndeployedIsDerived
    <2>2. walletSalt[r] = Len(wallet) + 1
      BY <1>4, <2>1, SaltAssumption
         DEF CodeAtUndeployed, OpGoto, SequentialInv, Handling, OpInFlight
    <2>3. QED
      BY <1>1, <2>1, <2>2 DEF Known
  <1>5. ProvidedIn(S)
    BY <1>1 DEF OrphanInv
  <1>6. ProvidedIn(T)'
    BY <1>3, <1>4, <1>5, ProvidedStep
  <1>7. QED
    BY <1>2, <1>6 DEF ProvidedIn, OrphanInv

\* OrphanInv: without overlap, whatever is provided for is in the table or is next.
THEOREM OrphanInvariant ==
    ASSUME Sequential
    PROVE  Spec => []OrphanInv
<1>1. Init => OrphanInv
  BY DEF Init, SendInit, MintInit, ChainInit, OpInit, OrphanInv, ProvidedIn,
     Senders, OpInFlight
<1>2. Spec => []MintTypeOK
  BY ApiImplementsSend, SendImplementsMint, MintTypeCorrect, PTL
<1>3. QED
  BY <1>1, <1>2, OrphanInvStep, ApiInvariant, SequentialInvariant, PTL DEF Spec

\* OrphanIsNext: as long as requests do not overlap, an account that was minted for
\* or submitted but is not in the table is that of the next salt, so that the next
\* POST /wallet takes it up.
THEOREM NoAccountIsOrphaned ==
    ASSUME Sequential
    PROVE  Spec => []OrphanIsNext
<1>1. MintTypeOK /\ TargetInv /\ OrphanInv => OrphanIsNext
  <2> SUFFICES ASSUME MintTypeOK, TargetInv, OrphanInv
               PROVE  OrphanIsNext
    OBVIOUS
  <2>1. {tx.to : tx \in Accepted} \cup {p.sender : p \in submitted} \subseteq Known
    BY AcceptedAreProvided DEF OrphanInv
  <2>2. QED
    BY <2>1 DEF OrphanIsNext, Known
<1>2. Spec => []MintTypeOK /\ []TargetInv
  BY ApiImplementsSend, SendImplementsMint, MintTypeCorrect, TargetInvariant, PTL
<1>3. QED
  BY <1>1, <1>2, OrphanInvariant, PTL

------------------------------------------------------------------------------
(***************************************************************************)
(* The registry.  The table holds each account once, so that its length    *)
(* counts them; the accounts submitted for are those of the table and at   *)
(* most the next one.                                                      *)
(***************************************************************************)
CountInv ==
    /\ IsFiniteSet(Rows)
    /\ Cardinality(Rows) = Len(wallet)

\* The account that CreateWallet appends is not in the table yet.
LEMMA CreateWalletCounts ==
    ASSUME ApiInv, SequentialInv, CountInv, NEW r \in Requests, CreateWallet(r)
    PROVE  CountInv' /\ Len(wallet') = Len(wallet) + 1
  <1> USE DEF ApiInv, SendInv, OpTypeOK, RowsInv
  <1> DEFINE salt == Len(wallet) + 1
             row == GetSenderAddres(salt)
  <1>1. walletSalt[r] = salt /\ salt \in Salts
    BY DEF CreateWallet, ApiGoto, SequentialInv, Handling
  <1>2. row \in Addresses /\ wallet' = Append(wallet, row)
    BY <1>1, SenderIsAddress DEF CreateWallet
  <1>3. row \notin Rows
    <2>1. \A i \in 1..Len(wallet) : i \in Salts /\ i # salt
      BY <1>1, SaltAssumption DEF Salts
    <2>2. \A i \in 1..Len(wallet) : wallet[i] # row
      BY <1>1, <2>1, AddressAssumption DEF SequentialInv, RowsAreSalts, GetSenderAddres
    <2>3. DOMAIN wallet = 1..Len(wallet)
      OBVIOUS
    <2> HIDE DEF row
    <2>4. QED
      BY <2>2, <2>3 DEF Rows
  <1> HIDE DEF row
  <1>4. Rows' = Rows \cup {row} /\ Len(wallet') = Len(wallet) + 1
    BY <1>2, AppendedRows DEF Rows
  <1>5. IsFiniteSet(Rows') /\ Cardinality(Rows') = Cardinality(Rows) + 1
    BY <1>3, <1>4, FS_AddElement DEF CountInv
  <1>6. QED
    BY <1>4, <1>5 DEF CountInv

LEMMA CountInvStep ==
    ASSUME ApiInv, SequentialInv, CountInv, [Next]_vars
    PROVE  CountInv'
  <1>1. CASE UNCHANGED wallet
    BY <1>1 DEF CountInv, Rows
  <1>2. QED
    BY <1>1, TableIsAppended, CreateWalletCounts

\* CountInv: without overlap, no account is in the table twice.
THEOREM CountInvariant ==
    ASSUME Sequential
    PROVE  Spec => []CountInv
<1>1. Init => CountInv
  BY FS_EmptySet DEF Init, CountInv, Rows
<1>2. QED
  BY <1>1, CountInvStep, ApiInvariant, SequentialInvariant, PTL DEF Spec

RegistryInv == ApiInv /\ SequentialInv /\ SubmitInv /\ OrphanInv /\ CountInv

\* What has been submitted for is what is registered, or one account more.
ProvisionedBounded ==
    /\ IsFiniteSet(Senders) /\ Provisioned = Cardinality(Senders)
    /\ Len(wallet) \in Nat
    /\ Provisioned \in {Len(wallet), Len(wallet) + 1}

\* There are as many as rows, or one more.
LEMMA ProvisionedBounds ==
    ASSUME RegistryInv
    PROVE  ProvisionedBounded
  <1> DEFINE next == GetSenderAddres(Len(wallet) + 1)
  <1>1. Rows \subseteq Senders /\ Senders \subseteq Rows \cup {next}
    BY DEF RegistryInv, SubmitInv, OrphanInv, ProvidedIn, Known
  <1>2. IsFiniteSet(Rows) /\ Cardinality(Rows) = Len(wallet)
    BY DEF RegistryInv, CountInv
  <1>3. Len(wallet) \in Nat
    BY DEF RegistryInv, ApiInv, RowsInv
  <1> HIDE DEF next
  <1>4. /\ IsFiniteSet(Rows \cup {next})
        /\ Cardinality(Rows \cup {next}) <= Len(wallet) + 1
    <2>1. /\ IsFiniteSet(Rows \cup {next})
          /\ Cardinality(Rows \cup {next}) =
                IF next \in Rows THEN Cardinality(Rows) ELSE Cardinality(Rows) + 1
      BY <1>2, FS_AddElement
    <2>2. QED
      BY <1>2, <1>3, <2>1
  <1>5. IsFiniteSet(Senders) /\ Cardinality(Senders) \in Nat
    BY <1>1, <1>4, FS_Subset, FS_CardinalityType
  <1>6. Len(wallet) <= Cardinality(Senders)
    BY <1>1, <1>2, <1>5, FS_Subset
  <1>7. Cardinality(Senders) <= Len(wallet) + 1
    <2>1. Cardinality(Senders) <= Cardinality(Rows \cup {next})
      BY <1>1, <1>4, FS_Subset
    <2>2. Cardinality(Rows \cup {next}) \in Nat
      BY <1>4, FS_CardinalityType
    <2>3. QED
      BY <1>3, <1>4, <1>5, <2>1, <2>2
  <1>8. Provisioned = Cardinality(Senders)
    BY DEF Provisioned, Senders
  <1>9. QED
    BY <1>3, <1>5, <1>6, <1>7, <1>8 DEF ProvisionedBounded

\* Every step provisions one account, registers one, or does neither.
LEMMA StepRegisters ==
    ASSUME RegistryInv, ProvisionedBounded, ProvisionedBounded', [Next]_vars
    PROVE  [Registry!Provision \/ Registry!Register]_(Registry!registryVars)
  <1> USE DEF Registry!Provision, Registry!Register, Registry!registryVars
  <1>1. /\ Len(wallet) \in Nat /\ Provisioned \in {Len(wallet), Len(wallet) + 1}
        /\ IsFiniteSet(Senders) /\ Provisioned = Cardinality(Senders)
    BY DEF ProvisionedBounded
  <1>2. /\ Len(wallet') \in Nat /\ Provisioned' \in {Len(wallet'), Len(wallet') + 1}
        /\ IsFiniteSet(Senders') /\ Provisioned' = Cardinality(Senders')
    BY DEF ProvisionedBounded
  <1>3. CASE UNCHANGED wallet
    <2>1. Senders \subseteq Senders'
      BY SubmittedGrows DEF RegistryInv, Senders
    <2>2. Provisioned <= Provisioned'
      BY <1>1, <1>2, <2>1, FS_Subset
    <2>3. QED
      BY <1>1, <1>2, <1>3, <2>2
  <1>4. ASSUME NEW r \in Requests, CreateWallet(r)
        PROVE  Registry!Register
    <2>1. Len(wallet') = Len(wallet) + 1
      BY <1>4, CreateWalletCounts DEF RegistryInv
    <2>2. Provisioned' = Provisioned
      BY <1>4 DEF CreateWallet, sendVars, chainVars, Provisioned
    <2>3. QED
      BY <1>1, <1>2, <2>1, <2>2
  <1>5. QED
    BY <1>3, <1>4, TableIsAppended

\* ImplementsRegistry: as long as requests do not overlap, POST /wallet does what
\* WalletRegistry promises, for any number of requests and salts.
THEOREM ApiImplementsRegistry ==
    ASSUME Sequential
    PROVE  Spec => ImplementsRegistry
<1>1. Init => Registry!RegistryInit
  BY FS_EmptySet DEF Init, SendInit, ChainInit, Registry!RegistryInit, Provisioned
<1>2. Spec => []RegistryInv
  BY ApiInvariant, SequentialInvariant, SubmitInvariant, OrphanInvariant,
     CountInvariant, PTL DEF RegistryInv
<1>3. Spec => []ProvisionedBounded
  BY <1>2, ProvisionedBounds, PTL
<1>4. QED
  BY <1>1, <1>2, <1>3, StepRegisters, PTL
     DEF Spec, ImplementsRegistry, Registry!RegistrySpec

------------------------------------------------------------------------------
\* What is proved of the mints, of the operations and of the mempool holds of the
\* service: no mint exceeds a hundredth of "1 ether", the owner's nonces have no gap,
\* waiting calls are accounted for, operations verify and are funded, and no account
\* has two of them pooled.
COROLLARY ServiceInvariants ==
    Spec => [](GrantBounded /\ NoncesContiguous /\ WaiterAccountedFor
                 /\ MempoolCurrent /\ AtMostOneLiveOp
                 /\ CreationFunded /\ SubmittedVerifies)
  BY ApiImplementsSend, SendImplementsMint, GrantIsBounded, NoncesAreContiguous,
     WaitersAreAccountedFor, MempoolIsCurrent, AtMostOneOpIsLive,
     CreationIsFunded, SubmittedOpsVerify, PTL

\* ImplementsLife: each account lives as AccountLife says, whichever handlers of the
\* service its operations come from.
COROLLARY ServiceImplementsLife == Spec => ImplementsLife
  BY ApiImplementsSend, SendImplementsLife, PTL
==============================================================================
