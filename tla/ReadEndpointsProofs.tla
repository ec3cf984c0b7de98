------------------------- MODULE ReadEndpointsProofs -------------------------
(***************************************************************************)
(* Proofs about ReadEndpoints, for any number of readers beside any number *)
(* of requests that write: what the reads answer is true.                  *)
(***************************************************************************)
EXTENDS ReadEndpoints, WalletApiProofs

------------------------------------------------------------------------------
(***************************************************************************)
(* Reads change nothing that the rest of the service sees, so that all     *)
(* that is proved of Spec holds among them.                                *)
(***************************************************************************)
LEMMA ReadStepLeaves ==
    ASSUME NEW g \in Readers, ReadStep(g)
    PROVE  UNCHANGED vars
  BY DEF ReadStep, GetAllWallet, NextRow, NoNextRow, RowsBreak, GetWallet,
     GetETHBalance, GetERC20Balance, WriteERC20Balance, GetStatus, ReadFails,
     ReadGoto, GetUserOperationStatus, vars

\* Spec: the service among its readers is the service of WalletApi.
THEOREM ReadsImplementService == ReadsSpec => Spec
<1>1. ReadsInit => Init
  BY DEF ReadsInit
<1>2. [ReadsNext]_readsVars => [Next]_vars
  BY ReadStepLeaves DEF ReadsNext, ServiceStep, readsVars
<1>3. QED
  BY <1>1, <1>2, PTL DEF ReadsSpec, Spec

------------------------------------------------------------------------------
\* An answer that is a success is a receipt.
AnswerInv == \A x \in answers : x.success => x \in receipts

\* A receipt that is a success is one of the bundler's, of the operation asked for.
LEMMA SuccessIsReceipt ==
    ASSUME NEW p, GetUserOperationReceipt(p).success
    PROVE  /\ GetUserOperationReceipt(p) \in receipts
           /\ GetUserOperationReceipt(p).op = p
  <1> DEFINE found == {x \in receipts : x.op = p}
  <1>1. found # {}
    BY DEF GetUserOperationReceipt
  <1>2. GetUserOperationReceipt(p) \in found
    BY <1>1 DEF GetUserOperationReceipt
  <1>3. QED
    BY <1>2

LEMMA AnswerInvStep ==
    ASSUME AnswerInv, [ReadsNext]_readsVars, receipts \subseteq receipts'
    PROVE  AnswerInv'
  <1>1. CASE UNCHANGED answers
    BY <1>1 DEF AnswerInv
  <1>2. ASSUME NEW p, GetUserOperationStatus(p)
        PROVE  AnswerInv'
    BY <1>2, SuccessIsReceipt DEF AnswerInv, GetUserOperationStatus
  <1>3. QED
    BY <1>1, <1>2 DEF ReadsNext, ServiceStep, ReadStep, GetAllWallet, NextRow,
       NoNextRow, RowsBreak, GetWallet, GetETHBalance, GetERC20Balance,
       WriteERC20Balance, GetStatus, ReadFails, ListOnly, readsVars

\* TrueMeansExecuted: an operation reported as a success has been executed, and no
\* other one with its nonce is reported so, however often either was replaced.
THEOREM SuccessMeansExecuted == ReadsSpec => []TrueMeansExecuted
<1>1. ReadsSpec => SendSpec
  BY ReadsImplementService, ApiImplementsSend
<1>2. ReadsInit => AnswerInv
  BY DEF ReadsInit, AnswerInv
<1>3. ASSUME AnswerInv, ApiInv, ReceiptInv, [ReadsNext]_readsVars
      PROVE  AnswerInv'
  <2>1. [Next]_vars
    BY <1>3, ReadStepLeaves DEF ReadsNext, ServiceStep, readsVars
  <2>2. receipts \subseteq receipts'
    BY <1>3, <2>1, ApiStepSends, ReceiptInvStep DEF ApiInv
  <2>3. QED
    BY <1>3, <2>2, AnswerInvStep
<1>4. ReadsSpec => []AnswerInv
  BY <1>1, <1>2, <1>3, ReadsImplementService, ApiInvariant, ReceiptInvariant,
     PTL DEF ReadsSpec
<1>5. ASSUME AnswerInv, ReceiptInv, SendInv, MempoolInv
      PROVE  TrueMeansExecuted
  <2> SUFFICES ASSUME NEW x \in receipts
               PROVE  /\ x.op.sender \in code
                      /\ entryNonce[x.op.sender] > x.op.nonce
                      /\ x.op \notin mempool
                      /\ \A p \in submitted :
                           /\ p.sender = x.op.sender
                           /\ p.nonce = x.op.nonce
                           /\ GetUserOperationReceipt(p).success
                           => p = x.op
    BY <1>5 DEF AnswerInv, TrueMeansExecuted
  <2>1. /\ x.op.sender \in code
        /\ x.op.nonce < entryNonce[x.op.sender]
    BY <1>5 DEF ReceiptInv, SendInv, ChainTypeOK
  <2>2. x.op.nonce \in Nat /\ entryNonce[x.op.sender] \in Nat
    BY <1>5 DEF SendInv, ChainTypeOK
  <2>3. x.op \notin mempool
    BY <1>5, <2>1, <2>2 DEF MempoolInv, MempoolCurrent
  <2>4. ASSUME NEW p \in submitted, p.sender = x.op.sender, p.nonce = x.op.nonce,
               GetUserOperationReceipt(p).success
        PROVE  p = x.op
    BY <1>5, <2>4, SuccessIsReceipt DEF ReceiptInv
  <2>5. QED
    BY <2>1, <2>2, <2>3, <2>4
<1>6. QED
  BY <1>1, <1>4, <1>5, ReceiptInvariant, SendInvariant, MempoolInvariant, PTL

------------------------------------------------------------------------------
(***************************************************************************)
(* A reader's own state.  No step of one reader touches another's, and the *)
(* service touches none, except that a restart loses those in flight.      *)
(***************************************************************************)
Domains ==
    /\ DOMAIN readPc = Readers /\ DOMAIN asked = Readers
    /\ DOMAIN table = Readers /\ DOMAIN result = Readers
    /\ DOMAIN broke = Readers /\ DOMAIN balance = Readers
    /\ DOMAIN response = Readers

Same(h) ==
    /\ readPc'[h] = readPc[h] /\ asked'[h] = asked[h] /\ table'[h] = table[h]
    /\ result'[h] = result[h] /\ broke'[h] = broke[h]
    /\ balance'[h] = balance[h] /\ response'[h] = response[h]

\* A step of a reader leaves the other readers alone.
LEMMA ReadStepFrame ==
    ASSUME Domains, NEW g \in Readers, ReadStep(g)
    PROVE  Domains' /\ \A h \in Readers \ {g} : Same(h)
  <1> USE DEF Domains, Same, ReadGoto, Write, ListOnly
  <1>1. CASE GetAllWallet(g)
    BY <1>1 DEF GetAllWallet
  <1>2. CASE NextRow(g)
    BY <1>2 DEF NextRow
  <1>3. CASE NoNextRow(g)
    BY <1>3 DEF NoNextRow
  <1>4. CASE RowsBreak(g)
    BY <1>4 DEF RowsBreak
  <1>5. CASE GetWallet(g)
    BY <1>5 DEF GetWallet
  <1>6. CASE GetETHBalance(g)
    BY <1>6 DEF GetETHBalance
  <1>7. CASE GetERC20Balance(g)
    BY <1>7 DEF GetERC20Balance
  <1>8. CASE WriteERC20Balance(g)
    BY <1>8 DEF WriteERC20Balance
  <1>9. CASE GetStatus(g)
    BY <1>9 DEF GetStatus
  <1>10. CASE ReadFails(g)
    BY <1>10 DEF ReadFails
  <1>11. QED
    BY <1>1, <1>2, <1>3, <1>4, <1>5, <1>6, <1>7, <1>8, <1>9, <1>10 DEF ReadStep

\* A step of the service leaves readers alone, or kills them.
LEMMA ServiceStepFrame ==
    ASSUME Domains, ServiceStep
    PROVE  /\ Domains' /\ UNCHANGED localReadVars
           /\ \A g \in Readers : readPc'[g] \in {readPc[g], "lost"}
  <1>1. UNCHANGED localReadVars
    BY DEF ServiceStep
  <1>2. /\ DOMAIN readPc' = Readers
        /\ \A g \in Readers : readPc'[g] \in {readPc[g], "lost"}
    BY DEF ServiceStep, Domains
  <1>3. QED
    BY <1>1, <1>2 DEF Domains, localReadVars

------------------------------------------------------------------------------
(***************************************************************************)
(* The responses.  Nothing is written before the last step of a handler,   *)
(* but for the error of GetERC20Balance, whose status stays.               *)
(***************************************************************************)
Unwritten == {"idle", "rows", "ethBalance", "erc20Balance"}

Texts(g) == {response[g].body[i] : i \in DOMAIN response[g].body}

ResponseInv(g) ==
    /\ readPc[g] \in Unwritten => response[g] = NoResponse
    /\ readPc[g] = "string" =>
          \/ balance[g] = Nil /\ response[g].status = 400
          \/ balance[g] = "balance" /\ response[g] = NoResponse
    /\ response[g].status = 200 => Nil \notin Texts(g)

\* The first write takes effect as it is; a later one leaves the status.
LEMMA WriteOnce ==
    ASSUME Domains, NEW g \in Readers, NEW status, NEW text,
           Write(g, status, text)
    PROVE  /\ response[g] = NoResponse =>
                 response'[g].status = status /\ Texts(g)' = {text}
           /\ response[g].status = 400 => response'[g].status = 400
  <1>1. response'[g] =
          [status |-> IF response[g].status = 0 THEN status ELSE response[g].status,
           body |-> Append(response[g].body, text)]
    BY DEF Domains, Write
  <1>2. Append(<<>>, text) = <<text>> /\ DOMAIN <<text>> = {1}
    OBVIOUS
  <1>3. ASSUME response[g] = NoResponse
        PROVE  response'[g].status = status /\ Texts(g)' = {text}
    BY <1>1, <1>2, <1>3 DEF NoResponse, Texts
  <1>4. QED
    BY <1>1, <1>3

\* A reader's own steps keep ResponseInv.
LEMMA ReadStepResponse ==
    ASSUME Domains, NEW g \in Readers, ReadStep(g), ResponseInv(g)
    PROVE  ResponseInv(g)'
  <1> USE DEF Domains, ResponseInv, ReadGoto, Unwritten
  <1>0. NoResponse.status = 0
    BY DEF NoResponse
  <1>1. CASE GetAllWallet(g) \/ NextRow(g) \/ GetWallet(g)
    <2>1. /\ response' = response /\ readPc'[g] \in Unwritten
          /\ readPc[g] \in Unwritten
      BY <1>1 DEF GetAllWallet, NextRow, GetWallet
    <2>2. QED
      BY <1>0, <2>1
  <1>2. CASE NoNextRow(g) \/ RowsBreak(g) \/ ReadFails(g) \/ GetStatus(g)
    <2>1. PICK status, text : Write(g, status, text) /\ text # Nil
      BY <1>2 DEF NoNextRow, RowsBreak, ReadFails, GetStatus, Nil
    <2>2. response[g] = NoResponse /\ readPc'[g] = "answered"
      BY <1>2 DEF NoNextRow, RowsBreak, ReadFails, GetStatus
    <2>3. QED
      BY <2>1, <2>2, WriteOnce
  <1>3. CASE GetETHBalance(g)
    <2>1. PICK status, text : Write(g, status, text) /\ text # Nil
      BY <1>3 DEF GetETHBalance, Nil
    <2>2. response[g] = NoResponse /\ readPc'[g] = "answered"
      BY <1>3 DEF GetETHBalance
    <2>3. QED
      BY <2>1, <2>2, WriteOnce
  <1>4. CASE GetERC20Balance(g)
    <2>1. response[g] = NoResponse /\ readPc'[g] = "string"
      BY <1>4 DEF GetERC20Balance
    <2>2. PICK answer \in {"balance", Nil} :
             /\ balance'[g] = answer
             /\ IF answer = Nil THEN Write(g, 400, "error") ELSE UNCHANGED response
      BY <1>4 DEF GetERC20Balance
    <2>3. CASE answer = Nil
      BY <2>1, <2>2, <2>3, WriteOnce
    <2>4. CASE answer = "balance"
      <3>1. response' = response
        BY <2>2, <2>4 DEF Nil
      <3>2. QED
        BY <1>0, <2>1, <2>2, <2>4, <3>1
    <2>5. QED
      BY <2>2, <2>3, <2>4
  <1>5. CASE WriteERC20Balance(g)
    <2>1. Write(g, 200, balance[g]) /\ readPc'[g] = "answered" /\ readPc[g] = "string"
      BY <1>5 DEF WriteERC20Balance
    <2>2. CASE response[g].status = 400
      BY <2>1, <2>2, WriteOnce
    <2>3. CASE response[g] = NoResponse /\ balance[g] = "balance"
      BY <2>1, <2>3, WriteOnce DEF Nil
    <2>4. QED
      BY <2>1, <2>2, <2>3
  <1>6. QED
    BY <1>1, <1>2, <1>3, <1>4, <1>5 DEF ReadStep

\* BalanceIsReal: a balance answered with 200 is one the node answered.
THEOREM BalancesAreReal == ReadsSpec => []BalanceIsReal
<1> DEFINE Inv == Domains /\ \A g \in Readers : ResponseInv(g)
<1>1. ReadsInit => Inv
  BY DEF ReadsInit, Domains, ResponseInv, NoResponse, Unwritten
<1>2. Inv /\ [ReadsNext]_readsVars => Inv'
  <2> SUFFICES ASSUME Inv, [ReadsNext]_readsVars PROVE Inv'
    OBVIOUS
  <2>1. ASSUME NEW g \in Readers, ReadStep(g)
        PROVE  Inv'
    <3>1. Domains' /\ ResponseInv(g)'
      BY <2>1, ReadStepFrame, ReadStepResponse
    <3>2. \A h \in Readers \ {g} : ResponseInv(h)'
      BY <2>1, ReadStepFrame DEF Same, ResponseInv, Texts
    <3>3. QED
      BY <3>1, <3>2
  <2>2. CASE ServiceStep
    BY <2>2, ServiceStepFrame DEF localReadVars, ResponseInv, Texts, Unwritten
  <2>3. CASE UNCHANGED readsVars
    BY <2>3 DEF readsVars, localReadVars, Domains, ResponseInv, Texts
  <2>4. QED
    BY <2>1, <2>2, <2>3 DEF ReadsNext
<1>3. Inv => BalanceIsReal
  BY DEF ResponseInv, Texts, BalanceIsReal
<1>4. QED
  BY <1>1, <1>2, <1>3, PTL DEF ReadsSpec

------------------------------------------------------------------------------
(***************************************************************************)
(* The list.  A wallet whose creation was answered is in the table, and    *)
(* the table only grows: so what a reader takes, row by row, from the      *)
(* table of its query remains the first rows.                              *)
(***************************************************************************)
CreatedIsRow(r) ==
    apiPc[r] = "ok" /\ walletSalt[r] # NoSalt => GetSenderAddres(walletSalt[r]) \in Rows

\* A wallet is a row when its creation is answered, and rows stay.
LEMMA CreatedIsRowStep ==
    ASSUME ApiInv, [Next]_vars, \A r \in Requests : CreatedIsRow(r)
    PROVE  \A r \in Requests : CreatedIsRow(r)'
  <1> USE DEF ApiInv, SendInv, OpTypeOK, RowsInv, CreatedIsRow
  <1>0. Rows \subseteq Rows'
    BY RowsGrow
  <1>1. ASSUME UNCHANGED walletSalt,
               \A r \in Requests : apiPc'[r] = "ok" => apiPc[r] = "ok" \/ walletSalt[r] = NoSalt
        PROVE  \A r \in Requests : CreatedIsRow(r)'
    BY <1>0, <1>1 DEF GetSenderAddres
  <1>2. ASSUME NEW r \in Requests,
               PostWallet(r) \/ PostSend(r) \/ PostTransfer(r)
        PROVE  \A q \in Requests : CreatedIsRow(q)'
    <2>1. apiPc' = [apiPc EXCEPT ![r] = "sending"]
      BY <1>2 DEF PostWallet, PostSend, PostTransfer, Accept, ApiGoto
    <2>2. \A q \in Requests \ {r} : walletSalt'[q] = walletSalt[q]
      BY <1>2, HandlersCallOp, CallOpFrame
    <2>3. QED
      BY <1>0, <2>1, <2>2 DEF GetSenderAddres
  <1>3. ASSUME NEW r \in Requests, Reject(r) \/ SendReturned(r) \/ InsertFails(r)
        PROVE  \A q \in Requests : CreatedIsRow(q)'
    BY <1>1, <1>3 DEF Reject, SendReturned, InsertFails, ApiGoto, sendVars, opVars
  <1>4. ASSUME NEW r \in Requests, CreateWallet(r)
        PROVE  \A q \in Requests : CreatedIsRow(q)'
    <2>1. /\ UNCHANGED walletSalt
          /\ apiPc[r] = "inserting" /\ apiPc' = [apiPc EXCEPT ![r] = "ok"]
          /\ wallet' = Append(wallet, GetSenderAddres(walletSalt[r]))
      BY <1>4 DEF CreateWallet, ApiGoto, sendVars, opVars
    <2>2. GetSenderAddres(walletSalt[r]) \in Addresses
      BY <2>1, SenderIsAddress
    <2>3. GetSenderAddres(walletSalt[r]) \in Rows'
      BY <2>1, <2>2, AppendedRows DEF Rows
    <2>4. QED
      BY <1>0, <2>1, <2>3 DEF GetSenderAddres
  <1>5. ASSUME NEW r \in Requests, OpStep(r), UNCHANGED apiVars
        PROVE  \A q \in Requests : CreatedIsRow(q)'
    BY <1>1, <1>5, OpStepFrame DEF apiVars
  <1>6. ASSUME ChainStep, UNCHANGED apiVars
        PROVE  \A q \in Requests : CreatedIsRow(q)'
    BY <1>1, <1>6, ChainStepFrame DEF apiVars, opVars
  <1>7. CASE Restart
    BY <1>1, <1>7 DEF Restart, SendRestart
  <1>8. CASE UNCHANGED vars
    BY <1>1, <1>8 DEF vars, sendVars, opVars, apiVars
  <1>9. QED
    BY <1>2, <1>3, <1>4, <1>5, <1>6, <1>7, <1>8 DEF Next, HandlerStep

Taken(g) == {result[g][i] : i \in DOMAIN result[g]}

Queried(g) == {table[g][i] : i \in DOMAIN table[g]}

IsPrefix(s, t) ==
    /\ Len(s) <= Len(t)
    /\ \A i \in 1..Len(s) : s[i] = t[i]

ListInv(g) ==
    /\ table[g] \in Seq(Addresses) /\ IsPrefix(table[g], wallet)
    /\ result[g] \in Seq(Addresses) /\ IsPrefix(result[g], table[g])
    /\ readPc[g] = "idle" => result[g] = <<>>
    /\ asked[g] \subseteq Queried(g)
    /\ readPc[g] \in {"idle", "ethBalance", "erc20Balance", "string"} => asked[g] = {}
    /\ response[g].status = 200 /\ ~broke[g] => asked[g] \subseteq Taken(g)

\* A reader's own steps keep ListInv.
LEMMA ReadStepList ==
    ASSUME Domains, ApiInv, \A r \in Requests : CreatedIsRow(r),
           NEW g \in Readers, ReadStep(g), ResponseInv(g), ListInv(g)
    PROVE  ListInv(g)'
  <1> USE DEF Domains, ReadGoto
  <1>0. /\ wallet' = wallet /\ wallet \in Seq(Addresses)
        /\ NoResponse.status = 0
    BY ReadStepLeaves DEF vars, apiVars, ApiInv, RowsInv, NoResponse
  <1>1. CASE GetAllWallet(g)
    <2>1. /\ readPc[g] = "idle" /\ readPc'[g] = "rows"
          /\ table'[g] = wallet /\ result' = result /\ broke' = broke
          /\ response' = response
      BY <1>1 DEF GetAllWallet
    <2>2. asked'[g] \subseteq Rows
      BY <1>1 DEF GetAllWallet, CreatedIsRow
    <2>3. asked'[g] \subseteq Queried(g)'
      BY <2>1, <2>2 DEF Rows, Queried
    <2>4. result'[g] = <<>> /\ Len(<<>>) = 0 /\ <<>> \in Seq(Addresses)
      BY <2>1 DEF ListInv
    <2>5. response'[g].status = 0
      BY <1>0, <2>1 DEF ResponseInv, Unwritten
    <2>6. QED
      BY <1>0, <2>1, <2>3, <2>4, <2>5 DEF ListInv, IsPrefix
  <1>2. CASE NextRow(g)
    <2>1. /\ readPc[g] = "rows" /\ readPc'[g] = "rows"
          /\ Len(result[g]) < Len(table[g])
          /\ result'[g] = Append(result[g], table[g][Len(result[g]) + 1])
          /\ UNCHANGED <<asked, table, broke, response>>
      BY <1>2 DEF NextRow, ListOnly
    <2>2. table[g] \in Seq(Addresses) /\ result[g] \in Seq(Addresses)
      BY DEF ListInv
    <2>3. table[g][Len(result[g]) + 1] \in Addresses
      BY <2>1, <2>2
    <2>4. result'[g] \in Seq(Addresses) /\ IsPrefix(result'[g], table[g])
      BY <2>1, <2>2, <2>3 DEF ListInv, IsPrefix
    <2>5. response'[g].status = 0
      BY <1>0, <2>1 DEF ResponseInv, Unwritten
    <2>6. /\ table'[g] \in Seq(Addresses) /\ IsPrefix(table'[g], wallet')
          /\ asked'[g] \subseteq Queried(g)'
      BY <1>0, <2>1 DEF ListInv, Queried
    <2>7. QED
      BY <2>1, <2>4, <2>5, <2>6 DEF ListInv
  <1>3. CASE NoNextRow(g)
    <2>1. /\ readPc'[g] = "answered" /\ Len(result[g]) = Len(table[g])
          /\ UNCHANGED <<asked, table, result, broke>>
      BY <1>3 DEF NoNextRow, ListOnly
    <2>2. Queried(g) \subseteq Taken(g)
      <3>1. table[g] \in Seq(Addresses) /\ result[g] \in Seq(Addresses)
        BY DEF ListInv
      <3>2. DOMAIN table[g] = DOMAIN result[g]
        BY <2>1, <3>1
      <3>3. \A i \in DOMAIN result[g] : result[g][i] = table[g][i]
        BY <3>1 DEF ListInv, IsPrefix
      <3>4. QED
        BY <3>2, <3>3 DEF Queried, Taken
    <2>3. QED
      BY <1>0, <2>1, <2>2 DEF ListInv, IsPrefix, Queried, Taken
  <1>4. CASE RowsBreak(g)
    <2>1. /\ readPc'[g] = "answered" /\ broke'[g] = TRUE
          /\ UNCHANGED <<asked, table, result>>
      BY <1>4 DEF RowsBreak
    <2>2. QED
      BY <1>0, <2>1 DEF ListInv, IsPrefix, Queried
  <1>5. CASE GetWallet(g)
    <2>1. /\ readPc[g] = "idle" /\ readPc'[g] \in {"ethBalance", "erc20Balance"}
          /\ UNCHANGED <<asked, table, result>>
      BY <1>5 DEF GetWallet, ListOnly
    <2>2. QED
      BY <1>0, <2>1 DEF ListInv, IsPrefix, Queried, Taken
  <1>6. CASE ReadFails(g)
    <2>1. /\ readPc[g] \in {"idle", "rows"} /\ readPc'[g] = "answered"
          /\ UNCHANGED <<asked, table, result>>
      BY <1>6 DEF ReadFails, ListOnly
    <2>2. response'[g].status = 400
      BY <1>6, <2>1, WriteOnce DEF ReadFails, ResponseInv, Unwritten
    <2>3. /\ table'[g] \in Seq(Addresses) /\ IsPrefix(table[g], wallet)'
          /\ result'[g] \in Seq(Addresses) /\ IsPrefix(result[g], table[g])'
      BY <1>0, <2>1 DEF ListInv, IsPrefix
    <2>4. asked'[g] \subseteq Queried(g)'
      BY <2>1 DEF ListInv, Queried
    <2>5. QED
      BY <2>1, <2>2, <2>3, <2>4 DEF ListInv
  <1>7. CASE GetETHBalance(g) \/ GetERC20Balance(g) \/ WriteERC20Balance(g)
                \/ GetStatus(g)
    <2>1. /\ readPc[g] \in {"idle", "ethBalance", "erc20Balance", "string"}
          /\ readPc'[g] # "idle"
          /\ UNCHANGED <<asked, table, result>>
      BY <1>7 DEF GetETHBalance, GetERC20Balance, WriteERC20Balance, GetStatus,
         ListOnly
    <2>2. asked[g] = {}
      BY <2>1 DEF ListInv
    <2>3. QED
      BY <1>0, <2>1, <2>2 DEF ListInv, IsPrefix
  <1>8. QED
    BY <1>1, <1>2, <1>3, <1>4, <1>5, <1>6, <1>7 DEF ReadStep

\* What the service does keeps a list what it is.
LEMMA ListKept ==
    ASSUME NEW g \in Readers, ListInv(g),
           readPc'[g] \in {readPc[g], "lost"}, UNCHANGED localReadVars,
           wallet' \in Seq(Addresses), wallet \in Seq(Addresses),
           IsPrefix(wallet, wallet')
    PROVE  ListInv(g)'
  <1>1. IsPrefix(table[g], wallet')
    <2>1. table[g] \in Seq(Addresses) /\ IsPrefix(table[g], wallet)
      BY DEF ListInv
    <2>2. \A t \in Seq(Addresses) :
             IsPrefix(t, wallet) => IsPrefix(t, wallet')
      BY DEF IsPrefix
    <2>3. QED
      BY <2>1, <2>2
  <1>2. UNCHANGED <<asked[g], table[g], result[g], broke[g], response[g]>>
    BY DEF localReadVars
  <1>3. /\ asked'[g] \subseteq Queried(g)'
        /\ response'[g].status = 200 /\ ~broke'[g] => asked'[g] \subseteq Taken(g)'
    BY <1>2 DEF ListInv, Queried, Taken
  <1>4. /\ table'[g] \in Seq(Addresses) /\ IsPrefix(table[g], wallet)'
        /\ result'[g] \in Seq(Addresses) /\ IsPrefix(result[g], table[g])'
    BY <1>1, <1>2 DEF ListInv, IsPrefix
  <1>5. QED
    BY <1>2, <1>3, <1>4 DEF ListInv

\* ListReadsWrites: a list holds the first rows, and all that had been answered.
THEOREM ListsReadWrites == ReadsSpec => []ListReadsWrites
<1> DEFINE Inv == /\ Domains
                  /\ \A r \in Requests : CreatedIsRow(r)
                  /\ \A g \in Readers : ResponseInv(g) /\ ListInv(g)
<1>1. ReadsInit => Inv
  <2> SUFFICES ASSUME ReadsInit PROVE Inv
    OBVIOUS
  <2>1. Domains /\ \A g \in Readers : ResponseInv(g)
    BY DEF ReadsInit, Domains, ResponseInv, NoResponse, Unwritten
  <2>2. \A r \in Requests : CreatedIsRow(r)
    BY DEF ReadsInit, Init, CreatedIsRow
  <2>3. <<>> \in Seq(Addresses) /\ Len(<<>>) = 0 /\ wallet = <<>>
    BY DEF ReadsInit, Init
  <2>4. \A g \in Readers : ListInv(g)
    BY <2>3 DEF ReadsInit, ListInv, IsPrefix, NoResponse
  <2>5. QED
    BY <2>1, <2>2, <2>4
<1>2. ApiInv /\ Inv /\ [ReadsNext]_readsVars => Inv'
  <2> SUFFICES ASSUME ApiInv, Inv, [ReadsNext]_readsVars PROVE Inv'
    OBVIOUS
  <2>1. [Next]_vars
    BY ReadStepLeaves DEF ReadsNext, ServiceStep, readsVars
  <2>2. \A r \in Requests : CreatedIsRow(r)'
    BY <2>1, CreatedIsRowStep
  <2>3. /\ wallet \in Seq(Addresses) /\ wallet' \in Seq(Addresses)
        /\ IsPrefix(wallet, wallet')
    BY <2>1, TableGrows DEF IsPrefix, ApiInv, RowsInv
  <2>4. ASSUME NEW g \in Readers, ReadStep(g)
        PROVE  Domains' /\ \A h \in Readers : ResponseInv(h)' /\ ListInv(h)'
    <3>1. Domains' /\ ResponseInv(g)' /\ ListInv(g)'
      BY <2>4, ReadStepFrame, ReadStepResponse, ReadStepList
    <3>2. \A h \in Readers \ {g} : ResponseInv(h)'
      BY <2>4, ReadStepFrame DEF Same, ResponseInv, Texts
    <3>3. wallet' = wallet
      BY <2>4, ReadStepLeaves DEF vars, apiVars
    <3>4. \A h \in Readers \ {g} : ListInv(h)'
      BY <2>4, <3>3, ReadStepFrame DEF Same, ListInv, Queried, Taken
    <3>5. QED
      BY <3>1, <3>2, <3>4
  <2>5. CASE ServiceStep
    <3>1. \A g \in Readers : ListInv(g)'
      BY <2>3, <2>5, ServiceStepFrame, ListKept
    <3>2. Domains' /\ \A g \in Readers : ResponseInv(g)'
      BY <2>5, ServiceStepFrame DEF localReadVars, ResponseInv, Texts, Unwritten
    <3>3. QED
      BY <2>2, <3>1, <3>2
  <2>6. CASE UNCHANGED readsVars
    <3>1. \A g \in Readers : ListInv(g)'
      BY <2>3, <2>6, ListKept DEF readsVars
    <3>2. Domains' /\ \A g \in Readers : ResponseInv(g)'
      BY <2>6 DEF readsVars, localReadVars, Domains, ResponseInv, Texts
    <3>3. QED
      BY <2>2, <3>1, <3>2
  <2>7. QED
    BY <2>2, <2>4, <2>5, <2>6 DEF ReadsNext
<1>3. ApiInv /\ Inv => ListReadsWrites
  <2> SUFFICES ASSUME ApiInv, Inv, NEW g \in Readers
               PROVE  /\ Len(result[g]) <= Len(wallet)
                      /\ \A i \in DOMAIN result[g] : result[g][i] = wallet[i]
                      /\ response[g].status = 200 /\ ~broke[g] =>
                            asked[g] \subseteq {result[g][i] : i \in DOMAIN result[g]}
    BY DEF ListReadsWrites
  <2>1. wallet \in Seq(Addresses)
    BY DEF ApiInv, RowsInv
  <2>2. /\ table[g] \in Seq(Addresses) /\ IsPrefix(table[g], wallet)
        /\ result[g] \in Seq(Addresses) /\ IsPrefix(result[g], table[g])
        /\ response[g].status = 200 /\ ~broke[g] => asked[g] \subseteq Taken(g)
    BY DEF ListInv
  <2>3. Len(result[g]) <= Len(wallet)
    BY <2>1, <2>2 DEF IsPrefix
  <2>4. \A i \in DOMAIN result[g] : result[g][i] = wallet[i]
    BY <2>1, <2>2 DEF IsPrefix
  <2>5. QED
    BY <2>2, <2>3, <2>4 DEF Taken
<1>4. QED
  BY <1>1, <1>2, <1>3, ReadsImplementService, ApiInvariant, PTL DEF ReadsSpec
==============================================================================
