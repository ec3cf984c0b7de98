--------------------------- MODULE OperationStatus ---------------------------
(***************************************************************************)
(* GET /wallet/tx/:hash/status: what clients are told about the operations *)
(* they submitted (usecase.go:164-172, bundler.go:83-95).                  *)
(***************************************************************************)
EXTENDS SendUserOperation

VARIABLE answers   \* history of the statuses answered

statusVars == <<sendVars, answers>>

StatusInit ==
    /\ SendInit
    /\ answers = {}

\* Fault: the receipt of any operation of the account with that nonce.
GetUserOperationReceiptByNonce(p) ==
    LET found == {x \in receipts : /\ x.op.sender = p.sender
                                   /\ x.op.nonce = p.nonce}
    IN  [op |-> p, success |-> \E x \in found : x.success]

\* The null that stands for an operation without a receipt leaves the result, a
\* UserOperationReceipt, at its zero value, and is no error.
GetUserOperationReceipt(p) ==
    LET found == {x \in receipts : x.op = p}
    IN  IF found = {} THEN [op |-> p, success |-> FALSE]
                      ELSE CHOOSE x \in found : TRUE

GetUserOperationStatus(p) ==
    /\ answers' = answers \cup {GetUserOperationReceipt(p)}
    /\ UNCHANGED sendVars

StatusNext ==
    \/ \E p \in submitted : GetUserOperationStatus(p)
    \/ SendNext /\ UNCHANGED answers

StatusSpec == StatusInit /\ [][StatusNext]_statusVars

------------------------------------------------------------------------------
\* An operation reported as a success has been executed: its account exists, its
\* nonce is used up, and no other operation submitted with that nonce is, or is ever
\* going to be, reported so.  An operation replaced in the mempool, evicted or
\* reverted never is, although its hash was answered with 200.
TrueMeansExecuted ==
    \A x \in answers :
        x.success => /\ x.op.sender \in code
                     /\ entryNonce[x.op.sender] > x.op.nonce
                     /\ x.op \notin mempool
                     /\ \A p \in submitted :
                          /\ p.sender = x.op.sender
                          /\ p.nonce = x.op.nonce
                          /\ GetUserOperationReceipt(p).success
                          => p = x.op

\* "only return success/failed" (usecase.go:164): an answer that is not a success
\* says that the operation has failed.
FalseMeansFailed ==
    \A x \in answers : ~x.success => x \in receipts
==============================================================================
