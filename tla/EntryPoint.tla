----------------------------- MODULE EntryPoint -----------------------------
(***************************************************************************)
(* The bundler and the EntryPoint contract behind it, as bundler.go and    *)
(* usecase.go use them.  External: which accounts have code, the nonces of *)
(* the accounts, the bundler's mempool and the receipts.                   *)
(***************************************************************************)
EXTENDS UserOperation

VARIABLES
    code,         \* accounts that have been created
    entryNonce,   \* EntryPoint.getNonce(sender, 0)
    mempool,      \* user operations accepted and not included yet
    submitted,    \* history: every user operation ever accepted
    receipts      \* receipts of the included operations

chainVars == <<code, entryNonce, mempool, submitted, receipts>>

ChainTypeOK ==
    /\ code \subseteq Addresses
    /\ entryNonce \in [Addresses -> Nat]
    /\ \A p \in submitted : p.sender \in Addresses /\ p.nonce \in Nat
    /\ mempool \subseteq submitted
    /\ \A x \in receipts : x.op \in submitted /\ x.success \in BOOLEAN

ChainInit ==
    /\ code = {}
    /\ entryNonce = [a \in Addresses |-> 0]
    /\ mempool = {}
    /\ submitted = {}
    /\ receipts = {}

ConfiguredContracts == {AccountFactory, PaymasterAddress}

\* eth_getCode
HasCode(a) == a \in code \cup ConfiguredContracts

\* eth_sendUserOperation.  A contract that is none of the accounts cannot validate an
\* operation, and is refused.  Of two operations of one sender with one nonce the
\* mempool keeps the later; that the bundler may refuse instead, or for any other
\* reason, is among the outcomes of the caller.
AcceptOp(p) ==
    /\ p.sender \notin ConfiguredContracts
    /\ p.nonce >= entryNonce[p.sender]
    /\ mempool' = {q \in mempool : <<q.sender, q.nonce>> # <<p.sender, p.nonce>>}
                  \cup {p}
    /\ submitted' = submitted \cup {p}
    /\ UNCHANGED <<code, entryNonce, receipts>>

(***************************************************************************)
(* handleOps includes an operation whose nonce is next, which creates the  *)
(* account exactly when it does not exist; its call then succeeds or       *)
(* reverts.  An initCode that names the zero address creates nothing; a    *)
(* bundler may also refuse it, which is an error of the caller or an       *)
(* eviction.                                                               *)
(***************************************************************************)
IncludeOp ==
    \E p \in mempool, success \in BOOLEAN :
        /\ p.nonce = entryNonce[p.sender]
        /\ CreatesAccount(p) <=> p.sender \notin code
        /\ code' = code \cup {p.sender}
        /\ entryNonce' = [entryNonce EXCEPT ![p.sender] = @ + 1]
        /\ mempool' = mempool \ {p}
        /\ receipts' = receipts \cup {[op |-> p, success |-> success]}
        /\ UNCHANGED submitted

\* The bundler evicts an operation it no longer wants to include.
EvictOp ==
    \E p \in mempool :
        /\ mempool' = mempool \ {p}
        /\ UNCHANGED <<code, entryNonce, submitted, receipts>>
=============================================================================
