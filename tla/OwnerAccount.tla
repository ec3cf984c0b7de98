---------------------------- MODULE OwnerAccount ----------------------------
(***************************************************************************)
(* The Ethereum account of the service's owner key, as the RPC node shows  *)
(* it to contracts.go.  External: the node is not part of the repository,  *)
(* and only what contracts.go relies on is modelled, namely the account's  *)
(* nonce, the transactions the node holds for it, and the mined ones.      *)
(***************************************************************************)
EXTENDS Integers

VARIABLES
    ownerNonce,     \* nonce of the next transaction the chain will mine
    pendingNonce,   \* what PendingNonceAt answers
    txPool,         \* transactions accepted by the node and not mined yet
    mined           \* transactions that have a receipt

ownerVars == <<ownerNonce, pendingNonce, txPool, mined>>

OwnerInit ==
    /\ ownerNonce = 0
    /\ pendingNonce = 0
    /\ txPool = {}
    /\ mined = {}

(***************************************************************************)
(* eth_sendRawTransaction.  A nonce below the account's is refused.  A     *)
(* transaction whose nonce is already in the pool replaces the pooled one  *)
(* (when its gas price is enough higher; when it is not, the node refuses, *)
(* which the caller's error outcomes cover).                               *)
(***************************************************************************)
AcceptTx(tx) ==
    /\ tx.nonce >= ownerNonce
    /\ txPool' = {t \in txPool : t.nonce # tx.nonce} \cup {tx}
    /\ pendingNonce' = IF tx.nonce = pendingNonce THEN pendingNonce + 1
                                                  ELSE pendingNonce
    /\ UNCHANGED <<ownerNonce, mined>>

\* A block includes the pooled transaction that carries the next nonce.
MineTx ==
    \E tx \in txPool :
        /\ tx.nonce = ownerNonce
        /\ ownerNonce' = ownerNonce + 1
        /\ txPool' = txPool \ {tx}
        /\ mined' = mined \cup {tx}
        /\ UNCHANGED pendingNonce

Accepted == txPool \cup mined
=============================================================================
