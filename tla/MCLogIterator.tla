---------------------------- MODULE MCLogIterator ----------------------------
(***************************************************************************)
(* Instances of LogIterator for TLC: every bound event.                    *)
(***************************************************************************)
EXTENDS LogIterator, MCContractEvents

AllSubscriptions == UNION {SubscriptionsTo(e) : e \in BoundEvents}
==============================================================================
