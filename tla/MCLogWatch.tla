----------------------------- MODULE MCLogWatch -----------------------------
(***************************************************************************)
(* Instances of LogWatch for TLC: an event without a parameter, one with   *)
(* an argument that is not indexed, and one without.                       *)
(***************************************************************************)
EXTENDS LogWatch, MCContractEvents

SomeSubscriptions ==
    UNION {SubscriptionsTo(e) :
             e \in {BeforeExecution, ERC20Transfer, OwnershipTransferred}}
==============================================================================
