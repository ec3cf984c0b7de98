--------------------------- MODULE WalletRegistry ---------------------------
(***************************************************************************)
(* What POST /wallet promises, apart from how it is done: wallets are      *)
(* registered one salt after the other, each of them after an operation    *)
(* that creates it has been submitted, and at most one wallet at a time is *)
(* submitted and not registered yet.                                       *)
(***************************************************************************)
EXTENDS Integers

VARIABLES
    provisioned,   \* salts 1..provisioned have had an operation submitted
    registered     \* wallets 1..registered are in the table

registryVars == <<provisioned, registered>>

RegistryInit ==
    /\ provisioned = 0
    /\ registered = 0

Provision ==
    /\ provisioned = registered
    /\ provisioned' = provisioned + 1
    /\ UNCHANGED registered

Register ==
    /\ registered < provisioned
    /\ registered' = registered + 1
    /\ UNCHANGED provisioned

RegistrySpec == RegistryInit /\ [][Provision \/ Register]_registryVars
=============================================================================
