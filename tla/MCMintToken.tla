----------------------------- MODULE MCMintToken -----------------------------
(***************************************************************************)
(* Instances of MintToken for TLC: one wallet, which every call mints for. *)
(* Whom the tokens go to plays no part in how calls interfere.             *)
(***************************************************************************)
EXTENDS MintToken, TLC

CONSTANT a1

MCCreate2 == <<a1>>

RequestSymmetry == Permutations(Requests)
==============================================================================
