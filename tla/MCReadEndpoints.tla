--------------------------- MODULE MCReadEndpoints ---------------------------
(***************************************************************************)
(* Instances of ReadEndpoints for TLC.                                     *)
(***************************************************************************)
EXTENDS ReadEndpoints, TLC

CONSTANTS a1, a2

TwoWallets == <<a1, a2>>

OneEstimate ==
    {[preVerificationGas |-> 50001, callGasLimit |-> 30000,
      verificationGasLimit |-> 70000]}

RequestSymmetry == Permutations(Requests)
==============================================================================
