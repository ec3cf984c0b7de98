-------------------------- MODULE MCOperationStatus --------------------------
(***************************************************************************)
(* Instances of OperationStatus for TLC.                                   *)
(***************************************************************************)
EXTENDS OperationStatus, TLC

CONSTANT a1

OneWallet == <<a1>>

OneEstimate ==
    {[preVerificationGas |-> 50001, callGasLimit |-> 30000,
      verificationGasLimit |-> 70000]}

RequestSymmetry == Permutations(Requests)
==============================================================================
