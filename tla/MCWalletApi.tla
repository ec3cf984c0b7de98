----------------------------- MODULE MCWalletApi -----------------------------
(***************************************************************************)
(* Instances of WalletApi for TLC.                                         *)
(***************************************************************************)
EXTENDS WalletApi, TLC

CONSTANTS a1, a2, a3

TwoWallets == <<a1, a2>>
ThreeWallets == <<a1, a2, a3>>

OneEstimate ==
    {[preVerificationGas |-> 50001, callGasLimit |-> 30000,
      verificationGasLimit |-> 70000]}

RequestSymmetry == Permutations(Requests)
==============================================================================
