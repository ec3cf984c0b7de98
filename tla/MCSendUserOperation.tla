------------------------ MODULE MCSendUserOperation ------------------------
(***************************************************************************)
(* Instances of SendUserOperation for TLC.                                 *)
(***************************************************************************)
EXTENDS SendUserOperation, TLC

CONSTANTS a1, a2

OneWallet == <<a1>>
TwoWallets == <<a1, a2>>

Estimate(pre, call, verification) ==
    [preVerificationGas |-> pre, callGasLimit |-> call,
     verificationGasLimit |-> verification]

OneEstimate == {Estimate(50001, 30000, 70000)}

\* The others are what remains of an answer without any of the members, and one
\* that leaves the range of int64 when it is marked up.
SomeEstimates ==
    OneEstimate \cup {Estimate(0, 0, 0), Estimate(50001, 95000, 70000)}

RequestSymmetry == Permutations(Requests)
=============================================================================
