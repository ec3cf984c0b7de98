-------------------------- MODULE MCProcessWiring --------------------------
(***************************************************************************)
(* Instances of ProcessWiring for TLC.                                     *)
(***************************************************************************)
EXTENDS ProcessWiring, TLC

Complete ==
    [k \in ConfigKeys |->
        CASE k = "PRIVATE_KEY" -> "k1"
          [] k = "PAYMASTER_SIGNER_PRIVATE_KEY" -> "k2"
          [] k = "ENTRYPOINT_ADDRESS" -> "entryPoint"
          [] k = "ACCOUNT_FACTORY_ADDRESS" -> "factory"
          [] k = "PAYMASTER_ADDRESS" -> "paymaster"]

\* A file may miss any one of the keys, ...
SomeFiles == {Complete} \cup {[k \in ConfigKeys \ {m} |-> Complete[k]] : m \in ConfigKeys}

\* ... and the environment may hold another private key, a malformed one, or an address.
SomeEnvs ==
    {<<>>, "PRIVATE_KEY" :> "k3", "PRIVATE_KEY" :> "malformed",
     "ENTRYPOINT_ADDRESS" :> "entryPoint2"}

RequestSymmetry == Permutations(Requests)
============================================================================
