-------------------------- MODULE MCContractEvents --------------------------
(***************************************************************************)
(* Subscriptions for TLC: to a bound event, with a criterion or none for   *)
(* each rule, on chains of up to two emissions that differ in every        *)
(* indexed argument.                                                       *)
(***************************************************************************)
EXTENDS ContractEvents

Words == {"a", "b"}

\* An argument that is not indexed has its name for a value.
EmissionArgs(e) ==
    LET rules == {e.rules[i] : i \in DOMAIN e.rules}
    IN  {[m \in e.members |-> IF m \in rules THEN f[m] ELSE m] :
            f \in [rules -> Words]}

Emission(address, name, args, shape) ==
    [address |-> address, name |-> name, args |-> args, shape |-> shape]

\* An event of the contract, of another contract, another event, a foreign shape.
Emissions(e) ==
    {Emission("bound", e.name, args, "declared") : args \in EmissionArgs(e)}
    \cup {Emission(x[1], x[2], [m \in e.members |-> "a"], x[3]) :
            x \in {<<"other", e.name, "declared">>,
                   <<"bound", "Unrelated", "declared">>}
                  \cup IF ArgumentsOf(e).plain = <<>> THEN {}
                       ELSE {<<"bound", e.name, "allIndexed">>}}

Chains(e) == UNION {[1..n -> Emissions(e)] : n \in 0..2}

Criteria(e) == [{e.rules[i] : i \in DOMAIN e.rules} -> {{}, {"a"}}]

SubscriptionsTo(e) ==
    {[event |-> e, criteria |-> c, chain |-> chain] :
        c \in Criteria(e), chain \in Chains(e)}
==============================================================================
