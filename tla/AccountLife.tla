----------------------------- MODULE AccountLife -----------------------------
(***************************************************************************)
(* What the service promises of an account on chain, whichever requests    *)
(* are made for it and however they overlap: it is paid for before an      *)
(* operation that creates it is submitted; its first operation creates it, *)
(* and no later one does; it has at most one operation under way, which    *)
(* always takes the next place among those executed.  An operation may be  *)
(* replaced by a later one or dropped, but is never executed out of order. *)
(***************************************************************************)
EXTENDS Naturals, Sequences

CONSTANTS
    Accounts,
    Creates(_)   \* whether an operation asks for the creation of its account

VARIABLES
    funded,     \* accounts for which a grant has arrived
    live,       \* for each account the operations under way
    executed    \* for each account the operations executed, in order

lifeVars == <<funded, live, executed>>

LifeInit ==
    /\ funded = {}
    /\ live = [a \in Accounts |-> {}]
    /\ executed = [a \in Accounts |-> <<>>]

Fund(a) ==
    /\ funded' = funded \cup {a}
    /\ UNCHANGED <<live, executed>>

Submit(a) ==
    /\ \E p \in live'[a] :
          /\ live' = [live EXCEPT ![a] = {p}]
          /\ p.nonce = Len(executed[a])
          /\ executed[a] = <<>> => Creates(p)
          /\ Creates(p) => a \in funded
    /\ UNCHANGED <<funded, executed>>

Execute(a) ==
    /\ \E p \in live[a] :
          /\ Creates(p) <=> executed[a] = <<>>
          /\ executed' = [executed EXCEPT ![a] = Append(@, p)]
    /\ live' = [live EXCEPT ![a] = {}]
    /\ UNCHANGED funded

Drop(a) ==
    /\ live' = [live EXCEPT ![a] = {}]
    /\ UNCHANGED <<funded, executed>>

LifeNext == \E a \in Accounts : Fund(a) \/ Submit(a) \/ Execute(a) \/ Drop(a)

LifeSpec == LifeInit /\ [][LifeNext]_lifeVars
==============================================================================
