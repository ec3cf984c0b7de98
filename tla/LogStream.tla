------------------------------ MODULE LogStream ------------------------------
(***************************************************************************)
(* What a consumer of a contract's events is promised, whether it iterates *)
(* over past logs or subscribes to new ones: events arrive in the order of *)
(* the chain, none is skipped or repeated, nothing arrives after the end,  *)
(* and the end is never mistaken for completeness: unless the stream was   *)
(* abandoned (closed, failed, disconnected), it ends only when a finite    *)
(* stream has been delivered completely.                                   *)
(***************************************************************************)
EXTENDS Naturals, Sequences

CONSTANT Finite   \* TRUE: the stream is known from the start

VARIABLES
    available,   \* the events found so far
    delivered,   \* the events the consumer was given
    abandoned,   \* the consumer or the producer gave up
    ended        \* the consumer was told that there are no more

streamVars == <<available, delivered, abandoned, ended>>

StreamInit ==
    /\ delivered = <<>>
    /\ ended = FALSE

Arrive ==
    /\ ~Finite
    /\ Len(available') = Len(available) + 1
    /\ \A i \in DOMAIN available : available'[i] = available[i]
    /\ UNCHANGED <<delivered, abandoned, ended>>

Deliver ==
    /\ ~ended
    /\ Len(delivered) < Len(available)
    /\ delivered' = Append(delivered, available[Len(delivered) + 1])
    /\ UNCHANGED <<available, abandoned, ended>>

Abandon ==
    /\ abandoned' = TRUE
    /\ UNCHANGED <<available, delivered, ended>>

End ==
    /\ abandoned \/ (Finite /\ Len(delivered) = Len(available))
    /\ ended' = TRUE
    /\ UNCHANGED <<available, delivered, abandoned>>

StreamNext == Arrive \/ Deliver \/ Abandon \/ End

StreamSpec == StreamInit /\ [][StreamNext]_streamVars
==============================================================================
