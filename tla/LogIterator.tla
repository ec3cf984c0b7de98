----------------------------- MODULE LogIterator -----------------------------
(***************************************************************************)
(* FilterX and the iterator it returns (entrypoint.go:1903-2004 for        *)
(* UserOperationEvent; the seventeen events' iterators differ only in the  *)
(* event).  FilterX has the node search the chain.  A goroutine of         *)
(* go-ethereum then pushes what was found into a channel and closes the    *)
(* subscription's error channel, while the caller draws events with Next   *)
(* and may call Close at any time.                                         *)
(*                                                                         *)
(* Next selects between the two channels.  When both are ready Go chooses  *)
(* either, so the end may be seen before the last logs are.                *)
(***************************************************************************)
EXTENDS ContractEvents

CONSTANTS
    Subscriptions,   \* the filters asked for: event, criteria, and the chain
    Capacity         \* of the channel of logs (128)

ASSUME CapacityAssumption == Capacity \in Nat
ASSUME CallAssumption == \A s \in Subscriptions : WellFormed(s)

VARIABLES
    subscription,   \* the call of FilterX
    found,          \* buff: the logs the node answered
    sent,           \* how many of them the producer has pushed
    logs,           \* it.logs
    quit,           \* the subscription's unsub channel is closed
    errClosed,      \* it.sub.Err() is closed: the producer has returned
    itPc,           \* where Next is; "user" outside
    done, fail,     \* it.done, it.fail
    events,         \* history: the values of it.Event for which Next was true
    ended,          \* history: Next has returned false
    closePc         \* where Close is

producerVars == <<subscription, found, sent, errClosed>>
iteratorVars == <<itPc, done, fail, events, ended>>
vars == <<producerVars, logs, quit, closePc, iteratorVars>>

------------------------------------------------------------------------------
Init ==
    /\ subscription \in Subscriptions
    /\ found = FilterLogs(subscription)
    /\ sent = 0
    /\ logs = <<>>
    /\ quit = FALSE
    /\ errClosed = FALSE
    /\ itPc = "user"
    /\ done = FALSE
    /\ fail = FALSE
    /\ events = <<>>
    /\ ended = FALSE
    /\ closePc = "open"

\* The producer of bind.FilterLogs: logs <- log, or it returns nil when all is
\* pushed or quit is closed; event.NewSubscription then closes the error channel.
PushLog ==
    /\ ~errClosed
    /\ sent < Len(found)
    /\ Len(logs) < Capacity
    /\ logs' = Append(logs, found[sent + 1])
    /\ sent' = sent + 1
    /\ UNCHANGED <<subscription, found, errClosed, quit, closePc, iteratorVars>>

ProducerReturns ==
    /\ ~errClosed
    /\ sent = Len(found) \/ quit
    /\ errClosed' = TRUE
    /\ UNCHANGED <<subscription, found, sent, logs, quit, closePc, iteratorVars>>

------------------------------------------------------------------------------
ItGoto(from, to) ==
    /\ itPc = from
    /\ itPc' = to

CallNext ==
    /\ ItGoto("user", CASE fail -> "false"
                        [] ~fail /\ done -> "drain"
                        [] OTHER -> "select")
    /\ UNCHANGED <<producerVars, logs, quit, closePc, done, fail, events, ended>>

\* Fault: a log that does not unpack is passed over.
ReceiveLogSkipping ==
    /\ itPc \in {"select", "drain"}
    /\ logs # <<>>
    /\ logs' = Tail(logs)
    /\ IF Unpacks(subscription.event, Head(logs))
       THEN /\ itPc' = "user"
            /\ events' = Append(events, Unpacked(subscription.event, Head(logs)))
       ELSE UNCHANGED <<itPc, events>>
    /\ UNCHANGED <<producerVars, quit, closePc, done, fail, ended>>

\* Fault: the event is the log as it came.
ReceiveLogRaw ==
    /\ itPc \in {"select", "drain"}
    /\ logs # <<>>
    /\ logs' = Tail(logs)
    /\ itPc' = "user"
    /\ events' = Append(events, Head(logs))
    /\ UNCHANGED <<producerVars, quit, closePc, done, fail, ended>>

\* log := <-it.logs, in either select, is unpacked, or fails the iterator.
ReceiveLog ==
    /\ itPc \in {"select", "drain"}
    /\ logs # <<>>
    /\ logs' = Tail(logs)
    /\ IF Unpacks(subscription.event, Head(logs))
       THEN /\ itPc' = "user"
            /\ events' = Append(events, Unpacked(subscription.event, Head(logs)))
            /\ UNCHANGED fail
       ELSE /\ itPc' = "false"
            /\ fail' = TRUE
            /\ UNCHANGED events
    /\ UNCHANGED <<producerVars, quit, closePc, done, ended>>

\* Fault: the end of the subscription is taken for the end of the logs.
ReceiveErrNoDrain ==
    /\ ItGoto("select", "false")
    /\ errClosed
    /\ done' = TRUE
    /\ UNCHANGED <<producerVars, logs, quit, closePc, fail, events, ended>>

\* Fault: the error channel is not listened to.
ReceiveErrNever ==
    /\ ItGoto("select", "drain")
    /\ errClosed /\ fail
    /\ done' = TRUE
    /\ UNCHANGED <<producerVars, logs, quit, closePc, fail, events, ended>>

\* err := <-it.sub.Err() of the closed channel is nil: it.done, and Next again.
ReceiveErr ==
    /\ ItGoto("select", "drain")
    /\ errClosed
    /\ done' = TRUE
    /\ UNCHANGED <<producerVars, logs, quit, closePc, fail, events, ended>>

\* The default of the select once the iterator is done.
NothingLeft ==
    /\ ItGoto("drain", "false")
    /\ logs = <<>>
    /\ UNCHANGED <<producerVars, logs, quit, closePc, done, fail, events, ended>>

ReturnFalse ==
    /\ ItGoto("false", "user")
    /\ ended' = TRUE
    /\ UNCHANGED <<producerVars, logs, quit, closePc, done, fail, events>>

\* Fault: the producer is not told.
CloseForgets ==
    /\ closePc = "open"
    /\ closePc' = "closed"
    /\ UNCHANGED <<producerVars, logs, quit, iteratorVars>>

\* Close unsubscribes: it closes quit, unless the producer has returned already, ...
Close ==
    /\ closePc = "open"
    /\ closePc' = IF errClosed THEN "closed" ELSE "waiting"
    /\ quit' = ~errClosed
    /\ UNCHANGED <<producerVars, logs, iteratorVars>>

\* ... and waits for the producer.
CloseReturns ==
    /\ closePc = "waiting"
    /\ errClosed
    /\ closePc' = "closed"
    /\ UNCHANGED <<producerVars, logs, quit, iteratorVars>>

InNext == ReceiveLog \/ ReceiveErr \/ NothingLeft \/ ReturnFalse

Next ==
    \/ PushLog
    \/ ProducerReturns
    \/ CallNext
    \/ InNext
    \/ Close
    \/ CloseReturns

Spec == Init /\ [][Next]_vars

\* Goroutines are scheduled.  The caller need not call anything.
FairSpec ==
    /\ Spec
    /\ WF_vars(InNext)
    /\ WF_vars(PushLog \/ ProducerReturns)
    /\ WF_vars(CloseReturns)

------------------------------------------------------------------------------
ItPcs == {"user", "select", "drain", "false"}

IteratorTypeOK ==
    /\ sent \in 0..Len(found)
    /\ Len(logs) <= Capacity
    /\ quit \in BOOLEAN /\ errClosed \in BOOLEAN
    /\ itPc \in ItPcs
    /\ done \in BOOLEAN /\ fail \in BOOLEAN /\ ended \in BOOLEAN
    /\ \A i \in DOMAIN events : DOMAIN events[i] = subscription.event.members
    /\ closePc \in {"open", "waiting", "closed"}

\* A caller that asked for events by the values of named parameters gets exactly
\* the bound contract's events of that name whose arguments have those values, with
\* their arguments under their names, in the order of the chain: the rules that
\* FilterX passes by position, the ABI's order and the struct's names agree.  At
\* an event of a foreign shape the iteration stops.
SelectedByArguments ==
    /\ AreWanted(subscription, events)
    /\ fail => IsForeign(subscription, Len(events) + 1)

\* Next may see the end of the subscription while logs are still in the channel.
\* Still, when it has returned false, and there is no error and Close was not
\* called, every log that the node found has been delivered.
FalseIsComplete ==
    ended /\ ~fail /\ closePc = "open" => Len(events) = Len(found)

\* The iterator is a finite stream of the logs found, unpacked.
Stream == INSTANCE LogStream WITH
    Finite <- TRUE,
    available <- [i \in 1..Len(found) |-> Unpacked(subscription.event, found[i])],
    delivered <- events,
    abandoned <- fail \/ closePc # "open",
    ended <- ended

ImplementsStream == Stream!StreamSpec

\* Next returns, as the producer pushes a log or returns.
NextReturns == itPc # "user" ~> itPc = "user"

\* Close releases the producer, even one that is blocked on a full channel that
\* nobody draws from any more.
ProducerReleased == closePc # "open" ~> errClosed
==============================================================================
