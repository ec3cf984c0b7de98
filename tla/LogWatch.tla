------------------------------ MODULE LogWatch ------------------------------
(***************************************************************************)
(* WatchX (entrypoint.go:2006-2053 for UserOperationEvent; the seventeen   *)
(* events differ only in the event).  A goroutine takes logs from a node's *)
(* subscription, unpacks them and hands them to the caller's sink, which   *)
(* the caller may stop reading.  It ends when the caller unsubscribes,     *)
(* when the node's subscription does, or at a log that does not unpack.    *)
(***************************************************************************)
EXTENDS ContractEvents

CONSTANTS
    Subscriptions,   \* the calls of WatchX: event, criteria, and the chain to come
    Capacity         \* of the channel of logs (128)

ASSUME CapacityAssumption == Capacity \in Nat
ASSUME CallAssumption == \A s \in Subscriptions : WellFormed(s)

VARIABLES
    subscription,   \* the call of WatchX
    found,          \* the logs that the node will find
    pushed,         \* how many of them the node has pushed
    logs,           \* the channel from go-ethereum's client
    upstream,       \* the node's subscription: live, failed, closed by the client
    upReleased,     \* sub.Unsubscribe() has been called on it
    watchPc,        \* where the goroutine is
    held,           \* the event about to be handed over
    result,         \* what the goroutine returns: "nil" or "error"
    quit,           \* the caller's subscription is being ended by the caller
    told,           \* what the caller's Err() has: nothing, an error, or its end
    reading,        \* the caller receives from the sink
    events,         \* history: what was received
    unsubPc         \* where the caller's Unsubscribe is

nodeVars == <<subscription, found, pushed, upstream>>
watchVars == <<upReleased, watchPc, held, result, told>>
userVars == <<quit, reading, unsubPc>>
vars == <<nodeVars, logs, watchVars, userVars, events>>

Nothing == "nothing"

Init ==
    /\ subscription \in Subscriptions
    /\ found = FilterLogs(subscription)
    /\ pushed = 0
    /\ logs = <<>>
    /\ upstream = "live"
    /\ upReleased = FALSE
    /\ watchPc = "select"
    /\ held = <<>>
    /\ result = "nil"
    /\ quit = FALSE
    /\ told = Nothing
    /\ reading = TRUE
    /\ events = <<>>
    /\ unsubPc = "no"

------------------------------------------------------------------------------
\* The node finds a log and the client puts it into the channel.
NodePush ==
    /\ upstream = "live" /\ ~upReleased
    /\ pushed < Len(found)
    /\ Len(logs) < Capacity
    /\ pushed' = pushed + 1
    /\ logs' = Append(logs, found[pushed + 1])
    /\ UNCHANGED <<subscription, found, upstream, watchVars, userVars, events>>

\* The connection breaks, or the process closes its client, which go-ethereum
\* reports as a nil error.
NodeEnds ==
    /\ upstream = "live" /\ ~upReleased
    /\ upstream' \in {"failed", "closed"}
    /\ UNCHANGED <<subscription, found, pushed, logs, watchVars, userVars, events>>

------------------------------------------------------------------------------
WatchGoto(from, to) ==
    /\ watchPc \in from
    /\ watchPc' = to

\* Fault: a log that does not unpack is passed over.
ReceiveLogSkipping ==
    /\ logs # <<>>
    /\ WatchGoto({"select"}, IF Unpacks(subscription.event, Head(logs))
                             THEN "forward" ELSE "select")
    /\ logs' = Tail(logs)
    /\ held' = Unpacked(subscription.event, Head(logs))
    /\ UNCHANGED <<nodeVars, upReleased, result, told, userVars, events>>

\* log := <-logs: it is unpacked, or ends the subscription with an error.
ReceiveLog ==
    /\ logs # <<>>
    /\ logs' = Tail(logs)
    /\ IF Unpacks(subscription.event, Head(logs))
       THEN /\ WatchGoto({"select"}, "forward")
            /\ held' = Unpacked(subscription.event, Head(logs))
            /\ UNCHANGED result
       ELSE /\ WatchGoto({"select"}, "return")
            /\ result' = "error"
            /\ UNCHANGED held
    /\ UNCHANGED <<nodeVars, upReleased, told, userVars, events>>

\* Fault: what the caller has not taken is handed over once more.
HandOverAgain ==
    /\ \/ WatchGoto({"forward"}, "select")
       \/ WatchGoto({"forward"}, "forward")
    /\ reading
    /\ events' = Append(events, held)
    /\ UNCHANGED <<nodeVars, logs, upReleased, held, result, told, userVars>>

\* sink <- event
HandOver ==
    /\ WatchGoto({"forward"}, "select")
    /\ reading
    /\ events' = Append(events, held)
    /\ UNCHANGED <<nodeVars, logs, upReleased, held, result, told, userVars>>

\* Fault: the error is looked for only between two events.
ReceiveErrOuter ==
    /\ WatchGoto({"select"}, "return")
    /\ upstream # "live"
    /\ result' = IF upstream = "failed" THEN "error" ELSE "nil"
    /\ UNCHANGED <<nodeVars, logs, upReleased, held, told, userVars, events>>

\* Fault: the error is not passed on.
ReceiveErrSilent ==
    /\ WatchGoto({"select", "forward"}, "return")
    /\ upstream # "live"
    /\ result' = "nil"
    /\ UNCHANGED <<nodeVars, logs, upReleased, held, told, userVars, events>>

\* err := <-sub.Err(), in either select
ReceiveErr ==
    /\ WatchGoto({"select", "forward"}, "return")
    /\ upstream # "live"
    /\ result' = IF upstream = "failed" THEN "error" ELSE "nil"
    /\ UNCHANGED <<nodeVars, logs, upReleased, held, told, userVars, events>>

\* Fault: quit is looked at only between two events.
ReceiveQuitOuter ==
    /\ WatchGoto({"select"}, "return")
    /\ quit
    /\ result' = "nil"
    /\ UNCHANGED <<nodeVars, logs, upReleased, held, told, userVars, events>>

\* <-quit, in either select
ReceiveQuit ==
    /\ WatchGoto({"select", "forward"}, "return")
    /\ quit
    /\ result' = "nil"
    /\ UNCHANGED <<nodeVars, logs, upReleased, held, told, userVars, events>>

\* Fault: without the deferred call.
DeferredForgotten ==
    /\ WatchGoto({"return"}, "returned")
    /\ UNCHANGED <<nodeVars, logs, upReleased, held, result, told, userVars, events>>

\* The deferred sub.Unsubscribe().
DeferredUnsubscribe ==
    /\ WatchGoto({"return"}, "returned")
    /\ upReleased' = TRUE
    /\ UNCHANGED <<nodeVars, logs, held, result, told, userVars, events>>

\* Fault: whatever was returned is passed on, nil included.
WatchEndsNil ==
    /\ WatchGoto({"returned"}, "ended")
    /\ told' = result
    /\ UNCHANGED <<nodeVars, logs, upReleased, held, result, userVars, events>>

\* event.NewSubscription passes the error on, unless the caller has unsubscribed,
\* and closes the caller's error channel.
WatchEnds ==
    /\ WatchGoto({"returned"}, "ended")
    /\ told' = IF result = "error" /\ ~quit THEN "error" ELSE "end"
    /\ UNCHANGED <<nodeVars, logs, upReleased, held, result, userVars, events>>

\* The caller's loop is gone; the sink is not read any more.
StopReading ==
    /\ reading
    /\ reading' = FALSE
    /\ UNCHANGED <<nodeVars, logs, watchVars, quit, unsubPc, events>>

\* The caller ends the subscription, if it has not ended, ...
Unsubscribe ==
    /\ unsubPc = "no"
    /\ unsubPc' = IF watchPc = "ended" THEN "done" ELSE "waiting"
    /\ quit' = (watchPc # "ended")
    /\ UNCHANGED <<nodeVars, logs, watchVars, reading, events>>

\* ... and waits for the goroutine.
UnsubscribeReturns ==
    /\ unsubPc = "waiting"
    /\ watchPc = "ended"
    /\ unsubPc' = "done"
    /\ UNCHANGED <<nodeVars, logs, watchVars, quit, reading, events>>

WatchStep ==
    \/ ReceiveLog
    \/ HandOver
    \/ ReceiveErr
    \/ ReceiveQuit
    \/ DeferredUnsubscribe
    \/ WatchEnds

Next ==
    \/ NodePush
    \/ NodeEnds
    \/ WatchStep
    \/ StopReading
    \/ Unsubscribe
    \/ UnsubscribeReturns

Spec == Init /\ [][Next]_vars

\* Goroutines are scheduled.  A select whose cases stay ready is not assumed to
\* choose each of them in the end.
FairSpec ==
    /\ Spec
    /\ WF_vars(WatchStep)
    /\ WF_vars(UnsubscribeReturns)

------------------------------------------------------------------------------
WatchTypeOK ==
    /\ pushed \in 0..Len(found)
    /\ Len(logs) <= Capacity
    /\ upstream \in {"live", "failed", "closed"}
    /\ upReleased \in BOOLEAN
    /\ watchPc \in {"select", "forward", "return", "returned", "ended"}
    /\ result \in {"nil", "error"}
    /\ quit \in BOOLEAN /\ reading \in BOOLEAN
    /\ told \in {Nothing, "error", "end"}
    /\ unsubPc \in {"no", "waiting", "done"}

\* The sink receives the bound contract's events of that name whose arguments have
\* the values asked for, each once and in the order of the chain, up to the first
\* that does not unpack: none is lost in the select between the two channels.
ReceivesWanted == AreWanted(subscription, events)

\* A subscription that ends without an error was ended by the caller or by the
\* closing of the client: a broken connection or a log that does not unpack is
\* never taken for a quiet end.
EndIsExplained ==
    told = "end" => quit \/ upstream = "closed"

\* The watch is a stream without an end of its own.  In particular, nothing arrives
\* at the sink once Unsubscribe has returned.
Stream == INSTANCE LogStream WITH
    Finite <- FALSE,
    available <- [i \in 1..pushed |-> Unpacked(subscription.event, found[i])],
    delivered <- events,
    abandoned <- quit \/ upstream # "live" \/ result = "error",
    ended <- told # Nothing

ImplementsStream == Stream!StreamSpec

\* Unsubscribe returns, and has given up the node's subscription by then, although
\* the caller may have stopped reading from the sink while the goroutine holds an
\* event for it.
UnsubscribeEnds ==
    unsubPc = "waiting" ~> unsubPc = "done" /\ upReleased

\* When the node's subscription ends, the caller is told, read the sink or not.
UpstreamEndIsTold == upstream # "live" ~> told # Nothing
==============================================================================
