--------------------------- MODULE LogWatchProofs ---------------------------
(***************************************************************************)
(* Proofs about LogWatch, for any calls of Watch methods and any capacity  *)
(* of the channel.  As in LogIteratorProofs the invariant accounts for the *)
(* logs: the events received are the first of them, the one the goroutine  *)
(* holds is the next, and those in the channel are the last.  What         *)
(* ContractEventsProofs says of the node's answer then makes the events    *)
(* the ones that the caller asked for.                                     *)
(***************************************************************************)
EXTENDS LogWatch, ContractEventsProofs

FoundLogs == {found[i] : i \in DOMAIN found}

UnpackedLogs == {Unpacked(subscription.event, log) : log \in FoundLogs}

\* What the variables that hold logs are, ...
LogsTyped ==
    /\ found \in Seq(FoundLogs)
    /\ pushed \in 0..Len(found)
    /\ logs \in Seq(FoundLogs) /\ Len(logs) <= Capacity
    /\ events \in Seq(UnpackedLogs)

\* ... and the others.
StateTyped ==
    /\ upstream \in {"live", "failed", "closed"}
    /\ upReleased \in BOOLEAN
    /\ watchPc \in {"select", "forward", "return", "returned", "ended"}
    /\ result \in {"nil", "error"}
    /\ quit \in BOOLEAN /\ reading \in BOOLEAN
    /\ told \in {Nothing, "error", "end"}
    /\ unsubPc \in {"no", "waiting", "done"}

\* The logs up to the channel's first.
Accounted ==
    /\ \A i \in 1..Len(logs) : logs[i] = found[pushed - Len(logs) + i]
    /\ \A i \in 1..Len(events) :
          events[i] = Unpacked(subscription.event, found[i])
    /\ Len(events) <= pushed
    /\ watchPc = "select" => Len(events) + Len(logs) = pushed
    /\ watchPc = "forward" =>
          /\ Len(events) + 1 + Len(logs) = pushed
          /\ held = Unpacked(subscription.event, found[Len(events) + 1])

\* A goroutine that returns without an error was asked to, or lost the client.
ReturnsExplained ==
    /\ quit => unsubPc # "no"
    /\ told # Nothing <=> watchPc = "ended"
    /\ watchPc \in {"return", "returned"} /\ result = "nil" =>
          quit \/ upstream = "closed"
    /\ told = "end" => quit \/ upstream = "closed"

IInv == LogsTyped /\ StateTyped /\ Accounted /\ ReturnsExplained

------------------------------------------------------------------------------
\* Lemma: what the node answers is a sequence, as the chain is one.
LEMMA FoundIsSequence == Init => found \in Seq(FoundLogs)
  <1> SUFFICES ASSUME Init PROVE found \in Seq(FoundLogs)
    OBVIOUS
  <1>1. WellFormed(subscription) /\ found = FilterLogs(subscription)
    BY CallAssumption DEF Init
  <1> QED BY <1>1, FoundAreWanted DEF FoundLogs

\* Lemma: the invariant holds initially.
LEMMA InitIInv == Init => IInv
  <1> SUFFICES ASSUME Init PROVE IInv
    OBVIOUS
  <1>1. found \in Seq(FoundLogs)
    BY FoundIsSequence
  <1>2. <<>> \in Seq(FoundLogs) /\ <<>> \in Seq(UnpackedLogs) /\ Len(<<>>) = 0
    OBVIOUS
  <1>3. LogsTyped
    <2>1. pushed \in 0..Len(found)
      BY <1>1 DEF Init
    <2>2. logs \in Seq(FoundLogs) /\ Len(logs) <= Capacity
      BY <1>2, CapacityAssumption DEF Init
    <2>3. events \in Seq(UnpackedLogs)
      BY <1>2 DEF Init
    <2> QED BY <1>1, <2>1, <2>2, <2>3 DEF LogsTyped
  <1>4. StateTyped
    BY DEF Init, StateTyped
  <1>5. Accounted
    BY <1>2 DEF Init, Accounted
  <1>6. ReturnsExplained
    BY DEF Init, ReturnsExplained, Nothing
  <1> QED BY <1>3, <1>4, <1>5, <1>6 DEF IInv

\* Lemma: the steps that move no log keep what is typed of the logs; those that do not
\* come back to the outer select keep what is accounted for.
LEMMA NoLogMoves ==
    ASSUME IInv,
           UNCHANGED <<subscription, found, pushed, logs, held, events>>,
           watchPc' \notin {"select", "forward"} \/ UNCHANGED watchPc
    PROVE  LogsTyped' /\ Accounted'
  <1>1. FoundLogs' = FoundLogs /\ UnpackedLogs' = UnpackedLogs
    BY DEF FoundLogs, UnpackedLogs
  <1>2. LogsTyped'
    BY <1>1 DEF IInv, LogsTyped
  <1>3. Accounted'
    BY DEF IInv, Accounted
  <1> QED BY <1>2, <1>3

\* Lemma: a pushed log keeps the invariant.
LEMMA NodePushIInv == IInv /\ NodePush => IInv'
  <1> SUFFICES ASSUME IInv, NodePush PROVE IInv'
    OBVIOUS
  <1> USE DEF IInv
  <1>1. /\ found \in Seq(FoundLogs) /\ logs \in Seq(FoundLogs)
        /\ Len(logs) \in Nat /\ Len(found) \in Nat /\ Len(events) \in Nat
        /\ pushed \in Nat /\ pushed < Len(found)
        /\ found[pushed + 1] \in FoundLogs
    BY DEF LogsTyped, NodePush, FoundLogs
  <1>2. FoundLogs' = FoundLogs /\ UnpackedLogs' = UnpackedLogs
    BY DEF NodePush, FoundLogs, UnpackedLogs
  <1>3. /\ logs' \in Seq(FoundLogs) /\ Len(logs') = Len(logs) + 1
        /\ \A i \in 1..Len(logs) : logs'[i] = logs[i]
        /\ logs'[Len(logs) + 1] = found[pushed + 1]
    BY <1>1 DEF NodePush
  <1>4. LogsTyped'
    BY <1>1, <1>2, <1>3, CapacityAssumption DEF LogsTyped, NodePush
  <1>5. Accounted'
    <2>1. \A i \in 1..Len(logs') : logs'[i] = found[pushed' - Len(logs') + i]
      BY <1>1, <1>3 DEF Accounted, NodePush
    <2>2. Len(events') <= pushed'
      BY <1>1 DEF Accounted, NodePush
    <2>3. /\ watchPc = "select" => Len(events) + Len(logs') = pushed'
          /\ watchPc = "forward" => Len(events) + 1 + Len(logs') = pushed'
      <3>1. pushed' = pushed + 1
        BY DEF NodePush
      <3>2. watchPc = "select" => Len(events) + Len(logs) = pushed
        BY DEF Accounted
      <3>3. watchPc = "forward" => Len(events) + 1 + Len(logs) = pushed
        BY DEF Accounted
      <3>4. /\ Len(logs') = Len(logs) + 1
            /\ Len(logs) \in Nat /\ Len(events) \in Nat /\ pushed \in Nat
        BY <1>1, <1>3
      <3> HIDE DEF IInv
      <3>5. watchPc = "select" => Len(events) + Len(logs') = pushed'
        BY <3>1, <3>2, <3>4
      <3>6. watchPc = "forward" => Len(events) + 1 + Len(logs') = pushed'
        BY <3>1, <3>3, <3>4
      <3> QED BY <3>5, <3>6
    <2> QED BY <2>1, <2>2, <2>3 DEF Accounted, NodePush, watchVars
  <1>6. StateTyped'
    BY DEF StateTyped, NodePush, watchVars, userVars
  <1>7. ReturnsExplained'
    BY DEF ReturnsExplained, NodePush, watchVars, userVars
  <1> QED BY <1>4, <1>5, <1>6, <1>7

\* Lemma: the log that is taken out of the channel is the one after the events.
LEMMA HeadIsNext ==
    ASSUME IInv, watchPc = "select", logs # <<>>
    PROVE  /\ Head(logs) = found[Len(events) + 1]
           /\ Head(logs) \in FoundLogs
           /\ Len(events) + 1 + Len(Tail(logs)) = pushed
           /\ Tail(logs) \in Seq(FoundLogs) /\ Len(Tail(logs)) = Len(logs) - 1
           /\ \A i \in 1..Len(Tail(logs)) : Tail(logs)[i] = logs[i + 1]
  <1>1. /\ logs \in Seq(FoundLogs) /\ Len(logs) \in Nat /\ Len(logs) # 0
        /\ Len(events) \in Nat /\ pushed \in Nat
        /\ Len(events) + Len(logs) = pushed
    BY DEF IInv, LogsTyped, Accounted
  <1>2. 1 \in 1..Len(logs) /\ pushed - Len(logs) + 1 = Len(events) + 1
    BY <1>1
  <1>3. logs[1] = found[Len(events) + 1]
    <2>1. logs[1] = found[pushed - Len(logs) + 1]
      BY <1>2 DEF IInv, Accounted
    <2> QED BY <1>2, <2>1
  <1>4. Head(logs) = logs[1] /\ logs[1] \in FoundLogs
    BY <1>1, <1>2
  <1>5. /\ Tail(logs) \in Seq(FoundLogs) /\ Len(Tail(logs)) = Len(logs) - 1
        /\ \A i \in 1..Len(Tail(logs)) : Tail(logs)[i] = logs[i + 1]
    BY <1>1
  <1> QED BY <1>1, <1>3, <1>4, <1>5

\* Lemma: taking a log out of the channel keeps the invariant.
LEMMA ReceiveLogIInv == IInv /\ ReceiveLog => IInv'
  <1> SUFFICES ASSUME IInv, ReceiveLog PROVE IInv'
    OBVIOUS
  <1>1. /\ watchPc = "select" /\ logs # <<>> /\ logs' = Tail(logs)
        /\ UNCHANGED <<subscription, found, pushed, events>>
    BY DEF ReceiveLog, WatchGoto, nodeVars
  <1> USE DEF IInv
  <1>2. FoundLogs' = FoundLogs /\ UnpackedLogs' = UnpackedLogs
    BY <1>1 DEF FoundLogs, UnpackedLogs
  <1>3. /\ Len(logs) \in Nat /\ Len(events) \in Nat /\ pushed \in Nat
        /\ Len(logs) <= Capacity /\ Len(logs) # 0
        /\ Len(events) + Len(logs) = pushed
    BY <1>1 DEF LogsTyped, Accounted
  <1>4. LogsTyped'
    BY <1>1, <1>2, <1>3, HeadIsNext, CapacityAssumption DEF LogsTyped
  <1>5. \A i \in 1..Len(logs') : logs'[i] = found[pushed' - Len(logs') + i]
    <2> TAKE i \in 1..Len(logs')
    <2>1. Len(logs') = Len(logs) - 1 /\ logs'[i] = logs[i + 1]
      BY <1>1, HeadIsNext
    <2>2. /\ i + 1 \in 1..Len(logs)
          /\ pushed - Len(logs) + (i + 1) = pushed' - Len(logs') + i
      BY <1>1, <1>3, <2>1
    <2>3. logs[i + 1] = found[pushed - Len(logs) + (i + 1)]
      BY <2>2 DEF Accounted
    <2> QED BY <2>1, <2>2, <2>3
  <1>6. CASE Unpacks(subscription.event, Head(logs))
    <2>1. /\ watchPc' = "forward"
          /\ held' = Unpacked(subscription.event, Head(logs))
          /\ UNCHANGED <<upReleased, result, told, upstream, quit, reading, unsubPc>>
      BY <1>6 DEF ReceiveLog, WatchGoto, nodeVars, userVars
    <2>2. Accounted'
      BY <1>1, <1>5, <2>1, HeadIsNext DEF Accounted
    <2>3. StateTyped'
      BY <2>1 DEF StateTyped
    <2>4. ReturnsExplained'
      BY <1>1, <2>1 DEF ReturnsExplained
    <2> QED BY <1>4, <2>2, <2>3, <2>4
  <1>7. CASE ~Unpacks(subscription.event, Head(logs))
    <2>1. /\ watchPc' = "return" /\ result' = "error"
          /\ UNCHANGED <<upReleased, told, upstream, quit, reading, unsubPc>>
      BY <1>7 DEF ReceiveLog, WatchGoto, nodeVars, userVars
    <2>2. Accounted'
      BY <1>1, <1>5, <2>1 DEF Accounted
    <2>3. StateTyped'
      BY <2>1 DEF StateTyped
    <2>4. ReturnsExplained'
      BY <1>1, <2>1 DEF ReturnsExplained
    <2> QED BY <1>4, <2>2, <2>3, <2>4
  <1> QED BY <1>6, <1>7

\* Lemma: handing an event over keeps the invariant.
LEMMA HandOverIInv == IInv /\ HandOver => IInv'
  <1> SUFFICES ASSUME IInv, HandOver PROVE IInv'
    OBVIOUS
  <1> USE DEF IInv
  <1>1. /\ watchPc = "forward" /\ watchPc' = "select"
        /\ events' = Append(events, held)
        /\ UNCHANGED <<subscription, found, pushed, upstream, logs, upReleased, held,
                       result, told, quit, reading, unsubPc>>
    BY DEF HandOver, WatchGoto, nodeVars, userVars
  <1>2. FoundLogs' = FoundLogs /\ UnpackedLogs' = UnpackedLogs
    BY <1>1 DEF FoundLogs, UnpackedLogs
  <1>3. /\ found \in Seq(FoundLogs) /\ events \in Seq(UnpackedLogs)
        /\ Len(logs) \in Nat /\ Len(events) \in Nat /\ Len(found) \in Nat
        /\ pushed \in 0..Len(found)
        /\ Len(events) + 1 + Len(logs) = pushed
        /\ held = Unpacked(subscription.event, found[Len(events) + 1])
    BY <1>1 DEF LogsTyped, Accounted
  <1>4. found[Len(events) + 1] \in FoundLogs
    <2>1. Len(events) + 1 \in 1..Len(found)
      BY <1>3
    <2> QED BY <1>3, <2>1
  <1>5. held \in UnpackedLogs
    BY <1>3, <1>4 DEF UnpackedLogs
  <1>6. /\ events' \in Seq(UnpackedLogs) /\ Len(events') = Len(events) + 1
        /\ \A i \in 1..Len(events) : events'[i] = events[i]
        /\ events'[Len(events) + 1] = held
    BY <1>1, <1>3, <1>5
  <1>7. LogsTyped'
    BY <1>1, <1>2, <1>6 DEF LogsTyped
  <1>8. \A i \in 1..Len(events') : events'[i] = Unpacked(subscription.event, found[i])
    <2>1. \A i \in 1..Len(events) :
             events[i] = Unpacked(subscription.event, found[i])
      BY DEF Accounted
    <2> QED BY <1>3, <1>6, <2>1
  <1>9. Accounted'
    <2>1. Len(events') + Len(logs') = pushed' /\ Len(events') <= pushed'
      BY <1>1, <1>3, <1>6
    <2> QED BY <1>1, <1>8, <2>1 DEF Accounted
  <1>10. StateTyped'
    BY <1>1 DEF StateTyped
  <1>11. ReturnsExplained'
    BY <1>1 DEF ReturnsExplained
  <1> QED BY <1>7, <1>9, <1>10, <1>11

\* Lemma: every step keeps the invariant.
LEMMA NextIInv == IInv /\ [Next]_vars => IInv'
  <1> SUFFICES ASSUME IInv, [Next]_vars PROVE IInv'
    OBVIOUS
  <1> USE DEF IInv
  <1>1. CASE NodePush
    BY <1>1, NodePushIInv
  <1>2. CASE ReceiveLog
    BY <1>2, ReceiveLogIInv
  <1>3. CASE HandOver
    BY <1>3, HandOverIInv
  <1>4. CASE ReceiveErr
    <2>1. LogsTyped' /\ Accounted'
      BY <1>4, NoLogMoves DEF ReceiveErr, WatchGoto, nodeVars, userVars
    <2>2. StateTyped'
      BY <1>4 DEF StateTyped, ReceiveErr, WatchGoto, nodeVars, userVars
    <2>3. ReturnsExplained'
      BY <1>4 DEF StateTyped, ReturnsExplained, ReceiveErr, WatchGoto, nodeVars, userVars
    <2> QED BY <2>1, <2>2, <2>3
  <1>5. CASE ReceiveQuit
    <2>1. LogsTyped' /\ Accounted'
      BY <1>5, NoLogMoves DEF ReceiveQuit, WatchGoto, nodeVars, userVars
    <2>2. StateTyped'
      BY <1>5 DEF StateTyped, ReceiveQuit, WatchGoto, nodeVars, userVars
    <2>3. ReturnsExplained'
      BY <1>5 DEF StateTyped, ReturnsExplained, ReceiveQuit, WatchGoto, nodeVars, userVars
    <2> QED BY <2>1, <2>2, <2>3
  <1>6. CASE DeferredUnsubscribe
    <2>1. LogsTyped' /\ Accounted'
      BY <1>6, NoLogMoves DEF DeferredUnsubscribe, WatchGoto, nodeVars, userVars
    <2>2. StateTyped'
      BY <1>6 DEF StateTyped, DeferredUnsubscribe, WatchGoto, nodeVars, userVars
    <2>3. ReturnsExplained'
      BY <1>6 DEF StateTyped, ReturnsExplained, DeferredUnsubscribe, WatchGoto, nodeVars, userVars
    <2> QED BY <2>1, <2>2, <2>3
  <1>7. CASE WatchEnds
    <2>1. LogsTyped' /\ Accounted'
      BY <1>7, NoLogMoves DEF WatchEnds, WatchGoto, nodeVars, userVars, Nothing
    <2>2. StateTyped'
      BY <1>7 DEF StateTyped, WatchEnds, WatchGoto, nodeVars, userVars, Nothing
    <2>3. ReturnsExplained'
      BY <1>7 DEF StateTyped, ReturnsExplained, WatchEnds, WatchGoto, nodeVars, userVars, Nothing
    <2> QED BY <2>1, <2>2, <2>3
  <1>8. CASE NodeEnds
    <2>1. LogsTyped' /\ Accounted'
      BY <1>8, NoLogMoves DEF NodeEnds, watchVars, userVars
    <2>2. StateTyped'
      BY <1>8 DEF StateTyped, NodeEnds, watchVars, userVars
    <2>3. ReturnsExplained'
      BY <1>8 DEF StateTyped, ReturnsExplained, NodeEnds, watchVars, userVars
    <2> QED BY <2>1, <2>2, <2>3
  <1>9. CASE StopReading
    <2>1. LogsTyped' /\ Accounted'
      BY <1>9, NoLogMoves DEF StopReading, nodeVars, watchVars
    <2>2. StateTyped'
      BY <1>9 DEF StateTyped, StopReading, nodeVars, watchVars
    <2>3. ReturnsExplained'
      BY <1>9 DEF StateTyped, ReturnsExplained, StopReading, nodeVars, watchVars
    <2> QED BY <2>1, <2>2, <2>3
  <1>10. CASE Unsubscribe
    <2>1. LogsTyped' /\ Accounted'
      BY <1>10, NoLogMoves DEF Unsubscribe, nodeVars, watchVars
    <2>2. StateTyped'
      BY <1>10 DEF StateTyped, Unsubscribe, nodeVars, watchVars
    <2>3. ReturnsExplained'
      BY <1>10 DEF StateTyped, ReturnsExplained, Unsubscribe, nodeVars, watchVars
    <2> QED BY <2>1, <2>2, <2>3
  <1>11. CASE UnsubscribeReturns
    <2>1. LogsTyped' /\ Accounted'
      BY <1>11, NoLogMoves DEF UnsubscribeReturns, nodeVars, watchVars
    <2>2. StateTyped'
      BY <1>11 DEF StateTyped, UnsubscribeReturns, nodeVars, watchVars
    <2>3. ReturnsExplained'
      BY <1>11 DEF StateTyped, ReturnsExplained, UnsubscribeReturns, nodeVars, watchVars
    <2> QED BY <2>1, <2>2, <2>3
  <1>12. CASE UNCHANGED vars
    <2>1. LogsTyped' /\ Accounted'
      BY <1>12, NoLogMoves DEF vars, nodeVars, watchVars
    <2>2. StateTyped' /\ ReturnsExplained'
      BY <1>12 DEF StateTyped, ReturnsExplained, vars, nodeVars, watchVars, userVars
    <2> QED BY <2>1, <2>2
  <1> QED
    BY <1>1, <1>2, <1>3, <1>4, <1>5, <1>6, <1>7, <1>8, <1>9, <1>10, <1>11, <1>12
       DEF Next, WatchStep

\* The accounting of the logs and the reasons to return hold in every state.
THEOREM WatchInvariant == Spec => []IInv
  BY InitIInv, NextIInv, PTL DEF Spec

------------------------------------------------------------------------------
\* The watch's state is well typed, for any calls and any capacity of the channel.
THEOREM WatchTypeCorrect == Spec => []WatchTypeOK
  <1>1. IInv => WatchTypeOK
    BY DEF IInv, LogsTyped, StateTyped, WatchTypeOK
  <1> QED BY <1>1, WatchInvariant, PTL

\* A subscription that ends without an error was ended by the caller or by the closing
\* of the client, never by a broken connection or a log that does not unpack.
THEOREM EndsAreExplained == Spec => []EndIsExplained
  <1>1. IInv => EndIsExplained
    BY DEF IInv, ReturnsExplained, EndIsExplained
  <1> QED BY <1>1, WatchInvariant, PTL

------------------------------------------------------------------------------
\* The node has answered the caller's query.  Each log received has unpacked, and so
\* has the one whose event is about to be handed over.
AnswerInv ==
    /\ subscription \in Subscriptions
    /\ found = FilterLogs(subscription)
    /\ \A k \in 1..Len(events) : Unpacks(subscription.event, found[k])
    /\ watchPc = "forward" => Unpacks(subscription.event, found[Len(events) + 1])

\* Lemma: every step keeps that.
LEMMA AnswerInvStep == IInv /\ AnswerInv /\ [Next]_vars => AnswerInv'
  <1> SUFFICES ASSUME IInv, AnswerInv, [Next]_vars PROVE AnswerInv'
    OBVIOUS
  <1>1. CASE ReceiveLog
    <2>1. /\ watchPc = "select" /\ logs # <<>>
          /\ UNCHANGED <<subscription, found, events>>
      BY <1>1 DEF ReceiveLog, WatchGoto, nodeVars
    <2>2. Head(logs) = found[Len(events) + 1]
      BY <2>1, HeadIsNext
    <2>3. watchPc' = "forward" => Unpacks(subscription.event, Head(logs))
      BY <1>1 DEF ReceiveLog, WatchGoto
    <2> QED BY <2>1, <2>2, <2>3 DEF AnswerInv
  <1>2. CASE HandOver
    <2>1. /\ watchPc = "forward" /\ watchPc' = "select"
          /\ events' = Append(events, held)
          /\ UNCHANGED <<subscription, found>>
      BY <1>2 DEF HandOver, WatchGoto, nodeVars
    <2>2. Len(events') = Len(events) + 1 /\ Len(events) \in Nat
      BY <2>1 DEF IInv, LogsTyped
    <2>3. \A k \in 1..Len(events') : Unpacks(subscription.event, found[k])
      BY <2>1, <2>2 DEF AnswerInv
    <2> QED BY <2>1, <2>3 DEF AnswerInv
  <1>3. CASE ~ReceiveLog /\ ~HandOver
    <2>1. /\ UNCHANGED <<subscription, found, events>>
          /\ watchPc' # "forward" \/ UNCHANGED watchPc
      BY <1>3 DEF Next, WatchStep, NodePush, NodeEnds, ReceiveErr, ReceiveQuit,
                  DeferredUnsubscribe, WatchEnds, StopReading, Unsubscribe,
                  UnsubscribeReturns, WatchGoto, vars, nodeVars, watchVars, userVars
    <2> QED BY <2>1 DEF AnswerInv
  <1> QED BY <1>1, <1>2, <1>3

\* Lemma: the logs received from an answer to the query are the ones asked for.
LEMMA ReceivedAreWanted == IInv /\ AnswerInv => ReceivesWanted
  <1> SUFFICES ASSUME IInv, AnswerInv PROVE ReceivesWanted
    OBVIOUS
  <1>1. WellFormed(subscription) /\ found = FilterLogs(subscription)
    BY CallAssumption DEF AnswerInv
  <1>2. /\ Len(events) \in Nat /\ Len(found) \in Nat
        /\ Len(events) <= pushed /\ pushed \in 0..Len(found)
    BY DEF IInv, LogsTyped, Accounted
  <1>3. Len(events) <= Len(found)
    BY <1>2
  <1>4. LogsUnpacked(subscription.event, found, events)
    BY <1>3 DEF LogsUnpacked, IInv, Accounted, AnswerInv
  <1> QED BY <1>1, <1>2, <1>4, UnpackedAreWanted DEF ReceivesWanted

\* The sink receives the events whose arguments have the values asked for, from the
\* first on, each once and in the order of the chain, with each argument under its
\* name; none is lost between the channel of logs and the sink.
THEOREM WantedAreReceived == Spec => []ReceivesWanted
  <1>1. Init => AnswerInv
    BY DEF Init, AnswerInv
  <1> QED
    BY <1>1, AnswerInvStep, ReceivedAreWanted, WatchInvariant, PTL DEF Spec

------------------------------------------------------------------------------
\* The stream's events, as the watch has them.
Available == [i \in 1..pushed |-> Unpacked(subscription.event, found[i])]

\* Lemma: every step of the watch is a step of the stream, or none.
LEMMA NextRefines == IInv /\ [Next]_vars => [Stream!StreamNext]_(Stream!streamVars)
  <1> SUFFICES ASSUME IInv, [Next]_vars
               PROVE  [Stream!StreamNext]_(Stream!streamVars)
    OBVIOUS
  <1> USE DEF Stream!StreamNext, Stream!streamVars, nodeVars, watchVars, userVars,
              WatchGoto
  <1>0. /\ Len(events) \in Nat /\ pushed \in Nat
        /\ Len(Available) = pushed
        /\ \A i \in 1..pushed :
              Available[i] = Unpacked(subscription.event, found[i])
    BY DEF IInv, LogsTyped, Available
  <1>1. CASE NodePush
    <2>1. /\ pushed' = pushed + 1
          /\ UNCHANGED <<subscription, found, events, quit, upstream, result, told>>
      BY <1>1 DEF NodePush
    <2>2. /\ Len(Available') = Len(Available) + 1
          /\ \A i \in DOMAIN Available : Available'[i] = Available[i]
      BY <1>0, <2>1 DEF Available
    <2> QED BY <2>1, <2>2 DEF Stream!Arrive, Available
  <1>2. CASE ReceiveLog
    <2>1. UNCHANGED <<Available, events, quit, upstream, told>>
      BY <1>2 DEF ReceiveLog, Available
    <2>2. UNCHANGED result \/ result' = "error"
      BY <1>2 DEF ReceiveLog
    <2> QED BY <2>1, <2>2 DEF Stream!Abandon, Available
  <1>3. CASE HandOver
    <2>1. /\ events' = Append(events, held) /\ told = Nothing
          /\ UNCHANGED <<Available, quit, upstream, result, told>>
      BY <1>3 DEF HandOver, IInv, ReturnsExplained, Available
    <2>2. /\ Len(events) < pushed /\ Len(events) + 1 \in 1..pushed
          /\ held = Unpacked(subscription.event, found[Len(events) + 1])
      <3>1. Len(events) + 1 + Len(logs) = pushed /\ Len(logs) \in Nat
        BY <1>3 DEF HandOver, IInv, LogsTyped, Accounted
      <3>2. held = Unpacked(subscription.event, found[Len(events) + 1])
        BY <1>3 DEF HandOver, IInv, Accounted
      <3> QED BY <1>0, <3>1, <3>2
    <2>3. held = Available[Len(events) + 1] /\ Len(events) < Len(Available)
      BY <1>0, <2>2
    <2> QED BY <2>1, <2>3 DEF Stream!Deliver, Available
  <1>4. CASE NodeEnds
    <2>1. upstream' # "live"
      BY <1>4 DEF NodeEnds
    <2> QED BY <1>4, <2>1 DEF NodeEnds, Stream!Abandon
  <1>5. CASE ReceiveErr \/ ReceiveQuit
    BY <1>5 DEF ReceiveErr, ReceiveQuit
  <1>6. CASE WatchEnds
    <2>1. quit \/ upstream # "live" \/ result = "error"
      BY <1>6 DEF WatchEnds, IInv, StateTyped, ReturnsExplained
    <2>2. told' # Nothing
      BY <1>6 DEF WatchEnds, Nothing
    <2> QED BY <1>6, <2>1, <2>2 DEF WatchEnds, Stream!End
  <1>7. CASE Unsubscribe
    BY <1>7 DEF Unsubscribe, Stream!Abandon, IInv, StateTyped, ReturnsExplained
  <1>8. CASE DeferredUnsubscribe \/ StopReading \/ UnsubscribeReturns
    BY <1>8 DEF DeferredUnsubscribe, StopReading, UnsubscribeReturns
  <1>9. CASE UNCHANGED vars
    BY <1>9 DEF vars
  <1> QED
    BY <1>1, <1>2, <1>3, <1>4, <1>5, <1>6, <1>7, <1>8, <1>9 DEF Next, WatchStep

\* The watch implements the stream without an end of its own: events reach the sink in
\* order, none is skipped or repeated, and none after the subscription has ended.
THEOREM WatchImplementsStream == Spec => ImplementsStream
  <1>1. Init => Stream!StreamInit
    BY DEF Init, Stream!StreamInit
  <1> QED
    BY <1>1, NextRefines, WatchInvariant, PTL
       DEF Spec, ImplementsStream, Stream!StreamSpec
==============================================================================
