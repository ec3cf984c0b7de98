-------------------------- MODULE LogIteratorProofs --------------------------
(***************************************************************************)
(* Proofs about LogIterator, for any set of calls of Filter methods and    *)
(* any capacity of the channel.  The logs that the node found are split,   *)
(* at any moment, into those the caller has drawn, those in the channel,   *)
(* and those the producer still has: this accounting, with what is known   *)
(* of the two ends where Next is about to return false, is inductive.      *)
(* That the events are those the caller asked for then follows from what   *)
(* ContractEventsProofs says of the node's answer.                         *)
(***************************************************************************)
EXTENDS LogIterator, ContractEventsProofs

FoundLogs == {found[i] : i \in DOMAIN found}

UnpackedLogs == {Unpacked(subscription.event, log) : log \in FoundLogs}

\* What the variables are.
Typed ==
    /\ found \in Seq(FoundLogs)
    /\ sent \in 0..Len(found)
    /\ logs \in Seq(FoundLogs) /\ Len(logs) <= Capacity
    /\ quit \in BOOLEAN /\ errClosed \in BOOLEAN
    /\ itPc \in ItPcs
    /\ done \in BOOLEAN /\ fail \in BOOLEAN /\ ended \in BOOLEAN
    /\ events \in Seq(UnpackedLogs)
    /\ closePc \in {"open", "waiting", "closed"}

\* How many logs the caller has drawn.
Drawn == IF fail THEN Len(events) + 1 ELSE Len(events)

\* The channel holds the last logs pushed, and the events are the first logs found;
\* the one at which the iterator failed, if it did, is between them.
Accounted ==
    /\ Drawn + Len(logs) = sent
    /\ \A i \in 1..Len(logs) : logs[i] = found[sent - Len(logs) + i]
    /\ \A i \in 1..Len(events) :
          events[i] = Unpacked(subscription.event, found[i])

\* The producer has returned for a reason.
ProducerDone ==
    /\ done => errClosed
    /\ errClosed => sent = Len(found) \/ closePc # "open"
    /\ quit => closePc # "open"

\* Nothing will arrive any more.
Exhausted == fail \/ (done /\ logs = <<>>)

NextKnows ==
    /\ itPc \in {"select", "drain"} => ~fail
    /\ itPc = "drain" => done
    /\ itPc = "false" \/ ended => Exhausted

IInv == Typed /\ Accounted /\ ProducerDone /\ NextKnows

------------------------------------------------------------------------------
\* Lemma: what the node answers is a sequence, as the chain is one.
LEMMA FoundIsSequence == Init => found \in Seq(FoundLogs)
  <1> SUFFICES ASSUME Init PROVE found \in Seq(FoundLogs)
    OBVIOUS
  <1>1. WellFormed(subscription) /\ found = FilterLogs(subscription)
    BY CallAssumption DEF Init
  <1> QED BY <1>1, FoundAreWanted DEF FoundLogs

\* Lemma: the invariant holds initially.
LEMMA InitIInv == Init => IInv
  <1> SUFFICES ASSUME Init PROVE IInv
    OBVIOUS
  <1>1. found \in Seq(FoundLogs)
    BY FoundIsSequence
  <1>2. <<>> \in Seq(FoundLogs) /\ <<>> \in Seq(UnpackedLogs) /\ Len(<<>>) = 0
    OBVIOUS
  <1>3. Len(found) \in Nat
    BY <1>1
  <1>4. Typed
    <2>1. found \in Seq(FoundLogs)
      BY <1>1
    <2>2. sent \in 0..Len(found)
      BY <1>3 DEF Init
    <2>3. logs \in Seq(FoundLogs) /\ Len(logs) <= Capacity
      BY <1>2, CapacityAssumption DEF Init
    <2>4. events \in Seq(UnpackedLogs)
      BY <1>2 DEF Init
    <2>5. /\ quit \in BOOLEAN /\ errClosed \in BOOLEAN
          /\ itPc \in ItPcs
          /\ done \in BOOLEAN /\ fail \in BOOLEAN /\ ended \in BOOLEAN
          /\ closePc \in {"open", "waiting", "closed"}
      BY DEF Init, ItPcs
    <2> QED BY <2>1, <2>2, <2>3, <2>4, <2>5 DEF Typed
  <1>5. Accounted /\ ProducerDone /\ NextKnows
    BY <1>3 DEF Init, Accounted, Drawn, ProducerDone, NextKnows
  <1> QED BY <1>4, <1>5 DEF IInv

------------------------------------------------------------------------------
\* Lemma: pushing a log keeps the invariant.
LEMMA PushLogIInv == IInv /\ PushLog => IInv'
  <1> SUFFICES ASSUME IInv, PushLog PROVE IInv'
    OBVIOUS
  <1> USE DEF IInv
  <1>1. /\ found \in Seq(FoundLogs) /\ logs \in Seq(FoundLogs)
        /\ sent \in Nat /\ sent < Len(found)
        /\ found[sent + 1] \in FoundLogs
    BY DEF Typed, PushLog, FoundLogs
  <1>2. FoundLogs' = FoundLogs /\ UnpackedLogs' = UnpackedLogs
    BY DEF PushLog, producerVars, FoundLogs, UnpackedLogs
  <1>3. /\ logs' \in Seq(FoundLogs) /\ Len(logs') = Len(logs) + 1
        /\ \A i \in 1..Len(logs) : logs'[i] = logs[i]
        /\ logs'[Len(logs) + 1] = found[sent + 1]
    BY <1>1 DEF PushLog
  <1>4. Typed'
    BY <1>1, <1>2, <1>3, CapacityAssumption
       DEF Typed, PushLog, iteratorVars
  <1>5. Accounted'
    <2>1. Drawn' + Len(logs') = sent'
      <3>1. Drawn' = Drawn /\ Drawn \in Nat
        BY DEF Drawn, Typed, PushLog, iteratorVars
      <3> QED BY <1>1, <1>3, <3>1 DEF Accounted, PushLog
    <2>2. \A i \in 1..Len(logs') : logs'[i] = found[sent' - Len(logs') + i]
      BY <1>1, <1>3 DEF Accounted, PushLog
    <2> QED BY <2>1, <2>2 DEF Accounted, PushLog, iteratorVars
  <1>6. ProducerDone'
    BY DEF ProducerDone, PushLog, iteratorVars
  <1>7. NextKnows'
    BY DEF NextKnows, Exhausted, ProducerDone, PushLog, iteratorVars
  <1> QED BY <1>4, <1>5, <1>6, <1>7

\* Lemma: the log that is drawn is the one after the events.
LEMMA HeadIsNext ==
    ASSUME IInv, fail = FALSE, logs # <<>>
    PROVE  /\ Head(logs) = found[Len(events) + 1]
           /\ Len(events) + 1 \in 1..Len(found)
           /\ Head(logs) \in FoundLogs
  <1>1. /\ logs \in Seq(FoundLogs) /\ Len(logs) \in Nat /\ Len(logs) # 0
        /\ Len(events) \in Nat /\ sent \in 0..Len(found) /\ Len(found) \in Nat
        /\ Len(events) + Len(logs) = sent
    BY DEF IInv, Typed, Accounted, Drawn
  <1>2. 1 \in 1..Len(logs) /\ sent - Len(logs) + 1 = Len(events) + 1
    BY <1>1
  <1>3. logs[1] = found[sent - Len(logs) + 1]
    BY <1>2 DEF IInv, Accounted
  <1>4. Head(logs) = logs[1] /\ logs[1] \in FoundLogs
    BY <1>1, <1>2
  <1> QED BY <1>1, <1>2, <1>3, <1>4

\* Lemma: drawing a log keeps the invariant.
LEMMA ReceiveLogIInv == IInv /\ ReceiveLog => IInv'
  <1> SUFFICES ASSUME IInv, ReceiveLog PROVE IInv'
    OBVIOUS
  <1> USE DEF IInv
  <1>1. /\ found \in Seq(FoundLogs) /\ logs \in Seq(FoundLogs) /\ logs # <<>>
        /\ events \in Seq(UnpackedLogs)
        /\ sent \in Nat /\ fail = FALSE
    BY DEF Typed, NextKnows, ReceiveLog
  <1>9. /\ Len(events) \in Nat /\ Len(logs) \in Nat
        /\ Len(events) + Len(logs) = sent
        /\ \A i \in 1..Len(events) :
              events[i] = Unpacked(subscription.event, found[i])
    BY <1>1 DEF Accounted, Drawn
  <1>2. FoundLogs' = FoundLogs /\ UnpackedLogs' = UnpackedLogs
    BY DEF ReceiveLog, producerVars, FoundLogs, UnpackedLogs
  <1>3. /\ logs' \in Seq(FoundLogs) /\ Len(logs') = Len(logs) - 1
        /\ \A i \in 1..Len(logs') : logs'[i] = logs[i + 1]
    BY <1>1 DEF ReceiveLog
  <1>4. Head(logs) = found[Len(events) + 1] /\ Head(logs) \in FoundLogs
    BY <1>1, HeadIsNext
  <1>5. \A i \in 1..Len(logs') : logs'[i] = found[sent' - Len(logs') + i]
    BY <1>1, <1>3 DEF Accounted, ReceiveLog, producerVars
  <1>6. ProducerDone'
    BY DEF ProducerDone, ReceiveLog, producerVars
  <1>7. CASE Unpacks(subscription.event, Head(logs))
    <2> DEFINE e == Unpacked(subscription.event, Head(logs))
    <2>1. events' = Append(events, e) /\ itPc' = "user" /\ fail' = FALSE
      BY <1>1, <1>7 DEF ReceiveLog
    <2>2. e \in UnpackedLogs
      BY <1>4 DEF UnpackedLogs
    <2>3. e = Unpacked(subscription.event, found[Len(events) + 1])
      BY <1>4
    <2> HIDE DEF e
    <2>4. /\ events' \in Seq(UnpackedLogs) /\ Len(events') = Len(events) + 1
          /\ \A i \in 1..Len(events) : events'[i] = events[i]
          /\ events'[Len(events) + 1] = e
      BY <1>1, <2>1, <2>2
    <2>5. Typed'
      BY <1>1, <1>2, <1>3, <2>1, <2>4, CapacityAssumption
         DEF Typed, ReceiveLog, producerVars, ItPcs
    <2>6. \A i \in 1..Len(events') :
            events'[i] = Unpacked(subscription.event, found[i])
      BY <1>1, <1>9, <2>3, <2>4
    <2>7. Drawn' + Len(logs') = sent'
      <3>1. Drawn' = Len(events) + 1
        BY <2>1, <2>4 DEF Drawn
      <3>2. sent' = sent
        BY DEF ReceiveLog, producerVars
      <3> QED BY <1>3, <1>9, <3>1, <3>2
    <2>8. Accounted'
      BY <1>5, <2>6, <2>7 DEF Accounted, ReceiveLog, producerVars
    <2>9. NextKnows'
      BY <1>1, <2>1 DEF NextKnows, Exhausted, ReceiveLog
    <2> QED BY <1>6, <2>5, <2>8, <2>9
  <1>8. CASE ~Unpacks(subscription.event, Head(logs))
    <2>1. itPc' = "false" /\ fail' = TRUE /\ UNCHANGED events
      BY <1>8 DEF ReceiveLog
    <2>2. Typed'
      BY <1>1, <1>2, <1>3, <2>1, CapacityAssumption
         DEF Typed, ReceiveLog, producerVars, ItPcs
    <2>3. Drawn' + Len(logs') = sent'
      <3>1. Drawn' = Len(events) + 1
        BY <2>1 DEF Drawn
      <3>2. sent' = sent
        BY DEF ReceiveLog, producerVars
      <3> QED BY <1>3, <1>9, <3>1, <3>2
    <2>4. Accounted'
      BY <1>5, <1>9, <2>1, <2>3 DEF Accounted, ReceiveLog, producerVars
    <2>5. NextKnows'
      BY <2>1 DEF NextKnows, Exhausted, ReceiveLog
    <2> QED BY <1>6, <2>2, <2>4, <2>5
  <1> QED BY <1>7, <1>8

\* Lemma: the steps that move no log keep what is typed and accounted for.
LEMMA NoLogMoves ==
    ASSUME IInv,
           UNCHANGED <<subscription, found, sent, logs, fail, events>>,
           quit' \in BOOLEAN, errClosed' \in BOOLEAN, itPc' \in ItPcs,
           done' \in BOOLEAN, ended' \in BOOLEAN,
           closePc' \in {"open", "waiting", "closed"}
    PROVE  Typed' /\ Accounted'
  <1>1. FoundLogs' = FoundLogs /\ UnpackedLogs' = UnpackedLogs /\ Drawn' = Drawn
    BY DEF FoundLogs, UnpackedLogs, Drawn
  <1>2. Typed'
    BY <1>1 DEF IInv, Typed
  <1>3. Accounted'
    BY <1>1 DEF IInv, Accounted
  <1> QED BY <1>2, <1>3

\* Lemma: every step keeps the invariant.
LEMMA NextIInv == IInv /\ [Next]_vars => IInv'
  <1> SUFFICES ASSUME IInv, [Next]_vars PROVE IInv'
    OBVIOUS
  <1> USE DEF IInv
  <1>0. /\ quit \in BOOLEAN /\ errClosed \in BOOLEAN /\ itPc \in ItPcs
        /\ done \in BOOLEAN /\ fail \in BOOLEAN /\ ended \in BOOLEAN
        /\ closePc \in {"open", "waiting", "closed"}
    BY DEF Typed
  <1>1. CASE PushLog
    BY <1>1, PushLogIInv
  <1>2. CASE ReceiveLog
    BY <1>2, ReceiveLogIInv
  <1>3. CASE ProducerReturns
    <2>1. Typed' /\ Accounted'
      BY <1>0, <1>3, NoLogMoves DEF ProducerReturns, iteratorVars
    <2>2. ProducerDone'
      BY <1>3 DEF ProducerDone, ProducerReturns, iteratorVars
    <2>3. NextKnows'
      BY <1>3 DEF NextKnows, Exhausted, ProducerReturns, iteratorVars
    <2> QED BY <2>1, <2>2, <2>3
  <1>4. CASE CallNext
    <2>1. Typed' /\ Accounted'
      BY <1>0, <1>4, NoLogMoves DEF CallNext, ItGoto, producerVars, ItPcs
    <2>2. ProducerDone'
      BY <1>4 DEF ProducerDone, CallNext, producerVars
    <2>3. NextKnows'
      BY <1>0, <1>4 DEF NextKnows, Exhausted, CallNext, ItGoto
    <2> QED BY <2>1, <2>2, <2>3
  <1>5. CASE ReceiveErr
    <2>1. Typed' /\ Accounted'
      BY <1>0, <1>5, NoLogMoves DEF ReceiveErr, ItGoto, producerVars, ItPcs
    <2>2. ProducerDone'
      BY <1>5 DEF ProducerDone, ReceiveErr, producerVars
    <2>3. NextKnows'
      BY <1>5 DEF NextKnows, Exhausted, ReceiveErr, ItGoto
    <2> QED BY <2>1, <2>2, <2>3
  <1>6. CASE NothingLeft
    <2>1. Typed' /\ Accounted'
      BY <1>0, <1>6, NoLogMoves DEF NothingLeft, ItGoto, producerVars, ItPcs
    <2>2. ProducerDone'
      BY <1>6 DEF ProducerDone, NothingLeft, producerVars
    <2>3. NextKnows'
      BY <1>6 DEF NextKnows, Exhausted, NothingLeft, ItGoto
    <2> QED BY <2>1, <2>2, <2>3
  <1>7. CASE ReturnFalse
    <2>1. Typed' /\ Accounted'
      BY <1>0, <1>7, NoLogMoves DEF ReturnFalse, ItGoto, producerVars, ItPcs
    <2>2. ProducerDone'
      BY <1>7 DEF ProducerDone, ReturnFalse, producerVars
    <2>3. NextKnows'
      BY <1>7 DEF NextKnows, Exhausted, ReturnFalse, ItGoto
    <2> QED BY <2>1, <2>2, <2>3
  <1>8. CASE Close
    <2>1. Typed' /\ Accounted'
      BY <1>0, <1>8, NoLogMoves DEF Close, producerVars, iteratorVars
    <2>2. ProducerDone'
      BY <1>8 DEF ProducerDone, Close, producerVars, iteratorVars
    <2>3. NextKnows'
      BY <1>8 DEF NextKnows, Exhausted, Close, iteratorVars
    <2> QED BY <2>1, <2>2, <2>3
  <1>9. CASE CloseReturns
    <2>1. Typed' /\ Accounted'
      BY <1>0, <1>9, NoLogMoves DEF CloseReturns, producerVars, iteratorVars
    <2>2. ProducerDone'
      BY <1>9 DEF ProducerDone, CloseReturns, producerVars, iteratorVars
    <2>3. NextKnows'
      BY <1>9 DEF NextKnows, Exhausted, CloseReturns, iteratorVars
    <2> QED BY <2>1, <2>2, <2>3
  <1>10. CASE UNCHANGED vars
    <2>1. Typed' /\ Accounted'
      BY <1>0, <1>10, NoLogMoves DEF vars, producerVars, iteratorVars
    <2>2. ProducerDone' /\ NextKnows'
      BY <1>10 DEF ProducerDone, NextKnows, Exhausted, vars, producerVars,
                   iteratorVars
    <2> QED BY <2>1, <2>2
  <1> QED
    BY <1>1, <1>2, <1>3, <1>4, <1>5, <1>6, <1>7, <1>8, <1>9, <1>10
       DEF Next, InNext

\* The accounting of the logs and what Next knows hold in every state.
THEOREM IteratorInvariant == Spec => []IInv
  BY InitIInv, NextIInv, PTL DEF Spec

------------------------------------------------------------------------------
\* The iterator's state is well typed, and every event has the members of the
\* binding's struct, for any calls and any capacity of the channel.
THEOREM IteratorTypeCorrect == Spec => []IteratorTypeOK
  <1>1. IInv => IteratorTypeOK
    <2> SUFFICES ASSUME IInv PROVE IteratorTypeOK
      OBVIOUS
    <2>1. ASSUME NEW i \in DOMAIN events
          PROVE  DOMAIN events[i] = subscription.event.members
      <3>1. events[i] \in UnpackedLogs
        BY <2>1 DEF IInv, Typed
      <3> QED BY <3>1 DEF UnpackedLogs, Unpacked
    <2> QED BY <2>1 DEF IInv, Typed, IteratorTypeOK
  <1> QED BY <1>1, IteratorInvariant, PTL

\* When Next has returned false without an error, and Close was not called, every log
\* that the node found has been delivered, although Next may see the end of the
\* subscription before the last of them.
THEOREM FalseMeansComplete == Spec => []FalseIsComplete
  <1>1. IInv => FalseIsComplete
    <2> SUFFICES ASSUME IInv, ended, fail = FALSE, closePc = "open"
                 PROVE  Len(events) = Len(found)
      BY DEF IInv, Typed, FalseIsComplete
    <2>1. logs = <<>> /\ sent = Len(found)
      BY DEF IInv, NextKnows, Exhausted, ProducerDone
    <2>2. Drawn = Len(events)
      BY DEF Drawn
    <2> QED BY <2>1, <2>2 DEF IInv, Typed, Accounted
  <1> QED BY <1>1, IteratorInvariant, PTL

------------------------------------------------------------------------------
\* The node has answered the caller's query.  Each log drawn has unpacked, except the
\* one at which the iterator failed.
AnswerInv ==
    /\ subscription \in Subscriptions
    /\ found = FilterLogs(subscription)
    /\ \A k \in 1..Len(events) : Unpacks(subscription.event, found[k])
    /\ fail => ~Unpacks(subscription.event, found[Len(events) + 1])

\* Lemma: every step keeps that.
LEMMA AnswerInvStep == IInv /\ AnswerInv /\ [Next]_vars => AnswerInv'
  <1> SUFFICES ASSUME IInv, AnswerInv, [Next]_vars PROVE AnswerInv'
    OBVIOUS
  <1>1. CASE ReceiveLog
    <2>1. /\ logs # <<>> /\ fail = FALSE
          /\ events \in Seq(UnpackedLogs) /\ Len(events) \in Nat
          /\ UNCHANGED <<subscription, found>>
      BY <1>1 DEF IInv, Typed, NextKnows, ReceiveLog, producerVars
    <2>2. Head(logs) = found[Len(events) + 1] /\ Head(logs) \in FoundLogs
      BY <2>1, HeadIsNext
    <2>3. CASE Unpacks(subscription.event, Head(logs))
      <3> DEFINE e == Unpacked(subscription.event, Head(logs))
      <3>1. events' = Append(events, e) /\ fail' = FALSE /\ e \in UnpackedLogs
        BY <1>1, <2>1, <2>2, <2>3 DEF ReceiveLog, UnpackedLogs
      <3>2. Len(events') = Len(events) + 1
        BY <2>1, <3>1
      <3>3. \A k \in 1..Len(events') : Unpacks(subscription.event, found[k])
        BY <2>1, <2>2, <2>3, <3>2 DEF AnswerInv
      <3> QED BY <2>1, <3>1, <3>3 DEF AnswerInv
    <2>4. CASE ~Unpacks(subscription.event, Head(logs))
      <3>1. UNCHANGED events
        BY <1>1, <2>4 DEF ReceiveLog
      <3> QED BY <2>1, <2>2, <2>4, <3>1 DEF AnswerInv
    <2> QED BY <2>3, <2>4
  <1>2. CASE ~ReceiveLog
    <2>1. UNCHANGED <<subscription, found, events, fail>>
      BY <1>2 DEF Next, InNext, PushLog, ProducerReturns, CallNext, ReceiveErr,
                  NothingLeft, ReturnFalse, Close, CloseReturns, vars, producerVars,
                  iteratorVars
    <2> QED BY <2>1 DEF AnswerInv
  <1> QED BY <1>1, <1>2

\* Lemma: the logs drawn from an answer to the query are the ones asked for.
LEMMA DrawnAreWanted == IInv /\ AnswerInv => SelectedByArguments
  <1> SUFFICES ASSUME IInv, AnswerInv PROVE SelectedByArguments
    OBVIOUS
  <1>1. WellFormed(subscription) /\ found = FilterLogs(subscription)
    BY CallAssumption DEF AnswerInv
  <1>2. /\ Len(events) \in Nat /\ Len(logs) \in Nat
        /\ Len(found) \in Nat /\ sent <= Len(found) /\ sent \in Nat
        /\ Drawn + Len(logs) = sent
    BY DEF IInv, Typed, Accounted
  <1>3. /\ Drawn \in Nat /\ Drawn <= Len(found) /\ Len(events) <= Drawn
        /\ fail => Len(events) + 1 = Drawn
    BY <1>2 DEF Drawn
  <1>4. LogsUnpacked(subscription.event, found, events)
    BY <1>2, <1>3 DEF LogsUnpacked, IInv, Accounted, AnswerInv
  <1>5. AreWanted(subscription, events)
    BY <1>1, <1>2, <1>4, UnpackedAreWanted
  <1>6. ASSUME fail PROVE IsForeign(subscription, Len(events) + 1)
    <2>1. /\ Len(events) + 1 \in 1..Len(found)
          /\ ~Unpacks(subscription.event, found[Len(events) + 1])
      BY <1>2, <1>3, <1>6 DEF AnswerInv
    <2> QED BY <1>1, <2>1, UndecodableIsForeign
  <1> QED BY <1>5, <1>6 DEF SelectedByArguments

\* A caller that asks for events by the values of named parameters gets the events
\* whose arguments have those values, from the first on and in the order of the
\* chain, with each argument under its name; where the iteration fails, the contract
\* emitted an event of a foreign shape.
THEOREM SelectionIsByArguments == Spec => []SelectedByArguments
  <1>1. Init => AnswerInv
    BY DEF Init, AnswerInv
  <1> QED
    BY <1>1, AnswerInvStep, DrawnAreWanted, IteratorInvariant, PTL DEF Spec

------------------------------------------------------------------------------
\* The stream's variables, as the iterator has them.
Available == [i \in 1..Len(found) |-> Unpacked(subscription.event, found[i])]

Abandoned == fail \/ closePc # "open"

\* Lemma: a draw delivers the stream's next event, or abandons the stream.
LEMMA ReceiveLogRefines ==
    IInv /\ ReceiveLog => Stream!Deliver \/ Stream!Abandon
  <1> SUFFICES ASSUME IInv, ReceiveLog PROVE Stream!Deliver \/ Stream!Abandon
    OBVIOUS
  <1>1. /\ found \in Seq(FoundLogs) /\ logs \in Seq(FoundLogs) /\ logs # <<>>
        /\ events \in Seq(UnpackedLogs)
        /\ fail = FALSE /\ ~ended
    BY DEF IInv, Typed, NextKnows, Exhausted, ReceiveLog
  <1>2. Drawn = Len(events)
    BY <1>1 DEF Drawn
  <1>3. /\ Len(events) \in Nat /\ Len(logs) \in Nat /\ Len(found) \in Nat
        /\ sent \in 0..Len(found) /\ Len(logs) # 0
        /\ Len(events) + Len(logs) = sent
    BY <1>1, <1>2 DEF IInv, Typed, Accounted
  <1>4. Len(events) < Len(found) /\ Len(events) + 1 \in 1..Len(found)
    BY <1>3
  <1>5. Head(logs) = found[Len(events) + 1]
    BY <1>1, HeadIsNext
  <1>6. UNCHANGED <<Available, ended, closePc>>
    BY DEF ReceiveLog, producerVars, Available
  <1>7. CASE Unpacks(subscription.event, Head(logs))
    <2>1. /\ events' = Append(events, Unpacked(subscription.event, Head(logs)))
          /\ UNCHANGED fail
      BY <1>7 DEF ReceiveLog
    <2>2. Available[Len(events) + 1] = Unpacked(subscription.event, Head(logs))
      BY <1>4, <1>5 DEF Available
    <2>3. Len(Available) = Len(found)
      BY <1>3 DEF Available
    <2> QED
      BY <1>1, <1>4, <1>6, <2>1, <2>2, <2>3 DEF Stream!Deliver, Available
  <1>8. CASE ~Unpacks(subscription.event, Head(logs))
    <2>1. fail' = TRUE /\ UNCHANGED events
      BY <1>8 DEF ReceiveLog
    <2> QED BY <1>6, <2>1 DEF Stream!Abandon, Available
  <1> QED BY <1>7, <1>8

\* Lemma: every step of the iterator is a step of the stream, or none.
LEMMA NextRefines == IInv /\ [Next]_vars => [Stream!StreamNext]_(Stream!streamVars)
  <1> SUFFICES ASSUME IInv, [Next]_vars
               PROVE  [Stream!StreamNext]_(Stream!streamVars)
    OBVIOUS
  <1> USE DEF Stream!StreamNext, Stream!streamVars, producerVars, iteratorVars
  <1>1. CASE ReceiveLog
    BY <1>1, ReceiveLogRefines
  <1>2. CASE ReturnFalse
    <2>1. Abandoned \/ Len(events) = Len(found)
      <3>1. CASE fail \/ closePc # "open"
        BY <3>1 DEF Abandoned
      <3>2. CASE fail = FALSE /\ closePc = "open"
        <4>1. logs = <<>> /\ sent = Len(found)
          BY <1>2, <3>2 DEF IInv, NextKnows, Exhausted, ProducerDone, ReturnFalse,
                            ItGoto
        <4>2. Drawn = Len(events)
          BY <3>2 DEF Drawn
        <4> QED BY <4>1, <4>2 DEF IInv, Typed, Accounted
      <3> QED BY <3>1, <3>2 DEF IInv, Typed
    <2>2. Len(Available) = Len(found)
      BY DEF Available, IInv, Typed
    <2> QED BY <1>2, <2>1, <2>2 DEF Stream!End, Abandoned, Available, ReturnFalse
  <1>3. CASE Close
    BY <1>3 DEF Close, Stream!Abandon
  <1>4. CASE CloseReturns
    BY <1>4 DEF CloseReturns
  <1>5. CASE PushLog \/ ProducerReturns \/ CallNext \/ ReceiveErr \/ NothingLeft
    BY <1>5 DEF PushLog, ProducerReturns, CallNext, ReceiveErr, NothingLeft
  <1>6. CASE UNCHANGED vars
    BY <1>6 DEF vars
  <1> QED BY <1>1, <1>2, <1>3, <1>4, <1>5, <1>6 DEF Next, InNext

\* The iterator implements the finite stream of the logs found: no event is skipped,
\* repeated or out of order, and Next says that there are no more only when that is
\* so, or after an error or Close.
THEOREM IteratorImplementsStream == Spec => ImplementsStream
  <1>1. Init => Stream!StreamInit
    BY DEF Init, Stream!StreamInit
  <1> QED
    BY <1>1, NextRefines, IteratorInvariant, PTL
       DEF Spec, ImplementsStream, Stream!StreamSpec
==============================================================================
