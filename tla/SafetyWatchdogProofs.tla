------------------------ MODULE SafetyWatchdogProofs ------------------------
(***************************************************************************)
(* The safety of the watchdog for every threshold count, any fate of its   *)
(* requests and any number of crashes.                                     *)
(***************************************************************************)
EXTENDS SafetyWatchdog, SequenceTheorems, TLAPS

\* Before the trigger nothing has been sent and the counter is the number of
\* over-threshold messages at the end of the handled ones; a timer is armed
\* only while nothing has been sent.
Armed ==
    ~estopTriggered =>
        /\ ~retryTimer /\ request = "none" /\ requests = 0
        /\ overCount < Consecutive /\ overCount <= Len(handled)
        /\ \A i \in 1..Len(handled) :
              i > Len(handled) - overCount => handled[i] = "over"

Waiting == /\ requests <= 1
           /\ request # "none" => requests = 1
           /\ retryTimer => request = "none" /\ requests = 0

IInv == TypeOK /\ Armed /\ Waiting

LEMMA InitIInv == ASSUME Init PROVE IInv
<1>1. /\ up \in BOOLEAN /\ estopTriggered \in BOOLEAN /\ retryTimer \in BOOLEAN
      /\ serviceUp \in BOOLEAN /\ halted \in BOOLEAN /\ status \in BOOLEAN
  BY Zenon DEF Init, Fresh
<1>2. /\ handled \in Seq(Readings) /\ Len(handled) = 0
  BY DEF Init, Fresh
<1>3. TypeOK
  BY <1>1, <1>2, WatchdogAssumption DEF Init, Fresh, TypeOK, Readings
<1>4. Armed /\ Waiting
  BY <1>2, WatchdogAssumption DEF Init, Fresh, Armed, Waiting
<1> QED
  BY <1>3, <1>4 DEF IInv

\* The handled messages, cut to the last Consecutive.
LEMMA NewestType ==
    ASSUME NEW h \in Seq(Readings), Len(h) <= Consecutive, NEW r \in Readings
    PROVE  LET n == Newest(Append(h, r))
           IN  /\ n \in Seq(Readings) /\ Len(n) <= Consecutive
               /\ Len(n) = IF Len(h) < Consecutive THEN Len(h) + 1 ELSE Len(h)
               /\ n[Len(n)] = r
               /\ \A i \in 1..(Len(n) - 1) : n[i] = h[i + Len(h) + 1 - Len(n)]
<1> DEFINE a == Append(h, r)
<1>1. a \in Seq(Readings) /\ Len(a) = Len(h) + 1 /\ Len(h) \in Nat
  OBVIOUS
<1>2. /\ a[Len(h) + 1] = r
      /\ \A i \in 1..Len(h) : a[i] = h[i]
  OBVIOUS
<1>3. CASE Len(h) < Consecutive
  <2>1. Newest(a) = a
    BY <1>1, <1>3, WatchdogAssumption DEF Newest
  <2> QED
    BY <2>1, <1>1, <1>2, <1>3, WatchdogAssumption
<1>4. CASE Len(h) = Consecutive
  <2>1. Newest(a) = Tail(a)
    BY <1>1, <1>4, WatchdogAssumption DEF Newest
  <2>2. /\ Tail(a) \in Seq(Readings) /\ Len(Tail(a)) = Len(h)
        /\ \A i \in 1..Len(h) : Tail(a)[i] = a[i + 1]
    BY <1>1, <1>4, HeadTailProperties, WatchdogAssumption
  <2>3. /\ Tail(a)[Len(h)] = r
        /\ \A i \in 1..(Len(h) - 1) : Tail(a)[i] = h[i + 1]
    BY <2>2, <1>1, <1>2, <1>4, WatchdogAssumption
  <2>4. \A i \in 1..(Len(h) - 1) : i + Len(h) + 1 - Len(h) = i + 1
    BY <1>1
  <2> DEFINE t == Tail(a)
  <2>5. /\ t \in Seq(Readings) /\ Len(t) = Len(h) /\ t[Len(t)] = r
        /\ \A i \in 1..(Len(t) - 1) : t[i] = h[i + Len(h) + 1 - Len(t)]
    BY <2>2, <2>3, <2>4
  <2>6. Newest(Append(h, r)) = t
    BY <2>1
  <2>7. /\ Len(t) <= Consecutive
        /\ Len(t) = IF Len(h) < Consecutive THEN Len(h) + 1 ELSE Len(h)
    BY <2>2, <1>1, <1>4, WatchdogAssumption
  <2> HIDE DEF t
  <2> QED
    BY <2>5, <2>6, <2>7
<1> QED
  BY <1>1, <1>3, <1>4, WatchdogAssumption

\* Where the i-th kept message was before the newest one came.
LEMMA Shift ==
    ASSUME NEW l \in Nat, NEW m \in {l, l + 1}, NEW c \in 0..l,
           NEW i \in 1..m, i # m, i > m - (c + 1)
    PROVE  /\ i \in 1..(m - 1)
           /\ i + l + 1 - m \in 1..l
           /\ i + l + 1 - m > l - c
OBVIOUS

LEMMA CallKeeps ==
    ASSUME TypeOK, Waiting, request = "none", requests = 0, CallEstopService
    PROVE  /\ retryTimer' \in BOOLEAN /\ requests' \in Nat
           /\ request' \in {"none", "sent", "lost", "answered"}
           /\ Waiting'
<1>1. CASE serviceUp
  <2>1. retryTimer' \in BOOLEAN /\ ~retryTimer'
    BY <1>1, Zenon DEF CallEstopService
  <2>2. request' = "sent" /\ requests' = 1
    BY <1>1 DEF CallEstopService
  <2>3. Waiting'
    BY <2>1, <2>2 DEF Waiting
  <2> QED
    BY <2>1, <2>2, <2>3
<1>2. CASE ~serviceUp
  BY <1>2 DEF TypeOK, Waiting, CallEstopService
<1> QED
  BY <1>1, <1>2

\* A message: counted, or the trigger and the first call.
LEMMA JointStatesIInv == ASSUME IInv, JointStates PROVE IInv'
<1> USE WatchdogAssumption
<1>1. inbox \in Readings /\ handled \in Seq(Readings) /\ Len(handled) <= Consecutive
  BY DEF IInv, TypeOK, JointStates
<1> DEFINE n == Newest(Append(handled, inbox))
<1>2. /\ n \in Seq(Readings) /\ Len(n) <= Consecutive
      /\ Len(n) = IF Len(handled) < Consecutive THEN Len(handled) + 1 ELSE Len(handled)
      /\ n[Len(n)] = inbox
      /\ \A i \in 1..(Len(n) - 1) : n[i] = handled[i + Len(handled) + 1 - Len(n)]
  BY <1>1, NewestType
<1>3. handled' = n
  BY DEF JointStates
<1> HIDE DEF n
<1>4. CASE Ignored
  BY <1>2, <1>3, <1>4 DEF IInv, TypeOK, Armed, Waiting, JointStates, Ignored, node,
     outside
<1>5. CASE ~Ignored /\ Counted(inbox) >= Consecutive
  <2>1. request = "none" /\ requests = 0 /\ overCount < Consecutive /\ overCount \in Nat
    BY <1>5 DEF IInv, TypeOK, Armed, Ignored
  <2>2. overCount' = Counted(inbox) /\ estopTriggered' = TRUE /\ CallEstopService
    BY <1>5 DEF JointStates
  <2>3. Counted(inbox) \in 0..Consecutive
    BY <2>1 DEF Counted
  <2>4. /\ retryTimer' \in BOOLEAN /\ requests' \in Nat
        /\ request' \in {"none", "sent", "lost", "answered"}
        /\ Waiting'
    BY <2>1, <2>2, CallKeeps DEF IInv
  <2> QED
    BY <1>2, <1>3, <2>2, <2>3, <2>4
    DEF IInv, TypeOK, Armed, JointStates, outside
<1>6. CASE ~Ignored /\ ~(Counted(inbox) >= Consecutive)
  <2>1. /\ overCount \in Nat /\ overCount < Consecutive /\ overCount <= Len(handled)
        /\ \A i \in 1..Len(handled) :
              i > Len(handled) - overCount => handled[i] = "over"
    BY <1>6 DEF IInv, TypeOK, Armed, Ignored
  <2>2. overCount' = Counted(inbox) /\ Quiet
    BY <1>6 DEF JointStates
  <2>3. /\ Counted(inbox) < Consecutive /\ Counted(inbox) \in Nat
        /\ Counted(inbox) <= Len(n)
    BY <1>1, <1>2, <1>6, <2>1 DEF Counted
  <2>4. \A i \in 1..Len(n) : i > Len(n) - Counted(inbox) => n[i] = "over"
    <3>1. CASE inbox # "over"
      BY <3>1, <1>2 DEF Counted
    <3>2. CASE inbox = "over"
      <4> SUFFICES ASSUME NEW i \in 1..Len(n), i > Len(n) - Counted(inbox)
                   PROVE  n[i] = "over"
        OBVIOUS
      <4>1. CASE i = Len(n)
        BY <4>1, <3>2, <1>2
      <4>2. CASE i # Len(n)
        <5> DEFINE j == i + Len(handled) + 1 - Len(n)
        <5>1. Counted(inbox) = overCount + 1
          BY <3>2 DEF Counted
        <5>2. /\ Len(handled) \in Nat /\ Len(n) \in {Len(handled), Len(handled) + 1}
              /\ overCount \in 0..Len(handled)
          BY <1>1, <1>2, <2>1
        <5>3. /\ i \in 1..(Len(n) - 1)
              /\ j \in 1..Len(handled) /\ j > Len(handled) - overCount
          BY <4>2, <5>1, <5>2, Shift
        <5> QED
          BY <5>3, <1>2, <2>1
      <4> QED
        BY <4>1, <4>2
    <3> QED
      BY <3>1, <3>2
  <2> QED
    BY <1>2, <1>3, <1>6, <2>2, <2>3, <2>4
    DEF IInv, TypeOK, Armed, Waiting, JointStates, Quiet, outside, Ignored
<1> QED
  BY <1>4, <1>5, <1>6

LEMMA StepIInv == ASSUME IInv, [Next]_vars PROVE IInv'
<1> USE WatchdogAssumption
<1>1. CASE JointStates
  BY <1>1, JointStatesIInv
<1>2. CASE RetryTimer
  <2>1. /\ retryTimer' \in BOOLEAN /\ requests' \in Nat
        /\ request' \in {"none", "sent", "lost", "answered"}
        /\ Waiting'
    BY <1>2, CallKeeps DEF IInv, Waiting, RetryTimer
  <2>2. estopTriggered
    BY <1>2 DEF IInv, Armed, RetryTimer
  <2> QED
    BY <1>2, <2>1, <2>2 DEF IInv, TypeOK, Armed, RetryTimer, outside
<1>3. CASE EstopDone
  BY <1>3 DEF IInv, TypeOK, Armed, Waiting, EstopDone, outside
<1>4. CASE Heartbeat
  BY <1>4 DEF IInv, TypeOK, Armed, Waiting, Heartbeat, node, outside
<1>5. CASE Publish
  BY <1>5 DEF IInv, TypeOK, Armed, Waiting, Publish, node, outside
<1>6. CASE ServiceChanges
  BY <1>6 DEF IInv, TypeOK, Armed, Waiting, ServiceChanges
<1>7. CASE Crash
  <2>1. TypeOK'
    <3>1. /\ up' \in BOOLEAN /\ estopTriggered' \in BOOLEAN /\ retryTimer' \in BOOLEAN
          /\ serviceUp' \in BOOLEAN /\ halted' \in BOOLEAN /\ status' \in BOOLEAN
      BY <1>7, Zenon DEF IInv, TypeOK, Crash, outside
    <3>2. /\ handled' \in Seq(Readings) /\ Len(handled') = 0
      BY <1>7 DEF Crash
    <3> QED
      BY <1>7, <3>1, <3>2 DEF IInv, TypeOK, Crash
  <2>2. Armed' /\ Waiting'
    BY <1>7 DEF Armed, Waiting, Crash
  <2> QED
    BY <2>1, <2>2 DEF IInv
<1>8. CASE Restart
  BY <1>8 DEF IInv, TypeOK, Armed, Waiting, Restart, node, outside
<1>9. ASSUME NEW r \in Readings, LoadChanges(r) PROVE IInv'
  BY <1>9 DEF IInv, TypeOK, Armed, Waiting, LoadChanges, node, outside
<1>10. ASSUME NEW o \in Outcomes, ServiceAnswers(o) PROVE IInv'
  BY <1>10 DEF IInv, TypeOK, Armed, Waiting, ServiceAnswers
<1>11. CASE UNCHANGED vars
  BY <1>11 DEF IInv, TypeOK, Armed, Waiting, vars, node, outside
<1> QED
  BY <1>1, <1>2, <1>3, <1>4, <1>5, <1>6, <1>7, <1>8, <1>9, <1>10, <1>11 DEF Next

THEOREM Inductive == Spec => []IInv
BY InitIInv, StepIInv, PTL DEF Spec

\* A watchdog process sends at most one stop request, over the trigger and
\* all its timer retries, whatever the service does.
THEOREM RequestOnce == Spec => []OneRequest
<1>1. IInv => OneRequest
  BY DEF IInv, Waiting, OneRequest
<1> QED
  BY <1>1, Inductive, PTL

\* The arm is stopped only for Consecutive over-threshold messages in a row.
THEOREM StopJustified == Spec => NoSpuriousStop
<1> USE WatchdogAssumption
<1>1. ASSUME IInv, [Next]_vars, estopTriggered', ~estopTriggered
      PROVE  /\ Len(handled') = Consecutive
             /\ \A i \in 1..Consecutive : handled'[i] = "over"
  <2>1. JointStates
    BY <1>1 DEF Next, vars, node, RetryTimer, EstopDone, Heartbeat, Publish,
       ServiceChanges, Crash, Restart, LoadChanges, ServiceAnswers, IInv, Armed
  <2>2. /\ inbox \in Readings /\ handled \in Seq(Readings)
        /\ Len(handled) <= Consecutive
        /\ overCount \in Nat /\ overCount < Consecutive /\ overCount <= Len(handled)
        /\ \A i \in 1..Len(handled) :
              i > Len(handled) - overCount => handled[i] = "over"
    BY <1>1, <2>1 DEF IInv, TypeOK, Armed, JointStates
  <2> DEFINE n == Newest(Append(handled, inbox))
  <2>3. /\ n \in Seq(Readings) /\ Len(n) <= Consecutive
        /\ Len(n) = IF Len(handled) < Consecutive THEN Len(handled) + 1 ELSE Len(handled)
        /\ n[Len(n)] = inbox
        /\ \A i \in 1..(Len(n) - 1) : n[i] = handled[i + Len(handled) + 1 - Len(n)]
    BY <2>2, NewestType
  <2>4. handled' = n
    BY <2>1 DEF JointStates
  <2> HIDE DEF n
  <2>5. Counted(inbox) >= Consecutive
    BY <1>1, <2>1 DEF JointStates, Ignored, Quiet
  <2>6. inbox = "over" /\ overCount + 1 = Consecutive
    BY <2>2, <2>5 DEF Counted
  <2>7. Len(n) = Consecutive
    BY <2>2, <2>3, <2>6
  <2>8. ASSUME NEW i \in 1..Consecutive PROVE n[i] = "over"
    <3>1. CASE i = Consecutive
      BY <3>1, <2>3, <2>6, <2>7
    <3>2. CASE i # Consecutive
      <4> DEFINE j == i + Len(handled) + 1 - Len(n)
      <4>1. /\ Len(handled) \in Nat /\ Len(n) \in {Len(handled), Len(handled) + 1}
            /\ overCount \in 0..Len(handled)
            /\ i \in 1..Len(n) /\ i # Len(n) /\ i > Len(n) - (overCount + 1)
        BY <2>2, <2>3, <2>6, <2>7, <3>2
      <4>2. /\ i \in 1..(Len(n) - 1)
            /\ j \in 1..Len(handled) /\ j > Len(handled) - overCount
        BY <4>1, Shift
      <4> QED
        BY <4>2, <2>2, <2>3
    <3> QED
      BY <3>1, <3>2
  <2> QED
    BY <2>4, <2>7, <2>8
<1>2. IInv /\ [Next]_vars
        => [estopTriggered' /\ ~estopTriggered =>
              /\ Len(handled') = Consecutive
              /\ \A i \in 1..Consecutive : handled'[i] = "over"]_vars
  BY <1>1
<1> QED
  BY <1>2, Inductive, PTL DEF Spec, NoSpuriousStop

\* The watchdog's state keeps its types; its counter never passes the limit.
THEOREM WatchdogTypes == Spec => []TypeOK
<1>1. IInv => TypeOK
  BY DEF IInv
<1> QED
  BY <1>1, Inductive, PTL

\* No message, no answer and no timer takes a triggered stop back; only the
\* crash of the node does.
THEOREM LatchHolds == Spec => StopLatched
<1>1. ASSUME [Next]_vars, estopTriggered, up' PROVE estopTriggered'
  BY <1>1, Zenon DEF Next, JointStates, Ignored, RetryTimer, EstopDone, Heartbeat, Publish,
     ServiceChanges, Crash, Restart, LoadChanges, ServiceAnswers, vars, node
<1>2. [Next]_vars => [estopTriggered /\ up' => estopTriggered']_vars
  BY <1>1
<1> QED
  BY <1>2, PTL DEF Spec, StopLatched
----------------------------------------------------------------------------
(* Nothing that must stop the arm is missed or dropped.                    *)

\* The counter is the whole run at the end of the handled messages: what came
\* before it, if it is still kept, was not over the threshold.
RunExact ==
    ~estopTriggered => \/ overCount = Len(handled)
                       \/ handled[Len(handled) - overCount] # "over"

\* Where the message before the run is after one more was appended.
LEMMA RunShift ==
    ASSUME NEW l \in Nat, NEW m \in Nat, NEW c \in 0..l, c # l,
           m = l + 1 \/ (m = l /\ c + 1 < l)
    PROVE  /\ m - (c + 1) \in 1..(m - 1)
           /\ (m - (c + 1)) + l + 1 - m = l - c
OBVIOUS

LEMMA JointStatesRun ==
    ASSUME IInv, RunExact, JointStates
    PROVE  RunExact'
<1> USE WatchdogAssumption
<1>1. CASE Ignored \/ Counted(inbox) >= Consecutive
  BY <1>1 DEF JointStates, Ignored, RunExact, node
<1>2. CASE ~Ignored /\ ~(Counted(inbox) >= Consecutive)
  <2>1. /\ inbox \in Readings /\ handled \in Seq(Readings) /\ Len(handled) <= Consecutive
        /\ overCount \in Nat /\ overCount < Consecutive /\ overCount <= Len(handled)
        /\ Len(handled) \in Nat
    BY <1>2 DEF IInv, TypeOK, Armed, JointStates, Ignored
  <2> DEFINE n == Newest(Append(handled, inbox))
  <2>2. /\ n \in Seq(Readings) /\ Len(n) <= Consecutive
        /\ Len(n) = IF Len(handled) < Consecutive THEN Len(handled) + 1 ELSE Len(handled)
        /\ n[Len(n)] = inbox
        /\ \A i \in 1..(Len(n) - 1) : n[i] = handled[i + Len(handled) + 1 - Len(n)]
    BY <2>1, NewestType
  <2>3. Len(n) \in Nat
    BY <2>1, <2>2
  <2>4. handled' = n /\ overCount' = Counted(inbox) /\ estopTriggered' = estopTriggered
    BY <1>2 DEF JointStates, Quiet
  <2> HIDE DEF n
  <2>5. CASE inbox # "over"
    <3>1. overCount' = 0 /\ Len(n) - 0 = Len(n)
      BY <2>2, <2>3, <2>4, <2>5 DEF Counted
    <3> QED
      BY <2>2, <2>3, <2>4, <2>5, <3>1 DEF RunExact
  <2>6. CASE inbox = "over"
    <3>1. overCount' = overCount + 1 /\ overCount + 1 < Consecutive
      BY <1>2, <2>1, <2>4, <2>6 DEF Counted
    <3>2. CASE overCount = Len(handled)
      <4>1. Len(n) = overCount + 1
        BY <2>1, <2>2, <3>2
      <4> QED
        BY <2>4, <3>1, <4>1 DEF RunExact
    <3>3. CASE overCount # Len(handled)
      <4> DEFINE k == Len(n) - (overCount + 1)
      <4>1. handled[Len(handled) - overCount] # "over"
        BY <1>2, <3>3 DEF RunExact, Ignored
      <4>2. k \in 1..(Len(n) - 1) /\ k + Len(handled) + 1 - Len(n) = Len(handled) - overCount
        <5>1. Len(n) = Len(handled) + 1 \/ (Len(n) = Len(handled) /\ overCount + 1 < Len(handled))
          BY <2>1, <2>2, <2>3, <3>1
        <5>2. overCount \in 0..Len(handled)
          BY <2>1
        <5> QED
          BY <2>1, <2>3, <3>3, <5>1, <5>2, RunShift
      <4>3. n[k] = handled[Len(handled) - overCount]
        BY <2>2, <4>2
      <4>4. handled'[Len(handled') - overCount'] # "over"
        BY <2>4, <3>1, <4>1, <4>3
      <4> QED
        BY <4>4 DEF RunExact
    <3> QED
      BY <3>2, <3>3
  <2> QED
    BY <2>5, <2>6
<1> QED
  BY <1>1, <1>2

LEMMA StepRun == ASSUME IInv, RunExact, [Next]_vars PROVE RunExact'
<1>1. CASE JointStates
  BY <1>1, JointStatesRun
<1>2. CASE Crash
  <2>1. overCount' = 0 /\ handled' = <<>>
    BY <1>2 DEF Crash
  <2>2. Len(handled') = 0
    BY <2>1
  <2> QED
    BY <2>1, <2>2 DEF RunExact
<1>3. CASE UNCHANGED <<estopTriggered, overCount, handled>>
  BY <1>3 DEF RunExact
<1> QED
  BY <1>1, <1>2, <1>3 DEF Next, RetryTimer, EstopDone, Heartbeat, Publish, ServiceChanges,
     Restart, LoadChanges, ServiceAnswers, vars, node

\* For any threshold count and any readings: the node has triggered the stop as
\* soon as it has handled Consecutive messages in a row over the threshold.
\* With StopJustified, it triggers exactly then.
THEOREM NoStopMissed == Spec => []NoMissedStop
<1>1. Init => RunExact
  <2> SUFFICES ASSUME Init PROVE RunExact
    OBVIOUS
  <2>1. overCount = 0 /\ handled = <<>>
    BY DEF Init, Fresh
  <2>2. Len(handled) = 0
    BY <2>1
  <2> QED
    BY <2>1, <2>2 DEF RunExact
<1>2. IInv /\ RunExact /\ [Next]_vars => RunExact'
  BY StepRun
<1>3. IInv /\ RunExact => NoMissedStop
  <2> SUFFICES ASSUME IInv, RunExact, Len(handled) = Consecutive, ~estopTriggered,
                      \A i \in 1..Consecutive : handled[i] = "over"
               PROVE  FALSE
    BY DEF NoMissedStop
  <2>1. overCount \in Nat /\ overCount < Consecutive
    BY DEF IInv, TypeOK, Armed
  <2>2. Len(handled) - overCount \in 1..Consecutive
    BY <2>1, WatchdogAssumption
  <2> QED
    BY <2>1, <2>2, WatchdogAssumption DEF RunExact
<1> QED
  BY <1>1, <1>2, <1>3, Inductive, PTL DEF Spec

\* Whether the service is up or not when the stop is triggered, at every retry
\* and whatever becomes of a request: the stop is not dropped unsent.
THEOREM StopIsPursued == Spec => []StopPursued
<1>1. Init => StopPursued
  BY DEF Init, Fresh, StopPursued
<1>2. ASSUME IInv, StopPursued, [Next]_vars PROVE StopPursued'
  <2>1. ASSUME CallEstopService, requests = 0 PROVE StopPursued'
    <3>1. CASE serviceUp
      <4>1. ~retryTimer' /\ requests' = 1
        <5>1. ~retryTimer'
          BY <2>1, <3>1, Zenon DEF CallEstopService
        <5>2. requests' = 1
          BY <2>1, <3>1 DEF CallEstopService
        <5> QED
          BY <5>1, <5>2
      <4> QED
        BY <4>1 DEF StopPursued
    <3>2. CASE ~serviceUp
      <4>1. retryTimer'
        BY <2>1, <3>2, Zenon DEF CallEstopService
      <4>2. requests' = 0
        BY <2>1, <3>2 DEF CallEstopService
      <4> QED
        BY <4>1, <4>2 DEF StopPursued
    <3> QED
      BY <3>1, <3>2
  <2>2. CASE JointStates
    <3>1. CASE ~Ignored /\ CallEstopService
      <4>1. requests = 0
        BY <1>2, <3>1 DEF IInv, Armed, Ignored
      <4> QED
        BY <2>1, <3>1, <4>1
    <3>2. CASE ~Ignored /\ Quiet
      BY <3>2 DEF Quiet, StopPursued, Ignored
    <3>3. CASE UNCHANGED node
      BY <1>2, <3>3 DEF node, StopPursued
    <3> QED
      BY <2>2, <3>1, <3>2, <3>3 DEF JointStates
  <2>3. CASE RetryTimer
    <3>1. requests = 0 /\ CallEstopService
      BY <1>2, <2>3 DEF RetryTimer, IInv, Waiting
    <3> QED
      BY <2>1, <3>1
  <2>4. CASE Crash
    BY <2>4 DEF Crash, StopPursued
  <2>5. CASE UNCHANGED <<estopTriggered, retryTimer, requests>>
    BY <1>2, <2>5 DEF StopPursued
  <2> QED
    BY <1>2, <2>2, <2>3, <2>4, <2>5 DEF Next, EstopDone, Heartbeat, Publish, ServiceChanges,
       Restart, LoadChanges, ServiceAnswers, vars, node
<1> QED
  BY <1>1, <1>2, Inductive, PTL DEF Spec
=============================================================================
