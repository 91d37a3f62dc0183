---------------------------- MODULE LaunchProofs ----------------------------
(***************************************************************************)
(* What holds of the sources and of the oracle client for every period,    *)
(* timeout, queue, recording and number of attempts, on every start and    *)
(* under signals at any time.                                              *)
(***************************************************************************)
EXTENDS Launch, TLAPS

\* The steps of the contract never take a close() back.
LEMMA ContractSteps ==
    ASSUME RunStarts \/ Yields \/ Ends \/ Processed \/ Signal \/ Drained \/ Closes
           \/ UNCHANGED contract
    PROVE  closed' = closed \/ closed' = TRUE
BY DEF RunStarts, Yields, Ends, Processed, Signal, Drained, Closes, contract

\* What Append and Tail do to a sequence.
LEMMA AppendFacts ==
    ASSUME NEW S, NEW s \in Seq(S), NEW e \in S
    PROVE  /\ Append(s, e) \in Seq(S) /\ Len(Append(s, e)) = Len(s) + 1 /\ Len(s) \in Nat
           /\ Append(s, e)[Len(s) + 1] = e
           /\ \A i \in 1..Len(s) : Append(s, e)[i] = s[i]
OBVIOUS

LEMMA TailFacts ==
    ASSUME NEW S, NEW s \in Seq(S), s # <<>>
    PROVE  /\ Tail(s) \in Seq(S) /\ Len(Tail(s)) = Len(s) - 1 /\ Len(s) \in Nat /\ Len(s) >= 1
           /\ Head(s) \in S /\ Head(s) = s[1]
           /\ \A i \in 1..Len(Tail(s)) : i + 1 \in 1..Len(s) /\ Tail(s)[i] = s[i + 1]
OBVIOUS

LEMMA ConcatFacts ==
    ASSUME NEW S, NEW s \in Seq(S), NEW t \in Seq(S)
    PROVE  /\ Len(s \o t) = Len(s) + Len(t)
           /\ \A i \in 1..Len(s) : (s \o t)[i] = s[i]
           /\ \A j \in 1..Len(t) : (s \o t)[Len(s) + j] = t[j]
OBVIOUS

----------------------------------------------------------------------------
(* The ROS 2 source.                                                       *)

\* An unflagged frame was built from a message that was fresh, and the timer
\* has run for Period - due since.
Watched ==
    /\ age \in Nat /\ due \in 0..Period
    /\ staleFlag \/ age <= Stale + (Period - due)

\* Frames in the order in which they were built: the one the bridge has, those
\* in the queue, those on their way to it.
Ordered ==
    /\ \A i \in 1..Len(queue) : got < queue[i] /\ queue[i] <= emitted
    /\ \A j \in 1..Len(posted) : got < posted[j] /\ posted[j] <= emitted
    /\ \A i, j \in 1..Len(queue) : i < j => queue[i] < queue[j]
    /\ \A i, j \in 1..Len(posted) : i < j => posted[i] < posted[j]
    /\ \A i \in 1..Len(queue), j \in 1..Len(posted) : queue[i] < posted[j]

Newest ==
    IF posted # <<>> THEN posted[Len(posted)] = emitted
    ELSE IF queue # <<>> THEN queue[Len(queue)] = emitted
    ELSE got = emitted

Lined ==
    /\ emitted \in Nat /\ got \in Nat /\ queue \in Seq(Nat) /\ posted \in Seq(Nat)
    /\ closed \/ (Ordered /\ Newest)

RosInv == Watched /\ Lined

LEMMA InitRos == ASSUME Init PROVE RosInv
<1>1. Watched
  BY RosAssumption DEF Init, RosInit, Watched
<1>2. Lined
  BY DEF Init, RosInit, Lined, Ordered, Newest
<1> QED
  BY <1>1, <1>2 DEF RosInv

LEMMA TickRos == ASSUME RosInv, RosTick PROVE RosInv'
<1>1. Watched'
  BY RosAssumption DEF RosInv, Watched, RosTick
<1>2. Lined'
  BY DEF RosInv, Lined, Ordered, Newest, RosTick, contract
<1> QED
  BY <1>1, <1>2 DEF RosInv

LEMMA TimerRos == ASSUME RosInv, TimerCb PROVE RosInv'
<1>1. Watched'
  <2>1. age \in Nat /\ age' = age /\ due' = Period /\ staleFlag' = IsStale
    BY DEF RosInv, Watched, TimerCb
  <2>2. CASE age > Stale
    <3>1. IsStale
      BY <2>2 DEF IsStale
    <3> QED
      BY <2>1, <3>1, RosAssumption DEF Watched
  <2>3. CASE age <= Stale
    BY <2>1, <2>3, RosAssumption DEF Watched
  <2> QED
    BY <2>1, <2>2, <2>3, RosAssumption
<1>2. /\ posted' = Append(posted, emitted + 1) /\ emitted' = emitted + 1
      /\ UNCHANGED <<queue, got, closed>>
  BY DEF TimerCb, contract
<1>3. emitted' \in Nat /\ posted' \in Seq(Nat) /\ Len(posted') = Len(posted) + 1 /\ Len(posted) \in Nat
  BY <1>2 DEF RosInv, Lined
<1>4. /\ posted'[Len(posted) + 1] = emitted + 1
      /\ \A j \in 1..Len(posted) : posted'[j] = posted[j]
  BY <1>2 DEF RosInv, Lined
<1>5. CASE closed
  BY <1>1, <1>2, <1>3, <1>5 DEF RosInv, Lined
<1>6. CASE ~closed
  <2>0. Ordered /\ queue \in Seq(Nat) /\ emitted \in Nat /\ got \in Nat /\ got <= emitted
    BY <1>6 DEF RosInv, Lined, Ordered, Newest
  <2>1. Ordered'
    <3>1. \A j \in 1..Len(posted') : \/ j \in 1..Len(posted) /\ posted'[j] = posted[j]
                                     \/ j = Len(posted) + 1 /\ posted'[j] = emitted + 1
      BY <1>3, <1>4
    <3>2. \A i \in 1..Len(queue) : queue[i] \in Nat
      BY <2>0
    <3>3. \A j \in 1..Len(posted) : posted[j] \in Nat
      BY DEF RosInv, Lined
    <3>4. \A i \in 1..Len(queue) : got < queue[i] /\ queue[i] <= emitted + 1
      BY <2>0, <3>2 DEF Ordered
    <3>5. \A j \in 1..Len(posted') : got < posted'[j] /\ posted'[j] <= emitted + 1
      BY <2>0, <3>1, <3>3 DEF Ordered
    <3>6. \A i, j \in 1..Len(posted') : i < j => posted'[i] < posted'[j]
      <4> SUFFICES ASSUME NEW i \in 1..Len(posted'), NEW j \in 1..Len(posted'), i < j
                   PROVE  posted'[i] < posted'[j]
        OBVIOUS
      <4>1. i \in 1..Len(posted) /\ posted'[i] = posted[i]
        BY <1>3, <3>1
      <4>2. CASE j \in 1..Len(posted) /\ posted'[j] = posted[j]
        BY <4>1, <4>2, <2>0 DEF Ordered
      <4>3. CASE posted'[j] = emitted + 1
        BY <4>1, <4>3, <2>0, <3>3 DEF Ordered
      <4> QED
        BY <4>2, <4>3, <3>1
    <3>7. \A i \in 1..Len(queue), j \in 1..Len(posted') : queue[i] < posted'[j]
      BY <2>0, <3>1, <3>2, <3>3 DEF Ordered
    <3> QED
      BY <1>2, <2>0, <3>4, <3>5, <3>6, <3>7 DEF Ordered
  <2>2. Newest'
    BY <1>2, <1>3, <1>4 DEF Newest
  <2> QED
    BY <1>1, <1>2, <1>3, <2>1, <2>2 DEF RosInv, Lined
<1> QED
  BY <1>5, <1>6

LEMMA PutRos == ASSUME RosInv, QueuePutNowait PROVE RosInv'
<1> DEFINE rest == IF Len(queue) = QueueMax THEN Tail(queue) ELSE queue
<1>1. Watched'
  BY DEF RosInv, Watched, QueuePutNowait, node
<1>2. /\ posted # <<>> /\ posted' = Tail(posted) /\ queue' = Append(rest, Head(posted))
      /\ UNCHANGED <<emitted, got, closed>>
  BY DEF QueuePutNowait, Put, node, contract
<1>3. /\ posted \in Seq(Nat) /\ queue \in Seq(Nat) /\ emitted \in Nat /\ got \in Nat
      /\ Len(queue) \in Nat /\ Len(posted) \in Nat /\ Len(posted) >= 1
  BY <1>2 DEF RosInv, Lined
<1>4. /\ Head(posted) \in Nat /\ Head(posted) = posted[1] /\ posted' \in Seq(Nat)
      /\ Len(posted') = Len(posted) - 1
      /\ \A j \in 1..Len(posted') : posted'[j] = posted[j + 1]
  BY <1>2, <1>3, TailFacts
<1>5. PICK k \in {0, 1} :
          /\ rest \in Seq(Nat) /\ Len(rest) = Len(queue) - k
          /\ \A i \in 1..Len(rest) : rest[i] = queue[i + k]
  <2>1. CASE Len(queue) = QueueMax
    <3>1. queue # <<>>
      BY <2>1, <1>3, RosAssumption
    <3>2. /\ rest \in Seq(Nat) /\ Len(rest) = Len(queue) - 1
          /\ \A i \in 1..Len(rest) : rest[i] = queue[i + 1]
      BY <2>1, <3>1, <1>3
    <3> QED
      BY <3>2
  <2>2. CASE Len(queue) # QueueMax
    <3>1. rest = queue
      BY <2>2
    <3>2. /\ rest \in Seq(Nat) /\ Len(rest) = Len(queue) - 0
          /\ \A i \in 1..Len(rest) : rest[i] = queue[i + 0]
      <4>1. \A i \in 1..Len(queue) : queue[i] = queue[i + 0]
        BY <1>3
      <4> HIDE DEF rest
      <4> QED
        BY <3>1, <4>1, <1>3
    <3> QED
      BY <3>2
  <2> QED
    BY <2>1, <2>2
<1> HIDE DEF rest
<1>6. /\ queue' \in Seq(Nat) /\ Len(queue') = Len(rest) + 1 /\ Len(rest) \in Nat
      /\ queue'[Len(rest) + 1] = posted[1]
      /\ \A i \in 1..Len(rest) : queue'[i] = rest[i]
  BY <1>2, <1>4, <1>5, AppendFacts
<1>7. \A i \in 1..Len(rest) : i + k \in 1..Len(queue) /\ queue'[i] = queue[i + k]
  <2> SUFFICES ASSUME NEW i \in 1..Len(rest)
               PROVE  i + k \in 1..Len(queue) /\ queue'[i] = queue[i + k]
    OBVIOUS
  <2>1. i \in Nat /\ i >= 1 /\ i <= Len(rest) /\ k \in Nat
    BY <1>6
  <2>2. i + k \in 1..Len(queue)
    BY <2>1, <1>3, <1>5
  <2> QED
    BY <2>2, <1>5, <1>6
<1>8. CASE closed
  BY <1>1, <1>2, <1>3, <1>4, <1>6, <1>8 DEF RosInv, Lined
<1>9. CASE ~closed
  <2>1. Ordered
    BY <1>9 DEF RosInv, Lined
  <2>2. \A i \in 1..Len(queue') : \/ i \in 1..Len(rest) /\ queue'[i] = queue[i + k]
                                  \/ i = Len(rest) + 1 /\ queue'[i] = posted[1]
    BY <1>6, <1>7
  <2>3. \A j \in 1..Len(posted') : j + 1 \in 1..Len(posted) /\ posted'[j] = posted[j + 1]
    BY <1>2, <1>3, TailFacts
  <2>4. 1 \in 1..Len(posted)
    BY <1>3
  <2>5. \A i \in 1..Len(queue') : got < queue'[i] /\ queue'[i] <= emitted
    BY <2>1, <2>2, <2>4, <1>7 DEF Ordered
  <2>6. \A j \in 1..Len(posted') : got < posted'[j] /\ posted'[j] <= emitted
    BY <2>1, <2>3 DEF Ordered
  <2>7. \A i, j \in 1..Len(queue') : i < j => queue'[i] < queue'[j]
    <3> SUFFICES ASSUME NEW i \in 1..Len(queue'), NEW j \in 1..Len(queue'), i < j
                 PROVE  queue'[i] < queue'[j]
      OBVIOUS
    <3>1. i \in 1..Len(rest) /\ queue'[i] = queue[i + k] /\ i + k \in 1..Len(queue)
      BY <1>6, <1>7
    <3>2. CASE j \in 1..Len(rest)
      BY <3>1, <3>2, <1>7, <1>5, <2>1 DEF Ordered
    <3>3. CASE j = Len(rest) + 1
      BY <3>1, <3>3, <1>6, <2>1, <2>4 DEF Ordered
    <3> QED
      BY <3>2, <3>3, <2>2
  <2>8. \A i, j \in 1..Len(posted') : i < j => posted'[i] < posted'[j]
    BY <2>1, <2>3 DEF Ordered
  <2>9. \A i \in 1..Len(queue'), j \in 1..Len(posted') : queue'[i] < posted'[j]
    <3> SUFFICES ASSUME NEW i \in 1..Len(queue'), NEW j \in 1..Len(posted')
                 PROVE  queue'[i] < posted'[j]
      OBVIOUS
    <3>1. j + 1 \in 1..Len(posted) /\ posted'[j] = posted[j + 1] /\ 1 < j + 1
      BY <2>3
    <3>2. CASE i \in 1..Len(rest) /\ queue'[i] = queue[i + k]
      BY <3>1, <3>2, <1>7, <2>1 DEF Ordered
    <3>3. CASE i = Len(rest) + 1 /\ queue'[i] = posted[1]
      BY <3>1, <3>3, <2>1, <2>4 DEF Ordered
    <3> QED
      BY <3>2, <3>3, <2>2
  <2>10. Ordered'
    BY <1>2, <2>5, <2>6, <2>7, <2>8, <2>9 DEF Ordered
  <2>11. posted[Len(posted)] = emitted
    BY <1>2, <1>9 DEF RosInv, Lined, Newest
  <2>12. CASE posted' = <<>>
    <3>1. Len(posted) = 1
      BY <1>3, <1>4, <2>12
    <3>2. queue' # <<>> /\ queue'[Len(queue')] = emitted'
      BY <1>2, <1>6, <2>11, <3>1
    <3> QED
      BY <2>12, <3>2, <1>1, <1>2, <1>3, <1>4, <1>6, <2>10 DEF RosInv, Lined, Newest
  <2>13. CASE posted' # <<>>
    <3>1. Len(posted') \in 1..Len(posted')
      BY <1>4, <2>13
    <3>2. posted'[Len(posted')] = emitted'
      BY <1>2, <1>3, <1>4, <2>11, <3>1
    <3> QED
      BY <2>13, <3>2, <1>1, <1>2, <1>3, <1>4, <1>6, <2>10 DEF RosInv, Lined, Newest
  <2> QED
    BY <2>12, <2>13
<1> QED
  BY <1>8, <1>9

\* The bridge takes the oldest frame; before close() that is never None.
LEMMA StreamRos == ASSUME RosInv, RosStream PROVE RosInv'
<1>1. Watched'
  BY DEF RosInv, Watched, RosStream, node
<1>2. /\ UNCHANGED <<emitted, posted>> /\ closed' = closed
  BY DEF RosStream, node, Ends, Yields
<1>3. CASE closed
  <2>1. UNCHANGED <<queue, got>>
    BY <1>3 DEF RosStream
  <2> QED
    BY <1>1, <1>2, <1>3, <2>1 DEF RosInv, Lined
<1>4. CASE ~closed
  <2>1. /\ queue # <<>> /\ queue' = Tail(queue)
        /\ Head(queue) # 0 => got' = Head(queue)
    BY <1>4 DEF RosStream
  <2>2. Ordered /\ Newest /\ queue \in Seq(Nat) /\ posted \in Seq(Nat) /\ got \in Nat /\ emitted \in Nat
    BY <1>4 DEF RosInv, Lined
  <2>3. /\ queue' \in Seq(Nat) /\ Len(queue') = Len(queue) - 1 /\ Len(queue) \in Nat /\ Len(queue) >= 1
        /\ Head(queue) \in Nat /\ Head(queue) = queue[1]
        /\ \A i \in 1..Len(queue') : i + 1 \in 1..Len(queue) /\ queue'[i] = queue[i + 1]
    BY <2>1, <2>2, TailFacts
  <2>4. 1 \in 1..Len(queue) /\ got < queue[1]
    BY <2>2, <2>3 DEF Ordered
  <2>5. got' = queue[1] /\ got' \in Nat
    BY <2>1, <2>2, <2>3, <2>4
  <2>6. Ordered'
    <3>1. \A i \in 1..Len(queue') : got' < queue'[i] /\ queue'[i] <= emitted
      <4> SUFFICES ASSUME NEW i \in 1..Len(queue') PROVE got' < queue'[i] /\ queue'[i] <= emitted
        OBVIOUS
      <4>1. i + 1 \in 1..Len(queue) /\ queue'[i] = queue[i + 1] /\ 1 < i + 1
        BY <2>3
      <4> QED
        BY <4>1, <2>2, <2>4, <2>5 DEF Ordered
    <3>2. \A j \in 1..Len(posted) : got' < posted[j] /\ posted[j] <= emitted
      BY <2>2, <2>4, <2>5 DEF Ordered
    <3>3. \A i, j \in 1..Len(queue') : i < j => queue'[i] < queue'[j]
      <4> SUFFICES ASSUME NEW i \in 1..Len(queue'), NEW j \in 1..Len(queue'), i < j
                   PROVE  queue'[i] < queue'[j]
        OBVIOUS
      <4>1. /\ i + 1 \in 1..Len(queue) /\ queue'[i] = queue[i + 1]
            /\ j + 1 \in 1..Len(queue) /\ queue'[j] = queue[j + 1]
            /\ i + 1 < j + 1
        BY <2>3
      <4> QED
        BY <4>1, <2>2 DEF Ordered
    <3>4. \A i \in 1..Len(queue'), j \in 1..Len(posted) : queue'[i] < posted[j]
      BY <2>2, <2>3 DEF Ordered
    <3> QED
      BY <1>2, <2>2, <3>1, <3>2, <3>3, <3>4 DEF Ordered
  <2>7. Newest'
    <3>1. CASE posted # <<>>
      BY <3>1, <1>2, <2>2 DEF Newest
    <3>2. CASE posted = <<>>
      <4>1. queue[Len(queue)] = emitted
        BY <3>2, <2>1, <2>2 DEF Newest
      <4>2. CASE Len(queue) = 1
        <5>1. queue' = <<>>
          BY <4>2, <2>3
        <5> QED
          BY <5>1, <4>1, <4>2, <3>2, <1>2, <2>5 DEF Newest
      <4>3. CASE Len(queue) > 1
        <5>1. queue' # <<>> /\ Len(queue') \in 1..Len(queue')
          BY <4>3, <2>3
        <5>2. queue'[Len(queue')] = emitted
          BY <5>1, <4>1, <2>3
        <5> QED
          BY <5>1, <5>2, <3>2, <1>2 DEF Newest
      <4> QED
        BY <4>2, <4>3, <2>3
    <3> QED
      BY <3>1, <3>2
  <2> QED
    BY <1>1, <1>2, <2>2, <2>3, <2>5, <2>6, <2>7 DEF RosInv, Lined
<1> QED
  BY <1>3, <1>4

\* After close() there is nothing left to show.
LEMMA CloseRos == ASSUME RosInv, RosClose PROVE RosInv'
<1>1. Watched'
  BY DEF RosInv, Watched, RosClose
<1>2. /\ closed' = TRUE /\ UNCHANGED <<emitted, got, posted>>
      /\ queue' = queue \/ queue' = Append(queue, 0)
  BY DEF RosClose, Closes
<1>3. queue \in Seq(Nat) /\ 0 \in Nat
  BY DEF RosInv, Lined
<1>4. queue' \in Seq(Nat)
  BY <1>2, <1>3, AppendFacts
<1> QED
  BY <1>1, <1>2, <1>4 DEF RosInv, Lined

LEMMA OthersRos ==
    ASSUME RosInv, UNCHANGED ros, closed' = closed \/ closed' = TRUE
    PROVE  RosInv'
<1>1. Watched'
  BY DEF RosInv, Watched, ros, node
<1>2. Lined'
  BY DEF RosInv, Lined, Ordered, Newest, ros, node
<1> QED
  BY <1>1, <1>2 DEF RosInv

LEMMA StepRos == ASSUME RosInv, [Next]_vars PROVE RosInv'
<1>1. CASE RunsRos
  <2>1. CASE RosStarts
    <3>1. UNCHANGED <<age, due, staleFlag, emitted, posted, queue, got, closed>>
      BY <2>1 DEF RosStarts, RunStarts
    <3> QED
      BY <3>1 DEF RosInv, Watched, Lined, Ordered, Newest
  <2>2. CASE JointStates
    <3>1. /\ age' = 0 /\ UNCHANGED <<due, staleFlag, emitted, posted, queue, got, closed>>
      BY <2>2 DEF JointStates, contract
    <3>2. Watched'
      BY <3>1, RosAssumption DEF RosInv, Watched
    <3> QED
      BY <3>1, <3>2 DEF RosInv, Lined, Ordered, Newest
  <2>3. CASE SpinFails
    <3>1. UNCHANGED <<age, due, staleFlag, emitted, posted, queue, got, closed>>
      BY <2>3 DEF SpinFails, contract
    <3> QED
      BY <3>1 DEF RosInv, Watched, Lined, Ordered, Newest
  <2> QED
    BY <1>1, <2>1, <2>2, <2>3, TickRos, TimerRos, PutRos, StreamRos, CloseRos DEF RunsRos, RosNext
<1>2. CASE RunsRecorded
  <2>1. UNCHANGED ros
    BY <1>2 DEF RunsRecorded
  <2>2. closed' = closed \/ closed' = TRUE
    BY <1>2, ContractSteps DEF RunsRecorded, RecordedNext, RecordedStarts, Replay, YieldStart,
       YieldRow, YieldEnd, Looped, RecordedClose, EnsureCap, ReadFrame
  <2> QED
    BY <2>1, <2>2, OthersRos
<1>3. CASE Handles \/ Routes
  BY <1>3, ContractSteps, OthersRos DEF Handles, Routes
<1>4. CASE Configure \/ BuildSource \/ BuildPrivacyProvider \/ Exit
  BY <1>4, ContractSteps, OthersRos DEF Configure, BuildSource, BuildPrivacyProvider, Exit, Reaches, Idle
<1>5. CASE Consulting
  BY <1>5, ContractSteps, OthersRos DEF Consulting
<1>6. ASSUME NEW w \in Workers, Fetches(w) \/ Consults(w) \/ Finishes(w)
      PROVE  RosInv'
  BY <1>6, ContractSteps, OthersRos DEF Fetches, Consults, Finishes
<1>7. CASE UNCHANGED vars
  BY <1>7, ContractSteps, OthersRos DEF vars
<1> QED
  BY <1>1, <1>2, <1>3, <1>4, <1>5, <1>6, <1>7 DEF Next

\* However messages and timer interleave: a frame built from a joint state that
\* was stale is flagged.
THEOREM SourceReportsSilence == Spec => []SilenceReported
<1>1. RosInv => SilenceReported
  BY RosAssumption DEF RosInv, Watched, SilenceReported
<1> QED
  BY <1>1, InitRos, StepRos, PTL DEF Spec

\* The line of frames, one after the other.
LEMMA LineOrdered == ASSUME RosInv PROVE NewestKept
<1> DEFINE front == <<got>> \o queue
           line == front \o posted
<1>1. CASE closed
  BY <1>1 DEF NewestKept
<1>2. CASE ~closed
  <2>1. /\ Ordered /\ Newest /\ queue \in Seq(Nat) /\ posted \in Seq(Nat) /\ got \in Nat
        /\ Len(queue) \in Nat /\ Len(posted) \in Nat
    BY <1>2 DEF RosInv, Lined
  <2>2. /\ front \in Seq(Nat) /\ Len(front) = Len(queue) + 1
        /\ front[1] = got /\ \A i \in 1..Len(queue) : front[i + 1] = queue[i]
    BY <2>1
  <2> HIDE DEF front
  <2>3. /\ Len(line) = Len(front) + Len(posted)
        /\ \A i \in 1..Len(front) : line[i] = front[i]
        /\ \A j \in 1..Len(posted) : line[Len(front) + j] = posted[j]
    <3>1. front \in Seq(Nat) /\ posted \in Seq(Nat)
      BY <2>1, <2>2
    <3>2. /\ Len(front \o posted) = Len(front) + Len(posted)
          /\ \A i \in 1..Len(front) : (front \o posted)[i] = front[i]
          /\ \A j \in 1..Len(posted) : (front \o posted)[Len(front) + j] = posted[j]
      BY <3>1, ConcatFacts
    <3> QED
      BY <3>2
  <2> HIDE DEF line
  <2>4. line[1] = got /\ \A i \in 1..Len(queue) : line[i + 1] = queue[i]
    <3>1. 1 \in 1..Len(front) /\ \A i \in 1..Len(queue) : i + 1 \in 1..Len(front)
      BY <2>1, <2>2
    <3> QED
      BY <3>1, <2>2, <2>3
  <2>5. line[Len(line)] = emitted
    <3>1. CASE posted # <<>>
      <4>1. Len(posted) \in 1..Len(posted)
        BY <3>1, <2>1
      <4> QED
        BY <4>1, <3>1, <2>1, <2>3 DEF Newest
    <3>2. CASE posted = <<>> /\ queue # <<>>
      <4>1. Len(queue) \in 1..Len(queue) /\ Len(posted) = 0
        BY <3>2, <2>1
      <4> QED
        BY <4>1, <3>2, <2>1, <2>2, <2>3, <2>4 DEF Newest
    <3>3. CASE posted = <<>> /\ queue = <<>>
      <4>1. Len(queue) = 0 /\ Len(posted) = 0
        BY <3>3
      <4> QED
        BY <4>1, <3>3, <2>1, <2>2, <2>3, <2>4 DEF Newest
    <3> QED
      BY <3>1, <3>2, <3>3
  <2>6. ASSUME NEW i \in 1..(Len(line) - 1)
        PROVE  line[i] < line[i + 1]
    <3>1. CASE i = 1 /\ 1 \in 1..Len(queue)
      BY <3>1, <2>1, <2>4 DEF Ordered
    <3>2. CASE i = 1 /\ Len(queue) = 0
      <4>1. 1 \in 1..Len(posted) /\ line[2] = posted[1]
        BY <3>2, <2>1, <2>2, <2>3
      <4> QED
        BY <4>1, <3>2, <2>1, <2>4 DEF Ordered
    <3>3. CASE i - 1 \in 1..Len(queue) /\ i \in 1..Len(queue)
      <4>1. line[(i - 1) + 1] = queue[i - 1] /\ line[i + 1] = queue[i] /\ i - 1 < i /\ (i - 1) + 1 = i
        BY <3>3, <2>4
      <4> QED
        BY <4>1, <3>3, <2>1 DEF Ordered
    <3>4. CASE i = Len(queue) + 1 /\ Len(queue) > 0
      <4>1. /\ Len(queue) \in 1..Len(queue) /\ line[i] = queue[Len(queue)]
            /\ 1 \in 1..Len(posted) /\ line[i + 1] = posted[1]
        <5>1. Len(queue) \in 1..Len(queue) /\ 1 \in 1..Len(posted) /\ Len(front) + 1 = i + 1
          BY <3>4, <2>1, <2>2, <2>3
        <5>2. line[Len(queue) + 1] = queue[Len(queue)]
          BY <5>1, <2>4
        <5>3. line[Len(front) + 1] = posted[1]
          BY <5>1, <2>3
        <5> QED
          BY <5>1, <5>2, <5>3, <3>4
      <4> QED
        BY <4>1, <2>1 DEF Ordered
    <3>5. CASE i > Len(queue) + 1
      <4> DEFINE j == i - (Len(queue) + 1)
      <4>1. /\ j \in 1..Len(posted) /\ j + 1 \in 1..Len(posted) /\ j < j + 1
            /\ Len(front) + j = i /\ Len(front) + (j + 1) = i + 1
        BY <3>5, <2>1, <2>2, <2>3
      <4> HIDE DEF j
      <4>2. line[i] = posted[j] /\ line[i + 1] = posted[j + 1]
        BY <4>1, <2>3
      <4> QED
        BY <4>1, <4>2, <2>1 DEF Ordered
    <3> QED
      BY <3>1, <3>2, <3>3, <3>4, <3>5, <2>1, <2>2, <2>3
  <2> QED
    BY <2>5, <2>6 DEF NewestKept, line, front
<1> QED
  BY <1>1, <1>2

\* However slow the bridge is and however small its queue, frames come in
\* order and the newest is not lost.
THEOREM NewestIsKept == Spec => []NewestKept
BY InitRos, StepRos, LineOrdered, PTL DEF Spec

----------------------------------------------------------------------------
(* The oracle client.                                                      *)

Calls == [pc : {"idle", "asking", "backoff", "decided", "raised"}, attempt : Nat,
          elapsed : Nat, deadline : Nat, wait : Nat]

\* A call under way has one deadline, runs within it and has an attempt left
\* while it waits.
Settled(c, tries) ==
    /\ c.elapsed <= Timeout /\ c.attempt <= tries
    /\ c.pc \in {"asking", "backoff"} => c.deadline = Timeout /\ c.attempt >= 1
    /\ c.pc = "backoff" => c.attempt < tries

OracleInv ==
    /\ call \in [Callers -> Calls]
    /\ \A w \in Callers : Settled(call[w], Tries(w))

LEMMA TriesFact == \A w \in Callers : Tries(w) \in Nat /\ Tries(w) >= 1
BY OracleAssumption DEF Tries

LEMMA BackoffFact == \A n \in Nat : n >= 1 => Backoff(n) \in Nat
BY DEF Backoff

LEMMA QuietFacts == ASSUME NEW w \in Callers
                    PROVE  Quiet \in Calls /\ Settled(Quiet, Tries(w)) /\ Quiet.pc = "idle"
<1>1. Quiet \in Calls
  BY DEF Quiet, Calls
<1> QED
  BY <1>1, TriesFact, OracleAssumption DEF Quiet, Settled

\* A change of one call: what the next record has to satisfy.
LEMMA OneCall ==
    ASSUME OracleInv, NEW w \in Callers, NEW c \in Calls,
           call' = [call EXCEPT ![w] = c], Settled(c, Tries(w))
    PROVE  OracleInv'
<1>1. call' \in [Callers -> Calls]
  BY DEF OracleInv
<1>2. ASSUME NEW v \in Callers PROVE Settled(call'[v], Tries(v))
  <2>1. CASE v = w
    BY <2>1 DEF OracleInv
  <2>2. CASE v # w
    <3>1. call'[v] = call[v]
      BY <2>2 DEF OracleInv
    <3> QED
      BY <3>1 DEF OracleInv
  <2> QED
    BY <2>1, <2>2
<1>3. \A v \in Callers : Tries(v)' = Tries(v)
  BY DEF Tries
<1> QED
  BY <1>1, <1>2, <1>3 DEF OracleInv, Settled

\* The calls of workers that are cancelled are over.
LEMMA AllQuiet == ASSUME call' = [w \in Callers |-> Quiet] PROVE OracleInv'
<1>1. \A w \in Callers : Quiet \in Calls /\ Settled(Quiet, Tries(w))
  BY QuietFacts
<1>2. call' \in [Callers -> Calls] /\ \A w \in Callers : Settled(call'[w], Tries(w))
  BY <1>1
<1> QED
  BY <1>2 DEF OracleInv, Settled, Tries

LEMMA InitOracle == ASSUME Init PROVE OracleInv
<1>1. call = [w \in Callers |-> Quiet]
  BY DEF Init, OracleInit
<1> QED
  BY <1>1, QuietFacts DEF OracleInv

\* The end of a call, with a decision or an error.
LEMMA CallEnds ==
    ASSUME OracleInv, NEW w \in Callers, NEW end \in {"decided", "raised"},
           call' = [call EXCEPT ![w].pc = end]
    PROVE  OracleInv'
<1> DEFINE next == [call[w] EXCEPT !.pc = end]
<1>1. call[w] \in Calls /\ Settled(call[w], Tries(w))
  BY DEF OracleInv
<1>2. next \in Calls /\ next.pc = end /\ next.elapsed = call[w].elapsed
      /\ next.attempt = call[w].attempt
  BY <1>1 DEF Calls
<1>3. call' = [call EXCEPT ![w] = next]
  OBVIOUS
<1> HIDE DEF next
<1>4. Settled(next, Tries(w))
  BY <1>1, <1>2 DEF Settled
<1> QED
  BY <1>2, <1>3, <1>4, OneCall

LEMMA CheckOracle == ASSUME OracleInv, NEW w \in Callers, Check(w) PROVE OracleInv'
<1>1. CASE hasKey
  <2> DEFINE next == [Quiet EXCEPT !.pc = "asking", !.attempt = 1, !.deadline = Timeout]
  <2>1. call' = [call EXCEPT ![w] = next]
    BY <1>1 DEF Check
  <2>2. next \in Calls /\ Settled(next, Tries(w))
    <3>1. Quiet \in Calls /\ Timeout \in Nat
      BY QuietFacts, OracleAssumption
    <3>2. next \in Calls
      BY <3>1 DEF Calls
    <3>3. /\ next.pc = "asking" /\ next.attempt = 1 /\ next.deadline = Timeout
          /\ next.elapsed = 0
      BY DEF Quiet
    <3> HIDE DEF next
    <3> QED
      BY <3>1, <3>2, <3>3, TriesFact DEF Settled
  <2> HIDE DEF next
  <2> QED
    BY <2>1, <2>2, OneCall
<1>2. CASE ~hasKey
  BY <1>2, CallEnds DEF Check, Decides
<1> QED
  BY <1>1, <1>2

LEMMA CallFailsOracle == ASSUME OracleInv, NEW w \in Callers, CallFails(w) PROVE OracleInv'
<1>1. CASE call[w].attempt < Tries(w)
  <2> DEFINE next == [call[w] EXCEPT !.pc = "backoff", !.wait = Backoff(call[w].attempt)]
  <2>1. call[w] \in Calls /\ call[w].pc = "asking" /\ Settled(call[w], Tries(w))
    BY DEF OracleInv, CallFails
  <2>2. Backoff(call[w].attempt) \in Nat
    BY <2>1, BackoffFact DEF Calls, Settled
  <2>3. next \in Calls
    BY <2>1, <2>2 DEF Calls
  <2>4. /\ next.pc = "backoff"
        /\ next.elapsed = call[w].elapsed /\ next.attempt = call[w].attempt
        /\ next.deadline = call[w].deadline
    BY <2>1 DEF Calls
  <2>5. call' = [call EXCEPT ![w] = next]
    BY <1>1 DEF CallFails, Retry
  <2> HIDE DEF next
  <2>6. Settled(next, Tries(w))
    BY <1>1, <2>1, <2>4 DEF Settled
  <2> QED
    BY <2>3, <2>5, <2>6, OneCall
<1>2. CASE ~(call[w].attempt < Tries(w))
  BY <1>2, CallEnds DEF CallFails, Decides
<1> QED
  BY <1>1, <1>2

LEMMA AsksAgainOracle == ASSUME OracleInv, NEW w \in Callers, AsksAgain(w) PROVE OracleInv'
<1> DEFINE next == [call[w] EXCEPT !.pc = "asking", !.attempt = call[w].attempt + 1]
<1>1. call[w] \in Calls /\ call[w].pc = "backoff" /\ Settled(call[w], Tries(w))
  BY DEF OracleInv, AsksAgain
<1>2. next \in Calls
  <2>1. call[w].attempt + 1 \in Nat
    BY <1>1 DEF Calls
  <2> QED
    BY <1>1, <2>1 DEF Calls
<1>3. /\ next.pc = "asking"
      /\ next.elapsed = call[w].elapsed /\ next.attempt = call[w].attempt + 1
      /\ next.deadline = call[w].deadline /\ call[w].attempt \in Nat
  BY <1>1 DEF Calls
<1>4. call' = [call EXCEPT ![w] = next]
  BY DEF AsksAgain
<1> HIDE DEF next
<1>5. Settled(next, Tries(w))
  BY <1>1, <1>3, TriesFact DEF Settled
<1> QED
  BY <1>2, <1>4, <1>5, OneCall

LEMMA TickOracle == ASSUME OracleInv, OracleTick PROVE OracleInv'
<1> DEFINE next(w) ==
      [call[w] EXCEPT !.elapsed = call[w].elapsed + 1,
         !.wait = IF call[w].pc = "backoff" THEN call[w].wait - 1 ELSE call[w].wait]
<1>1. call' = [w \in Callers |-> IF ~Asking(w) THEN call[w] ELSE next(w)]
  BY DEF OracleTick
<1>2. ASSUME NEW w \in Callers PROVE call'[w] \in Calls /\ Settled(call'[w], Tries(w))
  <2>1. call[w] \in Calls /\ Settled(call[w], Tries(w))
    BY DEF OracleInv
  <2>2. CASE ~Asking(w)
    BY <1>1, <2>1, <2>2
  <2>3. CASE Asking(w)
    <3>1. call'[w] = next(w)
      BY <1>1, <2>3
    <3>2. /\ call[w].elapsed < call[w].deadline /\ (call[w].pc = "backoff" => call[w].wait > 0)
          /\ call[w].deadline = Timeout
      BY <2>1, <2>3 DEF OracleTick, Asking, Settled
    <3>3. next(w) \in Calls
      <4>1. call[w].elapsed + 1 \in Nat
        BY <2>1 DEF Calls
      <4>2. (IF call[w].pc = "backoff" THEN call[w].wait - 1 ELSE call[w].wait) \in Nat
        BY <2>1, <3>2 DEF Calls
      <4> QED
        BY <2>1, <4>1, <4>2 DEF Calls
    <3>4. /\ next(w).pc = call[w].pc
          /\ next(w).elapsed = call[w].elapsed + 1 /\ next(w).attempt = call[w].attempt
          /\ next(w).deadline = call[w].deadline /\ call[w].elapsed \in Nat
      BY <2>1 DEF Calls
    <3> HIDE DEF next
    <3>5. Settled(next(w), Tries(w))
      BY <2>1, <3>2, <3>4, OracleAssumption DEF Settled
    <3> QED
      BY <3>1, <3>3, <3>5
  <2> QED
    BY <2>2, <2>3
<1> HIDE DEF next
<1>3. call' \in [Callers -> Calls]
  <2>1. DOMAIN call' = Callers /\ call' = [w \in DOMAIN call' |-> call'[w]]
    BY <1>1
  <2> QED
    BY <1>1, <1>2, <2>1 DEF OracleInv
<1>4. \A w \in Callers : Settled(call'[w], Tries(w))
  BY <1>1, <1>2
<1> QED
  BY <1>3, <1>4 DEF OracleInv, Settled, Tries

LEMMA StepOracle == ASSUME OracleInv, [Next]_vars PROVE OracleInv'
<1>1. CASE UNCHANGED call
  BY <1>1 DEF OracleInv, Settled, Tries
<1>2. ASSUME NEW w \in Workers, Consults(w) PROVE OracleInv'
  BY <1>2, CheckOracle, LaunchAssumption DEF Consults
<1>3. ASSUME NEW w \in Workers, Finishes(w) PROVE OracleInv'
  BY <1>3, QuietFacts, OneCall, LaunchAssumption DEF Finishes
<1>4. CASE Consulting
  <2>1. ASSUME NEW w \in Callers, Answered(w) \/ TimedOut(w) PROVE OracleInv'
    BY <2>1, CallEnds DEF Answered, TimedOut, Decides
  <2>2. ASSUME NEW w \in Callers, AnsweredIllTyped(w) PROVE OracleInv'
    BY <2>2, CallEnds DEF AnsweredIllTyped
  <2> QED
    BY <1>4, <2>1, <2>2, TickOracle, CallFailsOracle, AsksAgainOracle
    DEF Consulting, OracleNext
<1>5. CASE Handles
  BY <1>1, <1>5, AllQuiet DEF Handles
<1>6. ASSUME NEW w \in Workers, Fetches(w) PROVE UNCHANGED call
  BY <1>6 DEF Fetches, oracle
<1>7. CASE Configure \/ BuildSource \/ BuildPrivacyProvider \/ Exit \/ UNCHANGED vars
  BY <1>1, <1>7 DEF Configure, BuildSource, BuildPrivacyProvider, Exit, Reaches, Idle, vars, oracle
<1>8. CASE RunsRos \/ RunsRecorded \/ Routes
  BY <1>1, <1>8 DEF RunsRos, RunsRecorded, Routes, oracle
<1> QED
  BY <1>1, <1>2, <1>3, <1>4, <1>5, <1>6, <1>7, <1>8 DEF Next

\* For every timeout and number of attempts: a call of check() or
\* describe_scene() never outlasts its deadline nor makes an attempt too many.
THEOREM CallsDecideInTime == Spec => []DecidesInTime
<1>1. ASSUME OracleInv PROVE DecidesInTime
  BY <1>1 DEF OracleInv, Settled, DecidesInTime
<1> QED
  BY <1>1, InitOracle, StepOracle, PTL DEF Spec

----------------------------------------------------------------------------
(* The recorded source.                                                    *)

Want == 0..(Rows - 1)
Row == Want \cup {None}

\* The frame of row f has index f; a marker has that of an end.
Belongs(f, i) == IF f = None THEN i \in {0, Rows - 1} ELSE i = f

RecordedTypes ==
    /\ row \in Want /\ current \in Want /\ yielded \in Row
    /\ thread \in [Workers -> [pc : {"idle", "called", "inside", "done"},
                               want : Want, frame : Int]]

\* The lock is held by the thread inside, so the capture is where that thread
\* has moved it.
Excluded ==
    \A w \in Workers :
        /\ thread[w].pc = "inside" <=> lock = w
        /\ thread[w].pc = "inside" => position \in MapIndex(thread[w].want)
        /\ thread[w].frame # None => thread[w].frame \in MapIndex(thread[w].want)

\* The index of the source is that of the frame it has yielded last.
Indexed ==
    /\ Belongs(yielded, current)
    /\ point \in {"start", "looped"} => current \in {0, Rows - 1}

RecInv == RecordedTypes /\ Excluded /\ Indexed

\* What is queued belongs together, and so does what a worker has in hand; its
\* thread looks for that index.  A worker that is not cancelled waits for one
\* of its thread and its call, and for neither with nothing in hand.
Queued == {t \in [frame : Row, index : Want] : Belongs(t.frame, t.index)}

Held(h) ==
    /\ h \in [frame : Row, index : Want, picture : Int] /\ Belongs(h.frame, h.index)
    /\ h.picture # None => h.picture \in MapIndex(h.index)

Over == bridge \in {"closing", "stopped"}

Turn(w) ==
    /\ hand[w] # Nothing => Held(hand[w])
    /\ ~Over => /\ hand[w] = Nothing => thread[w].pc = "idle" /\ call[w].pc = "idle"
                /\ hand[w] # Nothing /\ thread[w].pc # "idle" =>
                      thread[w].want = hand[w].index /\ call[w].pc = "idle"

WorkInv ==
    /\ tasks \in [Workers -> Seq(Queued)] /\ DOMAIN hand = Workers
    /\ \A w \in Workers : Turn(w)

LEMMA DivMod ==
    ASSUME NEW n \in Nat, NEW d \in Nat \ {0}
    PROVE  n = d * (n \div d) + (n % d) /\ n \div d \in Nat /\ n % d \in Nat /\ n % d < d
OBVIOUS

\* A whole share of a row between the ends is neither the first nor past the
\* last.
LEMMA Between ==
    ASSUME NEW d \in Nat \ {0}, NEW m \in Nat \ {0}, NEW i \in Nat, NEW q \in Nat,
           q * d = i * m, 0 < i, i < d
    PROVE  1 <= q /\ q < m
<1>1. i * m < d * m
  OBVIOUS
<1>2. 0 < i * m
  OBVIOUS
<1>3. q # 0
  BY <1>2
<1>4. CASE q >= m
  <2>1. q * d >= m * d
    BY <1>4
  <2> QED
    BY <1>1, <2>1
<1> QED
  BY <1>3, <1>4

LEMMA MapIndexRange ==
    ASSUME NEW i \in Want, NEW e \in MapIndex(i)
    PROVE  /\ e \in 0..(MapLen - 1)
           /\ e * (Rows - 1) <= i * MapLen
           /\ \/ i * MapLen < (e + 1) * (Rows - 1)
              \/ i * MapLen = (e + 1) * (Rows - 1) /\ 0 < i /\ i < Rows - 1
              \/ e = MapLen - 1 \/ Rows = 1
<1>1. Rows \in Nat \ {0} /\ MapLen \in Nat \ {0} /\ i \in Nat
  BY RecordedAssumption DEF Want
<1>2. CASE Rows = 1
  <2>1. Shares(i) = {0}
    BY <1>1, <1>2 DEF Shares, MayBeCut, Share, Want
  <2>2. e = 0
    BY <1>1, <2>1 DEF MapIndex
  <2> QED
    BY <1>1, <1>2, <2>2
<1>3. CASE Rows > 1
  <2> DEFINE d == Rows - 1
             n == i * MapLen
             q == n \div d
             r == n % d
  <2>1. n \in Nat /\ d \in Nat \ {0}
    BY <1>1, <1>3
  <2>2. n = d * q + r /\ q \in Nat /\ r \in Nat /\ r < d
    <3> HIDE DEF n, d
    <3> QED
      BY <2>1, DivMod
  <2>3. Share(i) = q
    BY <1>3 DEF Share
  <2>4. PICK share \in Shares(i) : e = IF share < MapLen THEN share ELSE MapLen - 1
    BY DEF MapIndex
  <2>5. \/ share = q
        \/ share = q - 1 /\ 0 < i /\ i < d /\ q * d = n
    BY <2>3 DEF Shares, MayBeCut
  <2> HIDE DEF q, r, n, d
  <2>6. CASE share = q /\ q < MapLen
    <3>1. q * d <= n /\ n < (q + 1) * d
      BY <2>1, <2>2
    <3> QED
      BY <3>1, <2>2, <2>4, <2>6, <1>1 DEF n, d
  <2>7. CASE share = q /\ ~(q < MapLen)
    <3>1. e = MapLen - 1
      BY <2>4, <2>7
    <3>2. (MapLen - 1) * d <= q * d
      BY <1>1, <2>1, <2>2, <2>7
    <3>3. q * d <= n
      BY <2>1, <2>2
    <3>4. (MapLen - 1) * d <= n
      BY <1>1, <2>1, <2>2, <3>2, <3>3
    <3> QED
      BY <1>1, <3>1, <3>4 DEF n, d
  <2>8. CASE share = q - 1 /\ 0 < i /\ i < d /\ q * d = n
    <3>1. 1 <= q /\ q < MapLen
      BY <2>8, <2>1, <2>2, <1>1, Between DEF n
    <3>2. e = q - 1
      BY <2>4, <2>8, <3>1, <1>1, <2>2
    <3>3. e * d <= n /\ n = (e + 1) * d
      BY <2>1, <2>2, <2>8, <3>1, <3>2
    <3> QED
      BY <1>1, <2>2, <2>8, <3>1, <3>2, <3>3 DEF n, d
  <2> QED
    BY <2>5, <2>6, <2>7, <2>8
<1> QED
  BY <1>1, <1>2, <1>3

LEMMA InitRec == ASSUME Init PROVE RecInv
<1>1. 0 \in Want
  BY RecordedAssumption DEF Want
<1>2. RecordedTypes
  BY <1>1 DEF Init, RecordedInit, RecordedTypes, NoCall, None, Row
<1>3. Excluded
  BY RecordedAssumption DEF Init, RecordedInit, Excluded, NoCall, None
<1>4. Indexed
  BY DEF Init, RecordedInit, Indexed, Belongs
<1> QED
  BY <1>2, <1>3, <1>4 DEF RecInv

\* What leaves the video alone keeps the invariant if the replay stays in range.
LEMMA ReplayRec ==
    ASSUME RecInv, UNCHANGED <<position, lock, thread>>, row' \in Want, current' \in Want,
           yielded' \in Row, Indexed'
    PROVE  RecInv'
BY DEF RecInv, RecordedTypes, Excluded

LEMMA OthersRec == ASSUME RecInv, UNCHANGED <<replay, position, lock, thread>> PROVE RecInv'
<1>1. UNCHANGED <<point, row, current, yielded, position, lock, thread>>
  BY DEF replay
<1> QED
  BY <1>1, ReplayRec DEF RecInv, RecordedTypes, Indexed

\* stream() never leaves the index behind the frame.
LEMMA StreamRec == ASSUME RecInv, Replay PROVE RecInv'
<1>0. /\ 0 \in Want /\ Rows - 1 \in Want /\ row \in Want /\ current \in Want /\ yielded \in Row
      /\ None \in Row /\ Indexed /\ None \notin Want
  BY RecordedAssumption DEF Want, Row, None, RecInv, RecordedTypes
<1>1. UNCHANGED <<position, lock, thread>>
  BY DEF Replay, video
<1>2. CASE YieldStart
  <2>1. /\ row' \in Want /\ current' \in Want /\ yielded' \in Row
    BY <1>0, <1>2 DEF YieldStart
  <2>2. Indexed'
    BY <1>0, <1>2 DEF YieldStart, Indexed, Belongs
  <2> QED
    BY <1>1, <2>1, <2>2, ReplayRec
<1>3. CASE YieldRow
  <2>1. row < Rows - 1 => row + 1 \in Want
    BY <1>0, RecordedAssumption DEF Want
  <2>2. row' \in Want /\ current' \in Want /\ yielded' \in Row
    BY <1>0, <1>3, <2>1 DEF YieldRow, Row
  <2>3. Indexed'
    BY <1>0, <1>3 DEF YieldRow, Indexed, Belongs
  <2> QED
    BY <1>1, <2>2, <2>3, ReplayRec
<1>4. CASE YieldEnd
  <2>1. /\ row' \in Want /\ current' \in Want /\ yielded' \in Row
    BY <1>0, <1>4 DEF YieldEnd
  <2>2. Indexed'
    BY <1>0, <1>4 DEF YieldEnd, Indexed, Belongs
  <2> QED
    BY <1>1, <2>1, <2>2, ReplayRec
<1>5. CASE Looped
  <2>1. /\ row' \in Want /\ current' \in Want /\ yielded' \in Row
    BY <1>0, <1>5 DEF Looped
  <2>2. Indexed'
    BY <1>0, <1>5 DEF Looped, Indexed, Belongs
  <2> QED
    BY <1>1, <2>1, <2>2, ReplayRec
<1> QED
  BY <1>2, <1>3, <1>4, <1>5 DEF Replay

\* A thread changes; the replay does not.
LEMMA FetchRec ==
    ASSUME RecInv, NEW w \in Workers, NEW index \in Want, GetFrameAt(w, index)
    PROVE  RecInv'
<1> DEFINE new == [pc |-> "called", want |-> index, frame |-> None]
<1>1. /\ thread[w].pc = "idle" /\ thread' = [thread EXCEPT ![w] = new]
      /\ UNCHANGED <<position, lock>> /\ UNCHANGED <<point, row, current, yielded>>
  BY DEF GetFrameAt, replay
<1>2. new \in [pc : {"idle", "called", "inside", "done"}, want : Want, frame : Int]
      /\ new.pc = "called" /\ new.frame = None
  BY DEF None
<1> HIDE DEF new
<1>3. RecordedTypes' /\ Indexed'
  BY <1>1, <1>2 DEF RecInv, RecordedTypes, Indexed
<1>4. Excluded'
  BY <1>1, <1>2, <1>3 DEF RecInv, RecordedTypes, Excluded
<1> QED
  BY <1>3, <1>4 DEF RecInv

LEMMA ForgetRec ==
    ASSUME RecInv, NEW w \in Workers, thread[w].pc = "done",
           thread' = [thread EXCEPT ![w] = NoCall], UNCHANGED <<replay, cap, position, lock>>
    PROVE  RecInv'
<1>1. 0 \in Want
  BY RecordedAssumption DEF Want
<1>2. NoCall \in [pc : {"idle", "called", "inside", "done"}, want : Want, frame : Int]
      /\ NoCall.pc = "idle" /\ NoCall.frame = None
  BY <1>1 DEF NoCall, None
<1>3. RecordedTypes' /\ Indexed'
  BY <1>2 DEF RecInv, RecordedTypes, Indexed, replay
<1>4. Excluded'
  BY <1>2, <1>3 DEF RecInv, RecordedTypes, Excluded
<1> QED
  BY <1>3, <1>4 DEF RecInv

LEMMA EnsureRec == ASSUME RecInv, NEW w \in Workers, EnsureCap(w) PROVE RecInv'
<1>1. CASE position' \in MapIndex(thread[w].want) /\ lock' = w
           /\ thread' = [thread EXCEPT ![w].pc = "inside"]
  <2>1. RecordedTypes' /\ Indexed'
    BY <1>1 DEF RecInv, RecordedTypes, Indexed, EnsureCap, replay
  <2>2. lock = NoWorker /\ w # NoWorker
    BY RecordedAssumption DEF EnsureCap
  <2>3. \A v \in Workers : thread[v].pc # "inside"
    BY <2>2, RecordedAssumption DEF RecInv, Excluded
  <2>4. ASSUME NEW v \in Workers
        PROVE  /\ thread'[v].want = thread[v].want /\ thread'[v].frame = thread[v].frame
               /\ thread'[v].pc = "inside" <=> v = w
    BY <1>1, <2>3 DEF RecInv, RecordedTypes
  <2>5. Excluded'
    BY <1>1, <2>4 DEF RecInv, Excluded
  <2> QED
    BY <2>1, <2>5 DEF RecInv
<1>2. CASE thread' = [thread EXCEPT ![w].pc = "done"] /\ UNCHANGED <<cap, position, lock>>
  <2>1. RecordedTypes' /\ Indexed'
    BY <1>2 DEF RecInv, RecordedTypes, Indexed, EnsureCap, replay
  <2>2. Excluded'
    BY <1>2 DEF RecInv, RecordedTypes, Excluded, EnsureCap
  <2> QED
    BY <2>1, <2>2 DEF RecInv
<1> QED
  BY <1>1, <1>2 DEF EnsureCap

LEMMA ReadRec == ASSUME RecInv, NEW w \in Workers, ReadFrame(w) PROVE RecInv'
<1>1. PICK picture \in {position, None} :
        thread' = [thread EXCEPT ![w].pc = "done", ![w].frame = picture]
  BY DEF ReadFrame
<1>2. /\ lock = w /\ position \in MapIndex(thread[w].want) /\ lock' = NoWorker
      /\ thread[w].want \in Want /\ UNCHANGED replay
  BY DEF RecInv, RecordedTypes, Excluded, ReadFrame
<1>3. picture \in Int
  BY <1>2, MapIndexRange DEF None
<1>4. RecordedTypes' /\ Indexed'
  BY <1>1, <1>2, <1>3 DEF RecInv, RecordedTypes, Indexed, replay
<1>5. ASSUME NEW v \in Workers
      PROVE  /\ thread'[v].want = thread[v].want /\ thread'[v].pc # "inside" /\ lock' # v
             /\ thread'[v].frame # None => thread'[v].frame \in MapIndex(thread'[v].want)
  BY <1>1, <1>2, RecordedAssumption DEF RecInv, RecordedTypes, Excluded
<1>6. Excluded'
  BY <1>5 DEF Excluded
<1> QED
  BY <1>4, <1>6 DEF RecInv

LEMMA StepRec == ASSUME RecInv, WorkInv, [Next]_vars PROVE RecInv'
<1>1. CASE RunsRecorded
  <2>1. CASE RecordedStarts \/ RecordedClose
    BY <2>1, OthersRec DEF RecordedStarts, RecordedClose, video
  <2> QED
    BY <1>1, <2>1, StreamRec, EnsureRec, ReadRec DEF RunsRecorded, RecordedNext
<1>2. CASE RunsRos \/ Handles \/ Routes \/ Consulting
  BY <1>2, OthersRec DEF RunsRos, Handles, Routes, Consulting, video
<1>3. CASE Configure \/ BuildSource \/ BuildPrivacyProvider \/ Exit
  BY <1>3, OthersRec DEF Configure, BuildSource, BuildPrivacyProvider, Exit, Reaches, Idle, video
<1>4. ASSUME NEW w \in Workers, Fetches(w) PROVE RecInv'
  <2>1. tasks[w] \in Seq(Queued) /\ tasks[w] # <<>>
    BY <1>4 DEF Fetches, WorkInv
  <2>2. Head(tasks[w]) \in Queued
    BY <2>1
  <2> QED
    BY <1>4, <2>2, FetchRec DEF Fetches, SourceFrameIdx, Queued
<1>5. ASSUME NEW w \in Workers, Consults(w) PROVE RecInv'
  BY <1>5, ForgetRec DEF Consults
<1>6. ASSUME NEW w \in Workers, Finishes(w) PROVE RecInv'
  BY <1>6, OthersRec DEF Finishes, video
<1>7. CASE UNCHANGED vars
  BY <1>7, OthersRec DEF vars, video
<1> QED
  BY <1>1, <1>2, <1>3, <1>4, <1>5, <1>6, <1>7 DEF Next

----------------------------------------------------------------------------
(* The workers.                                                            *)

LEMMA InitWork == ASSUME Init PROVE WorkInv
<1>1. /\ tasks = [w \in Workers |-> <<>>] /\ hand = [w \in Workers |-> Nothing]
      /\ thread = [w \in Workers |-> NoCall] /\ call = [w \in Workers |-> Quiet]
  BY LaunchAssumption DEF Init, RecordedInit, OracleInit
<1>2. NoCall.pc = "idle" /\ Quiet.pc = "idle"
  BY DEF NoCall, Quiet
<1>3. \A w \in Workers : Turn(w)
  BY <1>1, <1>2 DEF Turn
<1>4. <<>> \in Seq(Queued)
  OBVIOUS
<1> QED
  BY <1>1, <1>3, <1>4 DEF WorkInv

LEMMA HeldIsSomething == \A h : Held(h) => h # Nothing
BY RecordedAssumption DEF Held, Nothing, Want, None

\* A step that leaves alone what one worker has, waits for and asks.
LEMMA TurnKept ==
    ASSUME NEW w \in Workers, Turn(w), hand'[w] = hand[w], call'[w] = call[w],
           thread'[w].pc = "idle" <=> thread[w].pc = "idle", thread'[w].want = thread[w].want,
           Over => Over'
    PROVE  Turn(w)'
BY DEF Turn, Held

LEMMA OthersWork ==
    ASSUME WorkInv, UNCHANGED <<tasks, hand, thread, call>>, Over => Over'
    PROVE  WorkInv'
BY TurnKept DEF WorkInv

\* The bridge never starts again once it is closing.
LEMMA OverForGood ==
    ASSUME RunStarts \/ Yields \/ Ends \/ Processed \/ Signal \/ Drained \/ Closes
           \/ UNCHANGED contract
    PROVE  Over => Over'
BY DEF Over, RunStarts, Yields, Ends, Processed, Signal, Drained, Closes, Resumed, contract

LEMMA RecordedWork == ASSUME RecInv, WorkInv, RunsRecorded PROVE WorkInv'
<1>1. UNCHANGED <<tasks, hand, call>>
  BY DEF RunsRecorded, work, oracle
<1>2. CASE RecordedStarts \/ Replay \/ RecordedClose
  <2>1. UNCHANGED thread
    BY <1>2 DEF RecordedStarts, Replay, RecordedClose, video
  <2>2. Over => Over'
    BY <1>2, OverForGood DEF RecordedStarts, Replay, YieldStart, YieldRow, YieldEnd, Looped,
                             RecordedClose
  <2> QED
    BY <1>1, <2>1, <2>2, OthersWork
<1>3. ASSUME NEW w \in Workers, EnsureCap(w) \/ ReadFrame(w) PROVE WorkInv'
  <2>1. Over => Over'
    BY <1>3, OverForGood DEF EnsureCap, ReadFrame
  <2>2. ASSUME NEW v \in Workers
        PROVE  thread'[v].want = thread[v].want /\ (thread'[v].pc = "idle" <=> thread[v].pc = "idle")
    BY <1>3 DEF EnsureCap, ReadFrame, RecInv, RecordedTypes
  <2> QED
    BY <1>1, <2>1, <2>2, TurnKept DEF WorkInv
<1> QED
  BY <1>2, <1>3 DEF RunsRecorded, RecordedNext

LEMMA HandlesWork == ASSUME WorkInv, Handles PROVE WorkInv'
<1>1. UNCHANGED thread
  BY DEF Handles, video
<1>2. (Over => Over') /\ (~WorkersLive' => Over')
  BY DEF Handles, Over, WorkersLive, Signal, Drained, Processed
<1>3. CASE WorkersLive'
  BY <1>1, <1>2, <1>3, OthersWork DEF Handles, work
<1>4. CASE ~WorkersLive'
  <2>1. tasks' = [w \in Workers |-> <<>>] /\ hand' = [w \in Workers |-> Nothing]
    BY <1>4 DEF Handles
  <2>2. \A w \in Workers : Turn(w)'
    BY <1>2, <1>4, <2>1 DEF Turn
  <2>3. <<>> \in Seq(Queued)
    OBVIOUS
  <2> QED
    BY <2>1, <2>2, <2>3 DEF WorkInv
<1> QED
  BY <1>3, <1>4

\* What process() queues belongs together.
LEMMA RoutesWork == ASSUME RecInv, WorkInv, Routes PROVE WorkInv'
<1> DEFINE task == [frame |-> yielded, index |-> current]
<1>1. task \in Queued
  BY DEF Queued, RecInv, RecordedTypes, Indexed
<1>2. PICK chosen \in SUBSET {w \in Workers : Queues(w)} :
         tasks' = [w \in Workers |-> IF w \in chosen THEN Append(tasks[w], task) ELSE tasks[w]]
  BY DEF Routes
<1> HIDE DEF task
<1>3. \A w \in Workers : tasks[w] \in Seq(Queued) /\ Append(tasks[w], task) \in Seq(Queued)
  BY <1>1 DEF WorkInv
<1>4. tasks' \in [Workers -> Seq(Queued)]
  BY <1>2, <1>3
<1>5. UNCHANGED <<hand, thread, call>> /\ (Over => Over')
  BY OverForGood DEF Routes, video, oracle
<1> QED
  BY <1>4, <1>5, TurnKept DEF WorkInv

LEMMA FetchesWork == ASSUME RecInv, WorkInv, NEW w \in Workers, Fetches(w) PROVE WorkInv'
<1> DEFINE task == Head(tasks[w])
           next == [frame |-> task.frame, index |-> task.index, picture |-> None]
<1>1. /\ hand[w] = Nothing /\ tasks[w] # <<>> /\ thread[w].pc = "idle"
      /\ tasks' = [tasks EXCEPT ![w] = Tail(tasks[w])]
      /\ hand' = [hand EXCEPT ![w] = next]
      /\ thread' = [thread EXCEPT ![w] = [pc |-> "called", want |-> task.index, frame |-> None]]
      /\ UNCHANGED call /\ UNCHANGED bridge /\ WorkersLive
  BY DEF Fetches, GetFrameAt, SourceFrameIdx, oracle, contract
<1>2. tasks[w] \in Seq(Queued)
  BY DEF WorkInv
<1>3. task \in Queued /\ Tail(tasks[w]) \in Seq(Queued)
  BY <1>1, <1>2
<1>4. Held(next) /\ next.index = task.index
  BY <1>3 DEF Held, Queued, None
<1>5. call[w].pc = "idle" /\ Turn(w)
  BY <1>1 DEF WorkInv, Turn, Over, WorkersLive
<1> HIDE DEF next, task
<1>6. hand'[w] = next /\ thread'[w].pc = "called" /\ thread'[w].want = task.index
  BY <1>1 DEF WorkInv, RecInv, RecordedTypes
<1>7. Turn(w)'
  BY <1>1, <1>4, <1>5, <1>6, HeldIsSomething DEF Turn, Held
<1>8. ASSUME NEW v \in Workers, v # w PROVE Turn(v)'
  <2>1. hand'[v] = hand[v] /\ thread'[v] = thread[v]
    BY <1>1, <1>8 DEF WorkInv, RecInv, RecordedTypes
  <2> QED
    BY <1>1, <2>1, TurnKept DEF WorkInv, Over
<1>9. tasks' \in [Workers -> Seq(Queued)] /\ DOMAIN hand' = Workers
  BY <1>1, <1>3 DEF WorkInv
<1> QED
  BY <1>7, <1>8, <1>9 DEF WorkInv

\* The picture the oracle is shown is what the thread brought for this task.
LEMMA ConsultsWork ==
    ASSUME RecInv, OracleInv, WorkInv, NEW w \in Workers, Consults(w)
    PROVE  WorkInv'
<1> DEFINE next == [hand[w] EXCEPT !.picture = thread[w].frame]
<1>1. /\ thread[w].pc = "done" /\ WorkersLive /\ UNCHANGED <<tasks, bridge>>
      /\ hand' = [hand EXCEPT ![w] = next] /\ thread' = [thread EXCEPT ![w] = NoCall]
      /\ \A v \in Workers : v # w => call'[v] = call[v]
  BY LaunchAssumption DEF Consults, Check, Decides, contract, OracleInv
<1>2. Turn(w) /\ ~Over
  BY <1>1 DEF WorkInv, Over, WorkersLive
<1>3. Held(hand[w]) /\ thread[w].want = hand[w].index
  BY <1>1, <1>2 DEF Turn
<1>4. thread[w].frame \in Int
      /\ (thread[w].frame # None => thread[w].frame \in MapIndex(hand[w].index))
  BY <1>3 DEF RecInv, RecordedTypes, Excluded
<1>5. Held(next)
  <2>1. /\ next.frame = hand[w].frame /\ next.index = hand[w].index
        /\ next.picture = thread[w].frame
        /\ next \in [frame : Row, index : Want, picture : Int]
    BY <1>3, <1>4 DEF Held
  <2> HIDE DEF next
  <2> QED
    BY <1>3, <1>4, <2>1 DEF Held
<1> HIDE DEF next
<1>6. hand'[w] = next /\ thread'[w].pc = "idle" /\ DOMAIN hand' = Workers
  BY <1>1 DEF WorkInv, RecInv, RecordedTypes, NoCall
<1>7. Turn(w)'
  BY <1>5, <1>6, HeldIsSomething DEF Turn, Held
<1>8. ASSUME NEW v \in Workers, v # w PROVE Turn(v)'
  <2>1. hand'[v] = hand[v] /\ thread'[v] = thread[v]
    BY <1>1, <1>8 DEF WorkInv, RecInv, RecordedTypes
  <2> QED
    BY <1>1, <1>8, <2>1, TurnKept DEF WorkInv, Over
<1> QED
  BY <1>1, <1>6, <1>7, <1>8 DEF WorkInv

\* A call that has not begun does not move.
LEMMA ConsultingWork == ASSUME OracleInv, WorkInv, Consulting PROVE WorkInv'
<1>1. UNCHANGED <<tasks, hand, thread, bridge>>
  BY DEF Consulting, contract, video, work
<1>2. ASSUME NEW v \in Callers, call[v].pc = "idle" PROVE call'[v] = call[v]
  <2>1. CASE OracleTick
    BY <1>2, <2>1 DEF OracleTick, Asking
  <2>2. ASSUME NEW w \in Callers, Answered(w) \/ AnsweredIllTyped(w) \/ TimedOut(w)
        PROVE  call'[v] = call[v]
    BY <1>2, <2>2 DEF Answered, AnsweredIllTyped, TimedOut, Decides, Asking, OracleInv
  <2>3. ASSUME NEW w \in Callers, CallFails(w) \/ AsksAgain(w)
        PROVE  call'[v] = call[v]
    BY <1>2, <2>3 DEF CallFails, AsksAgain, Retry, Decides, OracleInv
  <2> QED
    BY <2>1, <2>2, <2>3 DEF Consulting, OracleNext
<1>3. ASSUME NEW w \in Workers PROVE Turn(w)'
  <2>1. CASE call[w].pc = "idle"
    <3>1. call'[w] = call[w]
      BY <2>1, <1>2, LaunchAssumption
    <3> QED
      BY <1>1, <3>1, TurnKept DEF WorkInv, Over
  <2>2. CASE call[w].pc # "idle"
    <3>1. Turn(w)
      BY DEF WorkInv
    <3>2. Over \/ (hand[w] # Nothing /\ thread[w].pc = "idle")
      BY <2>2, <3>1 DEF Turn
    <3> QED
      BY <1>1, <3>1, <3>2 DEF Turn, Over, Held
  <2> QED
    BY <2>1, <2>2
<1> QED
  BY <1>1, <1>3 DEF WorkInv

\* The worker's turn ends with nothing in hand and no thread.
LEMMA FinishesWork ==
    ASSUME OracleInv, WorkInv, NEW w \in Workers, Finishes(w)
    PROVE  WorkInv'
<1>1. /\ call[w].pc \in {"decided", "raised"} /\ call' = [call EXCEPT ![w] = Quiet]
      /\ hand' = [hand EXCEPT ![w] = Nothing]
      /\ UNCHANGED <<tasks, thread, bridge>> /\ WorkersLive
  BY DEF Finishes, contract, video
<1>2. Turn(w) /\ ~Over
  BY <1>1 DEF WorkInv, Over, WorkersLive
<1>3. thread[w].pc = "idle"
  BY <1>1, <1>2 DEF Turn
<1>4. /\ hand'[w] = Nothing /\ call'[w].pc = "idle"
  BY <1>1, LaunchAssumption DEF WorkInv, OracleInv, Quiet
<1>5. Turn(w)'
  BY <1>1, <1>3, <1>4 DEF Turn
<1>6. ASSUME NEW v \in Workers, v # w PROVE Turn(v)'
  <2>1. hand'[v] = hand[v] /\ call'[v] = call[v]
    BY <1>1, <1>6, LaunchAssumption DEF WorkInv, OracleInv
  <2> QED
    BY <1>1, <2>1, TurnKept DEF WorkInv, Over
<1> QED
  BY <1>1, <1>5, <1>6 DEF WorkInv

LEMMA StepWork == ASSUME RecInv, OracleInv, WorkInv, [Next]_vars PROVE WorkInv'
<1>1. CASE RunsRos
  <2>1. Over => Over'
    BY <1>1, OverForGood DEF RunsRos, RosNext, RosStarts, RosTick, JointStates, TimerCb, SpinFails,
                             QueuePutNowait, RosStream, RosClose
  <2> QED
    BY <1>1, <2>1, OthersWork DEF RunsRos, video, oracle, work
<1>2. CASE Configure \/ BuildSource \/ BuildPrivacyProvider \/ Exit \/ UNCHANGED vars
  BY <1>2, OverForGood, OthersWork DEF Configure, BuildSource, BuildPrivacyProvider, Exit, Reaches,
                                       Idle, vars, video, oracle, work
<1>3. CASE RunsRecorded \/ Handles \/ Routes \/ Consulting
  BY <1>3, RecordedWork, HandlesWork, RoutesWork, ConsultingWork
<1>4. ASSUME NEW w \in Workers, Fetches(w) \/ Consults(w) \/ Finishes(w) PROVE WorkInv'
  BY <1>4, FetchesWork, ConsultsWork, FinishesWork
<1> QED
  BY <1>1, <1>2, <1>3, <1>4 DEF Next

LEMMA InitAll == Init => RecInv /\ OracleInv /\ WorkInv
BY InitRec, InitOracle, InitWork

LEMMA StepAll ==
    RecInv /\ OracleInv /\ WorkInv /\ [Next]_vars => (RecInv /\ OracleInv /\ WorkInv)'
BY StepRec, StepOracle, StepWork

\* For every recording, map and number of threads: each frame that is returned
\* is the map's entry for the row that was asked for.
THEOREM FramesMatchRows == Spec => []FrameAsAsked
<1>1. ASSUME RecInv PROVE FrameAsAsked
  <2> SUFFICES ASSUME NEW w \in Workers, thread[w].frame # None
               PROVE  LET entry == thread[w].frame
                          share == thread[w].want * MapLen
                      IN  /\ entry \in 0..(MapLen - 1) /\ entry * (Rows - 1) <= share
                          /\ \/ share < (entry + 1) * (Rows - 1)
                             \/ /\ share = (entry + 1) * (Rows - 1)
                                /\ 0 < thread[w].want /\ thread[w].want < Rows - 1
                             \/ entry = MapLen - 1 \/ Rows = 1
    BY DEF FrameAsAsked
  <2>1. thread[w].want \in Want /\ thread[w].frame \in MapIndex(thread[w].want)
    BY <1>1 DEF RecInv, RecordedTypes, Excluded
  <2> QED
    BY <2>1, MapIndexRange
<1> QED
  BY <1>1, InitAll, StepAll, PTL DEF Spec

\* For every recording, however long a frame waits for its worker and whatever
\* replay, signals and the other worker do meanwhile: the oracle is shown a
\* picture of the frame's own row, and of an end for a marker.
THEOREM PicturesMatchFrames == Spec => []PictureOfItsFrame
<1>1. ASSUME WorkInv PROVE PictureOfItsFrame
  <2> SUFFICES ASSUME NEW w \in Workers, hand[w].picture # None
               PROVE  \E i \in IF hand[w].frame = None THEN {0, Rows - 1} ELSE {hand[w].frame} :
                         hand[w].picture \in MapIndex(i)
    BY DEF PictureOfItsFrame
  <2>1. hand[w] # Nothing /\ Turn(w)
    BY <1>1 DEF WorkInv, Nothing
  <2>2. Belongs(hand[w].frame, hand[w].index) /\ hand[w].picture \in MapIndex(hand[w].index)
    BY <2>1 DEF Turn, Held
  <2> QED
    BY <2>2 DEF Belongs
<1> QED
  BY <1>1, InitAll, StepAll, PTL DEF Spec
=============================================================================
