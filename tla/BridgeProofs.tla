---------------------------- MODULE BridgeProofs ----------------------------
(***************************************************************************)
(* What holds of the bridge for every interval, throttle and number of     *)
(* frames.  The intervals the treasury switches between both divide their  *)
(* product, so whatever was in force on the way there, the frame counter   *)
(* is sampled at every multiple of it.  A frame, and a task, is in one     *)
(* place at a time; an inductive invariant says so of the sets of them.    *)
(***************************************************************************)
EXTENDS Bridge, TLAPS

Throttled == (OracleInterval * Throttle) \div 100
Span == OracleInterval * Throttled

LEMMA DivMod ==
    ASSUME NEW n \in Int, NEW d \in Int, n >= 0, d > 0
    PROVE  /\ n = d * (n \div d) + (n % d)
           /\ n \div d \in Int /\ n \div d >= 0
           /\ n % d \in Int /\ 0 <= n % d /\ n % d < d
OBVIOUS

\* Division is unique.
LEMMA DivModUnique ==
    ASSUME NEW n \in Int, NEW d \in Int, n >= 0, d > 0,
           NEW q \in Int, NEW r \in Int, n = d * q + r, 0 <= r, r < d
    PROVE  n % d = r
OBVIOUS

LEMMA MultipleMod ==
    ASSUME NEW q \in Nat, NEW d \in Nat \ {0}
    PROVE  (d * q) % d = 0
OBVIOUS

\* What a product divides, each factor divides.
LEMMA FactorsDivide ==
    ASSUME NEW n \in Nat, NEW a \in Nat \ {0}, NEW b \in Nat \ {0}, n % (a * b) = 0
    PROVE  n % a = 0 /\ n % b = 0
<1> DEFINE q == n \div (a * b)
<1>1. a * b \in Nat \ {0}
  OBVIOUS
<1>2. n = (a * b) * q /\ q \in Nat
  BY <1>1, DivMod
<1> HIDE DEF q
<1>3. n = a * (b * q) /\ b * q \in Nat
  BY <1>2
<1>4. n = b * (a * q) /\ a * q \in Nat
  BY <1>2
<1> QED
  BY <1>3, <1>4, MultipleMod

\* The remainder counts up and starts again at zero.
LEMMA ModSuccessor ==
    ASSUME NEW n \in Nat, NEW d \in Nat \ {0}
    PROVE  (n + 1) % d = 0 \/ (n + 1) % d = (n % d) + 1
<1> DEFINE q == n \div d
           r == n % d
<1>1. n = d * q + r /\ q \in Int /\ r \in Int /\ 0 <= r /\ r < d
  BY DivMod
<1> HIDE DEF q, r
<1>2. CASE r + 1 < d
  <2>1. n + 1 = d * q + (r + 1)
    BY <1>1
  <2>2. (n + 1) % d = r + 1
    BY <1>1, <1>2, <2>1, DivModUnique
  <2> QED
    BY <2>2 DEF r
<1>3. CASE r + 1 = d
  <2>1. n + 1 = d * (q + 1) + 0
    BY <1>1, <1>3
  <2> QED
    BY <1>1, <2>1, DivModUnique
<1> QED
  BY <1>1, <1>2, <1>3

LEMMA SpanPositive == Throttled \in Nat \ {0} /\ Span \in Nat \ {0} /\ OracleInterval \in Nat \ {0}
<1>1. OracleInterval \in Nat \ {0} /\ Throttle \in Nat /\ Throttle > 100
  BY IntervalsAssumption
<1>2. OracleInterval * Throttle >= Throttle /\ OracleInterval * Throttle \in Nat
  BY <1>1
<1>3. Throttled \in Nat \ {0}
  BY <1>1, <1>2 DEF Throttled
<1> QED
  BY <1>1, <1>3 DEF Span

\* The sampling counter, and what bounds the frames since the last sample.
SInv ==
    /\ oracleCount \in Nat /\ unsampled \in Nat
    /\ intervalMult \in {100, Throttle}
    /\ unsampled <= oracleCount % Span

LEMMA InitSInv == ASSUME Init PROVE SInv
<1>1. 0 % Span = 0
  BY SpanPositive
<1> QED
  BY <1>1 DEF Init, SInv

LEMMA EffectiveIntervals == ASSUME SInv PROVE EffectiveInterval \in {OracleInterval, Throttled}
<1>1. (OracleInterval * 100) \div 100 = OracleInterval
  BY SpanPositive
<1>2. CASE intervalMult = 100
  BY <1>1, <1>2, SpanPositive DEF EffectiveInterval
<1>3. CASE intervalMult = Throttle
  BY <1>3, SpanPositive DEF EffectiveInterval, Throttled
<1> QED
  BY <1>2, <1>3 DEF SInv

LEMMA RouteNormalSInv == ASSUME SInv, RouteNormal PROVE SInv'
<1>1. /\ oracleCount' = oracleCount + 1 /\ intervalMult' = intervalMult
      /\ unsampled' = IF (oracleCount + 1) % EffectiveInterval # 0 THEN unsampled + 1 ELSE 0
  BY DEF RouteNormal, advice
<1>2. oracleCount + 1 \in Nat /\ unsampled' \in Nat
  BY <1>1 DEF SInv
<1>3. CASE (oracleCount + 1) % Span = 0
  <2>1. /\ (oracleCount + 1) % OracleInterval = 0
        /\ (oracleCount + 1) % Throttled = 0
    <3>1. (oracleCount + 1) % (OracleInterval * Throttled) = 0
      BY <1>3 DEF Span
    <3> QED
      BY <1>2, <3>1, SpanPositive, FactorsDivide
  <2>2. (oracleCount + 1) % EffectiveInterval = 0
    BY <2>1, EffectiveIntervals
  <2> QED
    BY <1>1, <1>2, <1>3, <2>2 DEF SInv
<1>4. CASE (oracleCount + 1) % Span = (oracleCount % Span) + 1
  <2>1. unsampled' <= unsampled + 1 /\ oracleCount % Span \in Nat
    BY <1>1, SpanPositive DEF SInv
  <2> QED
    BY <1>1, <1>2, <1>4, <2>1 DEF SInv
<1> QED
  BY <1>3, <1>4, SpanPositive, ModSuccessor DEF SInv

\* Every other step leaves the counter alone, and sets the multiplier to one
\* of its two values if at all.
LEMMA StepSInv == ASSUME SInv, [Next]_vars PROVE SInv'
<1>1. CASE RouteNormal
  BY <1>1, RouteNormalSInv
<1>2. CASE UNCHANGED <<oracleCount, unsampled>> /\ intervalMult' \in {intervalMult, 100, Throttle}
  BY <1>2 DEF SInv
<1>3. ASSUME NEW kind \in Kinds, Receive(kind)
      PROVE  UNCHANGED <<oracleCount, unsampled, intervalMult>>
  BY <1>3 DEF Receive, routing, advice
<1>4. CASE RouteAnomaly
  BY <1>2, <1>4 DEF RouteAnomaly, advice
<1>5. CASE Tick \/ StopStreaming \/ DrainExpires
  BY <1>2, <1>5 DEF Tick, StopStreaming, DrainExpires, routing, advice
<1>6. CASE CancelWorkers
  BY <1>2, <1>6 DEF CancelWorkers, routing
<1>7. CASE ComplianceStep
  BY <1>2, <1>7 DEF ComplianceStep, ComplianceGet, ComplianceLogged, ComplianceBroadcast,
                    ComplianceFailed, NoOtherWorker, routing, advice
<1>8. CASE PaymentGet \/ OracleApproved \/ OracleDenied \/ PaymentConfirmed \/ PaymentEnds
  BY <1>2, <1>8 DEF PaymentGet, OracleApproved, OracleDenied, PaymentConfirmed, PaymentEnds,
                    PaymentsOnly, routing, advice
<1>9. CASE SceneGet \/ SceneEnds \/ ScoringFallback
  BY <1>2, <1>9 DEF SceneGet, SceneEnds, ScoringFallback, routing, advice
<1>10. ASSUME NEW pending \in SUBSET Adjustments, NEW healthy \in BOOLEAN,
              TreasuryAnswers(pending, healthy)
       PROVE  UNCHANGED <<oracleCount, unsampled, intervalMult>>
  BY <1>10 DEF TreasuryAnswers, AdviceOnly, routing
<1>11. CASE ApplyThrottle \/ ApplyReserve \/ TreasuryEnds
  BY <1>2, <1>11 DEF ApplyThrottle, ApplyReserve, TreasuryEnds, AdviceOnly, routing
<1>12. CASE UNCHANGED vars
  BY <1>2, <1>12 DEF vars, routing, advice
<1> QED
  BY <1>1, <1>2, <1>3, <1>4, <1>5, <1>6, <1>7, <1>8, <1>9, <1>10, <1>11, <1>12 DEF Next

\* However the treasury switches the throttle, and however long the bridge has
\* been running, a normal frame is sampled or dropped within the product of
\* the two intervals.
THEOREM SamplingContinues == Spec => []SamplingNeverStarves
<1>1. SInv => SamplingNeverStarves
  BY SpanPositive DEF SInv, SamplingNeverStarves, Span, Throttled
<1> QED
  BY <1>1, InitSInv, StepSInv, PTL DEF Spec

----------------------------------------------------------------------------
(* The queues.  Where a task or a frame is, as sets.                       *)

Distinct(seq) == \A i, j \in 1..Len(seq) : seq[i] = seq[j] => i = j

LEMMA ElementsEmpty == Elements(<<>>) = {}
BY DEF Elements

LEMMA ElementsAppend ==
    ASSUME NEW S, NEW s \in Seq(S), NEW e \in S
    PROVE  /\ Append(s, e) \in Seq(S) /\ Elements(Append(s, e)) = Elements(s) \cup {e}
           /\ Len(Append(s, e)) = Len(s) + 1 /\ Len(s) \in Nat
           /\ Distinct(s) /\ e \notin Elements(s) => Distinct(Append(s, e))
<1>1. /\ Append(s, e) \in Seq(S) /\ Len(Append(s, e)) = Len(s) + 1 /\ Len(s) \in Nat
      /\ Append(s, e)[Len(s) + 1] = e
      /\ \A i \in 1..Len(s) : Append(s, e)[i] = s[i]
  OBVIOUS
<1>2. 1..Len(Append(s, e)) = (1..Len(s)) \cup {Len(s) + 1}
  BY <1>1
<1> QED
  BY <1>1, <1>2 DEF Elements, Distinct

LEMMA ElementsTail ==
    ASSUME NEW S, NEW s \in Seq(S), s # <<>>, Distinct(s)
    PROVE  /\ Tail(s) \in Seq(S) /\ Head(s) \in S /\ Len(Tail(s)) = Len(s) - 1 /\ Len(s) \in Nat
           /\ Elements(s) = Elements(Tail(s)) \cup {Head(s)}
           /\ Head(s) \notin Elements(Tail(s)) /\ Distinct(Tail(s))
<1>1. /\ Tail(s) \in Seq(S) /\ Len(Tail(s)) = Len(s) - 1 /\ Len(s) \in Nat /\ Len(s) >= 1
      /\ Head(s) \in S /\ Head(s) = s[1]
      /\ \A i \in 1..Len(Tail(s)) : i + 1 \in 1..Len(s) /\ Tail(s)[i] = s[i + 1]
  OBVIOUS
<1>2. ASSUME NEW j \in 1..Len(s), j # 1
      PROVE  j - 1 \in 1..Len(Tail(s)) /\ s[j] = Tail(s)[j - 1]
  <2>1. j - 1 \in 1..Len(Tail(s)) /\ (j - 1) + 1 = j
    BY <1>1, <1>2
  <2> QED
    BY <1>1, <2>1
<1>3. Elements(s) \subseteq Elements(Tail(s)) \cup {Head(s)}
  <2> SUFFICES ASSUME NEW j \in 1..Len(s) PROVE s[j] \in Elements(Tail(s)) \cup {Head(s)}
    BY DEF Elements
  <2>1. CASE j = 1
    BY <1>1, <2>1
  <2>2. CASE j # 1
    BY <1>2, <2>2 DEF Elements
  <2> QED
    BY <2>1, <2>2
<1>4. Elements(Tail(s)) \subseteq Elements(s) /\ Head(s) \in Elements(s)
  BY <1>1 DEF Elements
<1>5. Head(s) \notin Elements(Tail(s))
  <2> SUFFICES ASSUME NEW i \in 1..Len(Tail(s)), Tail(s)[i] = Head(s) PROVE FALSE
    BY DEF Elements
  <2>1. s[i + 1] = s[1] /\ i + 1 \in 1..Len(s) /\ 1 \in 1..Len(s)
    BY <1>1
  <2> QED
    BY <2>1, <1>1 DEF Distinct
<1>6. Distinct(Tail(s))
  <2> SUFFICES ASSUME NEW i \in 1..Len(Tail(s)), NEW j \in 1..Len(Tail(s)), Tail(s)[i] = Tail(s)[j]
               PROVE  i = j
    BY DEF Distinct
  <2>1. s[i + 1] = s[j + 1] /\ i + 1 \in 1..Len(s) /\ j + 1 \in 1..Len(s)
    BY <1>1
  <2>2. i + 1 = j + 1
    BY <2>1 DEF Distinct
  <2> QED
    BY <2>2, <1>1
<1> QED
  BY <1>1, <1>3, <1>4, <1>5, <1>6

BridgeTypes ==
    /\ frames \in 0..MaxFrames
    /\ complianceQueue \in Seq(ComplianceTask) /\ complianceLog \in Seq(ComplianceTask)
    /\ paymentQueue \in Seq(FrameIds) /\ confirmed \in Seq(FrameIds)
    /\ unfinished \in Int
    /\ complianceWorker \in [pc : {"idle", "submitting", "broadcasting"},
                             task : ComplianceTask \cup {NoTask}]
    /\ paymentWorker \in [pc : {"idle", "checking", "paying", "broadcasting"},
                          frame : FrameIds \cup {NoFrame}]
    /\ raised \in SUBSET ComplianceTask /\ atStop \in SUBSET raised

\* The tasks raised are split over five places.
Split(r, q, h, l, f, c) ==
    /\ r = q \cup h \cup l \cup f \cup c
    /\ q \cap h = {} /\ q \cap l = {} /\ q \cap f = {} /\ q \cap c = {}
    /\ h \cap l = {} /\ h \cap f = {} /\ h \cap c = {}
    /\ l \cap f = {} /\ l \cap c = {} /\ f \cap c = {}

Placed ==
    /\ Distinct(complianceQueue)
    /\ complianceWorker.pc = "submitting" => complianceWorker.task \in ComplianceTask
    /\ Split(raised, Elements(complianceQueue), InSubmission, Elements(complianceLog),
             failed, cancelled)

\* What join() waits for is what is queued or in hand, and once it has
\* returned no task of the time it was called is either.
Counted ==
    /\ unfinished = Len(complianceQueue) + IF complianceWorker.pc = "idle" THEN 0 ELSE 1
    /\ phase = "drained" => atStop \cap (Elements(complianceQueue) \cup InSubmission) = {}

\* A frame is in the hands of process(), reported, queued, with the payment
\* worker or paid for.
Reported == {t.frame : t \in raised}
Held == IF current = NoFrame THEN {} ELSE {frames}
InPayment == IF paymentWorker.pc \in {"checking", "paying"} THEN {paymentWorker.frame} ELSE {}

Apart(held, rep, q, h, c) ==
    /\ held \cap rep = {} /\ held \cap q = {} /\ held \cap h = {} /\ held \cap c = {}
    /\ rep \cap q = {} /\ rep \cap h = {} /\ rep \cap c = {}
    /\ q \cap h = {} /\ q \cap c = {} /\ h \cap c = {}

Routed ==
    /\ current # NoFrame => current.id = frames /\ frames \in FrameIds
    /\ paymentWorker.pc \in {"checking", "paying"} => paymentWorker.frame \in FrameIds
    /\ Distinct(paymentQueue) /\ Distinct(confirmed)
    /\ \A t, u \in raised : t.frame = u.frame => t = u
    /\ Reported \cup Elements(paymentQueue) \cup InPayment \cup Elements(confirmed) \subseteq 1..frames
    /\ Apart(Held, Reported, Elements(paymentQueue), InPayment, Elements(confirmed))

QInv == BridgeTypes /\ Placed /\ Counted /\ Routed

compliance == <<complianceQueue, unfinished, raised, complianceWorker, complianceLog, failed,
                cancelled, atStop, phase>>
pays == <<frames, current, paymentQueue, paymentWorker, confirmed>>

\* What the other parts of the bridge do disturbs nothing of it.
LEMMA TasksStutter ==
    ASSUME QInv, UNCHANGED compliance
    PROVE  Placed' /\ Counted' /\ Reported' = Reported /\ atStop' \in SUBSET raised'
<1>1. UNCHANGED <<complianceQueue, unfinished, raised, complianceWorker, complianceLog, failed,
                  cancelled, atStop, phase>>
  BY DEF compliance
<1>2. /\ Elements(complianceQueue)' = Elements(complianceQueue) /\ InSubmission' = InSubmission
      /\ Elements(complianceLog)' = Elements(complianceLog) /\ Reported' = Reported
      /\ Distinct(complianceQueue)' = Distinct(complianceQueue)
  BY <1>1 DEF Elements, Distinct, InSubmission, Reported
<1> QED
  BY <1>1, <1>2 DEF QInv, BridgeTypes, Placed, Counted, Split

LEMMA QStutter == ASSUME QInv, UNCHANGED <<compliance, pays>> PROVE QInv'
<1>1. UNCHANGED <<frames, current, paymentQueue, paymentWorker, confirmed>> /\ UNCHANGED compliance
  BY DEF pays
<1>2. /\ Elements(paymentQueue)' = Elements(paymentQueue) /\ InPayment' = InPayment
      /\ Elements(confirmed)' = Elements(confirmed) /\ Held' = Held
      /\ Distinct(paymentQueue)' = Distinct(paymentQueue)
      /\ Distinct(confirmed)' = Distinct(confirmed)
  BY <1>1 DEF Elements, Distinct, InPayment, Held
<1>3. BridgeTypes'
  BY <1>1 DEF QInv, BridgeTypes, compliance
<1>4. Placed' /\ Counted' /\ Reported' = Reported /\ raised' = raised
  BY <1>1, TasksStutter DEF compliance
<1>5. Routed'
  BY <1>1, <1>2, <1>4 DEF QInv, Routed, Apart
<1> QED
  BY <1>3, <1>4, <1>5 DEF QInv

\* A put: of a task whose frame process() or the payment worker has in hand.
LEMMA PutTask ==
    ASSUME QInv, NEW t \in ComplianceTask, t.frame \notin Reported, PutCompliance(t),
           UNCHANGED <<complianceWorker, complianceLog, failed, cancelled, atStop, phase>>
    PROVE  /\ Placed' /\ Counted'
           /\ complianceQueue' \in Seq(ComplianceTask) /\ unfinished' \in Int
           /\ raised' = raised \cup {t} /\ Reported' = Reported \cup {t.frame}
           /\ \A u, v \in raised' : u.frame = v.frame => u = v
<1>1. t \notin raised
  BY DEF Reported
<1>2. /\ complianceQueue' = Append(complianceQueue, t) /\ unfinished' = unfinished + 1
      /\ raised' = raised \cup {t}
  BY DEF PutCompliance
<1>3. complianceQueue \in Seq(ComplianceTask) /\ t \notin Elements(complianceQueue)
  BY <1>1 DEF QInv, BridgeTypes, Placed, Split
<1>4. /\ complianceQueue' \in Seq(ComplianceTask) /\ Distinct(complianceQueue)'
      /\ Elements(complianceQueue)' = Elements(complianceQueue) \cup {t}
      /\ Len(complianceQueue') = Len(complianceQueue) + 1 /\ Len(complianceQueue) \in Nat
  <2>1. Distinct(complianceQueue)
    BY DEF QInv, Placed
  <2> QED
    BY <1>2, <1>3, <2>1, ElementsAppend DEF Distinct, Elements
<1>5. InSubmission' = InSubmission /\ Elements(complianceLog)' = Elements(complianceLog)
  BY DEF InSubmission, Elements
<1>6. Placed'
  BY <1>1, <1>2, <1>4, <1>5 DEF QInv, Placed, Split
<1>7. atStop \in SUBSET raised
  BY DEF QInv, BridgeTypes
<1>8. Counted'
  BY <1>1, <1>2, <1>4, <1>5, <1>7 DEF QInv, Counted
<1>9. Reported' = Reported \cup {t.frame}
  BY <1>2 DEF Reported
<1>10. \A u, v \in raised' : u.frame = v.frame => u = v
  BY <1>2 DEF QInv, Routed, Reported
<1> QED
  BY <1>2, <1>4, <1>6, <1>8, <1>9, <1>10 DEF QInv, BridgeTypes

LEMMA InitQInv == ASSUME Init PROVE QInv
<1>1. /\ frames = 0 /\ current = NoFrame /\ phase = "streaming" /\ unfinished = 0 /\ raised = {}
      /\ complianceQueue = <<>> /\ complianceLog = <<>> /\ paymentQueue = <<>> /\ confirmed = <<>>
      /\ complianceWorker.pc = "idle" /\ paymentWorker.pc = "idle"
      /\ failed = {} /\ cancelled = {} /\ atStop = {}
  BY DEF Init, IdleCompliance, IdlePayment
<1>2. BridgeTypes
  <2>1. complianceWorker \in [pc : {"idle", "submitting", "broadcasting"},
                              task : ComplianceTask \cup {NoTask}]
    BY DEF Init, IdleCompliance
  <2>2. paymentWorker \in [pc : {"idle", "checking", "paying", "broadcasting"},
                           frame : FrameIds \cup {NoFrame}]
    BY DEF Init, IdlePayment
  <2> QED
    BY <1>1, <2>1, <2>2, QueuesAssumption DEF BridgeTypes
<1>3. Placed
  BY <1>1, ElementsEmpty DEF Placed, Split, InSubmission, Distinct
<1>4. Counted
  BY <1>1, ElementsEmpty DEF Counted, InSubmission
<1>5. Reported = {} /\ InPayment = {} /\ Held = {}
  BY <1>1 DEF Reported, InPayment, Held
<1>6. Routed
  BY <1>1, <1>5, ElementsEmpty DEF Routed, Apart, Distinct
<1> QED
  BY <1>2, <1>3, <1>4, <1>6 DEF QInv

----------------------------------------------------------------------------
(* process().                                                              *)

LEMMA ReceiveQ == ASSUME QInv, NEW kind \in Kinds, Receive(kind) PROVE QInv'
<1>1. /\ current = NoFrame /\ frames' = frames + 1 /\ frames < MaxFrames
      /\ current' = [id |-> frames + 1, kind |-> kind]
      /\ UNCHANGED compliance /\ UNCHANGED <<paymentQueue, paymentWorker, confirmed>>
  BY DEF Receive, compQ, compW, payments, shutdown, compliance
<1>2. frames \in 0..MaxFrames /\ frames' \in FrameIds /\ frames' \in 0..MaxFrames
  BY <1>1, QueuesAssumption DEF QInv, BridgeTypes, FrameIds
<1>3. BridgeTypes'
  BY <1>1, <1>2 DEF QInv, BridgeTypes, compliance
<1>4. Placed' /\ Counted' /\ Reported' = Reported /\ raised' = raised
  BY <1>1, TasksStutter DEF compliance
<1>5. /\ Elements(paymentQueue)' = Elements(paymentQueue) /\ InPayment' = InPayment
      /\ Elements(confirmed)' = Elements(confirmed)
      /\ Distinct(paymentQueue)' = Distinct(paymentQueue)
      /\ Distinct(confirmed)' = Distinct(confirmed)
  BY <1>1 DEF Elements, Distinct, InPayment
<1>6. Held = {} /\ Held' \in SUBSET {frames + 1}
  BY <1>1 DEF Held
<1>7. frames + 1 \notin 1..frames /\ 1..frames \subseteq 1..(frames + 1)
  BY <1>2
<1>8. Routed'
  BY <1>1, <1>2, <1>4, <1>5, <1>6, <1>7 DEF QInv, Routed, Apart
<1> QED
  BY <1>3, <1>4, <1>8 DEF QInv

\* The frame in hand is none that has been routed.
LEMMA HeldIsNew ==
    ASSUME QInv, current # NoFrame
    PROVE  /\ current.id = frames /\ frames \in FrameIds /\ Held = {frames}
           /\ frames \notin Reported \cup Elements(paymentQueue) \cup InPayment
                            \cup Elements(confirmed)
           /\ frames \in 1..frames
<1>1. current.id = frames /\ frames \in FrameIds /\ Held = {frames}
  BY DEF QInv, Routed, Held
<1>2. frames \in 1..frames
  BY <1>1, QueuesAssumption DEF FrameIds
<1> QED
  BY <1>1, <1>2 DEF QInv, Routed, Apart

LEMMA ReleaseQ ==
    ASSUME QInv, current' = NoFrame, UNCHANGED <<frames, paymentQueue, paymentWorker, confirmed>>,
           UNCHANGED compliance
    PROVE  QInv'
<1>1. BridgeTypes'
  BY DEF QInv, BridgeTypes, compliance
<1>2. Placed' /\ Counted' /\ Reported' = Reported /\ raised' = raised
  BY TasksStutter DEF compliance
<1>3. /\ Elements(paymentQueue)' = Elements(paymentQueue) /\ InPayment' = InPayment
      /\ Elements(confirmed)' = Elements(confirmed) /\ Held' = {}
      /\ Distinct(paymentQueue)' = Distinct(paymentQueue)
      /\ Distinct(confirmed)' = Distinct(confirmed)
  BY DEF Elements, Distinct, InPayment, Held
<1>4. Routed'
  BY <1>2, <1>3 DEF QInv, Routed, Apart
<1> QED
  BY <1>1, <1>2, <1>4 DEF QInv

LEMMA RouteAnomalyQ == ASSUME QInv, RouteAnomaly PROVE QInv'
<1>1. /\ current # NoFrame /\ current' = NoFrame
      /\ UNCHANGED <<frames, paymentQueue, paymentWorker, confirmed>>
      /\ UNCHANGED <<complianceWorker, complianceLog, failed, cancelled, atStop, phase>>
  BY DEF RouteAnomaly, compW, payments, shutdown
<1>2. CASE UNCHANGED compQ
  BY <1>1, <1>2, ReleaseQ DEF compQ, compliance
<1>3. ASSUME NEW severity \in 0..2, PutCompliance([frame |-> current.id, severity |-> severity])
      PROVE  QInv'
  <2> DEFINE t == [frame |-> current.id, severity |-> severity]
  <2>1. t \in ComplianceTask /\ t.frame = frames /\ t.frame \notin Reported
    BY <1>1, HeldIsNew DEF ComplianceTask
  <2>2. PutCompliance(t)
    BY <1>3
  <2> HIDE DEF t
  <2>3. /\ Placed' /\ Counted'
        /\ complianceQueue' \in Seq(ComplianceTask) /\ unfinished' \in Int
        /\ raised' = raised \cup {t} /\ Reported' = Reported \cup {frames}
        /\ \A u, v \in raised' : u.frame = v.frame => u = v
    BY <1>1, <2>1, <2>2, PutTask
  <2>4. BridgeTypes'
    BY <1>1, <2>1, <2>3 DEF QInv, BridgeTypes
  <2>5. /\ Elements(paymentQueue)' = Elements(paymentQueue) /\ InPayment' = InPayment
        /\ Elements(confirmed)' = Elements(confirmed) /\ Held' = {}
        /\ Distinct(paymentQueue)' = Distinct(paymentQueue)
        /\ Distinct(confirmed)' = Distinct(confirmed)
    BY <1>1 DEF Elements, Distinct, InPayment, Held
  <2>6. Routed'
    BY <1>1, <2>3, <2>5, HeldIsNew DEF QInv, Routed, Apart
  <2> QED
    BY <2>3, <2>4, <2>6 DEF QInv
<1>4. 0 \in 0..2 /\ 2 \in 0..2
  OBVIOUS
<1> QED
  BY <1>2, <1>3, <1>4 DEF RouteAnomaly

LEMMA RouteNormalQ == ASSUME QInv, RouteNormal PROVE QInv'
<1>1. /\ current # NoFrame /\ current' = NoFrame
      /\ UNCHANGED <<frames, paymentWorker, confirmed>> /\ UNCHANGED compliance
      /\ UNCHANGED paymentQueue \/ paymentQueue' = Append(paymentQueue, current.id)
  BY DEF RouteNormal, compQ, compW, payments, shutdown, compliance
<1>2. CASE UNCHANGED paymentQueue
  BY <1>1, <1>2, ReleaseQ
<1>3. CASE paymentQueue' = Append(paymentQueue, frames)
  <2>1. /\ Elements(paymentQueue)' = Elements(paymentQueue) \cup {frames}
        /\ Distinct(paymentQueue)' /\ paymentQueue' \in Seq(FrameIds)
    <3>1. /\ paymentQueue \in Seq(FrameIds) /\ Distinct(paymentQueue) /\ frames \in FrameIds
          /\ frames \notin Elements(paymentQueue)
      BY <1>1, HeldIsNew DEF QInv, BridgeTypes, Routed
    <3> QED
      BY <1>3, <3>1, ElementsAppend DEF Elements, Distinct
  <2>2. /\ Elements(confirmed)' = Elements(confirmed) /\ InPayment' = InPayment /\ Held' = {}
        /\ Distinct(confirmed)' = Distinct(confirmed)
    BY <1>1 DEF Elements, Distinct, InPayment, Held
  <2>3. BridgeTypes'
    BY <1>1, <2>1 DEF QInv, BridgeTypes, compliance
  <2>4. Placed' /\ Counted' /\ Reported' = Reported /\ raised' = raised
    BY <1>1, TasksStutter DEF compliance
  <2>5. Routed'
    BY <1>1, <2>1, <2>2, <2>4, HeldIsNew DEF QInv, Routed, Apart
  <2> QED
    BY <2>3, <2>4, <2>5 DEF QInv
<1> QED
  BY <1>1, <1>2, <1>3, HeldIsNew

\* The end of the stream, in the broadcast of a frame or not.
LEMMA StopStreamingQ == ASSUME QInv, StopStreaming PROVE QInv'
<1>1. /\ current' = NoFrame /\ UNCHANGED <<frames, paymentQueue, paymentWorker, confirmed>>
      /\ UNCHANGED <<complianceQueue, unfinished, raised, complianceWorker, complianceLog,
                     failed, cancelled>>
      /\ atStop' = Pending /\ phase' = IF unfinished = 0 THEN "drained" ELSE "draining"
  BY DEF StopStreaming, compQ, compW, payments
<1>2. /\ Elements(complianceQueue)' = Elements(complianceQueue) /\ InSubmission' = InSubmission
      /\ Elements(complianceLog)' = Elements(complianceLog) /\ Reported' = Reported
      /\ Distinct(complianceQueue)' = Distinct(complianceQueue)
  BY <1>1 DEF Elements, Distinct, InSubmission, Reported
<1>3. Pending \in SUBSET raised
  BY DEF Pending
<1>4. BridgeTypes'
  BY <1>1, <1>3 DEF QInv, BridgeTypes
<1>5. Placed'
  BY <1>1, <1>2 DEF QInv, Placed
<1>6. Counted'
  <2>1. CASE unfinished = 0
    <3>1. complianceWorker.pc = "idle" /\ Len(complianceQueue) = 0
      BY <2>1 DEF QInv, Counted, BridgeTypes
    <3>2. Elements(complianceQueue) = {} /\ InSubmission = {}
      BY <3>1 DEF Elements, InSubmission
    <3> QED
      BY <1>1, <1>2, <3>2 DEF QInv, Counted
  <2>2. CASE unfinished # 0
    BY <1>1, <1>2, <2>2 DEF QInv, Counted
  <2> QED
    BY <2>1, <2>2
<1>7. /\ Elements(paymentQueue)' = Elements(paymentQueue) /\ InPayment' = InPayment
      /\ Elements(confirmed)' = Elements(confirmed) /\ Held' = {}
      /\ Distinct(paymentQueue)' = Distinct(paymentQueue)
      /\ Distinct(confirmed)' = Distinct(confirmed)
  BY <1>1 DEF Elements, Distinct, InPayment, Held
<1>8. Routed'
  BY <1>1, <1>2, <1>7 DEF QInv, Routed, Apart
<1> QED
  BY <1>4, <1>5, <1>6, <1>8 DEF QInv

\* What the compliance worker does leaves frames and payments alone.
LEMMA PaysStutter ==
    ASSUME QInv, UNCHANGED pays, UNCHANGED raised
    PROVE  Routed'
<1>1. /\ UNCHANGED <<frames, current, paymentQueue, paymentWorker, confirmed>>
      /\ Elements(paymentQueue)' = Elements(paymentQueue) /\ InPayment' = InPayment
      /\ Elements(confirmed)' = Elements(confirmed) /\ Held' = Held /\ Reported' = Reported
      /\ Distinct(paymentQueue)' = Distinct(paymentQueue)
      /\ Distinct(confirmed)' = Distinct(confirmed)
  BY DEF pays, Elements, Distinct, InPayment, Held, Reported
<1> QED
  BY <1>1 DEF QInv, Routed, Apart

LEMMA ComplianceGetQ == ASSUME QInv, ComplianceGet PROVE QInv'
<1> DEFINE t == Head(complianceQueue)
<1>1. /\ complianceWorker.pc = "idle" /\ complianceQueue # <<>>
      /\ complianceWorker' = [pc |-> "submitting", task |-> t]
      /\ complianceQueue' = Tail(complianceQueue)
      /\ UNCHANGED <<unfinished, raised, complianceLog, failed, cancelled, atStop, phase>>
      /\ UNCHANGED pays
  BY DEF ComplianceGet, Take, NoOtherWorker, source, payments, shutdown, pays
<1>2. complianceQueue \in Seq(ComplianceTask) /\ Distinct(complianceQueue)
  BY DEF QInv, BridgeTypes, Placed
<1>3. /\ complianceQueue' \in Seq(ComplianceTask) /\ t \in ComplianceTask
      /\ Elements(complianceQueue) = Elements(complianceQueue)' \cup {t}
      /\ t \notin Elements(complianceQueue)' /\ Distinct(complianceQueue)'
      /\ Len(complianceQueue') = Len(complianceQueue) - 1 /\ Len(complianceQueue) \in Nat
  <2>1. /\ Tail(complianceQueue) \in Seq(ComplianceTask) /\ t \in ComplianceTask
        /\ Elements(complianceQueue) = Elements(Tail(complianceQueue)) \cup {t}
        /\ t \notin Elements(Tail(complianceQueue)) /\ Distinct(Tail(complianceQueue))
        /\ Len(Tail(complianceQueue)) = Len(complianceQueue) - 1 /\ Len(complianceQueue) \in Nat
    BY <1>1, <1>2, ElementsTail
  <2> HIDE DEF t
  <2>2. /\ Elements(complianceQueue)' = Elements(Tail(complianceQueue))
        /\ Distinct(complianceQueue)' = Distinct(Tail(complianceQueue))
    BY <1>1 DEF Elements, Distinct
  <2> QED
    BY <1>1, <2>1, <2>2
<1> HIDE DEF t
<1>4. /\ InSubmission = {} /\ InSubmission' = {t} /\ complianceWorker'.pc = "submitting"
      /\ complianceWorker'.task = t /\ Elements(complianceLog)' = Elements(complianceLog)
  BY <1>1 DEF InSubmission, Elements
<1>5. BridgeTypes'
  <2>1. UNCHANGED <<frames, paymentQueue, paymentWorker, confirmed>>
    BY <1>1 DEF pays
  <2>2. complianceWorker' \in [pc : {"idle", "submitting", "broadcasting"},
                               task : ComplianceTask \cup {NoTask}]
    BY <1>1, <1>3
  <2> QED
    BY <1>1, <1>3, <2>1, <2>2 DEF QInv, BridgeTypes
<1>6. Placed'
  BY <1>1, <1>3, <1>4 DEF QInv, Placed, Split
<1>7. Counted'
  BY <1>1, <1>3, <1>4 DEF QInv, Counted
<1> QED
  BY <1>1, <1>5, <1>6, <1>7, PaysStutter DEF QInv

\* The task in hand leaves it: logged, failed or, once its event has been
\* broadcast, forgotten.
LEMMA HandFacts ==
    ASSUME QInv, complianceWorker.pc = "submitting"
    PROVE  /\ complianceWorker.task \in ComplianceTask /\ InSubmission = {complianceWorker.task}
           /\ complianceWorker.task \in raised
BY DEF QInv, Placed, Split, InSubmission

LEMMA LoggedQ == ASSUME QInv, ComplianceLogged PROVE QInv'
<1> DEFINE t == complianceWorker.task
<1>1. /\ complianceWorker.pc = "submitting"
      /\ complianceWorker' = [complianceWorker EXCEPT !.pc = "broadcasting"]
      /\ complianceLog' = Append(complianceLog, t)
      /\ UNCHANGED <<complianceQueue, unfinished, raised, failed, cancelled, atStop, phase>>
      /\ UNCHANGED pays
  BY DEF ComplianceLogged, compQ, NoOtherWorker, source, payments, shutdown, pays
<1>2. t \in ComplianceTask /\ InSubmission = {t}
  BY <1>1, HandFacts
<1> HIDE DEF t
<1>3. /\ complianceLog' \in Seq(ComplianceTask)
      /\ Elements(complianceLog)' = Elements(complianceLog) \cup {t}
  <2>1. complianceLog \in Seq(ComplianceTask)
    BY DEF QInv, BridgeTypes
  <2> QED
    BY <1>1, <1>2, <2>1, ElementsAppend DEF Elements
<1>4. complianceWorker'.pc = "broadcasting"
  BY <1>1 DEF QInv, BridgeTypes
<1>5. /\ InSubmission' = {} /\ Elements(complianceQueue)' = Elements(complianceQueue)
      /\ Distinct(complianceQueue)' = Distinct(complianceQueue)
  BY <1>1, <1>4 DEF InSubmission, Elements, Distinct
<1>6. BridgeTypes'
  BY <1>1, <1>3 DEF QInv, BridgeTypes, pays
<1>7. Placed'
  BY <1>1, <1>2, <1>3, <1>4, <1>5 DEF QInv, Placed, Split
<1>8. Counted'
  BY <1>1, <1>2, <1>4, <1>5 DEF QInv, Counted
<1> QED
  BY <1>1, <1>6, <1>7, <1>8, PaysStutter DEF QInv

\* task_done() while something was in hand: the worker is idle again.
LEMMA DoneCounted ==
    ASSUME QInv, complianceWorker.pc # "idle", TaskDone, complianceWorker' = IdleCompliance,
           UNCHANGED <<complianceQueue, atStop>>
    PROVE  Counted'
<1>1. /\ unfinished = Len(complianceQueue) + 1 /\ unfinished' = unfinished - 1
      /\ Len(complianceQueue) \in Nat /\ complianceWorker'.pc = "idle"
  BY DEF QInv, Counted, TaskDone, IdleCompliance, BridgeTypes
<1>2. Elements(complianceQueue)' = Elements(complianceQueue) /\ InSubmission' = {}
  BY <1>1 DEF Elements, InSubmission
<1>3. CASE phase' = phase
  BY <1>1, <1>2, <1>3 DEF QInv, Counted
<1>4. CASE phase' # phase
  <2>1. unfinished = 1
    BY <1>4 DEF TaskDone
  <2>2. Elements(complianceQueue) = {}
    BY <1>1, <2>1 DEF Elements
  <2> QED
    BY <1>1, <1>2, <2>2 DEF Counted
<1> QED
  BY <1>3, <1>4

LEMMA BroadcastQ == ASSUME QInv, ComplianceBroadcast PROVE QInv'
<1>1. /\ complianceWorker.pc = "broadcasting" /\ complianceWorker' = IdleCompliance /\ TaskDone
      /\ UNCHANGED <<complianceQueue, raised, complianceLog, failed, cancelled, atStop>>
      /\ UNCHANGED pays
  BY DEF ComplianceBroadcast, NoOtherWorker, source, payments, shutdown, pays
<1>2. /\ InSubmission = {} /\ InSubmission' = {} /\ complianceWorker'.pc = "idle"
      /\ Elements(complianceQueue)' = Elements(complianceQueue)
      /\ Elements(complianceLog)' = Elements(complianceLog)
      /\ Distinct(complianceQueue)' = Distinct(complianceQueue)
  BY <1>1 DEF InSubmission, Elements, Distinct, IdleCompliance
<1>3. Counted'
  BY <1>1, DoneCounted
<1>4. Placed'
  BY <1>1, <1>2 DEF QInv, Placed
<1>5. BridgeTypes'
  BY <1>1 DEF QInv, BridgeTypes, pays, IdleCompliance, TaskDone
<1> QED
  BY <1>1, <1>3, <1>4, <1>5, PaysStutter DEF QInv

LEMMA FailedQ == ASSUME QInv, ComplianceFailed PROVE QInv'
<1> DEFINE t == complianceWorker.task
<1>1. /\ complianceWorker.pc = "submitting" /\ complianceWorker' = IdleCompliance /\ TaskDone
      /\ failed' = failed \cup {t}
      /\ UNCHANGED <<complianceQueue, raised, complianceLog, cancelled, atStop>>
      /\ UNCHANGED pays
  BY DEF ComplianceFailed, NoOtherWorker, source, payments, shutdown, pays
<1>2. InSubmission = {t} /\ t \in raised
  BY <1>1, HandFacts
<1> HIDE DEF t
<1>3. /\ InSubmission' = {} /\ complianceWorker'.pc = "idle"
      /\ Elements(complianceQueue)' = Elements(complianceQueue)
      /\ Elements(complianceLog)' = Elements(complianceLog)
      /\ Distinct(complianceQueue)' = Distinct(complianceQueue)
  BY <1>1 DEF InSubmission, Elements, Distinct, IdleCompliance
<1>4. Counted'
  BY <1>1, DoneCounted
<1>5. Placed'
  BY <1>1, <1>2, <1>3 DEF QInv, Placed, Split
<1>6. BridgeTypes'
  BY <1>1 DEF QInv, BridgeTypes, pays, IdleCompliance, TaskDone
<1> QED
  BY <1>1, <1>4, <1>5, <1>6, PaysStutter DEF QInv

\* The cancellation: what is in hand is lost, and counted as done.
LEMMA CancelQ == ASSUME QInv, CancelWorkers PROVE QInv'
<1>1. /\ phase' = "stopped" /\ complianceWorker' = IdleCompliance /\ paymentWorker' = IdlePayment
      /\ unfinished' = IF complianceWorker.pc = "idle" THEN unfinished ELSE unfinished - 1
      /\ cancelled' = IF complianceWorker.pc = "submitting"
                      THEN cancelled \cup {complianceWorker.task} ELSE cancelled
      /\ UNCHANGED <<frames, current, complianceQueue, raised, complianceLog, failed,
                     paymentQueue, confirmed, atStop>>
  BY DEF CancelWorkers, source
<1>2. /\ InSubmission' = {} /\ complianceWorker'.pc = "idle" /\ InPayment' = {}
      /\ paymentWorker'.pc = "idle" /\ Held' = Held /\ Reported' = Reported
      /\ Elements(complianceQueue)' = Elements(complianceQueue)
      /\ Elements(complianceLog)' = Elements(complianceLog)
      /\ Elements(paymentQueue)' = Elements(paymentQueue)
      /\ Elements(confirmed)' = Elements(confirmed)
      /\ Distinct(complianceQueue)' = Distinct(complianceQueue)
      /\ Distinct(paymentQueue)' = Distinct(paymentQueue)
      /\ Distinct(confirmed)' = Distinct(confirmed)
  BY <1>1 DEF InSubmission, Elements, Distinct, IdleCompliance, IdlePayment, InPayment, Held,
              Reported
<1>3. BridgeTypes'
  BY <1>1 DEF QInv, BridgeTypes, IdleCompliance, IdlePayment
<1>4. cancelled' = cancelled \cup InSubmission
  BY <1>1 DEF InSubmission
<1>5. Placed'
  BY <1>1, <1>2, <1>4 DEF QInv, Placed, Split
<1>6. Counted'
  BY <1>1, <1>2 DEF QInv, Counted, BridgeTypes
<1>7. Routed'
  BY <1>1, <1>2 DEF QInv, Routed, Apart
<1> QED
  BY <1>3, <1>5, <1>6, <1>7 DEF QInv

----------------------------------------------------------------------------
(* _payment_worker.                                                        *)

LEMMA PaymentGetQ == ASSUME QInv, PaymentGet PROVE QInv'
<1> DEFINE f == Head(paymentQueue)
<1>1. /\ paymentWorker.pc = "idle" /\ paymentQueue # <<>>
      /\ paymentWorker' = [pc |-> "checking", frame |-> f]
      /\ paymentQueue' = Tail(paymentQueue)
      /\ UNCHANGED <<frames, current, confirmed>> /\ UNCHANGED compliance
  BY DEF PaymentGet, PaymentsOnly, source, compQ, compW, shutdown, compliance
<1>2. paymentQueue \in Seq(FrameIds) /\ Distinct(paymentQueue)
  BY DEF QInv, BridgeTypes, Routed
<1>3. /\ paymentQueue' \in Seq(FrameIds) /\ f \in FrameIds
      /\ Elements(paymentQueue) = Elements(paymentQueue)' \cup {f}
      /\ f \notin Elements(paymentQueue)' /\ Distinct(paymentQueue)'
  <2>1. /\ Tail(paymentQueue) \in Seq(FrameIds) /\ f \in FrameIds
        /\ Elements(paymentQueue) = Elements(Tail(paymentQueue)) \cup {f}
        /\ f \notin Elements(Tail(paymentQueue)) /\ Distinct(Tail(paymentQueue))
    BY <1>1, <1>2, ElementsTail
  <2> HIDE DEF f
  <2>2. /\ Elements(paymentQueue)' = Elements(Tail(paymentQueue))
        /\ Distinct(paymentQueue)' = Distinct(Tail(paymentQueue))
    BY <1>1 DEF Elements, Distinct
  <2> QED
    BY <1>1, <2>1, <2>2
<1> HIDE DEF f
<1>4. /\ InPayment = {} /\ InPayment' = {f} /\ paymentWorker'.frame = f /\ Held' = Held
      /\ Elements(confirmed)' = Elements(confirmed)
      /\ Distinct(confirmed)' = Distinct(confirmed)
  BY <1>1 DEF InPayment, Elements, Distinct, Held
<1>5. BridgeTypes'
  <2>1. paymentWorker' \in [pc : {"idle", "checking", "paying", "broadcasting"},
                            frame : FrameIds \cup {NoFrame}]
    BY <1>1, <1>3
  <2> QED
    BY <1>1, <1>3, <2>1 DEF QInv, BridgeTypes, compliance
<1>6. Placed' /\ Counted' /\ Reported' = Reported /\ raised' = raised
  BY <1>1, TasksStutter DEF compliance
<1>7. Routed'
  BY <1>1, <1>3, <1>4, <1>6 DEF QInv, Routed, Apart
<1> QED
  BY <1>5, <1>6, <1>7 DEF QInv

LEMMA PayFacts ==
    ASSUME QInv, paymentWorker.pc \in {"checking", "paying"}
    PROVE  /\ paymentWorker.frame \in FrameIds /\ InPayment = {paymentWorker.frame}
           /\ paymentWorker.frame \notin Held \cup Reported \cup Elements(paymentQueue)
                                         \cup Elements(confirmed)
           /\ paymentWorker.frame \in 1..frames
BY DEF QInv, Routed, Apart, InPayment

\* The worker goes on, or drops the frame it has.
LEMMA WorkerGoesOn ==
    ASSUME QInv, UNCHANGED compliance, UNCHANGED <<frames, current, paymentQueue, confirmed>>,
           \/ paymentWorker' = IdlePayment
           \/ /\ paymentWorker.pc = "checking"
              /\ paymentWorker' = [paymentWorker EXCEPT !.pc = "paying"]
    PROVE  QInv'
<1>1. BridgeTypes'
  <2>1. paymentWorker' \in [pc : {"idle", "checking", "paying", "broadcasting"},
                            frame : FrameIds \cup {NoFrame}]
    BY DEF QInv, BridgeTypes, IdlePayment
  <2> QED
    BY <2>1 DEF QInv, BridgeTypes, compliance
<1>2. Placed' /\ Counted' /\ Reported' = Reported /\ raised' = raised
  BY TasksStutter DEF compliance
<1>3. \/ paymentWorker'.pc = "idle"
      \/ /\ paymentWorker.pc = "checking" /\ paymentWorker'.pc = "paying"
         /\ paymentWorker'.frame = paymentWorker.frame
  BY DEF IdlePayment, QInv, BridgeTypes
<1>4. /\ InPayment' \in SUBSET InPayment /\ Held' = Held
      /\ Elements(paymentQueue)' = Elements(paymentQueue)
      /\ Elements(confirmed)' = Elements(confirmed)
      /\ Distinct(paymentQueue)' = Distinct(paymentQueue)
      /\ Distinct(confirmed)' = Distinct(confirmed)
  BY <1>3 DEF InPayment, Elements, Distinct, Held
<1>5. Routed'
  BY <1>2, <1>3, <1>4 DEF QInv, Routed, Apart
<1> QED
  BY <1>1, <1>2, <1>5 DEF QInv

LEMMA DeniedQ == ASSUME QInv, OracleDenied PROVE QInv'
<1> DEFINE t == [frame |-> paymentWorker.frame, severity |-> 1]
<1>1. /\ paymentWorker.pc = "checking" /\ paymentWorker' = IdlePayment /\ PutCompliance(t)
      /\ UNCHANGED <<frames, current, paymentQueue, confirmed>>
      /\ UNCHANGED <<complianceWorker, complianceLog, failed, cancelled, atStop, phase>>
  BY DEF OracleDenied, source, compW, shutdown
<1>2. t \in ComplianceTask /\ t.frame = paymentWorker.frame /\ t.frame \notin Reported
  BY <1>1, PayFacts DEF ComplianceTask
<1> HIDE DEF t
<1>3. /\ Placed' /\ Counted'
      /\ complianceQueue' \in Seq(ComplianceTask) /\ unfinished' \in Int
      /\ raised' = raised \cup {t} /\ Reported' = Reported \cup {t.frame}
      /\ \A u, v \in raised' : u.frame = v.frame => u = v
  BY <1>1, <1>2, PutTask
<1>4. BridgeTypes'
  BY <1>1, <1>2, <1>3 DEF QInv, BridgeTypes, IdlePayment
<1>5. /\ InPayment' = {} /\ paymentWorker'.pc = "idle" /\ Held' = Held
      /\ Elements(paymentQueue)' = Elements(paymentQueue)
      /\ Elements(confirmed)' = Elements(confirmed)
      /\ Distinct(paymentQueue)' = Distinct(paymentQueue)
      /\ Distinct(confirmed)' = Distinct(confirmed)
  BY <1>1 DEF InPayment, Elements, Distinct, Held, IdlePayment
<1>6. Routed'
  BY <1>1, <1>2, <1>3, <1>5, PayFacts DEF QInv, Routed, Apart
<1> QED
  BY <1>3, <1>4, <1>6 DEF QInv

LEMMA ConfirmedQ == ASSUME QInv, PaymentConfirmed PROVE QInv'
<1> DEFINE f == paymentWorker.frame
<1>1. /\ paymentWorker.pc = "paying" /\ confirmed' = Append(confirmed, f)
      /\ paymentWorker' = [paymentWorker EXCEPT !.pc = "broadcasting"]
      /\ UNCHANGED <<frames, current, paymentQueue>> /\ UNCHANGED compliance
  BY DEF PaymentConfirmed, PaymentsOnly, source, compQ, compW, shutdown, compliance
<1>2. /\ f \in FrameIds /\ InPayment = {f} /\ f \in 1..frames
      /\ f \notin Held \cup Reported \cup Elements(paymentQueue) \cup Elements(confirmed)
  BY <1>1, PayFacts
<1> HIDE DEF f
<1>3. /\ confirmed' \in Seq(FrameIds) /\ Distinct(confirmed)'
      /\ Elements(confirmed)' = Elements(confirmed) \cup {f}
  <2>1. confirmed \in Seq(FrameIds) /\ Distinct(confirmed)
    BY DEF QInv, BridgeTypes, Routed
  <2> QED
    BY <1>1, <1>2, <2>1, ElementsAppend DEF Elements, Distinct
<1>4. paymentWorker'.pc = "broadcasting"
      /\ paymentWorker' \in [pc : {"idle", "checking", "paying", "broadcasting"},
                             frame : FrameIds \cup {NoFrame}]
  BY <1>1 DEF QInv, BridgeTypes
<1>5. /\ InPayment' = {} /\ Held' = Held
      /\ Elements(paymentQueue)' = Elements(paymentQueue)
      /\ Distinct(paymentQueue)' = Distinct(paymentQueue)
  BY <1>1, <1>4 DEF InPayment, Elements, Distinct, Held
<1>6. BridgeTypes'
  BY <1>1, <1>3, <1>4 DEF QInv, BridgeTypes, compliance
<1>7. Placed' /\ Counted' /\ Reported' = Reported /\ raised' = raised
  BY <1>1, TasksStutter DEF compliance
<1>8. Routed'
  BY <1>1, <1>2, <1>3, <1>4, <1>5, <1>7 DEF QInv, Routed, Apart
<1> QED
  BY <1>6, <1>7, <1>8 DEF QInv

----------------------------------------------------------------------------

LEMMA StepQInv == ASSUME QInv, [Next]_vars PROVE QInv'
<1>1. CASE RouteAnomaly \/ RouteNormal \/ StopStreaming \/ CancelWorkers
  BY <1>1, RouteAnomalyQ, RouteNormalQ, StopStreamingQ, CancelQ
<1>2. CASE ComplianceStep
  BY <1>2, ComplianceGetQ, LoggedQ, BroadcastQ, FailedQ DEF ComplianceStep
<1>3. CASE PaymentGet \/ OracleDenied \/ PaymentConfirmed
  BY <1>3, PaymentGetQ, DeniedQ, ConfirmedQ
<1>4. CASE OracleApproved \/ PaymentEnds
  BY <1>4, WorkerGoesOn DEF OracleApproved, PaymentEnds, PaymentsOnly, source, compQ, compW,
                            shutdown, compliance
<1>5. ASSUME NEW kind \in Kinds, Receive(kind) PROVE QInv'
  BY <1>5, ReceiveQ
<1>6. CASE Tick \/ SceneGet \/ SceneEnds \/ ScoringFallback
  BY <1>6, QStutter DEF Tick, SceneGet, SceneEnds, ScoringFallback, source, compQ, compW,
                        payments, shutdown, compliance, pays
<1>7. CASE DrainExpires
  <2>1. /\ phase' = "expired" /\ UNCHANGED pays
        /\ UNCHANGED <<complianceQueue, unfinished, raised, complianceWorker, complianceLog,
                       failed, cancelled, atStop>>
    BY <1>7 DEF DrainExpires, source, compQ, compW, payments, shutdown, pays
  <2>2. /\ Elements(complianceQueue)' = Elements(complianceQueue) /\ InSubmission' = InSubmission
        /\ Elements(complianceLog)' = Elements(complianceLog)
        /\ Distinct(complianceQueue)' = Distinct(complianceQueue)
    BY <2>1 DEF Elements, Distinct, InSubmission
  <2>3. BridgeTypes'
    BY <2>1 DEF QInv, BridgeTypes, pays
  <2>4. Placed' /\ Counted'
    BY <2>1, <2>2 DEF QInv, Placed, Counted, Split
  <2> QED
    BY <2>1, <2>3, <2>4, PaysStutter DEF QInv
<1>8. CASE ApplyThrottle \/ ApplyReserve \/ TreasuryEnds
           \/ \E pending \in SUBSET Adjustments, healthy \in BOOLEAN :
                 TreasuryAnswers(pending, healthy)
  BY <1>8, QStutter DEF ApplyThrottle, ApplyReserve, TreasuryEnds, TreasuryAnswers, AdviceOnly,
                        source, compQ, compW, payments, shutdown, compliance, pays
<1>9. CASE UNCHANGED vars
  BY <1>9, QStutter DEF vars, source, compQ, compW, payments, shutdown, compliance, pays
<1> QED
  BY <1>1, <1>2, <1>3, <1>4, <1>5, <1>6, <1>7, <1>8, <1>9 DEF Next

\* However many frames, whatever is approved, denied or fails, and whenever the
\* bridge is stopped: no task is ever lost, nor counted twice, and join()
\* waits for exactly what is not handled.
THEOREM NoTaskIsLost == Spec => []ComplianceAccounting
<1>1. ASSUME QInv PROVE ComplianceAccounting
  <2> DEFINE places == <<Elements(complianceQueue), InSubmission, Elements(complianceLog),
                         failed, cancelled>>
  <2>1. Elements(places) = {Elements(complianceQueue), InSubmission, Elements(complianceLog),
                            failed, cancelled}
    <3>1. /\ Len(places) = 5 /\ places[1] = Elements(complianceQueue) /\ places[2] = InSubmission
          /\ places[3] = Elements(complianceLog) /\ places[4] = failed /\ places[5] = cancelled
      OBVIOUS
    <3>2. 1..5 = {1, 2, 3, 4, 5}
      OBVIOUS
    <3> HIDE DEF places
    <3> QED
      BY <3>1, <3>2 DEF Elements
  <2>2. raised = UNION Elements(places)
    BY <1>1, <2>1 DEF QInv, Placed, Split
  <2>3. \A i, j \in 1..5 : i # j => places[i] \cap places[j] = {}
    BY <1>1 DEF QInv, Placed, Split
  <2> QED
    BY <1>1, <2>2, <2>3 DEF QInv, Counted, ComplianceAccounting
<1> QED
  BY <1>1, InitQInv, StepQInv, PTL DEF Spec

\* The drain is never over early: what was pending when it began is handled
\* when join() lets run() go on to cancel the workers.
THEOREM DrainIsComplete == Spec => []JoinMeansHandled
<1>1. ASSUME QInv PROVE JoinMeansHandled
  BY <1>1 DEF QInv, Placed, Split, Counted, JoinMeansHandled, Pending
<1> QED
  BY <1>1, InitQInv, StepQInv, PTL DEF Spec

----------------------------------------------------------------------------
(* What the full payment queue dropped.                                    *)

\* A dropped frame is met nowhere again: not with process(), in a queue, with
\* the payment worker, among the reported or among the paid.
Seen == Held \cup Reported \cup Elements(paymentQueue) \cup InPayment \cup Elements(confirmed)
DropInv == dropped \subseteq 1..frames /\ dropped \cap Seen = {}

LEMMA DropStep ==
    ASSUME DropInv, UNCHANGED <<dropped, frames>>, Seen' \subseteq Seen
    PROVE  DropInv'
BY DEF DropInv

\* A step that puts no frame anywhere, though it may let go of one.
LEMMA DropKept ==
    ASSUME QInv, DropInv, UNCHANGED <<dropped, frames, raised, paymentQueue, confirmed>>,
           current' \in {current, NoFrame},
           \/ paymentWorker' = paymentWorker \/ paymentWorker' = IdlePayment
           \/ /\ paymentWorker.pc = "checking"
              /\ paymentWorker' = [paymentWorker EXCEPT !.pc = "paying"]
    PROVE  DropInv'
<1>1. /\ Reported' = Reported /\ Elements(paymentQueue)' = Elements(paymentQueue)
      /\ Elements(confirmed)' = Elements(confirmed)
  BY DEF Reported, Elements
<1>2. Held' \subseteq Held
  BY DEF Held
<1>3. InPayment' \subseteq InPayment
  BY DEF InPayment, IdlePayment, QInv, BridgeTypes
<1>4. Seen' \subseteq Seen
  BY <1>1, <1>2, <1>3 DEF Seen
<1> QED
  BY <1>4, DropStep

LEMMA ReceiveDrop == ASSUME QInv, DropInv, NEW kind \in Kinds, Receive(kind) PROVE DropInv'
<1>1. /\ frames' = frames + 1 /\ current' = [id |-> frames + 1, kind |-> kind]
      /\ UNCHANGED <<dropped, raised, paymentQueue, paymentWorker, confirmed>>
  BY DEF Receive, routing, compQ, payments
<1>2. frames \in Nat
  BY QueuesAssumption DEF QInv, BridgeTypes
<1>3. /\ Reported' = Reported /\ Elements(paymentQueue)' = Elements(paymentQueue)
      /\ Elements(confirmed)' = Elements(confirmed) /\ InPayment' = InPayment
      /\ Held' \subseteq {frames + 1}
  BY <1>1 DEF Reported, Elements, InPayment, Held
<1>4. Seen' \subseteq Seen \cup {frames + 1}
  BY <1>3 DEF Seen
<1>5. frames + 1 \notin 1..frames /\ 1..frames \subseteq 1..(frames + 1)
  BY <1>2
<1> QED
  BY <1>1, <1>4, <1>5 DEF DropInv

LEMMA RouteAnomalyDrop == ASSUME QInv, DropInv, RouteAnomaly PROVE DropInv'
<1>1. /\ current # NoFrame /\ current' = NoFrame
      /\ UNCHANGED <<dropped, frames, paymentQueue, paymentWorker, confirmed>>
      /\ \/ raised' = raised
         \/ \E severity \in {0, 2} : raised' = raised \cup {[frame |-> current.id, severity |-> severity]}
  BY DEF RouteAnomaly, PutCompliance, compQ, payments
<1>2. Held = {frames} /\ current.id = frames
  BY <1>1, HeldIsNew
<1>3. Reported' \subseteq Reported \cup {frames}
  BY <1>1, <1>2 DEF Reported
<1>4. /\ Elements(paymentQueue)' = Elements(paymentQueue) /\ Held' = {}
      /\ Elements(confirmed)' = Elements(confirmed) /\ InPayment' = InPayment
  BY <1>1 DEF Elements, InPayment, Held
<1>5. Seen' \subseteq Seen
  BY <1>2, <1>3, <1>4 DEF Seen
<1> QED
  BY <1>1, <1>5, DropStep

LEMMA RouteNormalDrop == ASSUME QInv, DropInv, RouteNormal PROVE DropInv'
<1>1. /\ current # NoFrame /\ current' = NoFrame
      /\ UNCHANGED <<frames, raised, paymentWorker, confirmed>>
      /\ \/ UNCHANGED <<paymentQueue, dropped>>
         \/ dropped' = dropped \cup {current.id} /\ UNCHANGED paymentQueue
         \/ paymentQueue' = Append(paymentQueue, current.id) /\ UNCHANGED dropped
  BY DEF RouteNormal, compQ, payments
<1>2. /\ current.id = frames /\ frames \in FrameIds /\ Held = {frames} /\ frames \in 1..frames
      /\ frames \notin Reported \cup Elements(paymentQueue) \cup InPayment \cup Elements(confirmed)
  BY <1>1, HeldIsNew
<1>3. /\ Reported' = Reported /\ Held' = {} /\ InPayment' = InPayment
      /\ Elements(confirmed)' = Elements(confirmed)
  BY <1>1 DEF Reported, Elements, InPayment, Held
<1>4. CASE UNCHANGED paymentQueue
  <2>1. Elements(paymentQueue)' = Elements(paymentQueue)
    BY <1>4 DEF Elements
  <2>2. Seen' \subseteq Seen /\ frames \notin Seen'
    BY <1>2, <1>3, <2>1 DEF Seen
  <2>3. dropped' \subseteq dropped \cup {frames}
    BY <1>1, <1>2
  <2> QED
    BY <1>1, <1>2, <2>2, <2>3 DEF DropInv
<1>5. CASE paymentQueue' = Append(paymentQueue, frames) /\ UNCHANGED dropped
  <2>1. Elements(paymentQueue)' = Elements(paymentQueue) \cup {frames}
    <3>1. paymentQueue \in Seq(FrameIds)
      BY DEF QInv, BridgeTypes
    <3> QED
      BY <1>2, <1>5, <3>1, ElementsAppend DEF Elements, QInv, Routed
  <2>2. Seen' \subseteq Seen
    BY <1>2, <1>3, <2>1 DEF Seen
  <2> QED
    BY <1>1, <1>5, <2>2, DropStep
<1> QED
  BY <1>1, <1>2, <1>4, <1>5

LEMMA PaymentGetDrop == ASSUME QInv, DropInv, PaymentGet PROVE DropInv'
<1> DEFINE f == Head(paymentQueue)
<1>1. /\ paymentQueue # <<>> /\ paymentWorker' = [pc |-> "checking", frame |-> f]
      /\ paymentQueue' = Tail(paymentQueue)
      /\ UNCHANGED <<dropped, frames, current, raised, confirmed>>
  BY DEF PaymentGet, PaymentsOnly, source, routing, compQ
<1>2. Elements(paymentQueue) = Elements(Tail(paymentQueue)) \cup {f}
  <2>1. paymentQueue \in Seq(FrameIds) /\ Distinct(paymentQueue)
    BY DEF QInv, BridgeTypes, Routed
  <2> QED
    BY <1>1, <2>1, ElementsTail
<1> HIDE DEF f
<1>3. /\ Elements(paymentQueue)' = Elements(Tail(paymentQueue)) /\ InPayment' = {f}
      /\ Reported' = Reported /\ Held' = Held /\ Elements(confirmed)' = Elements(confirmed)
  BY <1>1 DEF Elements, InPayment, Reported, Held
<1>4. Seen' \subseteq Seen
  BY <1>2, <1>3 DEF Seen
<1> QED
  BY <1>1, <1>4, DropStep

LEMMA DeniedDrop == ASSUME QInv, DropInv, OracleDenied PROVE DropInv'
<1>1. /\ paymentWorker.pc = "checking" /\ paymentWorker' = IdlePayment
      /\ UNCHANGED <<dropped, frames, current, paymentQueue, confirmed>>
      /\ raised' = raised \cup {[frame |-> paymentWorker.frame, severity |-> 1]}
  BY DEF OracleDenied, PutCompliance, source, routing
<1>2. InPayment = {paymentWorker.frame}
  BY <1>1, PayFacts
<1>3. Reported' = Reported \cup {paymentWorker.frame}
  <2> DEFINE t == [frame |-> paymentWorker.frame, severity |-> 1]
  <2>1. t.frame = paymentWorker.frame /\ raised' = raised \cup {t}
    BY <1>1
  <2> HIDE DEF t
  <2> QED
    BY <2>1 DEF Reported
<1>4. /\ InPayment' = {} /\ Held' = Held /\ Elements(confirmed)' = Elements(confirmed)
      /\ Elements(paymentQueue)' = Elements(paymentQueue)
  BY <1>1 DEF InPayment, IdlePayment, Held, Elements
<1>5. Seen' \subseteq Seen
  BY <1>2, <1>3, <1>4 DEF Seen
<1> QED
  BY <1>1, <1>5, DropStep

LEMMA ConfirmedDrop == ASSUME QInv, DropInv, PaymentConfirmed PROVE DropInv'
<1> DEFINE f == paymentWorker.frame
<1>1. /\ paymentWorker.pc = "paying" /\ confirmed' = Append(confirmed, f)
      /\ paymentWorker'.pc = "broadcasting"
      /\ UNCHANGED <<dropped, frames, current, raised, paymentQueue>>
  BY DEF PaymentConfirmed, PaymentsOnly, source, routing, compQ, QInv, BridgeTypes
<1>2. InPayment = {f} /\ f \in FrameIds /\ f \notin Elements(confirmed)
  BY <1>1, PayFacts
<1> HIDE DEF f
<1>3. Elements(confirmed)' = Elements(confirmed) \cup {f}
  <2>1. confirmed \in Seq(FrameIds) /\ Distinct(confirmed)
    BY DEF QInv, BridgeTypes, Routed
  <2> QED
    BY <1>1, <1>2, <2>1, ElementsAppend DEF Elements
<1>4. /\ InPayment' = {} /\ Held' = Held /\ Reported' = Reported
      /\ Elements(paymentQueue)' = Elements(paymentQueue)
  BY <1>1 DEF InPayment, Held, Reported, Elements
<1>5. Seen' \subseteq Seen
  BY <1>2, <1>3, <1>4 DEF Seen
<1> QED
  BY <1>1, <1>5, DropStep

LEMMA InitDrop == ASSUME Init PROVE DropInv
BY DEF Init, DropInv

LEMMA StepDrop == ASSUME QInv, DropInv, [Next]_vars PROVE DropInv'
<1>1. CASE RouteAnomaly \/ RouteNormal
  BY <1>1, RouteAnomalyDrop, RouteNormalDrop
<1>2. CASE PaymentGet \/ OracleDenied \/ PaymentConfirmed
  BY <1>2, PaymentGetDrop, DeniedDrop, ConfirmedDrop
<1>3. ASSUME NEW kind \in Kinds, Receive(kind) PROVE DropInv'
  BY <1>3, ReceiveDrop
<1>4. CASE StopStreaming \/ DrainExpires \/ CancelWorkers
  BY <1>4, DropKept DEF StopStreaming, DrainExpires, CancelWorkers, source, routing, compQ, payments
<1>5. CASE ComplianceStep
  BY <1>5, DropKept DEF ComplianceStep, ComplianceGet, ComplianceLogged, ComplianceBroadcast,
                        ComplianceFailed, NoOtherWorker, source, routing, compQ, payments
<1>6. CASE OracleApproved \/ PaymentEnds
  BY <1>6, DropKept DEF OracleApproved, PaymentEnds, PaymentsOnly, source, routing, compQ
<1>7. CASE Tick \/ SceneGet \/ SceneEnds \/ ScoringFallback
  BY <1>7, DropKept DEF Tick, SceneGet, SceneEnds, ScoringFallback, source, routing, compQ, payments
<1>8. CASE ApplyThrottle \/ ApplyReserve \/ TreasuryEnds
           \/ \E pending \in SUBSET Adjustments, healthy \in BOOLEAN :
                 TreasuryAnswers(pending, healthy)
  BY <1>8, DropKept DEF ApplyThrottle, ApplyReserve, TreasuryEnds, TreasuryAnswers, AdviceOnly,
                        source, routing, compQ, payments
<1>9. CASE UNCHANGED vars
  BY <1>9, DropKept DEF vars, source, routing, compQ, payments
<1> QED
  BY <1>1, <1>2, <1>3, <1>4, <1>5, <1>6, <1>7, <1>8, <1>9 DEF Next

\* For any number of frames and any length of the queues: a frame is paid for
\* at most once, reported at most once, never both, and neither once the full
\* payment queue has dropped it.
THEOREM OneOutcome == Spec => []OneOutcomePerFrame
<1>1. ASSUME QInv, DropInv PROVE OneOutcomePerFrame
  BY <1>1 DEF QInv, Routed, Apart, Distinct, Reported, OneOutcomePerFrame, DropInv, Seen
<1>2. Init => QInv /\ DropInv
  BY InitQInv, InitDrop
<1>3. QInv /\ DropInv /\ [Next]_vars => (QInv /\ DropInv)'
  BY StepQInv, StepDrop
<1> QED
  BY <1>1, <1>2, <1>3, PTL DEF Spec

----------------------------------------------------------------------------
(* The payment log.                                                        *)

\* It has as many entries as there were payments, up to its size, and they
\* are the last of them.
RingInv ==
    /\ confirmed \in Seq(FrameIds) /\ lamportMult \in {100, Reserve}
    /\ paymentLog \in Seq([frame : FrameIds, lamports : Nat])
    /\ RingKeepsLatest

LEMMA InitRing == ASSUME Init PROVE RingInv
<1>1. PaymentLogMax \in Nat
  BY QueuesAssumption
<1> QED
  BY <1>1 DEF Init, RingInv, RingKeepsLatest

LEMMA RingStutter ==
    ASSUME RingInv, UNCHANGED <<paymentLog, confirmed>>, lamportMult' \in {lamportMult, 100, Reserve}
    PROVE  RingInv'
BY DEF RingInv, RingKeepsLatest

\* The longest a log of n entries may be, and what it means to hold the last
\* payments.
Cut(n) == IF n > PaymentLogMax THEN PaymentLogMax ELSE n
EndOf(s, t) ==
    \A i \in 1..Len(s) : Len(t) - Len(s) + i \in 1..Len(t) /\ s[i] = t[Len(t) - Len(s) + i]
FramesOf(log, paid) ==
    \A i \in 1..Len(log) : log[i].frame = paid[Len(paid) - Len(log) + i]

LEMMA RingFacts ==
    ASSUME NEW S, NEW log \in Seq(S)
    PROVE  Ring(log) \in Seq(S) /\ Len(Ring(log)) = Cut(Len(log)) /\ EndOf(Ring(log), log)
<1> DEFINE m == PaymentLogMax
           n == Len(log)
<1>1. m \in Nat /\ m > 0 /\ n \in Nat /\ \A i \in 1..n : log[i] \in S
  BY QueuesAssumption
<1>2. CASE n > m
  <2>1. Ring(log) = SubSeq(log, n - m + 1, n)
    BY <1>2 DEF Ring
  <2>2. /\ SubSeq(log, n - m + 1, n) = [i \in 1..m |-> log[i + (n - m)]]
        /\ Len(SubSeq(log, n - m + 1, n)) = m
        /\ SubSeq(log, n - m + 1, n) \in Seq(S)
    <3> HIDE DEF n, m
    <3>1. n - m + 1 \in 1..n /\ n \in 1..n /\ n - (n - m + 1) + 1 = m
      BY <1>1, <1>2
    <3> QED
      BY <1>1, <1>2, <3>1 DEF n
  <2>3. \A i \in 1..m : n - m + i \in 1..n /\ i + (n - m) = n - m + i
    <3> HIDE DEF n, m
    <3> QED
      BY <1>1, <1>2
  <2> QED
    BY <1>1, <1>2, <2>1, <2>2, <2>3 DEF Cut, EndOf
<1>3. CASE ~(n > m)
  <2>1. Ring(log) = log
    BY <1>3 DEF Ring
  <2> QED
    BY <1>1, <1>3, <2>1 DEF Cut, EndOf
<1> QED
  BY <1>2, <1>3

\* A payment more, in the log and among the payments confirmed.
LEMMA LongerEnds ==
    ASSUME NEW S, NEW log \in Seq(S), NEW paid \in Seq(FrameIds), NEW entry \in S,
           NEW f \in FrameIds, entry.frame = f, Len(log) <= Len(paid), FramesOf(log, paid)
    PROVE  FramesOf(Append(log, entry), Append(paid, f))
<1> DEFINE n == Len(log)
           c == Len(paid)
           longer == Append(log, entry)
           more == Append(paid, f)
<1>1. n \in Nat /\ c \in Nat /\ n <= c
  OBVIOUS
<1>2. Len(longer) = n + 1 /\ longer[n + 1] = entry /\ \A i \in 1..n : longer[i] = log[i]
  OBVIOUS
<1>3. Len(more) = c + 1 /\ more[c + 1] = f /\ \A i \in 1..c : more[i] = paid[i]
  OBVIOUS
<1>4. \A i \in 1..n : log[i].frame = paid[c - n + i]
  BY DEF FramesOf
<1> HIDE DEF longer, more, n, c
<1>5. ASSUME NEW i \in 1..(n + 1) PROVE longer[i].frame = more[(c + 1) - (n + 1) + i]
  <2>1. (c + 1) - (n + 1) + i = c - n + i
    BY <1>1
  <2>2. CASE i = n + 1
    <3>1. c - n + i = c + 1
      BY <1>1, <2>2
    <3> QED
      BY <1>2, <1>3, <2>1, <2>2, <3>1
  <2>3. CASE i \in 1..n
    <3>1. c - n + i \in 1..c
      BY <1>1, <2>3
    <3>2. longer[i].frame = paid[c - n + i] /\ more[c - n + i] = paid[c - n + i]
      BY <1>2, <1>3, <1>4, <2>3, <3>1
    <3> QED
      BY <2>1, <3>2
  <2>4. i = n + 1 \/ i \in 1..n
    BY <1>1
  <2> QED
    BY <2>2, <2>3, <2>4
<1> QED
  BY <1>2, <1>3, <1>5 DEF FramesOf, longer, more

LEMMA EndFrames ==
    ASSUME NEW S, NEW ring \in Seq(S), NEW log \in Seq(S), NEW paid \in Seq(FrameIds),
           EndOf(ring, log), FramesOf(log, paid)
    PROVE  FramesOf(ring, paid)
<1> DEFINE k == Len(ring)
           n == Len(log)
           c == Len(paid)
<1>1. k \in Nat /\ n \in Nat /\ c \in Nat
  OBVIOUS
<1>2. \A i \in 1..k : n - k + i \in 1..n /\ ring[i] = log[n - k + i]
  BY DEF EndOf
<1>3. \A i \in 1..n : log[i].frame = paid[c - n + i]
  BY DEF FramesOf
<1> HIDE DEF k, n, c
<1>4. ASSUME NEW i \in 1..k PROVE ring[i].frame = paid[c - k + i]
  <2> DEFINE j == n - k + i
  <2>1. c - n + j = c - k + i
    BY <1>1
  <2>2. j \in 1..n /\ ring[i] = log[j]
    BY <1>2
  <2> HIDE DEF j
  <2>3. log[j].frame = paid[c - n + j]
    BY <1>3, <2>2
  <2> QED
    BY <2>1, <2>2, <2>3
<1> QED
  BY <1>4 DEF FramesOf, k, c

LEMMA ConfirmedRing == ASSUME QInv, RingInv, PaymentConfirmed PROVE RingInv'
<1> DEFINE f == paymentWorker.frame
           entry == [frame |-> f, lamports |-> (PaymentAmount * lamportMult) \div 100]
           S == [frame : FrameIds, lamports : Nat]
           longer == Append(paymentLog, entry)
<1>1. confirmed' = Append(confirmed, f) /\ paymentLog' = Ring(longer) /\ lamportMult' = lamportMult
  BY DEF PaymentConfirmed, PaymentsOnly, advice
<1>2. f \in FrameIds
  BY PayFacts DEF PaymentConfirmed
<1>3. entry \in S
  <2>1. PaymentAmount \in Nat /\ Reserve \in Nat
    BY QueuesAssumption, IntervalsAssumption
  <2>2. lamportMult \in Nat
    BY <2>1 DEF RingInv
  <2>3. PaymentAmount * lamportMult \in Nat
    BY <2>1, <2>2
  <2>4. (PaymentAmount * lamportMult) \div 100 \in Nat
    BY <2>3, DivMod
  <2> QED
    BY <1>2, <2>4
<1>4. entry.frame = f
  OBVIOUS
<1> HIDE DEF f, entry
<1>5. paymentLog \in Seq(S) /\ confirmed \in Seq(FrameIds)
  BY DEF RingInv
<1>6. Len(paymentLog) = Cut(Len(confirmed)) /\ FramesOf(paymentLog, confirmed)
  BY DEF RingInv, RingKeepsLatest, Cut, FramesOf
<1> HIDE DEF S
<1>7. PaymentLogMax \in Nat /\ PaymentLogMax > 0 /\ Len(confirmed) \in Nat
  BY <1>5, QueuesAssumption
<1>8. Len(paymentLog) <= Len(confirmed)
  BY <1>6, <1>7 DEF Cut
<1>9. FramesOf(longer, confirmed') /\ longer \in Seq(S) /\ confirmed' \in Seq(FrameIds)
  BY <1>1, <1>2, <1>3, <1>4, <1>5, <1>6, <1>8, LongerEnds
<1>10. Len(longer) = Len(paymentLog) + 1 /\ Len(confirmed') = Len(confirmed) + 1
  BY <1>1, <1>2, <1>3, <1>5
<1> HIDE DEF longer
<1>11. paymentLog' \in Seq(S) /\ Len(paymentLog') = Cut(Len(longer)) /\ EndOf(paymentLog', longer)
  BY <1>1, <1>9, RingFacts
<1>12. FramesOf(paymentLog', confirmed')
  BY <1>9, <1>11, EndFrames
<1>13. Len(paymentLog') = Cut(Len(confirmed'))
  BY <1>6, <1>7, <1>10, <1>11 DEF Cut
<1>14. RingKeepsLatest'
  BY <1>12, <1>13 DEF RingKeepsLatest, Cut, FramesOf
<1> QED
  BY <1>1, <1>9, <1>11, <1>14 DEF RingInv, S

LEMMA StepRing == ASSUME QInv, RingInv, [Next]_vars PROVE RingInv'
<1>1. CASE PaymentConfirmed
  BY <1>1, ConfirmedRing
<1>2. ASSUME NEW kind \in Kinds, Receive(kind) PROVE RingInv'
  BY <1>2, RingStutter DEF Receive, payments, advice
<1>3. CASE RouteAnomaly \/ RouteNormal \/ Tick \/ StopStreaming \/ DrainExpires \/ CancelWorkers
  BY <1>3, RingStutter DEF RouteAnomaly, RouteNormal, Tick, StopStreaming, DrainExpires,
                           CancelWorkers, payments, advice
<1>4. CASE ComplianceStep
  BY <1>4, RingStutter DEF ComplianceStep, ComplianceGet, ComplianceLogged, ComplianceBroadcast,
                           ComplianceFailed, NoOtherWorker, payments, advice
<1>5. CASE PaymentGet \/ OracleApproved \/ OracleDenied \/ PaymentEnds
  BY <1>5, RingStutter DEF PaymentGet, OracleApproved, OracleDenied, PaymentEnds, PaymentsOnly, advice
<1>6. CASE SceneGet \/ SceneEnds \/ ScoringFallback
  BY <1>6, RingStutter DEF SceneGet, SceneEnds, ScoringFallback, payments, advice
<1>7. ASSUME NEW pending \in SUBSET Adjustments, NEW healthy \in BOOLEAN,
             TreasuryAnswers(pending, healthy)
      PROVE  RingInv'
  BY <1>7, RingStutter DEF TreasuryAnswers, AdviceOnly, payments
<1>8. CASE ApplyThrottle \/ ApplyReserve \/ TreasuryEnds
  BY <1>8, RingStutter DEF ApplyThrottle, ApplyReserve, TreasuryEnds, AdviceOnly, payments
<1>9. CASE UNCHANGED vars
  BY <1>9, RingStutter DEF vars, payments, advice
<1> QED
  BY <1>1, <1>2, <1>3, <1>4, <1>5, <1>6, <1>7, <1>8, <1>9 DEF Next

\* The payments that scoring, treasury and invoices read are the newest ones,
\* in the order of their confirmation, for any size of the log and any number
\* of payments.
THEOREM NewestPaymentsKept == Spec => []RingKeepsLatest
<1>1. RingInv => RingKeepsLatest
  BY DEF RingInv
<1> QED
  BY <1>1, InitQInv, StepQInv, InitRing, StepRing, PTL DEF Spec
----------------------------------------------------------------------------
(* Types, and the bounds of the queues and of the counters.                *)

\* A frame is counted for the oracle when process() lets go of it.
Counters ==
    /\ oracleCount \in Nat /\ unsampled \in Nat
    /\ oracleCount <= IF current = NoFrame THEN frames ELSE frames - 1
    /\ unsampled <= oracleCount

Scenes ==
    /\ sceneQueue \in Seq(FrameIds) /\ Len(sceneQueue) <= SceneQueueMax
    /\ sceneWorker \in FrameIds \cup {NoFrame}

Advice ==
    /\ scoringReady \in BOOLEAN
    /\ treasury \in [pending : SUBSET Adjustments, healthy : BOOLEAN] \cup {NoTask}

RestInv ==
    /\ current \in Frame \cup {NoFrame} /\ elapsed \in 0..MinInterval
    /\ phase \in {"streaming", "draining", "drained", "expired", "stopped"}
    /\ Len(paymentQueue) <= PaymentQueueMax
    /\ Counters /\ Scenes /\ Advice

LEMMA TailShorter ==
    ASSUME NEW S, NEW s \in Seq(S), s # <<>>
    PROVE  Tail(s) \in Seq(S) /\ Head(s) \in S /\ Len(Tail(s)) = Len(s) - 1 /\ Len(s) \in Nat
OBVIOUS

LEMMA InitRest == ASSUME Init PROVE RestInv
<1>1. /\ frames = 0 /\ current = NoFrame /\ phase = "streaming" /\ elapsed = BootElapsed
      /\ oracleCount = 0 /\ unsampled = 0 /\ paymentQueue = <<>>
      /\ sceneQueue = <<>> /\ sceneWorker = NoFrame /\ scoringReady = FALSE /\ treasury = NoTask
  BY DEF Init
<1>2. /\ BootElapsed \in Nat /\ MinInterval \in Nat /\ BootElapsed <= MinInterval
      /\ PaymentQueueMax \in Nat /\ SceneQueueMax \in Nat
  BY QueuesAssumption
<1>3. Len(paymentQueue) = 0 /\ Len(sceneQueue) = 0 /\ sceneQueue \in Seq(FrameIds)
  BY <1>1
<1>4. elapsed \in 0..MinInterval
  BY <1>1, <1>2
<1>5. Counters
  BY <1>1 DEF Counters
<1>6. Advice
  BY <1>1 DEF Advice
<1> QED
  BY <1>1, <1>2, <1>3, <1>4, <1>5, <1>6 DEF RestInv, Scenes

\* What process() does with a frame whatever its kind.
LEMMA OfferKeeps ==
    ASSUME RestInv, current # NoFrame, OfferScene
    PROVE  Scenes'
<1>1. current.id \in FrameIds
  BY DEF RestInv, Frame
<1>2. sceneQueue \in Seq(FrameIds) /\ Len(sceneQueue) <= SceneQueueMax /\ SceneQueueMax \in Nat
  BY QueuesAssumption DEF RestInv, Scenes
<1>3. /\ Append(sceneQueue, current.id) \in Seq(FrameIds) /\ Len(sceneQueue) \in Nat
      /\ Len(Append(sceneQueue, current.id)) = Len(sceneQueue) + 1
  BY <1>1, <1>2
<1>4. \/ sceneQueue' = sceneQueue
      \/ sceneQueue' = Append(sceneQueue, current.id) /\ Len(sceneQueue) < SceneQueueMax
  BY DEF OfferScene
<1>5. sceneQueue' \in Seq(FrameIds) /\ Len(sceneQueue') <= SceneQueueMax
  BY <1>2, <1>3, <1>4
<1> QED
  BY <1>5 DEF OfferScene, RestInv, Scenes

\* A frame is let go of and counted, or was none of the oracle's.
LEMMA CounterStep ==
    ASSUME RestInv, frames \in Nat, current # NoFrame, current' = NoFrame, frames' = frames,
           oracleCount' \in {oracleCount, oracleCount + 1}, unsampled' \in {unsampled, unsampled + 1, 0},
           oracleCount' = oracleCount => UNCHANGED unsampled
    PROVE  Counters'
BY DEF RestInv, Counters

LEMMA RouteNormalRest == ASSUME QInv, RestInv, RouteNormal PROVE RestInv'
<1>1. /\ current # NoFrame /\ current' = NoFrame /\ OfferScene /\ oracleCount' = oracleCount + 1
      /\ UNCHANGED <<frames, elapsed, phase, scoringReady, treasury>>
  BY DEF RouteNormal, advice
<1>2. /\ unsampled' \in {unsampled + 1, 0}
      /\ \/ paymentQueue' = paymentQueue
         \/ paymentQueue' = Append(paymentQueue, current.id) /\ ~PaymentQueueFull
  BY DEF RouteNormal
<1>3. oracleCount \in Nat /\ frames \in Nat
  BY DEF RestInv, Counters, QInv, BridgeTypes
<1>4. Counters'
  BY <1>1, <1>2, <1>3, CounterStep
<1>5. Len(paymentQueue') <= PaymentQueueMax
  <2>1. paymentQueue \in Seq(FrameIds) /\ current.id \in FrameIds /\ PaymentQueueMax \in Nat
    BY <1>1, QueuesAssumption DEF RestInv, QInv, BridgeTypes, Frame
  <2>2. Len(Append(paymentQueue, current.id)) = Len(paymentQueue) + 1 /\ Len(paymentQueue) \in Nat
    BY <2>1
  <2> QED
    BY <1>2, <2>1, <2>2 DEF RestInv, PaymentQueueFull
<1> QED
  BY <1>1, <1>4, <1>5, OfferKeeps DEF RestInv, Advice

LEMMA RouteAnomalyRest == ASSUME QInv, RestInv, RouteAnomaly PROVE RestInv'
<1>1. /\ current # NoFrame /\ current' = NoFrame /\ OfferScene /\ elapsed' \in {elapsed, 0}
      /\ UNCHANGED <<frames, oracleCount, unsampled, dropped, paymentQueue, phase, scoringReady, treasury>>
  BY DEF RouteAnomaly, advice
<1>2. Counters'
  <2>1. frames \in Nat
    BY DEF QInv, BridgeTypes
  <2> QED
    BY <1>1, <2>1, CounterStep
<1>3. elapsed' \in 0..MinInterval
  <2>1. MinInterval \in Nat
    BY QueuesAssumption
  <2> QED
    BY <1>1, <2>1 DEF RestInv
<1> QED
  BY <1>1, <1>2, <1>3, OfferKeeps DEF RestInv, Advice

LEMMA ReceiveRest == ASSUME QInv, RestInv, NEW kind \in Kinds, Receive(kind) PROVE RestInv'
<1>1. /\ current = NoFrame /\ frames < MaxFrames /\ frames' = frames + 1
      /\ current' = [id |-> frames + 1, kind |-> kind]
      /\ UNCHANGED <<elapsed, oracleCount, unsampled, dropped, paymentQueue, sceneQueue,
                     sceneWorker, treasury, phase, scoringReady>>
  BY DEF Receive, routing, scene, advice
<1>2. frames \in Nat /\ MaxFrames \in Nat
  BY QueuesAssumption DEF QInv, BridgeTypes
<1>3. current' \in Frame
  BY <1>1, <1>2 DEF Frame, FrameIds
<1>4. Counters'
  BY <1>1, <1>2 DEF RestInv, Counters
<1> QED
  BY <1>1, <1>3, <1>4 DEF RestInv, Scenes, Advice

\* What neither takes a frame nor a place in the queues.
LEMMA RestStutter ==
    ASSUME QInv, RestInv, UNCHANGED <<frames, oracleCount, unsampled, dropped>>,
           current' \in {current, NoFrame}, elapsed' \in 0..MinInterval,
           phase' \in {"streaming", "draining", "drained", "expired", "stopped"},
           paymentQueue' = paymentQueue \/ (paymentQueue # <<>> /\ paymentQueue' = Tail(paymentQueue)),
           sceneQueue' = sceneQueue, sceneWorker' \in {sceneWorker, NoFrame},
           scoringReady' \in BOOLEAN,
           treasury' \in [pending : SUBSET Adjustments, healthy : BOOLEAN] \cup {NoTask}
    PROVE  RestInv'
<1>1. Counters'
  <2>1. frames \in Nat
    BY DEF QInv, BridgeTypes
  <2> QED
    BY <2>1 DEF RestInv, Counters
<1>2. Len(paymentQueue') <= PaymentQueueMax
  <2>1. paymentQueue \in Seq(FrameIds) /\ PaymentQueueMax \in Nat
    BY QueuesAssumption DEF QInv, BridgeTypes
  <2>2. paymentQueue # <<>> => Len(Tail(paymentQueue)) = Len(paymentQueue) - 1
                               /\ Len(paymentQueue) \in Nat
    BY <2>1, TailShorter
  <2> QED
    BY <2>1, <2>2 DEF RestInv
<1> QED
  BY <1>1, <1>2 DEF RestInv, Scenes, Advice

LEMMA StepRest == ASSUME QInv, RestInv, [Next]_vars PROVE RestInv'
<1>1. /\ elapsed \in 0..MinInterval /\ MinInterval \in Nat /\ scoringReady \in BOOLEAN
      /\ phase \in {"streaming", "draining", "drained", "expired", "stopped"}
      /\ treasury \in [pending : SUBSET Adjustments, healthy : BOOLEAN] \cup {NoTask}
  BY QueuesAssumption DEF RestInv, Advice
<1>2. ASSUME NEW kind \in Kinds, Receive(kind) PROVE RestInv'
  BY <1>2, ReceiveRest
<1>3. CASE RouteAnomaly \/ RouteNormal
  BY <1>3, RouteAnomalyRest, RouteNormalRest
<1>4. CASE Tick
  <2>1. elapsed' \in 0..MinInterval
    BY <1>1, <1>4 DEF Tick
  <2>2. UNCHANGED <<source, oracleCount, unsampled, dropped, paymentQueue, scene, advice,
                    phase, scoringReady>>
    BY <1>4 DEF Tick
  <2> QED
    BY <1>1, <2>1, <2>2, RestStutter DEF source, scene, advice
<1>5. CASE StopStreaming \/ DrainExpires
  <2>1. /\ phase' \in {"drained", "draining", "expired"} /\ current' \in {current, NoFrame}
        /\ UNCHANGED <<frames, routing, paymentQueue, scene, advice, scoringReady>>
    BY <1>5 DEF StopStreaming, DrainExpires, source
  <2> QED
    BY <1>1, <2>1, RestStutter DEF routing, scene, advice
<1>6. CASE CancelWorkers
  <2>1. /\ phase' = "stopped" /\ sceneWorker' = NoFrame /\ treasury' = NoTask
        /\ UNCHANGED <<source, routing, paymentQueue, sceneQueue, scoringReady>>
    BY <1>6 DEF CancelWorkers
  <2> QED
    BY <1>1, <2>1, RestStutter DEF source, routing
<1>7. CASE ComplianceStep
  <2>1. phase' \in {phase, "drained"} /\ NoOtherWorker
    BY <1>7 DEF ComplianceStep, ComplianceGet, ComplianceLogged, ComplianceBroadcast,
                ComplianceFailed, TaskDone
  <2>2. scoringReady' \in BOOLEAN
    BY <1>1, <1>7 DEF ComplianceStep, ComplianceGet, ComplianceLogged, ComplianceBroadcast,
                      ComplianceFailed
  <2> QED
    BY <1>1, <2>1, <2>2, RestStutter DEF NoOtherWorker, source, routing, scene, advice
<1>8. CASE PaymentGet \/ OracleApproved \/ PaymentConfirmed \/ PaymentEnds
  <2>1. /\ PaymentsOnly
        /\ paymentQueue' = paymentQueue \/ (paymentQueue # <<>> /\ paymentQueue' = Tail(paymentQueue))
    BY <1>8 DEF PaymentGet, OracleApproved, PaymentConfirmed, PaymentEnds
  <2>2. scoringReady' \in BOOLEAN
    BY <1>1, <1>8 DEF PaymentGet, OracleApproved, PaymentConfirmed, PaymentEnds
  <2> QED
    BY <1>1, <2>1, <2>2, RestStutter DEF PaymentsOnly, source, routing, scene, advice
<1>9. CASE OracleDenied
  BY <1>1, <1>9, RestStutter DEF OracleDenied, source, routing, scene, advice
<1>10. CASE SceneGet
  <2>1. /\ sceneQueue # <<>> /\ sceneWorker' = Head(sceneQueue) /\ sceneQueue' = Tail(sceneQueue)
        /\ UNCHANGED <<source, routing, paymentQueue, advice, phase, scoringReady>>
    BY <1>10 DEF SceneGet
  <2>2. Scenes'
    <3>1. sceneQueue \in Seq(FrameIds) /\ Len(sceneQueue) <= SceneQueueMax /\ SceneQueueMax \in Nat
      BY QueuesAssumption DEF RestInv, Scenes
    <3>2. /\ Tail(sceneQueue) \in Seq(FrameIds) /\ Head(sceneQueue) \in FrameIds
          /\ Len(Tail(sceneQueue)) = Len(sceneQueue) - 1 /\ Len(sceneQueue) \in Nat
      BY <2>1, <3>1, TailShorter
    <3> QED
      BY <2>1, <3>1, <3>2 DEF Scenes
  <2> QED
    BY <2>1, <2>2 DEF RestInv, Counters, Advice, source, routing, advice
<1>11. CASE SceneEnds \/ ScoringFallback
  <2>1. /\ sceneQueue' = sceneQueue /\ sceneWorker' \in {sceneWorker, NoFrame}
        /\ scoringReady' \in BOOLEAN
        /\ UNCHANGED <<source, routing, paymentQueue, advice, phase>>
    BY <1>1, <1>11 DEF SceneEnds, ScoringFallback, scene
  <2> QED
    BY <1>1, <2>1, RestStutter DEF source, routing, advice
<1>12. ASSUME NEW pending \in SUBSET Adjustments, NEW healthy \in BOOLEAN,
              TreasuryAnswers(pending, healthy)
       PROVE  RestInv'
  BY <1>1, <1>12, RestStutter DEF TreasuryAnswers, AdviceOnly, source, routing, scene
<1>13. CASE ApplyThrottle \/ ApplyReserve
  <2>1. AdviceOnly /\ treasury # NoTask /\ \E p \in SUBSET Adjustments :
            treasury' = [treasury EXCEPT !.pending = p]
    BY <1>1, <1>13 DEF ApplyThrottle, ApplyReserve
  <2>2. treasury' \in [pending : SUBSET Adjustments, healthy : BOOLEAN]
    BY <1>1, <2>1
  <2> QED
    BY <1>1, <2>1, <2>2, RestStutter DEF AdviceOnly, source, routing, scene
<1>14. CASE TreasuryEnds
  BY <1>1, <1>14, RestStutter DEF TreasuryEnds, AdviceOnly, source, routing, scene
<1>15. CASE UNCHANGED vars
  BY <1>1, <1>15, RestStutter DEF vars, source, routing, scene, advice
<1> QED
  BY <1>2, <1>3, <1>4, <1>5, <1>6, <1>7, <1>8, <1>9, <1>10, <1>11, <1>12, <1>13, <1>14, <1>15 DEF Next

\* The bridge keeps its types: the payment and the scene queue stay within their
\* sizes, the count that join() waits for is never negative, the multipliers
\* take two values, and every task handled, failed or cancelled was raised.
THEOREM BridgeTypeCorrect == Spec => []TypeOK
<1>1. ASSUME QInv, SInv, RingInv, RestInv, DropInv PROVE TypeOK
  <2>1. {oracleCount, unsampled} \subseteq 0..MaxFrames /\ dropped \subseteq FrameIds
    <3>1. frames \in 0..MaxFrames /\ MaxFrames \in Nat
      BY <1>1, QueuesAssumption DEF QInv, BridgeTypes
    <3>2. oracleCount \in Nat /\ unsampled \in Nat /\ oracleCount <= frames
          /\ unsampled <= oracleCount
      BY <1>1, <3>1 DEF RestInv, Counters
    <3>3. 1..frames \subseteq FrameIds
      BY <3>1 DEF FrameIds
    <3> QED
      BY <1>1, <3>1, <3>2, <3>3 DEF DropInv
  <2>2. unfinished \in Nat
    <3>1. Len(complianceQueue) \in Nat
      BY <1>1 DEF QInv, BridgeTypes
    <3> QED
      BY <1>1, <3>1 DEF QInv, Counted
  <2>3. {failed, cancelled, atStop} \subseteq SUBSET raised
    BY <1>1 DEF QInv, BridgeTypes, Placed, Split
  <2> QED
    BY <1>1, <2>1, <2>2, <2>3
       DEF QInv, BridgeTypes, SInv, RingInv, RestInv, Scenes, Advice, TypeOK
<1>2. Init => QInv /\ SInv /\ RingInv /\ RestInv /\ DropInv
  BY InitQInv, InitSInv, InitRing, InitRest, InitDrop
<1>3. QInv /\ SInv /\ RingInv /\ RestInv /\ DropInv /\ [Next]_vars
         => (QInv /\ SInv /\ RingInv /\ RestInv /\ DropInv)'
  BY StepQInv, StepSInv, StepRing, StepRest, StepDrop
<1> QED
  BY <1>1, <1>2, <1>3, PTL DEF Spec
----------------------------------------------------------------------------
(* Frames have verdicts.                                                   *)

\* A frame is in hand only while the source streams, and a stopped bridge has
\* nothing in hand.
HandsInv ==
    /\ phase # "streaming" => current = NoFrame
    /\ phase = "stopped" => complianceWorker.pc = "idle" /\ paymentWorker.pc = "idle"

LEMMA InitHands == ASSUME Init PROVE HandsInv
BY DEF Init, HandsInv

LEMMA StepHands == ASSUME QInv, HandsInv, [Next]_vars PROVE HandsInv'
<1>1. CASE RouteAnomaly \/ RouteNormal
  BY <1>1 DEF RouteAnomaly, RouteNormal, HandsInv, compW, payments
<1>2. CASE StopStreaming \/ DrainExpires \/ CancelWorkers
  BY <1>2 DEF StopStreaming, DrainExpires, CancelWorkers, HandsInv, compW, payments, source,
              IdleCompliance, IdlePayment
<1>3. CASE ComplianceStep
  <2>1. UNCHANGED <<current, paymentWorker>>
    BY <1>3 DEF ComplianceStep, ComplianceGet, ComplianceLogged, ComplianceBroadcast,
                ComplianceFailed, NoOtherWorker, source, payments
  <2>2. phase # "stopped" /\ phase' # "stopped" /\ (phase = "streaming" => phase' = phase)
        /\ (phase' = "streaming" => phase = phase')
    BY <1>3 DEF ComplianceStep, ComplianceGet, ComplianceLogged, ComplianceBroadcast,
                ComplianceFailed, TaskDone, Running, HandsInv
  <2> QED
    BY <2>1, <2>2 DEF HandsInv
<1>4. CASE PaymentGet \/ OracleApproved \/ OracleDenied \/ PaymentConfirmed \/ PaymentEnds
  BY <1>4 DEF PaymentGet, OracleApproved, OracleDenied, PaymentConfirmed, PaymentEnds,
              PaymentsOnly, Running, HandsInv, compW, source
<1>5. ASSUME NEW kind \in Kinds, Receive(kind) PROVE HandsInv'
  BY <1>5 DEF Receive, HandsInv, compW, payments
<1>6. CASE Tick \/ SceneGet \/ SceneEnds \/ ScoringFallback
  BY <1>6 DEF Tick, SceneGet, SceneEnds, ScoringFallback, HandsInv, compW, payments, source
<1>7. CASE ApplyThrottle \/ ApplyReserve \/ TreasuryEnds
           \/ \E pending \in SUBSET Adjustments, healthy \in BOOLEAN :
                 TreasuryAnswers(pending, healthy)
  BY <1>7 DEF ApplyThrottle, ApplyReserve, TreasuryEnds, TreasuryAnswers, AdviceOnly,
              HandsInv, compW, payments, source
<1>8. CASE UNCHANGED vars
  BY <1>8 DEF vars, HandsInv, compW, payments, source
<1> QED
  BY <1>1, <1>2, <1>3, <1>4, <1>5, <1>6, <1>7, <1>8 DEF Next

\* What no worker has finished with has no verdict, and the task in the
\* compliance worker's hand is reported and nothing more.
LEMMA NoVerdictYet ==
    ASSUME QInv, NEW f \in FrameIds, f \notin Reported, f \notin Elements(confirmed)
    PROVE  Verdict(f) = "none"
<1>1. f \notin FramesIn(raised)
  BY DEF Reported, FramesIn
<1>2. /\ Elements(complianceLog) \subseteq raised /\ failed \subseteq raised
      /\ cancelled \subseteq raised
  BY DEF QInv, Placed, Split
<1> QED
  BY <1>1, <1>2 DEF Verdict, FramesIn

LEMMA ReportedInHand ==
    ASSUME QInv, complianceWorker.pc = "submitting"
    PROVE  /\ Verdict(complianceWorker.task.frame) = "reported"
           /\ complianceWorker.task.frame \in FrameIds
<1> DEFINE t == complianceWorker.task
<1>1. t \in ComplianceTask /\ InSubmission = {t} /\ t \in raised
  BY HandFacts
<1> HIDE DEF t
<1>2. t \notin Elements(complianceLog) /\ t \notin failed /\ t \notin cancelled
  BY <1>1 DEF QInv, Placed, Split
<1>3. /\ Elements(complianceLog) \subseteq raised /\ failed \subseteq raised
      /\ cancelled \subseteq raised
  BY DEF QInv, Placed, Split
<1>4. \A u \in raised : u.frame = t.frame => u = t
  BY <1>1 DEF QInv, Routed
<1>5. t.frame \notin Elements(confirmed)
  BY <1>1 DEF QInv, Routed, Apart, Reported
<1>6. /\ t.frame \in FramesIn(raised)
      /\ t.frame \notin FramesIn(Elements(complianceLog))
      /\ t.frame \notin FramesIn(failed) /\ t.frame \notin FramesIn(cancelled)
  BY <1>1, <1>2, <1>3, <1>4 DEF FramesIn
<1>7. Verdict(t.frame) = "reported"
  BY <1>5, <1>6 DEF Verdict
<1> QED
  BY <1>1, <1>7 DEF t, ComplianceTask

\* A step that only moves tasks and frames about decides nothing.
LEMMA VerdictsStay ==
    ASSUME UNCHANGED <<raised, complianceLog, failed, cancelled, confirmed>>
    PROVE  \A f \in FrameIds : Verdict(f)' = Verdict(f)
BY DEF Verdict, FramesIn, Elements

LEMMA VerdictsStutter ==
    ASSUME UNCHANGED <<raised, complianceLog, failed, cancelled, confirmed>>, Running' = Running
    PROVE  UNCHANGED Verdicts!vars
BY VerdictsStay DEF Verdicts!vars

\* One frame turns, the others stay.
LEMMA VerdictTurns ==
    ASSUME NEW x \in FrameIds, NEW from, NEW to, Verdict(x) = from, Verdict(x)' = to,
           \A f \in FrameIds : f # x => Verdict(f)' = Verdict(f)
    PROVE  Verdicts!Turn(x, from, to)
BY DEF Verdicts!Turn

LEMMA ReportVerdict ==
    ASSUME QInv, NEW t \in ComplianceTask, PutCompliance(t), Running, Running',
           t.frame \notin Reported, t.frame \notin Elements(confirmed),
           UNCHANGED <<complianceLog, failed, cancelled, confirmed>>
    PROVE  \E f \in FrameIds : Verdicts!Report(f)
<1>1. /\ raised' = raised \cup {t} /\ Elements(confirmed)' = Elements(confirmed)
      /\ Elements(complianceLog)' = Elements(complianceLog)
  BY DEF PutCompliance, Elements
<1>2. FramesIn(raised)' = FramesIn(raised) \cup {t.frame}
  BY <1>1 DEF FramesIn
<1>3. /\ FramesIn(Elements(complianceLog))' = FramesIn(Elements(complianceLog))
      /\ FramesIn(failed)' = FramesIn(failed) /\ FramesIn(cancelled)' = FramesIn(cancelled)
  BY <1>1 DEF FramesIn
<1>4. t.frame \in FrameIds /\ Verdict(t.frame) = "none"
  BY NoVerdictYet DEF ComplianceTask
<1>5. \A f \in FrameIds : f # t.frame => Verdict(f)' = Verdict(f)
  BY <1>1, <1>2, <1>3 DEF Verdict
<1>6. Verdict(t.frame)' = "reported"
  <2>1. /\ t.frame \notin FramesIn(Elements(complianceLog))
        /\ t.frame \notin FramesIn(failed) /\ t.frame \notin FramesIn(cancelled)
    BY DEF FramesIn, Reported, QInv, Placed, Split
  <2> QED
    BY <1>1, <1>2, <1>3, <2>1 DEF Verdict
<1>7. Verdicts!Turn(t.frame, "none", "reported")
  BY <1>4, <1>5, <1>6, VerdictTurns
<1> QED
  BY <1>4, <1>7 DEF Verdicts!Report

\* The task in hand is logged, fails or is cancelled.
LEMMA HandVerdict ==
    ASSUME QInv, complianceWorker.pc = "submitting", NEW to,
           UNCHANGED <<raised, confirmed>>,
           LET t == complianceWorker.task
           IN  \/ /\ to = "logged" /\ complianceLog' = Append(complianceLog, t)
                  /\ UNCHANGED <<failed, cancelled>>
               \/ /\ to = "failed" /\ failed' = failed \cup {t}
                  /\ UNCHANGED <<complianceLog, cancelled>>
               \/ /\ to = "cancelled" /\ cancelled' = cancelled \cup {t}
                  /\ UNCHANGED <<complianceLog, failed>>
    PROVE  \E f \in FrameIds : Verdicts!Turn(f, "reported", to)
<1>0. PICK t \in ComplianceTask : t = complianceWorker.task
  BY HandFacts
<1>1. t \in raised /\ complianceLog \in Seq(ComplianceTask)
  BY <1>0, HandFacts DEF QInv, BridgeTypes
<1>2. Verdict(t.frame) = "reported" /\ t.frame \in FrameIds
  BY <1>0, ReportedInHand
<1>3. \/ /\ to = "logged" /\ complianceLog' = Append(complianceLog, t)
         /\ UNCHANGED <<failed, cancelled>>
      \/ /\ to = "failed" /\ failed' = failed \cup {t}
         /\ UNCHANGED <<complianceLog, cancelled>>
      \/ /\ to = "cancelled" /\ cancelled' = cancelled \cup {t}
         /\ UNCHANGED <<complianceLog, failed>>
  BY <1>0
<1>4. Elements(confirmed)' = Elements(confirmed) /\ FramesIn(raised)' = FramesIn(raised)
  BY DEF Elements, FramesIn
<1>5. CASE to = "logged"
  <2>1. Elements(complianceLog)' = Elements(complianceLog) \cup {t}
    BY <1>1, <1>3, <1>5, ElementsAppend DEF Elements
  <2>2. /\ FramesIn(Elements(complianceLog))' = FramesIn(Elements(complianceLog)) \cup {t.frame}
        /\ FramesIn(failed)' = FramesIn(failed) /\ FramesIn(cancelled)' = FramesIn(cancelled)
    BY <1>3, <1>5, <2>1 DEF FramesIn
  <2>3. Verdict(t.frame)' = to /\ \A f \in FrameIds : f # t.frame => Verdict(f)' = Verdict(f)
    BY <1>2, <1>4, <1>5, <2>2 DEF Verdict
  <2> QED
    BY <1>2, <2>3, VerdictTurns
<1>6. CASE to = "failed"
  <2>1. Elements(complianceLog)' = Elements(complianceLog)
    BY <1>3, <1>6 DEF Elements
  <2>2. /\ FramesIn(Elements(complianceLog))' = FramesIn(Elements(complianceLog))
        /\ FramesIn(failed)' = FramesIn(failed) \cup {t.frame}
        /\ FramesIn(cancelled)' = FramesIn(cancelled)
    BY <1>3, <1>6, <2>1 DEF FramesIn
  <2>3. Verdict(t.frame)' = to /\ \A f \in FrameIds : f # t.frame => Verdict(f)' = Verdict(f)
    BY <1>2, <1>4, <1>6, <2>2 DEF Verdict
  <2> QED
    BY <1>2, <2>3, VerdictTurns
<1>7. CASE to = "cancelled"
  <2>1. Elements(complianceLog)' = Elements(complianceLog)
    BY <1>3, <1>7 DEF Elements
  <2>2. /\ FramesIn(Elements(complianceLog))' = FramesIn(Elements(complianceLog))
        /\ FramesIn(failed)' = FramesIn(failed)
        /\ FramesIn(cancelled)' = FramesIn(cancelled) \cup {t.frame}
    BY <1>3, <1>7, <2>1 DEF FramesIn
  <2>3. Verdict(t.frame)' = to /\ \A f \in FrameIds : f # t.frame => Verdict(f)' = Verdict(f)
    BY <1>2, <1>4, <1>7, <2>2 DEF Verdict
  <2> QED
    BY <1>2, <2>3, VerdictTurns
<1> QED
  BY <1>3, <1>5, <1>6, <1>7

\* A payment is confirmed for the frame the payment worker has.
LEMMA PaidVerdict ==
    ASSUME QInv, HandsInv, PaymentConfirmed
    PROVE  \E f \in FrameIds : Verdicts!Pay(f)
<1>1. /\ paymentWorker.pc = "paying" /\ confirmed' = Append(confirmed, paymentWorker.frame)
      /\ UNCHANGED <<raised, complianceLog, failed, cancelled, phase>>
  BY DEF PaymentConfirmed, PaymentsOnly, compQ, compW, shutdown
<1>2. PICK x \in FrameIds : /\ x = paymentWorker.frame
                            /\ x \notin Reported /\ x \notin Elements(confirmed)
  BY <1>1, PayFacts
<1>3. confirmed \in Seq(FrameIds)
  BY DEF QInv, BridgeTypes
<1>4. Elements(confirmed)' = Elements(confirmed) \cup {x}
  BY <1>1, <1>2, <1>3, ElementsAppend DEF Elements
<1>5. /\ FramesIn(Elements(complianceLog))' = FramesIn(Elements(complianceLog))
      /\ FramesIn(failed)' = FramesIn(failed) /\ FramesIn(cancelled)' = FramesIn(cancelled)
      /\ FramesIn(raised)' = FramesIn(raised)
  BY <1>1 DEF FramesIn, Elements
<1>6. Verdict(x) = "none"
  BY <1>2, NoVerdictYet
<1>7. Verdict(x)' = "paid" /\ \A f \in FrameIds : f # x => Verdict(f)' = Verdict(f)
  BY <1>4, <1>5 DEF Verdict
<1>8. Verdicts!Turn(x, "none", "paid")
  BY <1>2, <1>6, <1>7, VerdictTurns
<1>9. Running /\ Running'
  BY <1>1 DEF HandsInv, Running
<1> QED
  BY <1>2, <1>8, <1>9 DEF Verdicts!Pay

\* process() and the oracle report a frame that has no verdict.
LEMMA AnomalyVerdict ==
    ASSUME QInv, HandsInv, RouteAnomaly
    PROVE  UNCHANGED Verdicts!vars \/ \E f \in FrameIds : Verdicts!Report(f)
<1>1. /\ current # NoFrame /\ UNCHANGED <<complianceLog, failed, cancelled, confirmed, phase>>
  BY DEF RouteAnomaly, compW, payments, shutdown
<1>2. Running /\ Running'
  BY <1>1 DEF HandsInv, Running
<1>3. CASE UNCHANGED compQ
  BY <1>1, <1>2, <1>3, VerdictsStutter DEF compQ
<1>4. ASSUME NEW severity \in 0..2, PutCompliance([frame |-> current.id, severity |-> severity])
      PROVE  \E f \in FrameIds : Verdicts!Report(f)
  <2> DEFINE t == [frame |-> current.id, severity |-> severity]
  <2>1. t \in ComplianceTask /\ t.frame \notin Reported /\ t.frame \notin Elements(confirmed)
    BY <1>1, HeldIsNew DEF ComplianceTask
  <2>2. PutCompliance(t)
    BY <1>4
  <2> HIDE DEF t
  <2> QED
    BY <1>1, <1>2, <2>1, <2>2, ReportVerdict
<1>5. 0 \in 0..2 /\ 2 \in 0..2
  OBVIOUS
<1> QED
  BY <1>3, <1>4, <1>5 DEF RouteAnomaly

LEMMA DeniedVerdict ==
    ASSUME QInv, HandsInv, OracleDenied
    PROVE  \E f \in FrameIds : Verdicts!Report(f)
<1> DEFINE t == [frame |-> paymentWorker.frame, severity |-> 1]
<1>1. /\ paymentWorker.pc = "checking" /\ PutCompliance(t)
      /\ UNCHANGED <<complianceLog, failed, cancelled, confirmed, phase>>
  BY DEF OracleDenied, compW, shutdown
<1>2. t \in ComplianceTask /\ t.frame \notin Reported /\ t.frame \notin Elements(confirmed)
  BY <1>1, PayFacts DEF ComplianceTask
<1>3. Running /\ Running'
  BY <1>1 DEF HandsInv, Running
<1> HIDE DEF t
<1> QED
  BY <1>1, <1>2, <1>3, ReportVerdict

LEMMA CancelVerdict == ASSUME QInv, CancelWorkers PROVE Verdicts!Close
<1>1. /\ phase # "stopped" /\ phase' = "stopped"
      /\ cancelled' = IF complianceWorker.pc = "submitting"
                      THEN cancelled \cup {complianceWorker.task} ELSE cancelled
      /\ UNCHANGED <<raised, complianceLog, failed, confirmed>>
  BY DEF CancelWorkers
<1>2. Running /\ ~Running'
  BY <1>1 DEF Running
<1>3. CASE complianceWorker.pc = "submitting"
  <2>1. \E f \in FrameIds : Verdicts!Turn(f, "reported", "cancelled")
    BY <1>1, <1>3, HandVerdict
  <2> QED
    BY <1>2, <2>1 DEF Verdicts!Close
<1>4. CASE complianceWorker.pc # "submitting"
  <2>1. \A f \in FrameIds : Verdict(f)' = Verdict(f)
    BY <1>1, <1>4, VerdictsStay
  <2> QED
    BY <1>2, <2>1 DEF Verdicts!Close
<1> QED
  BY <1>3, <1>4

LEMMA VerdictStep ==
    QInv /\ HandsInv /\ [Next]_vars => [Verdicts!Next]_(Verdicts!vars)
<1> SUFFICES ASSUME QInv, HandsInv, [Next]_vars
             PROVE  Verdicts!Next \/ UNCHANGED Verdicts!vars
  OBVIOUS
<1>1. CASE RouteAnomaly
  BY <1>1, AnomalyVerdict DEF Verdicts!Next
<1>2. CASE OracleDenied \/ PaymentConfirmed \/ CancelWorkers
  BY <1>2, DeniedVerdict, PaidVerdict, CancelVerdict DEF Verdicts!Next
<1>3. CASE ComplianceLogged
  <2>1. /\ complianceWorker.pc = "submitting" /\ phase' = phase
        /\ complianceLog' = Append(complianceLog, complianceWorker.task)
        /\ UNCHANGED <<raised, confirmed, failed, cancelled>>
    BY <1>3 DEF ComplianceLogged, NoOtherWorker, compQ, payments, shutdown
  <2>2. \E f \in FrameIds : Verdicts!Turn(f, "reported", "logged")
    BY <2>1, HandVerdict
  <2>3. Running /\ Running'
    BY <2>1 DEF Running, HandsInv
  <2> QED
    BY <2>2, <2>3 DEF Verdicts!Next, Verdicts!Log
<1>4. CASE ComplianceFailed
  <2>1. /\ complianceWorker.pc = "submitting" /\ (phase' = phase \/ phase' = "drained")
        /\ failed' = failed \cup {complianceWorker.task}
        /\ UNCHANGED <<raised, confirmed, complianceLog, cancelled>>
    BY <1>4 DEF ComplianceFailed, NoOtherWorker, TaskDone, payments, shutdown
  <2>2. \E f \in FrameIds : Verdicts!Turn(f, "reported", "failed")
    BY <2>1, HandVerdict
  <2>3. Running /\ Running'
    BY <2>1 DEF Running, HandsInv
  <2> QED
    BY <2>2, <2>3 DEF Verdicts!Next, Verdicts!Fail
<1>5. CASE ComplianceGet \/ ComplianceBroadcast
  <2>1. UNCHANGED <<raised, complianceLog, failed, cancelled, confirmed>>
    BY <1>5 DEF ComplianceGet, ComplianceBroadcast, NoOtherWorker, payments, shutdown
  <2>2. Running' = Running
    BY <1>5 DEF ComplianceGet, ComplianceBroadcast, TaskDone, Running, HandsInv
  <2> QED
    BY <2>1, <2>2, VerdictsStutter
<1>6. CASE RouteNormal \/ Tick \/ StopStreaming \/ DrainExpires
  BY <1>6, VerdictsStutter DEF RouteNormal, Tick, StopStreaming, DrainExpires, Running,
                               compQ, compW, payments, shutdown
<1>7. CASE PaymentGet \/ OracleApproved \/ PaymentEnds
  BY <1>7, VerdictsStutter DEF PaymentGet, OracleApproved, PaymentEnds, PaymentsOnly, Running,
                               compQ, compW, payments, shutdown
<1>8. CASE SceneGet \/ SceneEnds \/ ScoringFallback \/ UNCHANGED vars
  BY <1>8, VerdictsStutter DEF SceneGet, SceneEnds, ScoringFallback, vars, Running,
                               compQ, compW, payments, shutdown
<1>9. CASE ApplyThrottle \/ ApplyReserve \/ TreasuryEnds
           \/ \E pending \in SUBSET Adjustments, healthy \in BOOLEAN :
                 TreasuryAnswers(pending, healthy)
  BY <1>9, VerdictsStutter DEF ApplyThrottle, ApplyReserve, TreasuryEnds, TreasuryAnswers,
                               AdviceOnly, Running, compQ, compW, payments, shutdown
<1>10. ASSUME NEW kind \in Kinds, Receive(kind) PROVE UNCHANGED Verdicts!vars
  BY <1>10, VerdictsStutter DEF Receive, Running, compQ, compW, payments, shutdown
<1> QED
  BY <1>1, <1>2, <1>3, <1>4, <1>5, <1>6, <1>7, <1>8, <1>9, <1>10 DEF Next, ComplianceStep

LEMMA InitVerdicts == Init => Verdicts!Init
<1> SUFFICES ASSUME Init PROVE Verdicts!Init
  OBVIOUS
<1>1. /\ confirmed = <<>> /\ complianceLog = <<>> /\ failed = {} /\ cancelled = {}
      /\ raised = {} /\ phase = "streaming"
  BY DEF Init
<1>2. \A f \in FrameIds : Verdict(f) = "none"
  BY <1>1, ElementsEmpty DEF Verdict, FramesIn
<1>3. Running = TRUE
  BY <1>1 DEF Running
<1> QED
  BY <1>2, <1>3 DEF Verdicts!Init

\* The bridge implements FrameVerdicts: whatever its queues, its workers, the
\* oracle and the shutdown do, every step decides about one frame at most, no
\* decision is taken twice or back, and none is taken after the bridge has
\* stopped.
THEOREM VerdictsImplemented == Spec => ImplementsVerdicts
<1>1. Init => QInv /\ HandsInv
  BY InitQInv, InitHands
<1>2. QInv /\ HandsInv /\ [Next]_vars => (QInv /\ HandsInv)'
  BY StepQInv, StepHands
<1> QED
  BY <1>1, <1>2, InitVerdicts, VerdictStep, PTL DEF Spec, Verdicts!Spec, ImplementsVerdicts
----------------------------------------------------------------------------
(* The drain ends.                                                         *)

\* join() was not called, or there is something to wait for.
WaitInv == phase = "draining" => unfinished > 0

LEMMA StepWait == ASSUME QInv, WaitInv, [Next]_vars PROVE WaitInv'
<1>1. CASE UNCHANGED <<phase, unfinished>>
  BY <1>1 DEF WaitInv
<1>2. CASE phase' \notin {"draining"}
  BY <1>2 DEF WaitInv
<1>3. CASE RouteAnomaly \/ OracleDenied
  BY <1>3 DEF RouteAnomaly, OracleDenied, PutCompliance, compQ, WaitInv, QInv, BridgeTypes
<1>4. CASE StopStreaming
  <2>1. /\ unfinished' = unfinished /\ phase' = IF unfinished = 0 THEN "drained" ELSE "draining"
    BY <1>4 DEF StopStreaming, compQ
  <2>2. unfinished \in Nat
    BY DEF QInv, BridgeTypes, Counted
  <2> QED
    BY <2>1, <2>2 DEF WaitInv
<1>5. CASE ComplianceBroadcast \/ ComplianceFailed
  BY <1>5 DEF ComplianceBroadcast, ComplianceFailed, TaskDone, WaitInv, QInv, BridgeTypes
<1>6. CASE DrainExpires \/ CancelWorkers
  BY <1>6, <1>2 DEF DrainExpires, CancelWorkers
<1>7. CASE ComplianceGet \/ ComplianceLogged
  BY <1>7, <1>1 DEF ComplianceGet, ComplianceLogged, compQ
<1>8. CASE PaymentGet \/ OracleApproved \/ PaymentConfirmed \/ PaymentEnds
  BY <1>8, <1>1 DEF PaymentGet, OracleApproved, PaymentConfirmed, PaymentEnds, PaymentsOnly, compQ
<1>9. CASE RouteNormal \/ Tick \/ SceneGet \/ SceneEnds \/ ScoringFallback \/ UNCHANGED vars
  BY <1>9, <1>1 DEF RouteNormal, Tick, SceneGet, SceneEnds, ScoringFallback, vars, compQ
<1>10. CASE ApplyThrottle \/ ApplyReserve \/ TreasuryEnds
            \/ \E pending \in SUBSET Adjustments, healthy \in BOOLEAN :
                  TreasuryAnswers(pending, healthy)
  BY <1>10, <1>1 DEF ApplyThrottle, ApplyReserve, TreasuryEnds, TreasuryAnswers, AdviceOnly, compQ
<1>11. ASSUME NEW kind \in Kinds, Receive(kind) PROVE WaitInv'
  BY <1>11, <1>1 DEF Receive, compQ
<1> QED
  BY <1>3, <1>4, <1>5, <1>6, <1>7, <1>8, <1>9, <1>10, <1>11 DEF Next, ComplianceStep

\* For any number of tasks, puts during the drain included, the wake-up of
\* join() is never lost: it waits only while there is a step of the compliance
\* worker that brings it nearer to its end.
THEOREM JoinNeverWaitsForNothing == Spec => []JoinHasWork
<1>1. Init => QInv /\ WaitInv
  BY InitQInv DEF Init, WaitInv
<1>2. QInv /\ WaitInv /\ [Next]_vars => (QInv /\ WaitInv)'
  BY StepQInv, StepWait
<1>3. QInv /\ WaitInv => JoinHasWork
  <2> SUFFICES ASSUME QInv, WaitInv, phase = "draining", complianceWorker.pc = "idle",
                      complianceQueue = <<>>
               PROVE  FALSE
    BY DEF JoinHasWork
  <2>1. Len(complianceQueue) = 0
    OBVIOUS
  <2> QED
    BY <2>1 DEF WaitInv, QInv, Counted
<1> QED
  BY <1>1, <1>2, <1>3, PTL DEF Spec

\* The two halves of the work.
SubmissionWork == [idle |-> 0, submitting |-> 2, broadcasting |-> 1][complianceWorker.pc]
PaymentWork == [idle |-> 0, checking |-> 4, paying |-> 2, broadcasting |-> 1][paymentWorker.pc]

LEMMA WorkFacts ==
    ASSUME QInv
    PROVE  /\ DrainWork = 3 * Len(complianceQueue) + SubmissionWork
                            + 5 * Len(paymentQueue) + PaymentWork
           /\ Len(complianceQueue) \in Nat /\ Len(paymentQueue) \in Nat
           /\ SubmissionWork \in 0..2 /\ PaymentWork \in 0..4
           /\ SubmissionWork = 0 <=> complianceWorker.pc = "idle"
           /\ PaymentWork = 0 <=> paymentWorker.pc = "idle"
<1>1. complianceWorker.pc \in {"idle", "submitting", "broadcasting"}
  BY DEF QInv, BridgeTypes
<1>2. paymentWorker.pc \in {"idle", "checking", "paying", "broadcasting"}
  BY DEF QInv, BridgeTypes
<1>3. Len(complianceQueue) \in Nat /\ Len(paymentQueue) \in Nat
  BY DEF QInv, BridgeTypes
<1>4. SubmissionWork \in 0..2 /\ (SubmissionWork = 0 <=> complianceWorker.pc = "idle")
  BY <1>1 DEF SubmissionWork
<1>5. PaymentWork \in 0..4 /\ (PaymentWork = 0 <=> paymentWorker.pc = "idle")
  BY <1>2 DEF PaymentWork
<1> QED
  BY <1>3, <1>4, <1>5 DEF DrainWork, SubmissionWork, PaymentWork

\* The same of the next state.
LEMMA NextWork ==
    ASSUME QInv'
    PROVE  /\ DrainWork' = 3 * Len(complianceQueue') + SubmissionWork'
                            + 5 * Len(paymentQueue') + PaymentWork'
           /\ Len(complianceQueue') \in Nat /\ Len(paymentQueue') \in Nat
           /\ SubmissionWork' \in 0..2 /\ PaymentWork' \in 0..4
<1>1. complianceWorker'.pc \in {"idle", "submitting", "broadcasting"}
  BY DEF QInv, BridgeTypes
<1>2. paymentWorker'.pc \in {"idle", "checking", "paying", "broadcasting"}
  BY DEF QInv, BridgeTypes
<1>3. Len(complianceQueue') \in Nat /\ Len(paymentQueue') \in Nat
  BY DEF QInv, BridgeTypes
<1>4. SubmissionWork' \in 0..2
  BY <1>1 DEF SubmissionWork
<1>5. PaymentWork' \in 0..4
  BY <1>2 DEF PaymentWork
<1> QED
  BY <1>3, <1>4, <1>5 DEF DrainWork, SubmissionWork, PaymentWork

\* Steps that touch neither queue nor either worker.
LEMMA WorkStutter ==
    ASSUME QInv, UNCHANGED <<complianceQueue, complianceWorker, paymentQueue, paymentWorker>>
    PROVE  DrainWork' = DrainWork
BY DEF DrainWork

LEMMA ComplianceShrinks ==
    ASSUME QInv, QInv', ComplianceStep
    PROVE  DrainWork' < DrainWork
<1>1. PaymentWork' = PaymentWork /\ Len(paymentQueue)' = Len(paymentQueue)
  BY DEF ComplianceStep, ComplianceGet, ComplianceLogged, ComplianceBroadcast, ComplianceFailed,
         NoOtherWorker, payments, PaymentWork
<1>2. CASE ComplianceGet
  <2>1. Len(complianceQueue)' = Len(complianceQueue) - 1
    BY <1>2 DEF ComplianceGet, Take, QInv, BridgeTypes
  <2>2. SubmissionWork' = 2
    BY <1>2 DEF ComplianceGet, Take, SubmissionWork
  <2>3. SubmissionWork = 0
    BY <1>2, WorkFacts DEF ComplianceGet
  <2> QED
    BY <1>1, <2>1, <2>2, <2>3, WorkFacts, NextWork
<1>3. CASE ComplianceLogged
  <2>1. complianceWorker.pc = "submitting" /\ complianceWorker'.pc = "broadcasting"
        /\ Len(complianceQueue)' = Len(complianceQueue)
    BY <1>3 DEF ComplianceLogged, compQ, QInv, BridgeTypes
  <2>2. SubmissionWork = 2 /\ SubmissionWork' = 1
    BY <2>1 DEF SubmissionWork
  <2> QED
    BY <1>1, <2>1, <2>2, WorkFacts, NextWork
<1>4. CASE ComplianceBroadcast \/ ComplianceFailed
  <2>1. complianceWorker.pc # "idle" /\ complianceWorker'.pc = "idle"
        /\ Len(complianceQueue)' = Len(complianceQueue)
    BY <1>4 DEF ComplianceBroadcast, ComplianceFailed, IdleCompliance
  <2>2. SubmissionWork > 0 /\ SubmissionWork' = 0
    BY <2>1, WorkFacts DEF SubmissionWork
  <2> QED
    BY <1>1, <2>1, <2>2, WorkFacts, NextWork
<1> QED
  BY <1>2, <1>3, <1>4 DEF ComplianceStep

LEMMA PaymentShrinks ==
    ASSUME QInv, QInv', PaymentStep
    PROVE  DrainWork' < DrainWork
<1>1. SubmissionWork' = SubmissionWork
  BY DEF PaymentStep, PaymentGet, OracleApproved, OracleDenied, PaymentConfirmed, PaymentEnds,
         PaymentsOnly, compW, SubmissionWork
<1>2. CASE PaymentGet
  <2>1. Len(paymentQueue)' = Len(paymentQueue) - 1 /\ Len(complianceQueue)' = Len(complianceQueue)
    BY <1>2 DEF PaymentGet, PaymentsOnly, compQ, QInv, BridgeTypes
  <2>2. PaymentWork' = 4
    BY <1>2 DEF PaymentGet, PaymentWork
  <2>3. PaymentWork = 0
    BY <1>2, WorkFacts DEF PaymentGet
  <2> QED
    BY <1>1, <2>1, <2>2, <2>3, WorkFacts, NextWork
<1>3. CASE OracleDenied
  <2>1. /\ paymentWorker.pc = "checking" /\ paymentWorker'.pc = "idle"
        /\ Len(paymentQueue)' = Len(paymentQueue)
    BY <1>3 DEF OracleDenied, IdlePayment
  <2>2. Len(complianceQueue)' = Len(complianceQueue) + 1
    BY <1>3 DEF OracleDenied, PutCompliance, QInv, BridgeTypes
  <2>3. PaymentWork = 4 /\ PaymentWork' = 0
    BY <2>1 DEF PaymentWork
  <2> QED
    BY <1>1, <2>1, <2>2, <2>3, WorkFacts, NextWork
<1>4. CASE OracleApproved \/ PaymentConfirmed \/ PaymentEnds
  <2>1. Len(paymentQueue)' = Len(paymentQueue) /\ Len(complianceQueue)' = Len(complianceQueue)
    BY <1>4 DEF OracleApproved, PaymentConfirmed, PaymentEnds, PaymentsOnly, compQ
  <2>2. \/ paymentWorker.pc # "idle" /\ paymentWorker'.pc = "idle"
        \/ paymentWorker.pc = "checking" /\ paymentWorker'.pc = "paying"
        \/ paymentWorker.pc = "paying" /\ paymentWorker'.pc = "broadcasting"
    BY <1>4 DEF OracleApproved, PaymentConfirmed, PaymentEnds, IdlePayment, QInv, BridgeTypes
  <2>3. PaymentWork' < PaymentWork
    <3>1. CASE paymentWorker'.pc = "idle" /\ paymentWorker.pc # "idle"
      BY <3>1, WorkFacts DEF PaymentWork
    <3>2. CASE paymentWorker.pc = "checking" /\ paymentWorker'.pc = "paying"
      BY <3>2 DEF PaymentWork
    <3>3. CASE paymentWorker.pc = "paying" /\ paymentWorker'.pc = "broadcasting"
      BY <3>3 DEF PaymentWork
    <3> QED
      BY <2>2, <3>1, <3>2, <3>3
  <2> QED
    BY <1>1, <2>1, <2>3, WorkFacts, NextWork
<1> QED
  BY <1>2, <1>3, <1>4 DEF PaymentStep

\* The cancellation takes what is in hand away.
LEMMA CancelShrinks == ASSUME QInv, QInv', CancelWorkers PROVE DrainWork' <= DrainWork
<1>1. /\ complianceWorker'.pc = "idle" /\ paymentWorker'.pc = "idle"
      /\ UNCHANGED <<complianceQueue, paymentQueue>>
  BY DEF CancelWorkers, IdleCompliance, IdlePayment
<1>2. SubmissionWork' = 0 /\ PaymentWork' = 0
  BY <1>1 DEF SubmissionWork, PaymentWork
<1> QED
  BY <1>1, <1>2, WorkFacts, NextWork

\* A drain is finite: from the end of the stream on, whatever the oracle still
\* denies, every step of the two workers takes away from a number no other
\* step adds to.  What is left to fairness is that the calls return.
THEOREM DrainIsFinite == Spec => [](DrainWork \in Nat) /\ DrainShrinks
<1>1. Init => QInv /\ HandsInv
  BY InitQInv, InitHands
<1>2. QInv /\ HandsInv /\ [Next]_vars => (QInv /\ HandsInv)'
  BY StepQInv, StepHands
<1>3. QInv => DrainWork \in Nat
  <2> SUFFICES ASSUME QInv PROVE DrainWork \in Nat
    OBVIOUS
  <2> QED
    BY WorkFacts
<1>4. QInv /\ QInv' /\ HandsInv /\ [Next]_vars
        => [phase # "streaming" =>
               /\ DrainWork' <= DrainWork
               /\ ComplianceStep \/ PaymentStep => DrainWork' < DrainWork]_vars
  <2> SUFFICES ASSUME QInv, QInv', HandsInv, Next, phase # "streaming"
               PROVE  /\ DrainWork' <= DrainWork
                      /\ ComplianceStep \/ PaymentStep => DrainWork' < DrainWork
    OBVIOUS
  <2>1. ComplianceStep \/ PaymentStep => DrainWork' < DrainWork
    BY ComplianceShrinks, PaymentShrinks
  <2>2. DrainWork \in Nat /\ DrainWork' \in Nat
    <3>1. DrainWork \in Nat
      BY WorkFacts
    <3>2. DrainWork' \in Nat
      BY NextWork
    <3> QED
      BY <3>1, <3>2
  <2>3. DrainWork' <= DrainWork
    <3>1. CASE ComplianceStep \/ PaymentStep
      BY <2>1, <2>2, <3>1
    <3>2. CASE CancelWorkers
      BY <3>2, CancelShrinks
    <3>3. CASE UNCHANGED <<complianceQueue, complianceWorker, paymentQueue, paymentWorker>>
      BY <2>2, <3>3, WorkStutter
    <3>4. current = NoFrame
      BY DEF HandsInv
    <3>5. CASE Tick \/ DrainExpires \/ SceneGet \/ SceneEnds \/ ScoringFallback
      BY <3>3, <3>5 DEF Tick, DrainExpires, SceneGet, SceneEnds, ScoringFallback, compQ, compW,
                        payments
    <3>6. CASE ApplyThrottle \/ ApplyReserve \/ TreasuryEnds
               \/ \E pending \in SUBSET Adjustments, healthy \in BOOLEAN :
                     TreasuryAnswers(pending, healthy)
      BY <3>3, <3>6 DEF ApplyThrottle, ApplyReserve, TreasuryEnds, TreasuryAnswers, AdviceOnly,
                        compQ, compW, payments
    <3>7. ~RouteAnomaly /\ ~RouteNormal /\ ~StopStreaming /\ \A kind \in Kinds : ~Receive(kind)
      BY <3>4 DEF RouteAnomaly, RouteNormal, StopStreaming, Receive
    <3> QED
      BY <3>1, <3>2, <3>5, <3>6, <3>7 DEF Next, PaymentStep
  <2> QED
    BY <2>1, <2>3
<1> QED
  BY <1>1, <1>2, <1>3, <1>4, PTL DEF Spec, DrainShrinks
=============================================================================
