------------------------------- MODULE Bridge -------------------------------
(***************************************************************************)
(* The asyncio process that ties telemetry to the chain: Bridge.run, its   *)
(* process() handler, the compliance, payment, scene and treasury workers  *)
(* and the drain at shutdown.  Everything runs on one event loop, so a     *)
(* step is the code between two awaits that may suspend; a put on a queue  *)
(* that has room and a get on one that is not empty do not suspend.        *)
(*                                                                         *)
(* A frame is its number and its kind.  What a submission or an oracle     *)
(* answers is chosen freely; health endpoint, metrics, wording and the     *)
(* risk and invoice workers, which only read the two logs, are left out.   *)
(***************************************************************************)
EXTENDS Integers, Sequences, FiniteSets

CONSTANTS Kinds,                 \* the kinds of frames the source emits
          MaxFrames,             \* bound: frames in a behaviour
          MinInterval,           \* AUXIN_COMPLIANCE_MIN_INTERVAL_S, in ticks
          BootElapsed,           \* monotonic clock at start, in ticks
          OracleInterval,        \* ORACLE_INTERVAL_FRAMES
          Throttle,              \* _THROTTLE_MULTIPLIER, in percent
          Reserve,               \* the reduced lamport multiplier, in percent
          PaymentQueueMax,       \* PAYMENT_QUEUE_MAXSIZE
          PaymentAmount,         \* PAYMENT_AMOUNT_LAMPORTS
          PaymentLogMax,         \* _payment_log_max
          SceneInterval,         \* SCENE_INTERVAL_FRAMES
          SceneQueueMax,         \* maxsize of the scene queue
          ScoringMinPayments,    \* _SCORING_MIN_PAYMENTS
          ScoringMinCompliance,  \* _SCORING_MIN_COMPLIANCE
          HasProvider,           \* provider_pubkey is configured
          Adjustments,           \* critical actions the treasury may return
          NoFrame, NoTask        \* nothing in hand

ASSUME QueuesAssumption ==
    /\ {MaxFrames, PaymentQueueMax, PaymentLogMax, SceneQueueMax} \subseteq Nat \ {0}
    /\ {MinInterval, BootElapsed, PaymentAmount} \subseteq Nat
    /\ BootElapsed <= MinInterval
    /\ {ScoringMinPayments, ScoringMinCompliance} \subseteq Nat

ASSUME IntervalsAssumption ==
    /\ {OracleInterval, SceneInterval, Throttle, Reserve} \subseteq Nat \ {0}
    /\ Reserve < 100 /\ 100 < Throttle

ASSUME InputsAssumption ==
    /\ Kinds \subseteq {"normal", "anomaly", "sentinel"}
    /\ Adjustments \subseteq {"throttle", "reserve"}
    /\ HasProvider \in BOOLEAN

VARIABLES
    frames,            \* _frames_processed
    current,           \* the frame process() holds while it broadcasts
    phase,             \* of run(): streaming, draining, drained, expired, stopped
    elapsed,           \* now - _last_compliance_logged_at, up to MinInterval
    oracleCount,       \* _oracle_frame_counter
    complianceQueue, unfinished, complianceWorker, complianceLog,
    paymentQueue, paymentWorker, paymentLog, dropped,
    sceneQueue, sceneWorker,
    scoringReady,      \* _scoring_ready.is_set()
    treasury,          \* the analysis the treasury worker is applying
    intervalMult, lamportMult,
    \* History, kept by no code: compliance tasks ever put, given up after an
    \* error, cancelled in the worker's hand; the tasks pending when the drain
    \* began; frames whose payment was confirmed (its length is
    \* _payments_total); frames since the last oracle sample.
    raised, failed, cancelled, atStop, confirmed, unsampled

source    == <<frames, current>>
routing   == <<elapsed, oracleCount, unsampled, dropped>>
compQ     == <<complianceQueue, unfinished, raised>>
compW     == <<complianceWorker, complianceLog, failed>>
payments  == <<paymentWorker, paymentLog, confirmed>>
scene     == <<sceneQueue, sceneWorker>>
advice    == <<treasury, intervalMult, lamportMult>>
shutdown  == <<cancelled, atStop>>
vars == <<source, routing, compQ, compW, payments, paymentQueue, scene, advice,
          shutdown, phase, scoringReady>>

FrameIds == 1..MaxFrames
Frame == [id : FrameIds, kind : Kinds]
ComplianceTask == [frame : FrameIds, severity : 0..2]
Elements(seq) == {seq[i] : i \in 1..Len(seq)}

TypeOK ==
    /\ frames \in 0..MaxFrames
    /\ current \in Frame \cup {NoFrame}
    /\ phase \in {"streaming", "draining", "drained", "expired", "stopped"}
    /\ elapsed \in 0..MinInterval
    /\ {oracleCount, unsampled} \subseteq 0..MaxFrames /\ dropped \subseteq FrameIds
    /\ complianceQueue \in Seq(ComplianceTask)
    /\ unfinished \in Nat
    /\ complianceWorker \in [pc : {"idle", "submitting", "broadcasting"},
                             task : ComplianceTask \cup {NoTask}]
    /\ complianceLog \in Seq(ComplianceTask)
    /\ paymentQueue \in Seq(FrameIds) /\ Len(paymentQueue) <= PaymentQueueMax
    /\ paymentWorker \in [pc : {"idle", "checking", "paying", "broadcasting"},
                          frame : FrameIds \cup {NoFrame}]
    /\ paymentLog \in Seq([frame : FrameIds, lamports : Nat])
    /\ sceneQueue \in Seq(FrameIds) /\ Len(sceneQueue) <= SceneQueueMax
    /\ sceneWorker \in FrameIds \cup {NoFrame}
    /\ scoringReady \in BOOLEAN
    /\ treasury \in [pending : SUBSET Adjustments, healthy : BOOLEAN] \cup {NoTask}
    /\ intervalMult \in {100, Throttle} /\ lamportMult \in {100, Reserve}
    /\ raised \subseteq ComplianceTask
    /\ {failed, cancelled, atStop} \subseteq SUBSET raised
    /\ confirmed \in Seq(FrameIds)

IdleCompliance == [pc |-> "idle", task |-> NoTask]
IdlePayment == [pc |-> "idle", frame |-> NoFrame]

Init ==
    /\ frames = 0 /\ current = NoFrame /\ phase = "streaming"
    /\ elapsed = BootElapsed    \* _last_compliance_logged_at starts at 0.0
    /\ oracleCount = 0 /\ unsampled = 0 /\ dropped = {}
    /\ complianceQueue = <<>> /\ unfinished = 0 /\ raised = {}
    /\ complianceWorker = IdleCompliance /\ complianceLog = <<>>
    /\ paymentQueue = <<>> /\ paymentWorker = IdlePayment
    /\ paymentLog = <<>> /\ confirmed = <<>>
    /\ sceneQueue = <<>> /\ sceneWorker = NoFrame
    /\ scoringReady = FALSE
    /\ treasury = NoTask /\ intervalMult = 100 /\ lamportMult = 100
    /\ failed = {} /\ cancelled = {} /\ atStop = {}

Running == phase # "stopped"

Pending == raised \ (Elements(complianceLog) \cup failed \cup cancelled)

\* asyncio.Queue.put on the unbounded compliance queue.
PutCompliance(task) ==
    /\ complianceQueue' = Append(complianceQueue, task)
    /\ unfinished' = unfinished + 1
    /\ raised' = raised \cup {task}

\* asyncio.Queue.task_done.  join() waits for the event that is set when the
\* count reaches zero; a later put does not put the waiter back to sleep.
TaskDone ==
    /\ unfinished' = unfinished - 1
    /\ phase' = IF phase = "draining" /\ unfinished = 1 THEN "drained" ELSE phase

----------------------------------------------------------------------------
(* run() and process().                                                    *)

\* The next frame of source.stream(), up to the broadcast of raw telemetry.
Receive(kind) ==
    /\ phase = "streaming" /\ current = NoFrame /\ frames < MaxFrames
    /\ frames' = frames + 1
    /\ current' = [id |-> frames + 1, kind |-> kind]
    /\ UNCHANGED <<routing, compQ, compW, payments, paymentQueue, scene, advice,
                   shutdown, phase, scoringReady>>

\* Every SceneInterval-th frame is put on the scene queue unless it is full.
OfferScene ==
    /\ sceneQueue' = IF current.id % SceneInterval = 0 /\ Len(sceneQueue) < SceneQueueMax
                     THEN Append(sceneQueue, current.id) ELSE sceneQueue
    /\ UNCHANGED sceneWorker

TooSoon == elapsed < MinInterval

\* The rest of process() for a flagged frame: session sentinels always pass,
\* other anomalies at most once per interval, counted from the last put.
RouteAnomaly ==
    /\ current # NoFrame /\ current.kind # "normal"
    /\ IF current.kind = "sentinel"
       THEN /\ PutCompliance([frame |-> current.id, severity |-> 0])
            /\ UNCHANGED elapsed
       ELSE IF TooSoon
       THEN UNCHANGED <<compQ, elapsed>>
       ELSE /\ PutCompliance([frame |-> current.id, severity |-> 2])
            /\ elapsed' = 0
    /\ OfferScene
    /\ current' = NoFrame
    /\ UNCHANGED <<frames, oracleCount, unsampled, dropped, compW, payments,
                   paymentQueue, advice, shutdown, phase, scoringReady>>

EffectiveInterval ==
    LET n == (OracleInterval * intervalMult) \div 100 IN IF n < 1 THEN 1 ELSE n

\* _payment_queue.full().
PaymentQueueFull == Len(paymentQueue) >= PaymentQueueMax

\* The rest of process() for a normal frame: every n-th one is offered to the
\* payment queue, which drops it when it is full.
RouteNormal ==
    /\ current # NoFrame /\ current.kind = "normal"
    /\ oracleCount' = oracleCount + 1
    /\ IF oracleCount' % EffectiveInterval # 0
       THEN /\ unsampled' = unsampled + 1
            /\ UNCHANGED <<paymentQueue, dropped>>
       ELSE /\ unsampled' = 0
            /\ IF PaymentQueueFull
               THEN dropped' = dropped \cup {current.id} /\ UNCHANGED paymentQueue
               ELSE paymentQueue' = Append(paymentQueue, current.id) /\ UNCHANGED dropped
    /\ OfferScene
    /\ current' = NoFrame
    /\ UNCHANGED <<frames, elapsed, compQ, compW, payments, advice,
                   shutdown, phase, scoringReady>>

\* The stream ends, fails, or run() is cancelled: at any await of the loop, so
\* also in the broadcast of a frame, which is then never routed.  run() enters
\* its finally block and joins the compliance queue.  With nothing to wait for
\* the workers may still get a turn: before Python 3.12 wait_for suspends.
StopStreaming ==
    /\ phase = "streaming"
    /\ current' = NoFrame
    /\ phase' = IF unfinished = 0 THEN "drained" ELSE "draining"
    /\ atStop' = Pending
    /\ UNCHANGED <<frames, routing, compQ, compW, payments, paymentQueue, scene,
                   advice, cancelled, scoringReady>>

\* wait_for gives up after COMPLIANCE_DRAIN_TIMEOUT_S, or a second signal
\* cancels run() in its finally block; asyncio.run then cancels the workers.
\* Variant: a join with no timeout.
DrainExpiresNever == FALSE /\ UNCHANGED vars
DrainExpires ==
    /\ phase = "draining"
    /\ phase' = "expired"
    /\ UNCHANGED <<source, routing, compQ, compW, payments, paymentQueue, scene,
                   advice, shutdown, scoringReady>>

\* The workers are cancelled where they wait.  task_done() of a task in hand
\* is in a finally clause.
CancelWorkers ==
    /\ phase \in {"drained", "expired"}
    /\ phase' = "stopped"
    /\ LET w == complianceWorker
       IN  /\ unfinished' = IF w.pc = "idle" THEN unfinished ELSE unfinished - 1
           /\ cancelled' = IF w.pc = "submitting" THEN cancelled \cup {w.task} ELSE cancelled
    /\ complianceWorker' = IdleCompliance
    /\ paymentWorker' = IdlePayment
    /\ sceneWorker' = NoFrame
    /\ treasury' = NoTask
    /\ UNCHANGED <<source, routing, complianceQueue, raised, complianceLog, failed,
                   paymentQueue, paymentLog, confirmed, sceneQueue, intervalMult,
                   lamportMult, atStop, scoringReady>>

Tick ==
    /\ Running /\ elapsed < MinInterval
    /\ elapsed' = elapsed + 1
    /\ UNCHANGED <<source, oracleCount, unsampled, dropped, compQ, compW,
                   payments, paymentQueue, scene, advice, shutdown, phase, scoringReady>>

----------------------------------------------------------------------------
(* _compliance_worker.                                                     *)

NoOtherWorker == UNCHANGED <<source, routing, payments, paymentQueue, scene,
                             advice, shutdown>>

Take == /\ complianceWorker' = [pc |-> "submitting", task |-> Head(complianceQueue)]
        /\ complianceQueue' = Tail(complianceQueue)

\* get() and the call of _submission.log_compliance, whatever payments do.
\* Variants: task_done() right after get(); one lock around both submissions.
ComplianceGetDone ==
    /\ Running /\ complianceWorker.pc = "idle" /\ complianceQueue # <<>>
    /\ Take
    /\ TaskDone
    /\ UNCHANGED <<raised, complianceLog, failed, scoringReady>>
    /\ NoOtherWorker
ComplianceGetLocked ==
    /\ Running /\ complianceWorker.pc = "idle" /\ complianceQueue # <<>>
    /\ paymentWorker.pc = "idle"
    /\ Take
    /\ UNCHANGED <<unfinished, raised, complianceLog, failed, phase, scoringReady>>
    /\ NoOtherWorker
ComplianceGet ==
    /\ Running /\ complianceWorker.pc = "idle" /\ complianceQueue # <<>>
    /\ Take
    /\ UNCHANGED <<unfinished, raised, complianceLog, failed, phase, scoringReady>>
    /\ NoOtherWorker

\* The submission returns a signature.
ComplianceLogged ==
    /\ complianceWorker.pc = "submitting"
    /\ complianceWorker' = [complianceWorker EXCEPT !.pc = "broadcasting"]
    /\ complianceLog' = Append(complianceLog, complianceWorker.task)
    /\ scoringReady' = (scoringReady \/ Len(complianceLog) + 1 >= ScoringMinCompliance)
    /\ UNCHANGED <<compQ, failed, phase>>
    /\ NoOtherWorker

ComplianceBroadcast ==
    /\ complianceWorker.pc = "broadcasting"
    /\ complianceWorker' = IdleCompliance
    /\ TaskDone
    /\ UNCHANGED <<complianceQueue, raised, complianceLog, failed, scoringReady>>
    /\ NoOtherWorker

\* The submission raises, whatever became of its transaction; the worker
\* reports the error and goes on.  Variant: the error skips task_done().
ComplianceFailedNotDone ==
    /\ complianceWorker.pc = "submitting"
    /\ complianceWorker' = IdleCompliance
    /\ failed' = failed \cup {complianceWorker.task}
    /\ UNCHANGED <<compQ, complianceLog, phase, scoringReady>>
    /\ NoOtherWorker
ComplianceFailed ==
    /\ complianceWorker.pc = "submitting"
    /\ complianceWorker' = IdleCompliance
    /\ failed' = failed \cup {complianceWorker.task}
    /\ TaskDone
    /\ UNCHANGED <<complianceQueue, raised, complianceLog, scoringReady>>
    /\ NoOtherWorker

----------------------------------------------------------------------------
(* _payment_worker.                                                        *)

\* What a step of the payment worker that is not a denial leaves alone.
PaymentsOnly == UNCHANGED <<source, routing, compQ, compW, scene, advice, shutdown, phase>>

PaymentGet ==
    /\ Running /\ paymentWorker.pc = "idle" /\ paymentQueue # <<>>
    /\ paymentWorker' = [pc |-> "checking", frame |-> Head(paymentQueue)]
    /\ paymentQueue' = Tail(paymentQueue)
    /\ PaymentsOnly /\ UNCHANGED <<paymentLog, confirmed, scoringReady>>

\* With no provider configured an approved frame is skipped.
OracleApproved ==
    /\ paymentWorker.pc = "checking"
    /\ paymentWorker' = IF HasProvider THEN [paymentWorker EXCEPT !.pc = "paying"]
                                       ELSE IdlePayment
    /\ PaymentsOnly /\ UNCHANGED <<paymentQueue, paymentLog, confirmed, scoringReady>>

\* A denial becomes a compliance task.  Variant: it then falls through to the
\* payment.
OracleDeniedAndPaid ==
    /\ paymentWorker.pc = "checking"
    /\ PutCompliance([frame |-> paymentWorker.frame, severity |-> 1])
    /\ paymentWorker' = [paymentWorker EXCEPT !.pc = "paying"]
    /\ UNCHANGED <<source, routing, compW, scene, advice, shutdown, phase,
                   paymentQueue, paymentLog, confirmed, scoringReady>>
OracleDenied ==
    /\ paymentWorker.pc = "checking"
    /\ PutCompliance([frame |-> paymentWorker.frame, severity |-> 1])
    /\ paymentWorker' = IdlePayment
    /\ UNCHANGED <<source, routing, compW, scene, advice, shutdown, phase,
                   paymentQueue, paymentLog, confirmed, scoringReady>>

\* The ring buffer keeps the newest entries.
Ring(log) == IF Len(log) > PaymentLogMax
             THEN SubSeq(log, Len(log) - PaymentLogMax + 1, Len(log)) ELSE log

\* send_payment paid PaymentAmount and returned a signature.  What is recorded
\* and broadcast is scaled by the multiplier as it is after the await.
PaymentConfirmed ==
    /\ paymentWorker.pc = "paying"
    /\ paymentWorker' = [paymentWorker EXCEPT !.pc = "broadcasting"]
    /\ confirmed' = Append(confirmed, paymentWorker.frame)
    /\ paymentLog' = Ring(Append(paymentLog,
          [frame |-> paymentWorker.frame,
           lamports |-> (PaymentAmount * lamportMult) \div 100]))
    /\ scoringReady' = (scoringReady \/ Len(confirmed) + 1 >= ScoringMinPayments)
    /\ PaymentsOnly /\ UNCHANGED paymentQueue

\* The frame's task ends: after the broadcast, when the provider returns no
\* signature, or when the check or the payment raises.
PaymentEnds ==
    /\ paymentWorker.pc # "idle"
    /\ paymentWorker' = IdlePayment
    /\ PaymentsOnly /\ UNCHANGED <<paymentQueue, paymentLog, confirmed, scoringReady>>

----------------------------------------------------------------------------
(* _scene_worker, _scoring_ready_fallback and _treasury_worker.            *)

SceneGet ==
    /\ Running /\ sceneWorker = NoFrame /\ sceneQueue # <<>>
    /\ sceneWorker' = Head(sceneQueue) /\ sceneQueue' = Tail(sceneQueue)
    /\ UNCHANGED <<source, routing, compQ, compW, payments, paymentQueue, advice,
                   shutdown, phase, scoringReady>>

\* The description is broadcast, or the oracle or the image failed.
SceneEnds ==
    /\ sceneWorker # NoFrame
    /\ sceneWorker' = NoFrame
    /\ UNCHANGED <<source, routing, compQ, compW, payments, paymentQueue, sceneQueue,
                   advice, shutdown, phase, scoringReady>>

ScoringFallback ==
    /\ Running /\ ~scoringReady
    /\ scoringReady' = TRUE
    /\ UNCHANGED <<source, routing, compQ, compW, payments, paymentQueue, scene,
                   advice, shutdown, phase>>

AdviceOnly == UNCHANGED <<source, routing, compQ, compW, payments, paymentQueue,
                          scene, shutdown, phase, scoringReady>>

\* analyze() answers; the worker then applies the critical auto-executable
\* actions, in the order they are listed, with a broadcast after each.
TreasuryAnswers(pending, healthy) ==
    /\ Running /\ scoringReady /\ treasury = NoTask
    /\ treasury' = [pending |-> pending, healthy |-> healthy]
    /\ AdviceOnly /\ UNCHANGED <<intervalMult, lamportMult>>

\* Variant: each throttle multiplies the one before.
ApplyThrottleCompounding ==
    /\ treasury # NoTask /\ "throttle" \in treasury.pending
    /\ intervalMult' = (intervalMult * Throttle) \div 100
    /\ treasury' = [treasury EXCEPT !.pending = @ \ {"throttle"}]
    /\ AdviceOnly /\ UNCHANGED lamportMult
ApplyThrottle ==
    /\ treasury # NoTask /\ "throttle" \in treasury.pending
    /\ intervalMult' = Throttle
    /\ treasury' = [treasury EXCEPT !.pending = @ \ {"throttle"}]
    /\ AdviceOnly /\ UNCHANGED lamportMult

ApplyReserve ==
    /\ treasury # NoTask /\ "reserve" \in treasury.pending
    /\ lamportMult' = Reserve
    /\ treasury' = [treasury EXCEPT !.pending = @ \ {"reserve"}]
    /\ AdviceOnly /\ UNCHANGED intervalMult

\* A healthy runway takes both adjustments back.
TreasuryEnds ==
    /\ treasury # NoTask /\ treasury.pending = {}
    /\ IF treasury.healthy THEN intervalMult' = 100 /\ lamportMult' = 100
                           ELSE UNCHANGED <<intervalMult, lamportMult>>
    /\ treasury' = NoTask
    /\ AdviceOnly

ComplianceStep == \/ ComplianceGet \/ ComplianceLogged
                  \/ ComplianceBroadcast \/ ComplianceFailed

Next ==
    \/ \E kind \in Kinds : Receive(kind)
    \/ RouteAnomaly \/ RouteNormal \/ Tick
    \/ StopStreaming \/ DrainExpires \/ CancelWorkers
    \/ ComplianceStep
    \/ PaymentGet \/ OracleApproved \/ OracleDenied \/ PaymentConfirmed \/ PaymentEnds
    \/ SceneGet \/ SceneEnds \/ ScoringFallback
    \/ \E pending \in SUBSET Adjustments, healthy \in BOOLEAN :
          TreasuryAnswers(pending, healthy)
    \/ ApplyThrottle \/ ApplyReserve \/ TreasuryEnds

Spec == Init /\ [][Next]_vars

\* Only the timer of wait_for and the event loop are fair: a submission, the
\* oracle, a payment and the source may each hang for ever.
LiveSpec == Spec /\ WF_vars(DrainExpires) /\ WF_vars(CancelWorkers)

----------------------------------------------------------------------------
(* What the bridge promises.                                               *)

InSubmission == IF complianceWorker.pc = "submitting" THEN {complianceWorker.task} ELSE {}

\* Every compliance task ever put is in exactly one place: the queue, the
\* worker's hand, the log, the failures or the cancelled; and the count that
\* join() waits for is the tasks not handled, on every path, errors included.
ComplianceAccounting ==
    LET places == <<Elements(complianceQueue), InSubmission, Elements(complianceLog),
                    failed, cancelled>>
    IN  /\ raised = UNION Elements(places)
        /\ \A i, j \in 1..5 : i # j => places[i] \cap places[j] = {}
        /\ unfinished = Len(complianceQueue)
                          + IF complianceWorker.pc = "idle" THEN 0 ELSE 1

\* When run() leaves the join because the queue is drained, every task that
\* was pending when the drain began has been submitted and reported: finishing
\* early would cancel a submission the drain exists to protect.
JoinMeansHandled ==
    phase = "drained" => atStop \cap (Pending \cup InSubmission) = {}

\* A frame has one outcome.  It is never both paid for and reported, over the
\* anomaly path and the oracle path, never paid twice and never reported twice,
\* and one that the full payment queue dropped is neither paid nor reported.
OneOutcomePerFrame ==
    /\ \A t, u \in raised : t.frame = u.frame => t = u
    /\ \A i, j \in 1..Len(confirmed) : confirmed[i] = confirmed[j] => i = j
    /\ {t.frame : t \in raised} \cap Elements(confirmed) = {}
    /\ dropped \cap ({t.frame : t \in raised} \cup Elements(confirmed)) = {}

\* Scoring, treasury and invoices read the log: it holds the newest payments,
\* in order, however many there were.
RingKeepsLatest ==
    LET n == Len(paymentLog)
    IN  /\ n = IF Len(confirmed) > PaymentLogMax THEN PaymentLogMax ELSE Len(confirmed)
        /\ \A i \in 1..n : paymentLog[i].frame = confirmed[Len(confirmed) - n + i]

\* However the treasury switches the throttle on and off, the oracle still
\* samples (or drops, if the queue is full) a normal frame within the product
\* of the two intervals.
SamplingNeverStarves ==
    unsampled < OracleInterval * ((OracleInterval * Throttle) \div 100)

\* Payments never block compliance: if submissions and broadcasts end, as every
\* RPC call has a timeout, a raised task is submitted unless the bridge is
\* stopped first, however long the oracle or a payment takes.
ComplianceNotBlockedByPayments ==
    WF_vars(ComplianceStep) =>
        \A id \in FrameIds : \A sev \in 0..2 :
            LET task == [frame |-> id, severity |-> sev]
            IN  (task \in raised) ~> (task \notin Pending \/ phase = "stopped")

\* A shutdown ends even when a submission hangs.
ShutdownCompletes == (phase = "draining") ~> (phase = "stopped")

\* What is left to do for both queues: the steps the workers can still take for
\* what is queued and in hand, three of them for a denial that is yet to come.
DrainWork ==
    LET submission == [idle |-> 0, submitting |-> 2, broadcasting |-> 1]
        payment == [idle |-> 0, checking |-> 4, paying |-> 2, broadcasting |-> 1]
    IN  3 * Len(complianceQueue) + submission[complianceWorker.pc]
          + 5 * Len(paymentQueue) + payment[paymentWorker.pc]

PaymentStep == \/ PaymentGet \/ OracleApproved \/ OracleDenied
               \/ PaymentConfirmed \/ PaymentEnds

\* Although the payment worker may still put tasks on the queue that is being
\* joined, every step of either worker brings the end of a drain closer, and
\* nothing else moves it away.
DrainShrinks ==
    [][phase # "streaming" =>
          /\ DrainWork' <= DrainWork
          /\ ComplianceStep \/ PaymentStep => DrainWork' < DrainWork]_vars

\* join() never waits for nothing: while it waits, the compliance worker has a
\* task in hand or one to get.
JoinHasWork ==
    phase = "draining" => complianceWorker.pc # "idle" \/ complianceQueue # <<>>

----------------------------------------------------------------------------
(* Frames have verdicts: queues, oracle and shutdown in one sentence.      *)

FramesIn(tasks) == {t.frame : t \in tasks}

Verdict(f) ==
    IF f \in Elements(confirmed) THEN "paid"
    ELSE IF f \in FramesIn(Elements(complianceLog)) THEN "logged"
    ELSE IF f \in FramesIn(failed) THEN "failed"
    ELSE IF f \in FramesIn(cancelled) THEN "cancelled"
    ELSE IF f \in FramesIn(raised) THEN "reported"
    ELSE "none"

Verdicts == INSTANCE FrameVerdicts WITH
    Frames  <- FrameIds,
    verdict <- [f \in FrameIds |-> Verdict(f)],
    open    <- Running

\* However its workers interleave, the bridge decides about one frame at a
\* time, never takes a decision back, and decides nothing once it has stopped.
ImplementsVerdicts == Verdicts!Spec

----------------------------------------------------------------------------
(* What the documentation says, and the code does not do.                  *)

\* bridge.py:540 and 1064: the treasury's multiplier adjusts what is paid per
\* payment, so what is recorded of a payment is what send_payment paid, which
\* is PaymentAmount for every call of it.
RecordedMatchesPaid ==
    \A i \in 1..Len(paymentLog) : paymentLog[i].lamports = PaymentAmount
=============================================================================
