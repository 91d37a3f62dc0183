--------------------------- MODULE SafetyWatchdog ---------------------------
(***************************************************************************)
(* The independent torque monitor: safety_watchdog_node between the        *)
(* /joint_states topic (best effort, keep last 1) and the /emergency_stop  *)
(* service, restarted by systemd.  rclpy runs one callback at a time, so a *)
(* callback is a step.  The arm, the service and systemd are external.     *)
(***************************************************************************)
EXTENDS Integers, Sequences

CONSTANTS Consecutive,    \* WATCHDOG_CONSECUTIVE_FRAMES
          Outcomes,       \* what may become of a request: success, failure, lost
          MaxCrashes      \* bound: crashes of the node in a behaviour

ASSUME WatchdogAssumption ==
    /\ Consecutive \in Nat \ {0}
    /\ Outcomes \subseteq {"success", "failure", "lost"}
    /\ MaxCrashes \in Nat

\* A JointState message: some effort above the threshold, none, or no effort
\* field at all.
Readings == {"over", "normal", "empty"}

VARIABLES up, overCount, estopTriggered, retryTimer,
          request,    \* the call of /emergency_stop: none, sent, lost, answered
          status,     \* last value on /auxin/watchdog_status
          inbox,      \* the one message the subscription keeps, or "none"
          load,       \* what the arm reports
          serviceUp, halted, crashes,
          \* History: messages handled, newest last; requests sent by this
          \* process.
          handled, requests

node == <<overCount, estopTriggered, retryTimer, request, requests>>
outside == <<serviceUp, halted>>
vars == <<up, node, status, inbox, load, outside, crashes, handled>>

TypeOK ==
    /\ up \in BOOLEAN /\ estopTriggered \in BOOLEAN /\ retryTimer \in BOOLEAN
    /\ serviceUp \in BOOLEAN /\ halted \in BOOLEAN /\ status \in BOOLEAN
    /\ overCount \in 0..Consecutive
    /\ request \in {"none", "sent", "lost", "answered"}
    /\ inbox \in Readings \cup {"none"} /\ load \in Readings
    /\ crashes \in 0..MaxCrashes
    /\ handled \in Seq(Readings) /\ Len(handled) <= Consecutive
    /\ requests \in Nat

Fresh == /\ overCount = 0 /\ estopTriggered = FALSE /\ retryTimer = FALSE
         /\ request = "none" /\ requests = 0 /\ handled = <<>>

Init ==
    /\ up = TRUE /\ Fresh /\ status = TRUE /\ inbox = "none"
    /\ load = "normal"
    /\ serviceUp \in BOOLEAN /\ halted = FALSE /\ crashes = 0

----------------------------------------------------------------------------
(* The node's callbacks.                                                   *)

\* _call_estop_service: send the request, or arm the 1 s timer when the
\* service is not ready.  A call that was sent is never repeated.
\* Variant: no timer, the next message is to try again.
CallEstopServiceOnce ==
    /\ retryTimer' = FALSE
    /\ IF serviceUp THEN request' = "sent" /\ requests' = requests + 1
                    ELSE UNCHANGED <<request, requests>>
CallEstopService ==
    /\ retryTimer' = ~serviceUp
    /\ IF serviceUp THEN request' = "sent" /\ requests' = requests + 1
                    ELSE UNCHANGED <<request, requests>>

Quiet == UNCHANGED <<estopTriggered, retryTimer, request, requests>>

\* The counter after a message.  Variant: no effort field leaves it alone.
CountedUnlessEmpty(reading) ==
    IF reading = "over" THEN overCount + 1
    ELSE IF reading = "empty" THEN overCount ELSE 0
Counted(reading) == IF reading = "over" THEN overCount + 1 ELSE 0

\* Messages are ignored once the stop is triggered.  Variant: they are not.
IgnoredNever == FALSE
Ignored == estopTriggered

Newest(seq) == IF Len(seq) > Consecutive THEN Tail(seq) ELSE seq

\* _joint_states_cb, with _trigger_estop and the first call.
JointStates ==
    /\ up /\ inbox # "none"
    /\ inbox' = "none"
    /\ handled' = Newest(Append(handled, inbox))
    /\ IF Ignored THEN UNCHANGED node
       ELSE IF Counted(inbox) >= Consecutive
       THEN /\ overCount' = Counted(inbox)
            /\ estopTriggered' = TRUE
            /\ CallEstopService
       ELSE overCount' = Counted(inbox) /\ Quiet
    /\ UNCHANGED <<up, status, load, outside, crashes>>

RetryTimer ==
    /\ up /\ retryTimer
    /\ CallEstopService
    /\ UNCHANGED <<up, overCount, estopTriggered, status, inbox, load, outside,
                   crashes, handled>>

\* _estop_done only logs the answer.  Variant: a failure clears the latch.
EstopDoneClears ==
    /\ up /\ request = "answered"
    /\ request' = "none" /\ estopTriggered' = FALSE
    /\ UNCHANGED <<up, overCount, retryTimer, requests, status, inbox, load, outside,
                   crashes, handled>>
EstopDone ==
    /\ up /\ request = "answered"
    /\ request' = "none"
    /\ UNCHANGED <<up, overCount, estopTriggered, retryTimer, requests, status, inbox,
                   load, outside, crashes, handled>>

Heartbeat ==
    /\ up
    /\ status' = ~estopTriggered
    /\ UNCHANGED <<up, node, inbox, load, outside, crashes, handled>>

----------------------------------------------------------------------------
(* The arm, the service and systemd.                                       *)

\* The arm publishes; a message still in the subscription is overwritten.
Publish ==
    /\ inbox' = load
    /\ UNCHANGED <<up, node, status, load, outside, crashes, handled>>

LoadChanges(reading) ==
    /\ load' = reading
    /\ UNCHANGED <<up, node, status, inbox, outside, crashes, handled>>

ServiceAnswers(outcome) ==
    /\ serviceUp /\ request = "sent" /\ outcome # "lost"
    /\ request' = "answered"
    /\ halted' = (halted \/ outcome = "success")
    /\ UNCHANGED <<up, overCount, estopTriggered, retryTimer, requests, status, inbox,
                   load, serviceUp, crashes, handled>>

\* The service comes or goes; a request it holds may go with it.
ServiceChanges ==
    /\ serviceUp' = ~serviceUp
    /\ IF serviceUp /\ request = "sent"
       THEN "lost" \in Outcomes /\ request' = "lost"
       ELSE UNCHANGED request
    /\ UNCHANGED <<up, overCount, estopTriggered, retryTimer, requests, status, inbox,
                   load, halted, crashes, handled>>

\* Nothing is persisted: a restarted node has forgotten the count and the stop.
Crash ==
    /\ up /\ crashes < MaxCrashes
    /\ up' = FALSE /\ crashes' = crashes + 1
    /\ overCount' = 0 /\ estopTriggered' = FALSE /\ retryTimer' = FALSE
    /\ request' = "none" /\ requests' = 0 /\ handled' = <<>> /\ inbox' = "none"
    /\ UNCHANGED <<status, load, outside>>

Restart ==
    /\ ~up /\ up' = TRUE /\ inbox' = "none"
    /\ UNCHANGED <<node, status, load, outside, crashes, handled>>

Next ==
    \/ JointStates \/ RetryTimer \/ EstopDone \/ Heartbeat
    \/ Publish \/ ServiceChanges \/ Crash \/ Restart
    \/ \E r \in Readings : LoadChanges(r)
    \/ \E outcome \in Outcomes : ServiceAnswers(outcome)

Spec == Init /\ [][Next]_vars

\* The executor runs what is ready, systemd restarts the node, the arm keeps
\* publishing and a service that is up answers the request it holds.
LiveSpec ==
    /\ Spec
    /\ WF_vars(JointStates) /\ WF_vars(RetryTimer) /\ WF_vars(EstopDone)
    /\ WF_vars(Restart) /\ WF_vars(Publish)
    /\ WF_vars(\E outcome \in Outcomes : ServiceAnswers(outcome))

----------------------------------------------------------------------------
\* The stop is never triggered by anything but Consecutive messages in a row
\* over the threshold, messages without an effort field included.
NoSpuriousStop ==
    [][estopTriggered' /\ ~estopTriggered =>
         /\ Len(handled') = Consecutive
         /\ \A i \in 1..Consecutive : handled'[i] = "over"]_vars

\* A lasting overload is never missed: a process that has handled Consecutive
\* messages in a row over the threshold has triggered the stop.
NoMissedStop ==
    (/\ Len(handled) = Consecutive
     /\ \A i \in 1..Consecutive : handled[i] = "over") => estopTriggered

\* A triggered stop is never dropped: its request was sent, or the timer that
\* will try to send it is armed.
StopPursued == estopTriggered => (retryTimer <=> requests = 0)

\* One process sends at most one request, over the first call and any number
\* of timer retries, and never has a timer armed next to a request.
OneRequest == requests <= 1 /\ ~(retryTimer /\ request # "none")

\* A triggered stop is forgotten only by a crash.
StopLatched == [][estopTriggered /\ up' => estopTriggered']_vars

\* The arm is halted if it stays overloaded while the service stays up and
\* serves the requests that reach it, whatever crashed or was unavailable
\* before: counting, the trigger, the retry timer and the restart together
\* never lose the stop.
OverloadHaltsArm ==
    /\ <>[](load = "over" /\ serviceUp)
    /\ [](request # "lost" /\ (request = "answered" => halted))
    => <>halted

\* safety_watchdog_node.py:119: "Retries every second until the service
\* responds", so with a service that stays up a triggered stop is answered.
RetriesUntilAnswered ==
    (<>[]serviceUp) => (estopTriggered ~> (halted \/ ~up))
=============================================================================
