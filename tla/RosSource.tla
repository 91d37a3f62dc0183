------------------------------ MODULE RosSource ------------------------------
(***************************************************************************)
(* AUXIN_SOURCE=ros2: a node samples /joint_states with a timer, in a      *)
(* thread of its own, and hands its frames to the event loop, where a      *)
(* bounded queue keeps the newest for the bridge.                          *)
(***************************************************************************)
EXTENDS TelemetrySource

CONSTANTS Period,       \* ticks between two frames
          Stale,        \* stale_timeout_s, in ticks
          QueueMax,     \* queue_maxsize
          MaxFrames     \* bound: frames of the node

VARIABLES
    spin,       \* the thread: unstarted, running, failed, stopped
    have,       \* _latest_msg is not None
    age,        \* ticks since _last_msg_time, up to Stale + Period + 1
    due,        \* ticks until the timer fires
    emitted,    \* frames built
    staleFlag,  \* the last frame built is flagged stale_telemetry
    posted,     \* callbacks of call_soon_threadsafe that have not run
    queue,      \* _queue; 0 is the None of close()
    got         \* the last frame the bridge took

node == <<spin, have, age, due, emitted, staleFlag>>
ros == <<node, posted, queue, got>>

ASSUME RosAssumption ==
    Period \in Nat \ {0} /\ Stale \in Nat /\ QueueMax \in Nat \ {0} /\ MaxFrames \in Nat

RosInit ==
    /\ spin = "unstarted" /\ have = FALSE /\ age = 0 /\ due = Period
    /\ emitted = 0 /\ staleFlag = FALSE /\ posted = <<>> /\ queue = <<>> /\ got = 0

----------------------------------------------------------------------------
(* TelemetryBridgeNode, in the spinning thread.                            *)

RosStarts ==
    /\ RunStarts /\ spin' = "running"
    /\ UNCHANGED <<have, age, due, emitted, staleFlag, posted, queue, got>>

\* Best effort: a message that is lost does not arrive.
JointStates ==
    /\ spin = "running" /\ have' = TRUE /\ age' = 0
    /\ UNCHANGED <<spin, due, emitted, staleFlag, posted, queue, got, contract>>

\* Variant: a message is fresh for ever.
IsStaleOnlyAtFirst == ~have
IsStale == ~have \/ age > Stale

TimerCb ==
    /\ spin = "running" /\ due = 0 /\ emitted < MaxFrames
    /\ due' = Period /\ emitted' = emitted + 1 /\ staleFlag' = IsStale
    /\ posted' = Append(posted, emitted + 1)
    /\ UNCHANGED <<spin, have, age, queue, got, contract>>

RosTick ==
    /\ spin = "running" /\ due > 0 /\ due' = due - 1
    /\ age' = IF age > Stale + Period THEN age ELSE age + 1
    /\ UNCHANGED <<spin, have, emitted, staleFlag, posted, queue, got, contract>>

\* An exception ends rclpy.spin; the node is destroyed.
SpinFails ==
    /\ spin = "running" /\ spin' = "failed"
    /\ UNCHANGED <<have, age, due, emitted, staleFlag, posted, queue, got, contract>>

----------------------------------------------------------------------------
(* ROS2Source, on the event loop.                                          *)

\* _queue_put_nowait.  Variant: a full queue drops the new frame.
PutIfRoom(frame) == IF Len(queue) = QueueMax THEN queue ELSE Append(queue, frame)
Put(frame) == Append(IF Len(queue) = QueueMax THEN Tail(queue) ELSE queue, frame)

QueuePutNowait ==
    /\ posted # <<>> /\ posted' = Tail(posted) /\ queue' = Put(Head(posted))
    /\ UNCHANGED <<node, got, contract>>

RosStream ==
    /\ Resumed /\ UNCHANGED <<node, posted>>
    /\ \/ closed /\ Ends /\ UNCHANGED <<queue, got>>
       \/ /\ ~closed /\ queue # <<>> /\ queue' = Tail(queue)
          /\ IF Head(queue) = 0 THEN Ends /\ UNCHANGED got
                                ELSE Yields /\ got' = Head(queue)

\* Shutting rclpy down makes the thread's spin return; it is joined.
RosClose ==
    /\ Closes
    /\ queue' = IF Len(queue) < QueueMax THEN Append(queue, 0) ELSE queue
    /\ spin' = "stopped"
    /\ UNCHANGED <<have, age, due, emitted, staleFlag, posted, got>>

RosNext ==
    \/ RosStarts \/ JointStates \/ TimerCb \/ RosTick \/ SpinFails \/ QueuePutNowait
    \/ RosStream \/ RosClose

----------------------------------------------------------------------------
\* An arm that has been silent for longer than the timeout and one period of
\* the timer is reported: the newest frame is flagged stale_telemetry.
SilenceReported ==
    (spin = "running" /\ emitted < MaxFrames /\ age > Stale + Period) => staleFlag

\* Once its callbacks have run, the newest frame of the node is the last in the
\* queue or was the last the bridge took, and the bridge has taken the frames
\* in their order, however far behind it is.
NewestKept ==
    closed \/ LET line == <<got>> \o queue \o posted
              IN  /\ line[Len(line)] = emitted
                  /\ \A i \in 1..(Len(line) - 1) : line[i] < line[i + 1]
=============================================================================
