------------------------------- MODULE Launch -------------------------------
(***************************************************************************)
(* run_bridge.py: the process reads its configuration, builds the source   *)
(* and the privacy provider it names, runs the bridge on them, and closes  *)
(* what it opened.  Frames of the recorded source wait, with the index the  *)
(* replay had when they were queued, for the payment and the scene worker,  *)
(* which ask the oracle about the picture at that index.                    *)
(***************************************************************************)
EXTENDS RosSource, RecordedSource, OracleClient

CONSTANTS Cameras,      \* the two cameras the dashboard shows
          Kinds,        \* AUXIN_SOURCE
          TaskMax,      \* bound: frames that wait for one of the workers
          Providers     \* AUXIN_PRIVACY

ASSUME LaunchAssumption == Callers = Workers /\ TaskMax \in Nat

VARIABLES
    main,       \* how far main() is: config, source, provider, running, exited, failed
    env,        \* the environment: source, provider, episode, videos
    tasks,      \* tasks[w]: _payment_queue and _scene_queue
    hand        \* hand[w]: the task the worker has, and its picture

work == <<tasks, hand>>
vars == <<contract, ros, replay, video, oracle, main, env, work>>

Nothing == [frame |-> None, index |-> None, picture |-> None]

Environment ==
    [source : Kinds \cup {"unknown"}, provider : Providers \cup {"unknown"},
     episode : BOOLEAN, videos : SUBSET Cameras]

Init ==
    /\ ContractInit /\ RosInit /\ RecordedInit /\ OracleInit
    /\ main = "config" /\ env \in Environment
    /\ tasks = [w \in Workers |-> <<>>] /\ hand = [w \in Workers |-> Nothing]

Idle == UNCHANGED <<contract, ros, replay, video, oracle, work>>

----------------------------------------------------------------------------
(* Start.                                                                  *)

Reaches(next) == main' = next /\ Idle /\ UNCHANGED env

\* Configuration, wallets, the oracle: read or created.
Configure == main = "config" /\ Reaches("source")

\* _build_source and the gate on the videos of a recorded episode.
AllVideos == env.videos = Cameras
BuildSource ==
    /\ main = "source"
    /\ IF env.source \in Kinds /\ (env.source = "recorded" => env.episode /\ AllVideos)
       THEN Reaches("provider") ELSE Reaches("failed")

\* _build_privacy_provider.  For umbra it runs the event loop it runs in, which
\* raises.
BuildPrivacyProvider ==
    /\ main = "provider"
    /\ IF env.provider \in {"unknown", "umbra"} THEN Reaches("failed") ELSE Reaches("running")

----------------------------------------------------------------------------
(* Run.                                                                    *)

Running(kind) == main = "running" /\ env.source = kind /\ UNCHANGED <<main, env>>

RunsRos == Running("ros2") /\ RosNext /\ UNCHANGED <<replay, video, oracle, work>>
RunsRecorded == Running("recorded") /\ RecordedNext /\ UNCHANGED <<ros, oracle, work>>

WorkersLive == bridge \in {"taking", "processing", "draining"}

\* When the drain is over or cancelled, so are the workers: what they had is
\* dropped, and only a thread they waited for goes on.
Handles ==
    /\ main = "running" /\ (Signal \/ Drained \/ (env.source # "recorded" /\ Processed))
    /\ IF WorkersLive' THEN UNCHANGED <<call, work>>
       ELSE /\ call' = [w \in Callers |-> Quiet]
            /\ tasks' = [w \in Workers |-> <<>>] /\ hand' = [w \in Workers |-> Nothing]
    /\ UNCHANGED <<ros, replay, video, hasKey, main, env>>

\* process(): some frames are put for a worker, with the index of the source;
\* markers never for the payment worker.
Queues(w) == Len(tasks[w]) < TaskMax /\ (w = Scene \/ yielded # None)
Routes ==
    /\ Running("recorded") /\ Processed
    /\ \E chosen \in SUBSET {w \in Workers : Queues(w)} :
          tasks' = [w \in Workers |->
             IF w \in chosen THEN Append(tasks[w], [frame |-> yielded, index |-> current])
                             ELSE tasks[w]]
    /\ UNCHANGED <<ros, replay, video, oracle, hand>>

\* A worker takes a task: it waits for the executor's thread, then for the
\* oracle.  Variant: it asks for the picture of the row the replay is at.
SourceFrameIdxNow(task) == current
SourceFrameIdx(task) == task.index

Fetches(w) ==
    /\ Running("recorded") /\ WorkersLive /\ hand[w] = Nothing /\ tasks[w] # <<>>
    /\ LET task == Head(tasks[w])
       IN  /\ GetFrameAt(w, SourceFrameIdx(task))
           /\ hand' = [hand EXCEPT ![w] = [frame |-> task.frame, index |-> task.index,
                                           picture |-> None]]
    /\ tasks' = [tasks EXCEPT ![w] = Tail(@)]
    /\ UNCHANGED <<contract, ros, oracle>>

Consults(w) ==
    /\ Running("recorded") /\ WorkersLive /\ thread[w].pc = "done" /\ Check(w)
    /\ hand' = [hand EXCEPT ![w].picture = thread[w].frame]
    /\ thread' = [thread EXCEPT ![w] = NoCall]
    /\ UNCHANGED <<contract, ros, replay, cap, position, lock, tasks>>

Consulting ==
    /\ Running("recorded") /\ WorkersLive /\ OracleNext
    /\ UNCHANGED <<contract, ros, replay, video, work>>

\* The rest of the worker's turn, or its handler of exceptions.
Finishes(w) ==
    /\ Running("recorded") /\ WorkersLive /\ call[w].pc \in {"decided", "raised"}
    /\ call' = [call EXCEPT ![w] = Quiet] /\ hand' = [hand EXCEPT ![w] = Nothing]
    /\ UNCHANGED <<contract, ros, replay, video, hasKey, tasks>>

\* main() returns once the bridge's task has ended.
Exit == main = "running" /\ bridge = "stopped" /\ Reaches("exited")

Next ==
    \/ Configure \/ BuildSource \/ BuildPrivacyProvider \/ RunsRos \/ RunsRecorded
    \/ Handles \/ Routes \/ Consulting \/ Exit
    \/ \E w \in Workers : Fetches(w) \/ Consults(w) \/ Finishes(w)

Spec == Init /\ [][Next]_vars

----------------------------------------------------------------------------
\* The oracle judges a frame by a picture of its own row, however far the
\* replay has gone on while the frame waited, and whatever the other worker's
\* thread does with the capture meanwhile.  A marker has no row: its picture is
\* of an end of the recording.  With no picture the fixture stands in.
PictureOfItsFrame ==
    \A w \in Workers : hand[w].picture # None =>
        \E i \in IF hand[w].frame = None THEN {0, Rows - 1} ELSE {hand[w].frame} :
            hand[w].picture \in MapIndex(i)

\* run_bridge.py's list of providers: a complete configuration starts.
EveryProviderStarts ==
    main = "failed" => \/ env.source = "unknown" \/ env.provider = "unknown"
                       \/ env.source = "recorded" /\ ~env.episode
                       \/ env.source = "recorded" /\ env.videos # Cameras
=============================================================================
