--------------------------- MODULE RecordedSource ---------------------------
(***************************************************************************)
(* AUXIN_SOURCE=recorded: an episode replayed with a marker frame before   *)
(* and after each round, while the threads of the payment and the scene    *)
(* worker read frames of its video through one capture object.             *)
(***************************************************************************)
EXTENDS TelemetrySource

CONSTANTS Workers,      \* payment and scene worker
          NoWorker,
          Rows,         \* rows of robot.jsonl
          MapLen,       \* entries of the camera's frames.jsonl
          MaxLoops      \* AUXIN_LOOP_MAX; 0 replays for ever

ASSUME RecordedAssumption ==
    /\ NoWorker \notin Workers /\ Rows \in Nat \ {0} /\ MapLen \in Nat \ {0}
    /\ MaxLoops \in Nat

VARIABLES
    point,      \* where stream() is: start, row, end, looped
    row,        \* the row it yields next
    current,    \* _current_idx
    yielded,    \* the row of the frame yielded last, None for a marker
    loops,      \* _loop_count
    cap,        \* _cap is open
    position,   \* the capture's CAP_PROP_POS_FRAMES, while it is used
    lock,       \* holder of _cap_lock
    thread      \* thread[w]: get_frame_at in the executor

replay == <<point, row, current, yielded, loops>>
video == <<cap, position, lock, thread>>

None == -1
NoCall == [pc |-> "idle", want |-> 0, frame |-> None]

RecordedInit ==
    /\ point = "start" /\ row = 0 /\ current = 0 /\ yielded = None /\ loops = 0
    /\ cap = FALSE /\ position = 0 /\ lock = NoWorker
    /\ thread = [w \in Workers |-> NoCall]

----------------------------------------------------------------------------
(* stream().                                                               *)

RecordedStarts == RunStarts /\ UNCHANGED <<replay, video>>

YieldStart ==
    /\ point = "start" /\ UNCHANGED <<current, loops>>
    /\ IF closed THEN Ends /\ UNCHANGED <<point, row, yielded>>
                 ELSE Yields /\ point' = "row" /\ row' = 0 /\ yielded' = None

YieldRow ==
    /\ point = "row" /\ UNCHANGED loops
    /\ IF closed THEN Ends /\ UNCHANGED <<point, row, current, yielded>>
       ELSE /\ Yields /\ current' = row /\ yielded' = row
            /\ IF row < Rows - 1 THEN row' = row + 1 /\ UNCHANGED point
                                 ELSE point' = "end" /\ UNCHANGED row

YieldEnd ==
    /\ point = "end" /\ Yields
    /\ current' = Rows - 1 /\ yielded' = None /\ point' = "looped" /\ UNCHANGED <<row, loops>>

Looped ==
    /\ point = "looped" /\ Resumed
    /\ loops' = IF MaxLoops = 0 THEN 0 ELSE loops + 1     \* unbounded: not counted
    /\ UNCHANGED <<row, current, yielded>>
    /\ IF MaxLoops > 0 /\ loops + 1 >= MaxLoops
       THEN Ends /\ UNCHANGED point
       ELSE point' = "start" /\ UNCHANGED contract

Replay == (YieldStart \/ YieldRow \/ YieldEnd \/ Looped) /\ UNCHANGED video

----------------------------------------------------------------------------
(* get_frame_at(), in a thread of the executor.                            *)

\* The entry of the frame map at the same share of the recording.  A share of
\* zero or one is exact; any other is rounded before it is multiplied, so int()
\* may cut a product that should be whole to the number below.
Share(i) == IF Rows = 1 THEN 0 ELSE (i * MapLen) \div (Rows - 1)
MayBeCut(i) == 0 < i /\ i < Rows - 1 /\ Share(i) * (Rows - 1) = i * MapLen
Shares(i) == IF MayBeCut(i) THEN {Share(i) - 1, Share(i)} ELSE {Share(i)}

\* Variant: the last row is not cut off.
MapIndexUncut(i) == Shares(i)
MapIndex(i) == {IF share < MapLen THEN share ELSE MapLen - 1 : share \in Shares(i)}

GetFrameAt(w, index) ==
    /\ thread[w].pc = "idle"
    /\ thread' = [thread EXCEPT ![w] = [pc |-> "called", want |-> index, frame |-> None]]
    /\ UNCHANGED <<replay, cap, position, lock>>

\* The capture is opened, which may fail, and moved to the frame.
EnsureCap(w) ==
    /\ thread[w].pc = "called" /\ lock = NoWorker
    /\ \/ /\ cap' = TRUE /\ position' \in MapIndex(thread[w].want) /\ lock' = w
          /\ thread' = [thread EXCEPT ![w].pc = "inside"]
       \/ /\ ~cap /\ thread' = [thread EXCEPT ![w].pc = "done"]
          /\ UNCHANGED <<cap, position, lock>>
    /\ UNCHANGED <<replay, contract>>

\* The frame is read, or cannot be.
ReadFrame(w) ==
    /\ thread[w].pc = "inside"
    /\ \E picture \in {position, None} :
          thread' = [thread EXCEPT ![w].pc = "done", ![w].frame = picture]
    /\ position' = 0 /\ lock' = NoWorker     \* left anywhere: it is moved before it is read
    /\ UNCHANGED <<replay, cap, contract>>

\* close() waits for the lock, and blocks the event loop with it.
RecordedClose ==
    /\ lock = NoWorker /\ Closes /\ cap' = FALSE
    /\ UNCHANGED <<replay, position, lock, thread>>

RecordedNext ==
    \/ RecordedStarts \/ Replay \/ RecordedClose
    \/ \E w \in Workers : EnsureCap(w) \/ ReadFrame(w)

----------------------------------------------------------------------------
\* Whatever the two threads do at the same time, a frame that get_frame_at
\* returned is an entry of the map, the one that belongs to the row asked for
\* or, for a row between the ends, the one before it: the first row has the
\* first entry, the last row the last.
FrameAsAsked ==
    \A w \in Workers : LET entry == thread[w].frame
                          share == thread[w].want * MapLen
                      IN  entry # None =>
        /\ entry \in 0..(MapLen - 1) /\ entry * (Rows - 1) <= share
        /\ \/ share < (entry + 1) * (Rows - 1)
           \/ share = (entry + 1) * (Rows - 1) /\ 0 < thread[w].want /\ thread[w].want < Rows - 1
           \/ entry = MapLen - 1 \/ Rows = 1

\* close(): "Release the video capture".  No thread opens it again.
CaptureStaysReleased == closed => ~cap
=============================================================================
