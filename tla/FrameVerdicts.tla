--------------------------- MODULE FrameVerdicts ---------------------------
(***************************************************************************)
(* What the bridge decides about frames, without queues, workers, an       *)
(* oracle or a network: a frame is paid for or reported, once; a report is *)
(* logged or fails, once; closing cancels at most the one report that is   *)
(* being submitted, and after it nothing is decided any more.              *)
(***************************************************************************)
CONSTANT Frames

VARIABLES verdict,   \* verdict[f]: what has become of frame f
          open       \* the bridge is running

vars == <<verdict, open>>

Init == verdict = [f \in Frames |-> "none"] /\ open = TRUE

Turn(f, from, to) ==
    /\ verdict[f] = from
    /\ verdict' = [verdict EXCEPT ![f] = to]

Pay(f) == open /\ Turn(f, "none", "paid") /\ UNCHANGED open
Report(f) == open /\ Turn(f, "none", "reported") /\ UNCHANGED open
Log(f) == open /\ Turn(f, "reported", "logged") /\ UNCHANGED open
Fail(f) == open /\ Turn(f, "reported", "failed") /\ UNCHANGED open

Close ==
    /\ open /\ open' = FALSE
    /\ UNCHANGED verdict \/ \E f \in Frames : Turn(f, "reported", "cancelled")

Next == Close \/ \E f \in Frames : Pay(f) \/ Report(f) \/ Log(f) \/ Fail(f)

Spec == Init /\ [][Next]_vars
=============================================================================
