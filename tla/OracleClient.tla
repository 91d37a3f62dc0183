---------------------------- MODULE OracleClient ----------------------------
(***************************************************************************)
(* SafetyOracle: check() asks the model up to three times under one        *)
(* deadline and decides by itself otherwise; describe_scene() asks once.   *)
(* The model is external: it answers, answers something that does not      *)
(* parse, fails, or says nothing.  Time is counted in ticks of the first   *)
(* backoff.  Which way a call decides is left to the bridge's model; here   *)
(* a call ends with a decision, the model's or its own, or raises.          *)
(***************************************************************************)
EXTENDS Integers

CONSTANTS Callers, Scene,   \* the two callers; Scene calls describe_scene()
          Timeout,          \* timeout_s, in ticks
          Attempts          \* stop_after_attempt

ASSUME OracleAssumption ==
    Scene \in Callers /\ Timeout \in Nat \ {0} /\ Attempts \in Nat \ {0}

VARIABLES
    hasKey,     \* an API key is configured
    call        \* call[w]: the call in progress, or the last one

oracle == <<hasKey, call>>

Quiet == [pc |-> "idle", attempt |-> 0, elapsed |-> 0, deadline |-> 0, wait |-> 0]

OracleInit ==
    hasKey \in BOOLEAN /\ call = [w \in Callers |-> Quiet]

Asking(w) == call[w].pc \in {"asking", "backoff"}

----------------------------------------------------------------------------
\* A decision: the answer of the model, or that of _local_fallback_core, whose
\* rules (torque, flags, the label of the image if labels.json can be read)
\* look at no picture; for a scene, an empty description.
Decides(w) == call' = [call EXCEPT ![w].pc = "decided"]

\* check() and describe_scene(), up to the first await.
Check(w) ==
    /\ call[w].pc = "idle" /\ UNCHANGED hasKey
    /\ IF hasKey
       THEN call' = [call EXCEPT ![w] = [Quiet EXCEPT !.pc = "asking", !.attempt = 1,
                                                      !.deadline = Timeout]]
       ELSE Decides(w)

\* _call_gemini returns an answer with every required field.
Answered(w) == call[w].pc = "asking" /\ Decides(w) /\ UNCHANGED hasKey

\* One of its fields has a wrong type: OracleDecision is built outside of the
\* try statement.  describe_scene() builds its result inside, and falls back.
AnsweredIllTyped(w) ==
    /\ call[w].pc = "asking" /\ w # Scene
    /\ call' = [call EXCEPT ![w].pc = "raised"]
    /\ UNCHANGED hasKey

\* It raises: wait_exponential(0.25, 0.25, 2.0), or the last attempt.
\* Variant: the deadline is one of each attempt.
Backoff(n) == <<1, 2, 4, 8>>[IF n < 4 THEN n ELSE 4]
RetryExtended(w) ==
    call' = [call EXCEPT ![w].pc = "backoff", ![w].wait = Backoff(call[w].attempt),
                         ![w].deadline = call[w].elapsed + Timeout]
Retry(w) ==
    call' = [call EXCEPT ![w].pc = "backoff", ![w].wait = Backoff(call[w].attempt)]

Tries(w) == IF w = Scene THEN 1 ELSE Attempts

CallFails(w) ==
    /\ call[w].pc = "asking" /\ UNCHANGED hasKey
    /\ IF call[w].attempt < Tries(w) THEN Retry(w) ELSE Decides(w)

AsksAgain(w) ==
    /\ call[w].pc = "backoff" /\ call[w].wait = 0
    /\ call' = [call EXCEPT ![w].pc = "asking", ![w].attempt = @ + 1]
    /\ UNCHANGED hasKey

\* move_on_after cancels whatever is awaited.
TimedOut(w) ==
    /\ Asking(w) /\ call[w].elapsed = call[w].deadline
    /\ Decides(w) /\ UNCHANGED hasKey

\* The event loop is in time: a deadline or a backoff that is over is served.
OracleTick ==
    /\ \E w \in Callers : Asking(w)
    /\ \A w \in Callers : Asking(w) =>
          /\ call[w].elapsed < call[w].deadline
          /\ call[w].pc = "backoff" => call[w].wait > 0
    /\ call' = [w \in Callers |->
          IF ~Asking(w) THEN call[w]
          ELSE [call[w] EXCEPT !.elapsed = @ + 1,
                  !.wait = IF call[w].pc = "backoff" THEN @ - 1 ELSE @]]
    /\ UNCHANGED hasKey

OracleNext ==
    \/ OracleTick
    \/ \E w \in Callers :
          Answered(w) \/ AnsweredIllTyped(w) \/ CallFails(w) \/ AsksAgain(w) \/ TimedOut(w)

----------------------------------------------------------------------------
\* "Hard wall-clock deadline for the Gemini API call (including retries)":
\* whatever the model does, a call lasts no longer, all its attempts and
\* backoffs included, and never makes an attempt too many.
DecidesInTime ==
    \A w \in Callers : call[w].elapsed <= Timeout /\ call[w].attempt <= Tries(w)

\* check(): "Always returns a decision - never raises".
NeverRaises == \A w \in Callers : call[w].pc # "raised"
=============================================================================
