--------------------------- MODULE TelemetrySource ---------------------------
(***************************************************************************)
(* The contract between the bridge and a telemetry source: the bridge      *)
(* takes frames from stream() one at a time, and closes the source after   *)
(* its drain.  A signal cancels the bridge's task at its next await, which *)
(* ends a stream that is waiting and leaves one that has yielded suspended.*)
(***************************************************************************)
EXTENDS Integers, Sequences, FiniteSets

CONSTANT MaxSignals     \* bound: signals the process receives

VARIABLES
    bridge,     \* off, taking, processing, draining, closing, stopped
    stream,     \* the async generator: unstarted, running, ended
    closed,     \* _closed
    signals     \* signals received so far

contract == <<bridge, stream, closed, signals>>

ContractTypes ==
    /\ bridge \in {"off", "taking", "processing", "draining", "closing", "stopped"}
    /\ stream \in {"unstarted", "running", "ended"}
    /\ closed \in BOOLEAN /\ signals \in 0..MaxSignals

ContractInit ==
    bridge = "off" /\ stream = "unstarted" /\ closed = FALSE /\ signals = 0

RunStarts ==
    /\ bridge = "off" /\ bridge' = "taking" /\ stream' = "running"
    /\ UNCHANGED <<closed, signals>>

\* The generator runs to its next yield, or to its end.
Resumed == bridge = "taking" /\ stream = "running"
Yields == Resumed /\ bridge' = "processing" /\ UNCHANGED <<stream, closed, signals>>
Ends == Resumed /\ bridge' = "draining" /\ stream' = "ended" /\ UNCHANGED <<closed, signals>>

Processed ==
    /\ bridge = "processing" /\ bridge' = "taking"
    /\ UNCHANGED <<stream, closed, signals>>

\* A second signal cancels the drain itself, and with it all that follows it.
Signal ==
    /\ bridge \in {"taking", "processing", "draining"} /\ signals < MaxSignals
    /\ signals' = signals + 1
    /\ bridge' = IF bridge = "draining" THEN "stopped" ELSE "draining"
    /\ stream' = IF bridge = "taking" THEN "ended" ELSE stream
    /\ UNCHANGED closed

\* The queue is drained, or the drain has timed out; the workers are cancelled.
Drained ==
    /\ bridge = "draining" /\ bridge' = "closing"
    /\ UNCHANGED <<stream, closed, signals>>

Closes ==
    /\ bridge = "closing" /\ bridge' = "stopped" /\ closed' = TRUE
    /\ UNCHANGED <<stream, signals>>
=============================================================================
