----------------------- MODULE HardwareAgentAllowance -----------------------
(***************************************************************************)
(* The program implements the spending allowance it promises.  The         *)
(* allowance forgets the draws of an epoch when the next one begins; the   *)
(* program resets a window lazily, at the first payment that finds it old, *)
(* so the count it stores stands for draws only while its window is the    *)
(* present one.                                                            *)
(***************************************************************************)
EXTENDS HardwareAgent

Remaining(o) ==
    IF o \in Registered THEN agent[o].budget - agent[o].spent ELSE Unregistered

DrawsNow(o) ==
    IF o \in Registered /\ Epoch(agent[o].start) = Epoch(slot)
    THEN agent[o].txs
    ELSE 0

Allowance == INSTANCE SpendingAllowance WITH
    MaxDraws  <- MaxTxs,
    MaxDraw   <- MaxPayment,
    Closed    <- Unregistered,
    epoch     <- Epoch(slot),
    remaining <- [o \in Owners |-> Remaining(o)],
    draws     <- [o \in Owners |-> DrawsNow(o)]

\* Every step of stream_compute_payment is a draw the allowance permits, and
\* no other instruction moves the allowance: the lazily reset window limits
\* an epoch exactly as an eagerly reset one would.
ImplementsAllowance == Allowance!Spec
=============================================================================
