------------------------- MODULE SpendingAllowance -------------------------
(***************************************************************************)
(* What an owner is promised about an agent that pays on its own: money    *)
(* leaves the allowance only by draws, a draw is positive and at most      *)
(* MaxDraw, and no more than MaxDraws of them are made before the next     *)
(* epoch.  There is no clock and no window to maintain here: when an epoch *)
(* begins, every count of draws is zero.                                   *)
(***************************************************************************)
EXTENDS Integers

CONSTANTS Owners, Budgets, MaxDraws, MaxDraw, Closed

VARIABLES epoch,       \* the current epoch
          remaining,   \* remaining[o]: what is left of o's allowance, or Closed
          draws        \* draws[o]: draws made in the current epoch

vars == <<epoch, remaining, draws>>

Init ==
    /\ epoch = 0
    /\ remaining = [o \in Owners |-> Closed]
    /\ draws = [o \in Owners |-> 0]

Open(o) ==
    /\ remaining[o] = Closed
    /\ \E budget \in Budgets : remaining' = [remaining EXCEPT ![o] = budget]
    /\ UNCHANGED <<epoch, draws>>

Draw(o) ==
    /\ remaining[o] # Closed
    /\ draws[o] < MaxDraws
    /\ \E n \in 1..MaxDraw :
          /\ n <= remaining[o]
          /\ remaining' = [remaining EXCEPT ![o] = @ - n]
    /\ draws' = [draws EXCEPT ![o] = @ + 1]
    /\ UNCHANGED epoch

NextEpoch ==
    /\ epoch' = epoch + 1
    /\ draws' = [o \in Owners |-> 0]
    /\ UNCHANGED remaining

Next == (\E o \in Owners : Open(o) \/ Draw(o)) \/ NextEpoch

Spec == Init /\ [][Next]_vars
=============================================================================
