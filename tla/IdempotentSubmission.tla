------------------------ MODULE IdempotentSubmission ------------------------
(***************************************************************************)
(* What both submission paths promise about idempotency keys: however      *)
(* often a key is submitted, one transaction takes effect for it, and the  *)
(* caller is told of an effect only after there is one.  There are no      *)
(* attempts, answers or slots here.                                        *)
(***************************************************************************)
EXTENDS Naturals

CONSTANT Keys

VARIABLES effects,       \* effects[k]: the transactions that took effect for k
          acknowledged   \* keys whose effect the caller was told of

vars == <<effects, acknowledged>>

Init == effects = [k \in Keys |-> {}] /\ acknowledged = {}

TakeEffect(k) ==
    /\ effects[k] = {}
    /\ \E t \in Nat : effects' = [effects EXCEPT ![k] = {t}]
    /\ UNCHANGED acknowledged

Acknowledge(k) ==
    /\ effects[k] # {}
    /\ acknowledged' = acknowledged \cup {k}
    /\ UNCHANGED effects

Next == \E k \in Keys : TakeEffect(k) \/ Acknowledge(k)

Spec == Init /\ [][Next]_vars
=============================================================================
