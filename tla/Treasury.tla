------------------------------ MODULE Treasury ------------------------------
(***************************************************************************)
(* TreasuryAgent: what the model's answer may order, and the analysis made *)
(* without it.  Times are hours, amounts lamports; the prompt, the reasons *)
(* and the published allocation of the model's answer are left out.        *)
(***************************************************************************)
EXTENDS RiskScorer

Action(name, priority, auto) == [name |-> name, priority |-> priority, auto |-> auto]

\* _is_auto_executable_safe; an action is named by the keyword it holds.
Allowlist == {"throttle_inference", "increase_reserve"}
ParseLlmResponse(answer) ==
    [status |-> answer.status, fallback |-> FALSE,
     actions |-> {[a EXCEPT !.auto = a.auto /\ a.name \in Allowlist] : a \in answer.actions}]

\* Variant: the whole history is spent in a day.
BurnRateOfAll(payments, now) == Lamports(payments, DOMAIN payments) \div Day
BurnRate(payments, now) == Lamports(payments, Since(payments, Day, now)) \div Day

RunwayStatus(balance, burn) ==
    CASE burn = 0 -> "healthy"                               \* 9999.0
      [] burn > 0 /\ 2 * balance < Day * burn -> "critical"  \* under 12 h
      [] burn > 0 /\ Day * burn <= 2 * balance /\ balance < 2 * Day * burn -> "warning"
      [] OTHER -> "healthy"

Concentrated(payments) ==
    \E p \in {payments[i].provider : i \in DOMAIN payments} :
        10 * Cardinality({i \in DOMAIN payments : payments[i].provider = p}) > 7 * Len(payments)

\* risky: there is a report, and its score is below 50.
FallbackAnalysis(payments, balance, risky, now) ==
    LET status == RunwayStatus(balance, BurnRate(payments, now))
    IN  [status |-> status, fallback |-> TRUE,
         actions |->
            (IF status = "critical" THEN {Action("throttle_inference", "critical", TRUE)} ELSE {})
            \cup (IF risky
                  THEN {Action("increase_reserve", "high", TRUE)} ELSE {})
            \cup (IF Concentrated(payments)
                  THEN {Action("diversify_providers", "medium", FALSE)} ELSE {})]
=============================================================================
