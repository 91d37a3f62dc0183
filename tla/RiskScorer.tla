------------------------------ MODULE RiskScorer ------------------------------
(***************************************************************************)
(* calculate_risk_score: the Machine Health Score of a wallet's history.   *)
(* Times are hours.  A part of a dimension is a percentage, rounded down;  *)
(* a dimension is in hundredths of a percent and the overall score in      *)
(* ten-thousandths, so that the weighted sums are exact.  The factors'     *)
(* wording and the plotted curve, whose shape is fixed, are left out.      *)
(* A filtered history is the set of the places its entries have in the     *)
(* whole history.  The outermost clamp of each dimension and of the score  *)
(* is left out: ScoresArePercentages shows that it never cuts anything.    *)
(***************************************************************************)
EXTENDS Integers, Sequences, FiniteSets, SequencesExt

CONSTANT Day            \* hours of a day: 24

ASSUME DayAssumption == Day \in Nat \ {0}

Week == 7 * Day
Scale == 10000          \* of the overall score

Clamp(value) == IF value < 0 THEN 0 ELSE IF value > 100 THEN 100 ELSE value

Lamports(payments, places) ==
    SumFunctionOnSet([i \in DOMAIN payments |-> payments[i].lamports], places)
Since(history, hours, now) == {i \in DOMAIN history : now - history[i].at <= hours}

\* sorted(): entries of one time keep their order.
ByTime(history) ==
    LET earlier(i, j) ==
            history[i].at < history[j].at \/ (history[i].at = history[j].at /\ i < j)
        place(j) == 1 + Cardinality({i \in DOMAIN history : earlier(i, j)})
    IN  [n \in DOMAIN history |-> history[CHOOSE j \in DOMAIN history : place(j) = n]]

Hours(history, places, now) == {now - history[i].at : i \in places}

\* (1 - min(cv, spread) / spread) * 100, where cv is the sample standard
\* deviation of f's values divided by their mean.
Steadiness(f, spread) ==
    LET n == Cardinality(DOMAIN f)
        total == SumFunction(f)
        deviation == SumFunction([i \in DOMAIN f |-> (n * f[i] - total) ^ 2])
        within(s) == Scale * deviation <= (spread * (100 - s)) ^ 2 * (n - 1) * total ^ 2
    IN  Max({0} \cup {s \in 1..100 : within(s)})

----------------------------------------------------------------------------
(* The four dimensions.                                                    *)

RunwayScore(payments, balance, now) ==
    LET burn == Lamports(payments, Since(payments, Day, now))
    IN  IF burn = 0 THEN 100 ELSE Clamp((100 * balance) \div burn)

StabilityScore(payments, now) ==
    LET last == Since(payments, Day, now)
        hours == Hours(payments, last, now)
        spent(h) == Lamports(payments, {i \in last : now - payments[i].at = h})
    IN  IF Cardinality(hours) > 1 THEN Steadiness([h \in hours |-> spent(h)], 1) ELSE 70

TrendScore(payments, balance, now) ==
    LET week == Since(payments, Week, now)
        firstHalf == {i \in week : Cardinality({j \in week : j < i}) < Cardinality(week) \div 2}
        early == Lamports(payments, firstHalf)
        late == Lamports(payments, week \ firstHalf)
    IN  IF Cardinality(week) < 2 THEN 70
        ELSE IF late * 100 < early * 85 THEN 100
        ELSE IF late * 100 <= early * 115 THEN 70
        ELSE IF balance * Day < 2 * Lamports(payments, Since(payments, Day, now)) THEN 0 ELSE 40

FinancialHealth(payments, balance, now) ==
    IF payments = <<>> THEN 50 * 100
    ELSE 40 * RunwayScore(payments, balance, now) + 35 * StabilityScore(payments, now)
         + 25 * TrendScore(payments, balance, now)

RegularityScore(payments) ==
    LET sorted == ByTime(payments)
        gaps == [i \in 1..(Len(sorted) - 1) |-> sorted[i + 1].at - sorted[i].at]
    IN  IF Len(gaps) > 1 /\ SumFunction(gaps) > 0 THEN Steadiness(gaps, 2) ELSE 70

OperationalStability(payments, now) ==
    LET active == Hours(payments, Since(payments, Week, now), now)
        successful == Cardinality({i \in DOMAIN payments : payments[i].success})
    IN  IF Len(payments) < 2 THEN 50 * 100
        ELSE 45 * RegularityScore(payments)
             + 35 * Clamp((100 * Cardinality(active)) \div Week)
             + 20 * ((100 * successful) \div Len(payments))

\* _SEVERITY_WEIGHTS, in tenths.
Penalty(events, places) ==
    SumFunctionOnSet([i \in DOMAIN events |-> <<1, 3, 6, 10>>[events[i].severity + 1]], places)

RecencyScore(events, now) ==
    LET severe == {events[i].at : i \in {j \in DOMAIN events : events[j].severity >= 2}}
        quiet == now - Max(severe)
    IN  IF severe = {} THEN 100
        ELSE IF quiet < Day THEN 20 ELSE Clamp((100 * quiet) \div Week)

ComplianceRecord(events, payments, now) ==
    LET transactions == IF payments = <<>> THEN 1 ELSE Len(payments)
    IN  40 * Clamp(100 - (2000 * Len(events)) \div transactions)
        + 35 * (IF events = <<>> THEN 100 ELSE 100 - (10 * Penalty(events, DOMAIN events)) \div Len(events))
        + 25 * RecencyScore(events, now)

Streak(payments) ==
    LET sorted == ByTime(payments)
        same(i, j) == \A k \in i..j : sorted[k].provider = sorted[i].provider
        runs == {run \in (DOMAIN sorted) \X (DOMAIN sorted) :
                    run[1] <= run[2] /\ same(run[1], run[2])}
    IN  Max({run[2] - run[1] + 1 : run \in runs})

ProviderDiversity(payments) ==
    LET total == Len(payments)
        providers == {payments[i].provider : i \in DOMAIN payments}
        count(p) == Cardinality({i \in DOMAIN payments : payments[i].provider = p})
        unique == Cardinality(providers)
        squares == SumFunction([p \in providers |-> count(p) * count(p)])
    IN  IF payments = <<>> THEN 50 * 100
        ELSE 40 * (IF unique >= 4 THEN 100 ELSE (90 + 70 * (unique - 1)) \div 3)
             + 40 * (100 - (100 * squares) \div (total * total))
             + 20 * (100 - (100 * Streak(payments)) \div total)

----------------------------------------------------------------------------
(* The report.                                                             *)

Overall(payments, events, balance, now) ==
    IF payments = <<>> /\ events = <<>> THEN 50 * Scale
    ELSE 30 * FinancialHealth(payments, balance, now) + 25 * OperationalStability(payments, now)
         + 25 * ComplianceRecord(events, payments, now) + 20 * ProviderDiversity(payments)

\* The overall score as it is published, rounded to a tenth.
Shown(overall) == ((overall + Scale \div 20) \div (Scale \div 10)) * (Scale \div 10)

\* The label compares the last three days with the three before.
\* Variant: the two halves are swapped.
Between(history, from, to, now) ==
    {i \in DOMAIN history : from * Day >= now - history[i].at /\ now - history[i].at > to * Day}
TrendOf(recent, older, recentPenalty, olderPenalty) ==
    LET better == (IF recentPenalty < olderPenalty THEN 1 ELSE 0)
                  + (IF 10 * recent > 12 * older THEN 1 ELSE 0)
        worse == (IF recentPenalty > olderPenalty + 1 THEN 1 ELSE 0)
                 + (IF 10 * recent < 7 * older THEN 1 ELSE 0)
    IN  IF better = worse THEN "stable"
        ELSE IF better > worse THEN "improving" ELSE "declining"
TrendSwapped(payments, events, now) ==
    TrendOf(Cardinality(Between(payments, 6, 3, now)), Cardinality(Since(payments, 3 * Day, now)),
            Penalty(events, Since(events, 3 * Day, now)), Penalty(events, Between(events, 6, 3, now)))
Trend(payments, events, now) ==
    TrendOf(Cardinality(Since(payments, 3 * Day, now)), Cardinality(Between(payments, 6, 3, now)),
            Penalty(events, Since(events, 3 * Day, now)), Penalty(events, Between(events, 6, 3, now)))
=============================================================================
