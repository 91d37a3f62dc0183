---------------------------- MODULE FinanceProofs ----------------------------
(***************************************************************************)
(* What holds of the financial workers for every interval, log size and    *)
(* number of payments, and whatever the model and the chain answer.        *)
(***************************************************************************)
EXTENDS Finance, FiniteSetTheorems, TLAPS

----------------------------------------------------------------------------
(* The multipliers.                                                        *)

\* Between two analyses the multipliers agree with the last one.
Recovered ==
    /\ worker.pc \in {"waiting", "asking", "applying"}
    /\ analysis = "healthy" /\ worker.pc # "applying" => ~throttled /\ ~reduced

LEMMA InitRecovered == ASSUME Init PROVE Recovered
<1>1. worker.pc = "waiting" /\ throttled = FALSE /\ reduced = FALSE
  BY DEF Init, Waiting
<1> QED
  BY <1>1 DEF Recovered

LEMMA StepRecovered == ASSUME Recovered, [Next]_vars PROVE Recovered'
<1>1. CASE UNCHANGED <<worker, analysis, throttled, reduced>>
  BY <1>1 DEF Recovered
<1>2. CASE Tick \/ Sampled \/ PaymentLogged \/ PaymentDropped \/ EventLogged \/ ScoringFallback
  BY <1>1, <1>2 DEF Tick, Sampled, PaymentLogged, PaymentDropped, EventLogged, ScoringFallback,
                    advice
<1>3. CASE RiskScoring \/ InvoiceDue \/ InvoiceAnnounced \/ UNCHANGED vars
  BY <1>1, <1>3 DEF RiskScoring, InvoiceDue, InvoiceAnnounced, vars, advice
<1>4. CASE TreasuryWakes
  <2>1. worker = Waiting /\ worker'.pc = "asking" /\ UNCHANGED <<analysis, throttled, reduced>>
    BY <1>4 DEF TreasuryWakes
  <2>2. worker.pc = "waiting"
    BY <2>1 DEF Waiting
  <2> QED
    BY <2>1, <2>2 DEF Recovered
<1>5. CASE TreasuryAnswered \/ TreasuryFails
  <2>1. worker' = [pc |-> "applying"]
    BY <1>5 DEF TreasuryAnswered, TreasuryFails, Concludes
  <2> QED
    BY <2>1 DEF Recovered
<1>6. CASE TreasuryRecovers
  <2>1. /\ worker' = Waiting /\ analysis' = analysis
        /\ throttled' = (throttled /\ analysis # "healthy")
        /\ reduced' = (reduced /\ analysis # "healthy")
    BY <1>6 DEF TreasuryRecovers, Reset
  <2>2. worker'.pc = "waiting"
    BY <2>1 DEF Waiting
  <2>3. analysis' = "healthy" => ~throttled' /\ ~reduced'
    BY <2>1, Zenon
  <2> QED
    BY <2>2, <2>3 DEF Recovered
<1> QED
  BY <1>1, <1>2, <1>3, <1>4, <1>5, <1>6 DEF Next

\* Whatever the model answered and whatever its failures made the agent order:
\* once a healthy analysis is carried out nothing is throttled.
THEOREM HealthRestoresRate == Spec => []HealthyMeansFullRate
<1>1. ASSUME Recovered PROVE HealthyMeansFullRate
  BY <1>1 DEF Recovered, HealthyMeansFullRate
<1> QED
  BY <1>1, InitRecovered, StepRecovered, PTL DEF Spec

----------------------------------------------------------------------------
(* The invoices.                                                           *)

\* What may be recorded for a payment.
Recorded == {Amount, (7 * Amount) \div 10}
Logged == [id : Nat, at : Nat, provider : Providers, lamports : Recorded, success : {TRUE}]
Bill == [from : Int, to : Nat, items : SUBSET Nat]

FinanceTypes ==
    /\ settings \in [interval : Nat \ {0}, ready : Nat, events : Nat]
    /\ clock \in Nat /\ flight \in Seq(Nat)
    /\ paymentLog \in Seq(Logged)
    /\ confirmed \in SUBSET [id : Nat, at : Nat, logged : Nat]
    /\ invoices \in Seq(Bill)
    /\ invoicer \in [pc : {"asleep", "announcing"}, wake : Nat]

\* A payment's number tells it from the others.
Numbered ==
    /\ IsFiniteSet(confirmed)
    /\ \A p \in confirmed : p.id \in 1..Cardinality(confirmed)
    /\ \A p, q \in confirmed : p.id = q.id => p = q

Traced ==
    \A i \in 1..Len(paymentLog) : \E p \in confirmed :
        p.id = paymentLog[i].id /\ p.at = paymentLog[i].at

\* An invoice has payments of its period only, and the next period begins after it.
Periodic ==
    /\ \A i \in 1..Len(invoices) :
          /\ invoices[i].from = invoices[i].to - Interval
          /\ invoicer.pc = "asleep" => invoices[i].to + Interval < invoicer.wake
          /\ invoicer.pc = "announcing" => invoices[i].to <= invoicer.wake
          /\ \A x \in invoices[i].items : \E p \in confirmed :
                p.id = x /\ invoices[i].from <= p.at /\ p.at <= invoices[i].to
    /\ \A i, j \in 1..Len(invoices) : i < j => invoices[i].to + Interval < invoices[j].to

FInv == FinanceTypes /\ Numbered /\ Traced /\ Periodic

LEMMA AppendFacts ==
    ASSUME NEW S, NEW s \in Seq(S), NEW e \in S
    PROVE  /\ Append(s, e) \in Seq(S) /\ Len(Append(s, e)) = Len(s) + 1 /\ Len(s) \in Nat
           /\ Append(s, e)[Len(s) + 1] = e
           /\ \A i \in 1..Len(s) : Append(s, e)[i] = s[i]
OBVIOUS

LEMMA TailFacts ==
    ASSUME NEW S, NEW s \in Seq(S), s # <<>>
    PROVE  /\ Tail(s) \in Seq(S) /\ Len(Tail(s)) = Len(s) - 1 /\ Len(s) \in Nat /\ Len(s) >= 1
           /\ Head(s) \in S
           /\ \A i \in 1..Len(Tail(s)) : i + 1 \in 1..Len(s) /\ Tail(s)[i] = s[i + 1]
OBVIOUS

LEMMA InitFInv == ASSUME Init PROVE FInv
<1>1. /\ settings \in [interval : Nat \ {0}, ready : Nat, events : Nat] /\ clock = 0
      /\ flight = <<>> /\ paymentLog = <<>> /\ confirmed = {} /\ invoices = <<>>
      /\ invoicer = [pc |-> "asleep", wake |-> Interval]
  BY FinanceAssumption DEF Init
<1>2. Interval \in Nat
  BY <1>1 DEF Interval
<1>3. FinanceTypes
  BY <1>1, <1>2 DEF FinanceTypes
<1>4. IsFiniteSet({}) /\ Cardinality({}) = 0
  BY FS_EmptySet
<1>5. Numbered
  BY <1>1, <1>4 DEF Numbered
<1>6. Traced /\ Periodic
  BY <1>1 DEF Traced, Periodic
<1> QED
  BY <1>3, <1>5, <1>6 DEF FInv

\* What leaves the payments and the invoices alone.
LEMMA KeepsFInv ==
    ASSUME FInv, UNCHANGED <<settings, paymentLog, confirmed, invoicer, invoices>>,
           clock' \in Nat, flight' \in Seq(Nat)
    PROVE  FInv'
BY DEF FInv, FinanceTypes, Numbered, Traced, Periodic, Interval

LEMMA LoggedFInv == ASSUME FInv, PaymentLogged PROVE FInv'
<1> DEFINE n == Cardinality(confirmed)
           new == [id |-> n + 1, at |-> Head(flight), logged |-> clock]
<1>1. PICK p \in Providers :
         paymentLog' = Kept(Append(paymentLog, Payment(n + 1, Head(flight), p)))
  BY DEF PaymentLogged
<1> DEFINE entry == Payment(n + 1, Head(flight), p)
           longer == Append(paymentLog, entry)
<1>2. /\ flight # <<>> /\ flight' = Tail(flight) /\ confirmed' = confirmed \cup {new}
      /\ UNCHANGED <<settings, clock, invoicer, invoices>>
  BY DEF PaymentLogged, billing
<1>3. n \in Nat /\ Head(flight) \in Nat /\ flight' \in Seq(Nat) /\ clock \in Nat
  BY <1>2, TailFacts, FS_CardinalityType DEF FInv, FinanceTypes, Numbered
<1>4. new \in [id : Nat, at : Nat, logged : Nat] /\ new.id = n + 1 /\ new.at = Head(flight)
  BY <1>3
<1>5. entry \in Logged /\ entry.id = new.id /\ entry.at = new.at
  BY <1>3 DEF Payment, Logged, Recorded
<1>6. new \notin confirmed
  BY <1>3, <1>4 DEF FInv, Numbered
<1>7. IsFiniteSet(confirmed') /\ Cardinality(confirmed') = n + 1
  BY <1>2, <1>6, FS_AddElement DEF FInv, Numbered
<1> HIDE DEF n, new, entry
<1>8. Numbered'
  <2>1. \A q \in confirmed : q.id \in 1..n
    BY DEF FInv, Numbered, n
  <2>2. \A q \in confirmed' : q.id \in 1..(n + 1)
    BY <1>2, <1>3, <1>4, <2>1
  <2>3. \A q, r \in confirmed' : q.id = r.id => q = r
    BY <1>2, <1>3, <1>4, <2>1 DEF FInv, Numbered
  <2> QED
    BY <1>7, <2>2, <2>3 DEF Numbered
<1>9. /\ longer \in Seq(Logged) /\ longer # <<>>
      /\ \A i \in 1..Len(longer) : \E q \in confirmed' :
            q.id = longer[i].id /\ q.at = longer[i].at
  <2>1. paymentLog \in Seq(Logged)
    BY DEF FInv, FinanceTypes
  <2>2. /\ longer \in Seq(Logged) /\ Len(longer) = Len(paymentLog) + 1 /\ Len(paymentLog) \in Nat
        /\ longer[Len(paymentLog) + 1] = entry
        /\ \A i \in 1..Len(paymentLog) : longer[i] = paymentLog[i]
    BY <1>5, <2>1, AppendFacts
  <2> HIDE DEF longer
  <2>3. ASSUME NEW i \in 1..Len(longer)
        PROVE  \E q \in confirmed' : q.id = longer[i].id /\ q.at = longer[i].at
    <3>1. CASE i = Len(paymentLog) + 1
      BY <1>2, <1>5, <2>2, <3>1
    <3>2. CASE i # Len(paymentLog) + 1
      <4>1. i \in 1..Len(paymentLog)
        BY <2>2, <3>2
      <4> QED
        BY <1>2, <2>2, <4>1 DEF FInv, Traced
    <3> QED
      BY <3>1, <3>2
  <2> QED
    BY <2>2, <2>3
<1>10. paymentLog' \in Seq(Logged) /\ Traced'
  <2>1. CASE paymentLog' = longer
    BY <1>9, <2>1 DEF Traced
  <2>2. CASE paymentLog' = Tail(longer)
    <3> HIDE DEF longer
    <3>1. /\ Tail(longer) \in Seq(Logged)
          /\ \A i \in 1..Len(Tail(longer)) : i + 1 \in 1..Len(longer)
                                             /\ Tail(longer)[i] = longer[i + 1]
      BY <1>9, TailFacts
    <3> QED
      BY <1>9, <2>2, <3>1 DEF Traced
  <2> QED
    BY <1>1, <2>1, <2>2 DEF Kept, n, entry
<1>11. FinanceTypes'
  BY <1>2, <1>3, <1>4, <1>10 DEF FInv, FinanceTypes
<1>12. Periodic'
  <2>1. confirmed \subseteq confirmed' /\ Interval' = Interval
    BY <1>2 DEF Interval
  <2> QED
    BY <1>2, <2>1 DEF FInv, Periodic
<1> QED
  BY <1>8, <1>10, <1>11, <1>12 DEF FInv

\* A new invoice: its period begins after the last one's end.
LEMMA BillFInv ==
    ASSUME FInv, invoicer.pc = "asleep", clock >= invoicer.wake,
           invoicer' = [pc |-> "announcing", wake |-> clock],
           invoices' = Append(invoices, Generate(clock)),
           UNCHANGED <<settings, clock, flight, paymentLog, confirmed>>
    PROVE  FInv'
<1> DEFINE bill == Generate(clock)
<1>1. /\ clock \in Nat /\ Interval \in Nat /\ paymentLog \in Seq(Logged) /\ invoices \in Seq(Bill)
      /\ invoicer.wake \in Nat
  BY DEF FInv, FinanceTypes, Interval
<1>2. /\ bill.from = clock - Interval /\ bill.to = clock
      /\ bill.items = {paymentLog[i].id : i \in {j \in DOMAIN paymentLog :
                                                    InPeriod(paymentLog[j].at, clock)}}
  BY DEF Generate
<1>3. DOMAIN paymentLog = 1..Len(paymentLog) /\ \A i \in 1..Len(paymentLog) : paymentLog[i] \in Logged
  BY <1>1
<1>4. ASSUME NEW x \in bill.items
      PROVE  x \in Nat /\ \E p \in confirmed : p.id = x /\ bill.from <= p.at /\ p.at <= bill.to
  <2>1. PICK i \in 1..Len(paymentLog) : x = paymentLog[i].id /\ InPeriod(paymentLog[i].at, clock)
    BY <1>2, <1>3, <1>4
  <2>2. x \in Nat
    BY <1>3, <2>1 DEF Logged
  <2> QED
    BY <1>2, <2>1, <2>2 DEF FInv, Traced, InPeriod
<1>5. bill \in Bill
  <2>1. bill.items \in SUBSET Nat
    BY <1>4
  <2>2. bill = [from |-> clock - Interval, to |-> clock, items |-> bill.items]
    BY DEF Generate
  <2> HIDE DEF bill
  <2> QED
    BY <1>1, <2>1, <2>2 DEF Bill
<1> HIDE DEF bill
<1>6. /\ invoices' \in Seq(Bill) /\ Len(invoices') = Len(invoices) + 1 /\ Len(invoices) \in Nat
      /\ invoices'[Len(invoices) + 1] = bill
      /\ \A i \in 1..Len(invoices) : invoices'[i] = invoices[i] /\ invoices[i] \in Bill
  BY <1>1, <1>5, AppendFacts DEF bill
<1>7. FinanceTypes'
  BY <1>1, <1>6 DEF FInv, FinanceTypes
<1>8. \A i \in 1..Len(invoices) : invoices[i].to \in Nat /\ invoices[i].to + Interval < clock
  <2>1. ASSUME NEW i \in 1..Len(invoices)
        PROVE  invoices[i].to \in Nat /\ invoices[i].to + Interval < clock
    <3>1. invoices[i].to \in Nat
      BY <1>6 DEF Bill
    <3>2. invoices[i].to + Interval < invoicer.wake
      BY DEF FInv, Periodic
    <3> QED
      BY <1>1, <3>1, <3>2
  <2> QED
    BY <2>1
<1>9. Periodic'
  <2>0. Interval' = Interval /\ invoicer'.pc = "announcing" /\ invoicer'.wake = clock
    BY DEF Interval
  <2>1. ASSUME NEW i \in 1..Len(invoices')
        PROVE  /\ invoices'[i].from = invoices'[i].to - Interval /\ invoices'[i].to <= clock
               /\ \A x \in invoices'[i].items : \E p \in confirmed :
                     p.id = x /\ invoices'[i].from <= p.at /\ p.at <= invoices'[i].to
    <3>1. CASE i = Len(invoices) + 1
      <4>1. invoices'[i] = bill
        BY <1>6, <3>1
      <4>2. bill.from = bill.to - Interval /\ bill.to <= clock
        BY <1>1, <1>2
      <4> QED
        BY <1>4, <4>1, <4>2
    <3>2. CASE i # Len(invoices) + 1
      <4>1. i \in 1..Len(invoices) /\ invoices'[i] = invoices[i]
        BY <1>6, <3>2
      <4>2. invoices[i].to <= clock
        BY <1>1, <1>8, <4>1
      <4> QED
        BY <4>1, <4>2 DEF FInv, Periodic
    <3> QED
      BY <3>1, <3>2
  <2>2. ASSUME NEW i \in 1..Len(invoices'), NEW j \in 1..Len(invoices'), i < j
        PROVE  invoices'[i].to + Interval < invoices'[j].to
    <3>1. i \in 1..Len(invoices)
      BY <1>6, <2>2
    <3>2. CASE j = Len(invoices) + 1
      BY <1>2, <1>6, <1>8, <3>1, <3>2
    <3>3. CASE j # Len(invoices) + 1
      <4>1. j \in 1..Len(invoices)
        BY <1>6, <3>3
      <4> QED
        BY <1>6, <2>2, <3>1, <4>1 DEF FInv, Periodic
    <3> QED
      BY <3>2, <3>3
  <2> QED
    BY <2>0, <2>1, <2>2 DEF Periodic
<1>10. Numbered' /\ Traced'
  BY DEF FInv, Numbered, Traced
<1> QED
  BY <1>7, <1>9, <1>10 DEF FInv

\* Going back to sleep, after an invoice or without one.
LEMMA SleepFInv ==
    ASSUME FInv, invoicer' = Asleep(clock), clock >= invoicer.wake,
           invoicer.pc = "announcing" => clock > invoicer.wake,
           UNCHANGED <<settings, clock, flight, paymentLog, confirmed, invoices>>
    PROVE  FInv'
<1>1. /\ clock \in Nat /\ Interval \in Nat /\ invoicer.wake \in Nat
      /\ invoicer.pc \in {"asleep", "announcing"}
      /\ \A i \in 1..Len(invoices) : invoices[i] \in Bill
  BY DEF FInv, FinanceTypes, Interval
<1>2. /\ invoicer' = [pc |-> "asleep", wake |-> clock + Interval]
      /\ invoicer'.pc = "asleep" /\ invoicer'.wake = clock + Interval /\ Interval' = Interval
  BY DEF Asleep, Interval
<1>3. \A i \in 1..Len(invoices) : invoices[i].to + Interval < clock + Interval
  BY <1>1 DEF FInv, Periodic, Bill
<1>4. FinanceTypes'
  BY <1>1, <1>2 DEF FInv, FinanceTypes
<1>5. Periodic'
  BY <1>2, <1>3 DEF FInv, Periodic
<1>6. Numbered' /\ Traced'
  BY DEF FInv, Numbered, Traced
<1> QED
  BY <1>4, <1>5, <1>6 DEF FInv

LEMMA StepFInv == ASSUME FInv, [Next]_vars PROVE FInv'
<1>0. clock \in Nat /\ clock + 1 \in Nat /\ flight \in Seq(Nat) /\ Append(flight, clock) \in Seq(Nat)
      /\ (flight # <<>> => Tail(flight) \in Seq(Nat)) /\ invoicer.wake \in Nat
  BY TailFacts, AppendFacts DEF FInv, FinanceTypes
<1>1. CASE Tick
  BY <1>0, <1>1, KeepsFInv DEF Tick, logs, billing
<1>2. CASE Sampled
  BY <1>0, <1>2, KeepsFInv DEF Sampled, billing
<1>3. CASE PaymentLogged
  BY <1>3, LoggedFInv
<1>4. CASE PaymentDropped
  BY <1>0, <1>4, KeepsFInv DEF PaymentDropped, billing
<1>5. CASE EventLogged \/ ScoringFallback \/ RiskScoring
  BY <1>0, <1>5, KeepsFInv DEF EventLogged, ScoringFallback, RiskScoring, logs, billing
<1>6. CASE TreasuryWakes \/ TreasuryAnswered \/ TreasuryFails \/ TreasuryRecovers
  BY <1>0, <1>6, KeepsFInv DEF TreasuryWakes, TreasuryAnswered, TreasuryFails, Concludes,
                               TreasuryRecovers, logs, billing
<1>7. CASE InvoiceDue
  <2>1. /\ invoicer.pc = "asleep" /\ clock >= invoicer.wake
        /\ UNCHANGED <<settings, clock, flight, paymentLog, confirmed>>
        /\ \/ /\ invoicer' = [pc |-> "announcing", wake |-> clock]
              /\ invoices' = Append(invoices, Generate(clock))
           \/ invoicer' = Asleep(clock) /\ UNCHANGED invoices
    BY <1>7 DEF InvoiceDue, logs
  <2> QED
    BY <2>1, BillFInv, SleepFInv
<1>8. CASE InvoiceAnnounced
  <2>1. /\ invoicer.pc = "announcing" /\ clock > invoicer.wake /\ invoicer' = Asleep(clock)
        /\ UNCHANGED <<settings, clock, flight, paymentLog, confirmed, invoices>>
    BY <1>8 DEF InvoiceAnnounced, logs
  <2> QED
    BY <1>0, <2>1, SleepFInv
<1>9. CASE UNCHANGED vars
  BY <1>0, <1>9, KeepsFInv DEF vars, logs, billing
<1> QED
  BY <1>1, <1>2, <1>3, <1>4, <1>5, <1>6, <1>7, <1>8, <1>9 DEF Next

\* For every interval and log, however long rendering takes and however often
\* it fails: no payment is on two invoices.
THEOREM InvoicesAreDisjoint == Spec => []BilledOnce
<1>1. ASSUME FInv PROVE BilledOnce
  <2>1. invoices \in Seq(Bill) /\ DOMAIN invoices = 1..Len(invoices) /\ Interval \in Nat
    BY <1>1 DEF FInv, FinanceTypes, Interval
  <2>2. ASSUME NEW i \in 1..Len(invoices), NEW j \in 1..Len(invoices), i < j,
               NEW x, x \in invoices[i].items, x \in invoices[j].items
        PROVE  FALSE
    <3>1. PICK p \in confirmed : p.id = x /\ p.at <= invoices[i].to
      BY <1>1, <2>2 DEF FInv, Periodic
    <3>2. PICK q \in confirmed : q.id = x /\ invoices[j].from <= q.at
      BY <1>1, <2>2 DEF FInv, Periodic
    <3>3. p = q /\ p.at \in Nat
      BY <1>1, <3>1, <3>2 DEF FInv, Numbered, FinanceTypes
    <3>4. /\ invoices[j].from = invoices[j].to - Interval
          /\ invoices[i].to + Interval < invoices[j].to
      BY <1>1, <2>2 DEF FInv, Periodic
    <3>5. invoices[i] \in Bill /\ invoices[j] \in Bill
      BY <2>1
    <3>6. invoices[i].to \in Nat /\ invoices[j].to \in Nat
      BY <3>5 DEF Bill
    <3> QED
      BY <2>1, <3>1, <3>2, <3>3, <3>4, <3>6
  <2>3. \A i, j \in 1..Len(invoices) : i # j => i < j \/ j < i
    BY <2>1
  <2> QED
    BY <2>1, <2>2, <2>3 DEF BilledOnce
<1> QED
  BY <1>1, InitFInv, StepFInv, PTL DEF Spec

----------------------------------------------------------------------------
(* What is on an invoice.                                                  *)

\* Nothing is stamped later than now.
Timely ==
    /\ \A i \in 1..Len(flight) : flight[i] <= clock
    /\ \A p \in confirmed : p.at <= p.logged /\ p.logged <= clock
    /\ \A i \in 1..Len(invoices) : invoices[i].to <= clock

\* The log is the newest payments in their order, as many as it has room for.
Newest ==
    LET n == Cardinality(confirmed)
        len == Len(paymentLog)
    IN  /\ \A x \in 1..n : \E p \in confirmed : p.id = x
        /\ len <= PaymentLogMax /\ (len = n \/ len = PaymentLogMax)
        /\ \A i \in 1..len : paymentLog[i].id = n - len + i

BInv == Timely /\ Newest /\ LoggedIsBilled

LEMMA InitBInv == ASSUME Init PROVE BInv
<1>1. flight = <<>> /\ paymentLog = <<>> /\ confirmed = {} /\ invoices = <<>>
  BY DEF Init
<1>2. Cardinality(confirmed) = 0
  BY <1>1, FS_EmptySet
<1>3. 0 <= PaymentLogMax
  BY FinanceAssumption
<1> QED
  BY <1>1, <1>2, <1>3 DEF BInv, Timely, Newest, LoggedIsBilled

\* What leaves the payments and the invoices alone.
LEMMA KeepsBInv ==
    ASSUME FInv, BInv, UNCHANGED <<paymentLog, confirmed, invoices>>, clock' \in Nat, clock' >= clock,
           flight' \in Seq(Nat),
           \A i \in 1..Len(flight') : flight'[i] = clock \/ \E j \in 1..Len(flight) : flight'[i] = flight[j]
    PROVE  BInv'
<1>1. /\ clock \in Nat /\ flight \in Seq(Nat) /\ invoices \in Seq(Bill)
      /\ confirmed \in SUBSET [id : Nat, at : Nat, logged : Nat]
  BY DEF FInv, FinanceTypes
<1>2. \A i \in 1..Len(flight') : flight'[i] <= clock'
  BY <1>1 DEF BInv, Timely
<1>3. \A p \in confirmed : p.at <= p.logged /\ p.logged <= clock'
  BY <1>1 DEF BInv, Timely
<1>4. \A i \in 1..Len(invoices) : invoices[i].to <= clock'
  <2>1. \A i \in 1..Len(invoices) : invoices[i] \in Bill
    BY <1>1
  <2> QED
    BY <1>1, <2>1 DEF BInv, Timely, Bill
<1> QED
  BY <1>2, <1>3, <1>4 DEF BInv, Timely, Newest, LoggedIsBilled

\* A new payment is the newest of the log.
LEMMA LoggedNewest ==
    ASSUME FInv, BInv, PaymentLogged
    PROVE  Timely' /\ Newest'
<1> DEFINE n == Cardinality(confirmed)
           new == [id |-> n + 1, at |-> Head(flight), logged |-> clock]
<1>1. PICK p \in Providers :
         paymentLog' = Kept(Append(paymentLog, Payment(n + 1, Head(flight), p)))
  BY DEF PaymentLogged
<1> DEFINE entry == Payment(n + 1, Head(flight), p)
           longer == Append(paymentLog, entry)
<1>2. /\ flight # <<>> /\ flight' = Tail(flight) /\ confirmed' = confirmed \cup {new}
      /\ UNCHANGED <<clock, invoices>> /\ paymentLog' = Kept(longer)
  BY <1>1 DEF PaymentLogged, billing
<1>3. /\ n \in Nat /\ clock \in Nat /\ flight \in Seq(Nat) /\ paymentLog \in Seq(Logged)
      /\ IsFiniteSet(confirmed)
  BY FS_CardinalityType DEF FInv, FinanceTypes, Numbered
<1>4. /\ Len(Tail(flight)) = Len(flight) - 1 /\ Len(flight) \in Nat /\ Len(flight) >= 1
      /\ Head(flight) \in Nat
      /\ \A i \in 1..Len(Tail(flight)) : i + 1 \in 1..Len(flight)
                                          /\ Tail(flight)[i] = flight[i + 1]
  BY <1>2, <1>3, TailFacts
<1>5. Head(flight) = flight[1] /\ Head(flight) <= clock
  BY <1>2, <1>3, <1>4 DEF BInv, Timely
<1>6. new.id = n + 1 /\ new.at = Head(flight) /\ new.logged = clock /\ new \notin confirmed
  BY <1>3 DEF FInv, Numbered
<1>7. Cardinality(confirmed') = n + 1
  BY <1>2, <1>3, <1>6, FS_AddElement
<1>8. entry \in Logged /\ entry.id = n + 1
  BY <1>3, <1>4 DEF Payment, Logged, Recorded
<1> HIDE DEF n, new, entry
<1>9. Timely'
  BY <1>2, <1>3, <1>4, <1>5, <1>6 DEF BInv, Timely
<1>10. /\ longer \in Seq(Logged) /\ Len(longer) = Len(paymentLog) + 1 /\ Len(paymentLog) \in Nat
       /\ longer[Len(paymentLog) + 1] = entry
       /\ \A i \in 1..Len(paymentLog) : longer[i] = paymentLog[i]
  BY <1>3, <1>8, AppendFacts
<1> HIDE DEF longer
<1>11. /\ Len(paymentLog) <= PaymentLogMax /\ (Len(paymentLog) = n \/ Len(paymentLog) = PaymentLogMax)
       /\ \A i \in 1..Len(paymentLog) : paymentLog[i].id = n - Len(paymentLog) + i
       /\ \A x \in 1..n : \E q \in confirmed : q.id = x
  BY DEF BInv, Newest, n
<1>12. ASSUME NEW i \in 1..Len(longer) PROVE longer[i].id = (n + 1) - Len(longer) + i
  <2>1. CASE i = Len(paymentLog) + 1
    BY <1>3, <1>8, <1>10, <2>1
  <2>2. CASE i # Len(paymentLog) + 1
    <3>1. i \in 1..Len(paymentLog)
      BY <1>10, <2>2
    <3>2. longer[i].id = n - Len(paymentLog) + i
      BY <1>10, <1>11, <3>1
    <3>3. i \in Nat /\ n \in Nat /\ Len(paymentLog) \in Nat /\ Len(longer) = Len(paymentLog) + 1
      BY <1>3, <1>10
    <3> QED
      BY <3>2, <3>3
  <2> QED
    BY <2>1, <2>2
<1>13. ASSUME NEW x \in 1..(n + 1) PROVE \E q \in confirmed' : q.id = x
  BY <1>2, <1>3, <1>6, <1>11
<1>14. PaymentLogMax \in Nat /\ PaymentLogMax > 0
  BY FinanceAssumption
<1>15. CASE Len(longer) <= PaymentLogMax
  <2>1. paymentLog' = longer
    BY <1>2, <1>10, <1>14, <1>15 DEF Kept
  <2>2. Len(longer) = n + 1 \/ Len(longer) = PaymentLogMax
    BY <1>3, <1>10, <1>11, <1>14, <1>15
  <2> QED
    BY <1>7, <1>9, <1>12, <1>13, <1>15, <2>1, <2>2 DEF Newest
<1>16. CASE Len(longer) > PaymentLogMax
  <2>1. paymentLog' = Tail(longer) /\ longer # <<>>
    BY <1>2, <1>10, <1>14, <1>16 DEF Kept
  <2>2. /\ Len(Tail(longer)) = Len(longer) - 1
        /\ \A i \in 1..Len(Tail(longer)) : i + 1 \in 1..Len(longer)
                                            /\ Tail(longer)[i] = longer[i + 1]
    BY <1>10, <2>1, TailFacts
  <2>3. Len(Tail(longer)) = PaymentLogMax
    BY <1>10, <1>11, <1>14, <1>16, <2>2
  <2>4. ASSUME NEW i \in 1..Len(Tail(longer))
        PROVE  Tail(longer)[i].id = (n + 1) - Len(Tail(longer)) + i
    <3>1. Tail(longer)[i].id = (n + 1) - Len(longer) + (i + 1)
      BY <1>12, <2>2
    <3>2. i \in Nat /\ n \in Nat /\ Len(longer) \in Nat /\ Len(Tail(longer)) = Len(longer) - 1
      BY <1>3, <1>10, <2>2
    <3> DEFINE k == Len(longer)
    <3>3. k \in Nat
      BY <3>2
    <3> HIDE DEF k
    <3>4. (n + 1) - k + (i + 1) = (n + 1) - (k - 1) + i
      BY <3>2, <3>3
    <3> QED
      BY <3>1, <3>2, <3>4 DEF k
  <2> QED
    BY <1>7, <1>9, <1>13, <1>14, <2>1, <2>3, <2>4 DEF Newest
<1> QED
  BY <1>10, <1>14, <1>15, <1>16

\* It is on none of the invoices that were made before, and makes only more
\* payments newer than those they could miss.
LEMMA LoggedBilled ==
    ASSUME FInv, BInv, PaymentLogged
    PROVE  LoggedIsBilled'
<1> DEFINE new == [id |-> Cardinality(confirmed) + 1, at |-> Head(flight), logged |-> clock]
<1>1. confirmed' = confirmed \cup {new} /\ invoices' = invoices /\ new.logged = clock
  BY DEF PaymentLogged, billing
<1>2. /\ clock \in Nat /\ invoices \in Seq(Bill) /\ DOMAIN invoices = 1..Len(invoices)
      /\ IsFiniteSet(confirmed) /\ IsFiniteSet(confirmed')
      /\ PaymentLogMax \in Nat
  <2>1. IsFiniteSet(confirmed)
    BY DEF FInv, Numbered
  <2>2. IsFiniteSet(confirmed')
    BY <1>1, <2>1, FS_AddElement
  <2> HIDE DEF new
  <2> QED
    BY <2>1, <2>2, FinanceAssumption DEF FInv, FinanceTypes
<1> HIDE DEF new
<1>3. ASSUME NEW p \in confirmed', NEW i \in 1..Len(invoices),
             invoices[i].from <= p.at, p.logged < invoices[i].to,
             Cardinality({q \in confirmed' : q.id > p.id /\ q.logged <= invoices[i].to})
                 < PaymentLogMax
      PROVE  p.id \in invoices[i].items
  <2> DEFINE before == {q \in confirmed : q.id > p.id /\ q.logged <= invoices[i].to}
             after == {q \in confirmed' : q.id > p.id /\ q.logged <= invoices[i].to}
  <2>1. invoices[i] \in Bill /\ invoices[i].to \in Nat /\ invoices[i].to <= clock
    <3>1. invoices[i] \in Bill
      BY <1>2
    <3> QED
      BY <3>1 DEF BInv, Timely, Bill
  <2>2. p \in confirmed
    BY <1>1, <1>2, <1>3, <2>1
  <2>3. before \in SUBSET after /\ after \in SUBSET confirmed'
    BY <1>1
  <2>4. IsFiniteSet(after)
    BY <1>2, <2>3, FS_Subset
  <2>5. IsFiniteSet(before) /\ Cardinality(before) <= Cardinality(after)
    BY <2>3, <2>4, FS_Subset
  <2>6. Cardinality(before) \in Nat /\ Cardinality(after) \in Nat
    BY <2>4, <2>5, FS_CardinalityType
  <2>7. Cardinality(before) < PaymentLogMax
    BY <1>2, <1>3, <2>5, <2>6
  <2> QED
    BY <1>2, <1>3, <2>2, <2>7 DEF BInv, LoggedIsBilled
<1> QED
  BY <1>1, <1>2, <1>3 DEF LoggedIsBilled

\* As many payments are newer than p as the log shows after it.
LEMMA NewerCounted ==
    ASSUME FInv, BInv, NEW p \in confirmed
    PROVE  /\ Cardinality(confirmed) \in Nat /\ p.id \in 1..Cardinality(confirmed)
           /\ Cardinality(confirmed) - p.id <= Cardinality({q \in confirmed : q.id > p.id})
<1> DEFINE n == Cardinality(confirmed)
           newer == {q \in confirmed : q.id > p.id}
           ids == (p.id + 1)..n
           number == [q \in newer |-> q.id]
<1>1. /\ n \in Nat /\ p.id \in 1..n /\ IsFiniteSet(confirmed)
      /\ \A q \in confirmed : q.id \in 1..n
  BY FS_CardinalityType DEF FInv, Numbered
<1>2. IsFiniteSet(newer)
  BY <1>1, FS_Subset
<1>3. \A x \in 1..n : \E q \in confirmed : q.id = x
  BY DEF BInv, Newest
<1>4. number \in Surjection(newer, ids)
  <2>1. number \in [newer -> ids]
    <3>1. ASSUME NEW q \in newer PROVE q.id \in ids
      BY <1>1
    <3> QED
      BY <3>1
  <2>2. ASSUME NEW x \in ids PROVE \E q \in newer : number[q] = x
    <3>1. x \in 1..n /\ x > p.id
      BY <1>1
    <3>2. PICK q \in confirmed : q.id = x
      BY <1>3, <3>1
    <3>3. q \in newer
      BY <3>1, <3>2
    <3> QED
      BY <3>2, <3>3
  <2> HIDE DEF number
  <2> QED
    BY <2>1, <2>2 DEF Surjection
<1>5. Cardinality(ids) <= Cardinality(newer)
  BY <1>2, <1>4, FS_Surjection
<1>6. Cardinality(ids) = n - p.id
  <2>1. p.id + 1 \in Int /\ n \in Int
    BY <1>1
  <2>2. Cardinality(ids) = IF p.id + 1 > n THEN 0 ELSE n - (p.id + 1) + 1
    BY <2>1, FS_Interval
  <2> QED
    BY <1>1, <2>2
<1> QED
  BY <1>1, <1>5, <1>6

\* A new invoice has every payment of its period that the log still has.
LEMMA BillBilled ==
    ASSUME FInv, BInv, invoices' = Append(invoices, Generate(clock)),
           UNCHANGED <<settings, clock, flight, paymentLog, confirmed>>
    PROVE  BInv'
<1> DEFINE bill == Generate(clock)
           n == Cardinality(confirmed)
           len == Len(paymentLog)
<1>1. /\ clock \in Nat /\ Interval \in Nat /\ paymentLog \in Seq(Logged) /\ invoices \in Seq(Bill)
      /\ confirmed \in SUBSET [id : Nat, at : Nat, logged : Nat] /\ len \in Nat
      /\ PaymentLogMax \in Nat
  BY FinanceAssumption DEF FInv, FinanceTypes, Interval
<1>2. /\ bill.from = clock - Interval /\ bill.to = clock
      /\ bill.items = {paymentLog[i].id : i \in {j \in DOMAIN paymentLog :
                                                    InPeriod(paymentLog[j].at, clock)}}
  BY DEF Generate
<1>3. bill \in [from : {clock - Interval}, to : {clock}, items : {bill.items}]
  BY DEF Generate
<1>4. /\ Len(invoices') = Len(invoices) + 1 /\ Len(invoices) \in Nat
      /\ invoices'[Len(invoices) + 1] = bill /\ DOMAIN invoices' = 1..(Len(invoices) + 1)
      /\ \A i \in 1..Len(invoices) : invoices'[i] = invoices[i]
  BY <1>1
<1>5. ASSUME NEW p \in confirmed, bill.from <= p.at,
             Cardinality({q \in confirmed : q.id > p.id /\ q.logged <= bill.to}) < PaymentLogMax
      PROVE  p.id \in bill.items
  <2>1. {q \in confirmed : q.id > p.id /\ q.logged <= bill.to} = {q \in confirmed : q.id > p.id}
    BY <1>2 DEF BInv, Timely
  <2>2. n \in Nat /\ p.id \in 1..n /\ n - p.id <= Cardinality({q \in confirmed : q.id > p.id})
        /\ IsFiniteSet({q \in confirmed : q.id > p.id})
    BY NewerCounted, FS_Subset DEF FInv, Numbered
  <2> DEFINE newer == Cardinality({q \in confirmed : q.id > p.id})
  <2>3. newer \in Nat /\ n - p.id <= newer /\ newer < PaymentLogMax
    BY <1>5, <2>1, <2>2, FS_CardinalityType
  <2> HIDE DEF newer, n, len
  <2>4. n - p.id < PaymentLogMax
    BY <1>1, <2>2, <2>3
  <2>5. (len = n \/ len = PaymentLogMax) /\ \A i \in 1..len : paymentLog[i].id = n - len + i
    BY DEF BInv, Newest, n, len
  <2> DEFINE i == p.id - n + len
  <2>6. i \in 1..len
    BY <1>1, <2>2, <2>4, <2>5
  <2>7. paymentLog[i].id = p.id
    <3>1. n - len + i = p.id
      BY <1>1, <2>2
    <3> QED
      BY <2>5, <2>6, <3>1
  <2> HIDE DEF i
  <2>8. paymentLog[i].at = p.at
    BY <2>6, <2>7 DEF FInv, Traced, Numbered, len
  <2>9. p.at <= clock /\ p.at \in Nat
    <3>1. p.at \in Nat /\ p.logged \in Nat /\ p.at <= p.logged /\ p.logged <= clock
      BY <1>1 DEF BInv, Timely
    <3> QED
      BY <1>1, <3>1
  <2>10. i \in DOMAIN paymentLog /\ InPeriod(paymentLog[i].at, clock)
    BY <1>1, <1>2, <1>5, <2>6, <2>8, <2>9 DEF InPeriod, len
  <2> QED
    BY <1>2, <2>7, <2>10
<1> HIDE DEF bill, n, len
<1>6. Timely'
  <2>1. ASSUME NEW i \in 1..Len(invoices') PROVE invoices'[i].to <= clock
    <3>1. i = Len(invoices) + 1 \/ i \in 1..Len(invoices)
      BY <1>4
    <3>2. clock <= clock
      BY <1>1
    <3> QED
      BY <1>2, <1>4, <3>1, <3>2 DEF BInv, Timely
  <2> QED
    BY <2>1 DEF BInv, Timely
<1>7. Newest'
  BY DEF BInv, Newest
<1>8. LoggedIsBilled'
  <2>1. ASSUME NEW p \in confirmed, NEW i \in 1..(Len(invoices) + 1),
               invoices'[i].from <= p.at, p.logged < invoices'[i].to,
               Cardinality({q \in confirmed : q.id > p.id /\ q.logged <= invoices'[i].to})
                   < PaymentLogMax
        PROVE  p.id \in invoices'[i].items
    <3>1. CASE i = Len(invoices) + 1
      BY <1>4, <1>5, <2>1, <3>1
    <3>2. CASE i # Len(invoices) + 1
      <4>1. i \in 1..Len(invoices) /\ i \in DOMAIN invoices /\ invoices'[i] = invoices[i]
        BY <1>1, <1>4, <3>2
      <4> QED
        BY <2>1, <4>1 DEF BInv, LoggedIsBilled
    <3> QED
      BY <3>1, <3>2
  <2> QED
    BY <1>4, <2>1 DEF LoggedIsBilled
<1> QED
  BY <1>6, <1>7, <1>8 DEF BInv

LEMMA StepBInv == ASSUME FInv, BInv, [Next]_vars PROVE BInv'
<1>0. clock \in Nat /\ clock + 1 \in Nat /\ clock + 1 >= clock /\ clock >= clock
      /\ flight \in Seq(Nat)
  BY DEF FInv, FinanceTypes
<1>1. CASE Tick
  BY <1>0, <1>1, KeepsBInv DEF Tick, logs, billing
<1>2. CASE Sampled
  <2>1. /\ flight' = Append(flight, clock) /\ UNCHANGED <<clock, paymentLog, confirmed, invoices>>
    BY <1>2 DEF Sampled, billing
  <2>2. /\ flight' \in Seq(Nat) /\ Len(flight') = Len(flight) + 1 /\ Len(flight) \in Nat
        /\ flight'[Len(flight) + 1] = clock
        /\ \A i \in 1..Len(flight) : flight'[i] = flight[i]
    BY <1>0, <2>1, AppendFacts
  <2>3. \A i \in 1..Len(flight') : flight'[i] = clock \/ \E j \in 1..Len(flight) : flight'[i] = flight[j]
    <3>1. \A i \in 1..Len(flight') : i = Len(flight) + 1 \/ i \in 1..Len(flight)
      BY <2>2
    <3> QED
      BY <2>2, <3>1
  <2> QED
    BY <1>0, <2>1, <2>2, <2>3, KeepsBInv
<1>3. CASE PaymentLogged
  BY <1>3, LoggedNewest, LoggedBilled DEF BInv
<1>4. CASE PaymentDropped
  <2>1. /\ flight # <<>> /\ flight' = Tail(flight)
        /\ UNCHANGED <<clock, paymentLog, confirmed, invoices>>
    BY <1>4 DEF PaymentDropped, billing
  <2>2. /\ flight' \in Seq(Nat)
        /\ \A i \in 1..Len(flight') : i + 1 \in 1..Len(flight) /\ flight'[i] = flight[i + 1]
    BY <1>0, <2>1, TailFacts
  <2> QED
    BY <1>0, <2>1, <2>2, KeepsBInv
<1>5. CASE EventLogged \/ ScoringFallback \/ RiskScoring
  BY <1>0, <1>5, KeepsBInv DEF EventLogged, ScoringFallback, RiskScoring, logs, billing
<1>6. CASE TreasuryWakes \/ TreasuryAnswered \/ TreasuryFails \/ TreasuryRecovers
  BY <1>0, <1>6, KeepsBInv DEF TreasuryWakes, TreasuryAnswered, TreasuryFails, Concludes,
                               TreasuryRecovers, logs, billing
<1>7. CASE InvoiceDue
  <2>1. /\ UNCHANGED <<settings, clock, flight, paymentLog, confirmed>>
        /\ invoices' = Append(invoices, Generate(clock)) \/ UNCHANGED invoices
    BY <1>7 DEF InvoiceDue, logs
  <2> QED
    BY <1>0, <2>1, BillBilled, KeepsBInv
<1>8. CASE InvoiceAnnounced
  BY <1>0, <1>8, KeepsBInv DEF InvoiceAnnounced, logs
<1>9. CASE UNCHANGED vars
  BY <1>0, <1>9, KeepsBInv DEF vars, logs, billing
<1> QED
  BY <1>1, <1>2, <1>3, <1>4, <1>5, <1>6, <1>7, <1>8, <1>9 DEF Next

\* For every interval, log and number of payments: what the log held when an
\* invoice of its period was made is on it, so only a gap between two periods
\* or a log that is too short leaves a payment out.
THEOREM LogIsBilled == Spec => []LoggedIsBilled
<1>1. Init => FInv /\ BInv
  BY InitFInv, InitBInv
<1>2. FInv /\ BInv /\ [Next]_vars => (FInv /\ BInv)'
  BY StepFInv, StepBInv
<1>3. BInv => LoggedIsBilled
  BY DEF BInv
<1> QED
  BY <1>1, <1>2, <1>3, PTL DEF Spec
----------------------------------------------------------------------------
(* Sums over finite sets.  An argument by induction on a finite set takes  *)
(* a minimal member of the family of its subsets that refute the claim.    *)

\* A non-empty family of subsets of a finite set has a minimal member.
LEMMA MinimalSubset ==
    ASSUME NEW S, IsFiniteSet(S), NEW Family \in SUBSET (SUBSET S), Family # {}
    PROVE  \E T \in Family : \A U \in Family : ~(U \subseteq T /\ U # T)
  <1>1. IsWellFoundedOn(StrictSubsetOrdering(S), SUBSET S)
    BY FS_StrictSubsetOrderingWellFounded, FS_FiniteSubsetsOfFinite
  <1>2. PICK T \in Family : \A U \in Family : ~(<<U, T>> \in StrictSubsetOrdering(S))
    BY <1>1, WFMin
  <1>3. ASSUME NEW U \in Family, U \subseteq T, U # T PROVE FALSE
    BY <1>2, <1>3 DEF StrictSubsetOrdering
  <1> QED
    BY <1>3

FirstOf(s) == CHOOSE x \in s : TRUE

\* t is the table of partial sums of f over the subsets of S.
IsTable(f, S, t) ==
    t = [s \in SUBSET S |-> IF s = {} THEN 0 ELSE f[FirstOf(s)] + t[s \ {FirstOf(s)}]]

\* The community modules' sum is read off such a table.
LEMMA SumIsTable ==
    ASSUME NEW f, NEW S
    PROVE  SumFunctionOnSet(f, S) = (CHOOSE t : IsTable(f, S, t))[S]
  BY DEF SumFunctionOnSet, FoldFunctionOnSet, MapThenFoldSet, IsTable, FirstOf

\* A fold takes an element of the set.
LEMMA FirstFacts ==
    ASSUME NEW s, s # {}
    PROVE  FirstOf(s) \in s
  BY DEF FirstOf

\* A table of a larger set has the same partial sums.
LEMMA TablesAgree ==
    ASSUME NEW f, NEW S, IsFiniteSet(S), NEW t, IsTable(f, S, t),
           NEW T, S \subseteq T, NEW u, IsTable(f, T, u)
    PROVE  \A s \in SUBSET S : t[s] = u[s]
  <1> DEFINE Family == {s \in SUBSET S : t[s] # u[s]}
  <1> SUFFICES ASSUME Family # {} PROVE FALSE
    OBVIOUS
  <1>0. Family \in SUBSET (SUBSET S)
    OBVIOUS
  <1>1. PICK s \in Family : \A r \in Family : ~(r \subseteq s /\ r # s)
    <2> HIDE DEF Family
    <2> QED
      BY <1>0, MinimalSubset
  <1>2. s \in SUBSET S /\ s \in SUBSET T /\ t[s] # u[s]
    OBVIOUS
  <1>3. /\ t[s] = IF s = {} THEN 0 ELSE f[FirstOf(s)] + t[s \ {FirstOf(s)}]
        /\ u[s] = IF s = {} THEN 0 ELSE f[FirstOf(s)] + u[s \ {FirstOf(s)}]
    BY <1>2 DEF IsTable
  <1>4. CASE s = {}
    BY <1>2, <1>3, <1>4
  <1>5. CASE s # {}
    <2> DEFINE r == s \ {FirstOf(s)}
    <2>1. r \in SUBSET S /\ r \subseteq s /\ r # s
      BY <1>2, <1>5, FirstFacts
    <2>2. t[r] = u[r]
      BY <2>1, <1>1
    <2> QED
      BY <1>2, <1>3, <1>5, <2>2
  <1> QED
    BY <1>4, <1>5

\* Every finite set has a table: the recursion is well defined.
LEMMA TableExists ==
    ASSUME NEW f, NEW S, IsFiniteSet(S)
    PROVE  \E t : IsTable(f, S, t)
  <1> DEFINE Family == {T \in SUBSET S : ~\E t : IsTable(f, T, t)}
  <1> SUFFICES ASSUME Family # {} PROVE FALSE
    OBVIOUS
  <1>0. Family \in SUBSET (SUBSET S)
    OBVIOUS
  <1>1. PICK T \in Family : \A U \in Family : ~(U \subseteq T /\ U # T)
    <2> HIDE DEF Family
    <2> QED
      BY <1>0, MinimalSubset
  <1>2. T \in SUBSET S /\ ~\E t : IsTable(f, T, t)
    OBVIOUS
  <1>3. \A U \in SUBSET T : U # T => \E t : IsTable(f, U, t)
    BY <1>1, <1>2
  <1> DEFINE Old(U) == CHOOSE t : IsTable(f, U, t)
             Rest(s) == s \ {FirstOf(s)}
             g == [s \in SUBSET T |-> IF s = {} THEN 0
                                      ELSE f[FirstOf(s)] + Old(Rest(s))[Rest(s)]]
  <1>4. ASSUME NEW U \in SUBSET T, U # T PROVE IsTable(f, U, Old(U)) /\ IsFiniteSet(U)
    BY <1>3, <1>4, <1>2, FS_Subset
  <1>5. ASSUME NEW s \in SUBSET T, s # {} PROVE g[Rest(s)] = Old(Rest(s))[Rest(s)]
    <2>1. Rest(s) \in SUBSET T /\ Rest(s) # T
      BY <1>5, FirstFacts
    <2>2. IsTable(f, Rest(s), Old(Rest(s))) /\ IsFiniteSet(Rest(s))
      BY <2>1, <1>4
    <2>3. CASE Rest(s) = {}
      <3>1. g[Rest(s)] = 0
        BY <2>3
      <3>2. Old(Rest(s))[Rest(s)] = 0
        BY <2>2, <2>3 DEF IsTable
      <3> QED
        BY <3>1, <3>2
    <2>4. CASE Rest(s) # {}
      <3> DEFINE r == Rest(s)
      <3>1. Rest(r) \in SUBSET T /\ Rest(r) # T /\ Rest(r) \subseteq r
        BY <2>1, <2>4, FirstFacts
      <3>2. IsTable(f, Rest(r), Old(Rest(r))) /\ IsFiniteSet(Rest(r))
        BY <3>1, <1>4
      <3>3. Old(Rest(r))[Rest(r)] = Old(r)[Rest(r)]
        <4> HIDE DEF Old, Rest
        <4> QED
          BY <3>1, <3>2, <2>2, TablesAgree
      <3>4. Old(r)[r] = f[FirstOf(r)] + Old(r)[Rest(r)]
        <4>1. r \in SUBSET r /\ r # {}
          BY <2>4
        <4> HIDE DEF Old
        <4> QED
          BY <4>1, <2>2 DEF IsTable
      <3>5. g[r] = f[FirstOf(r)] + Old(Rest(r))[Rest(r)]
        <4> HIDE DEF Old
        <4> QED
          BY <2>1, <2>4
      <3> QED
        BY <3>3, <3>4, <3>5
    <2> QED
      BY <2>3, <2>4
  <1>6. g = [s \in SUBSET T |-> IF s = {} THEN 0 ELSE f[FirstOf(s)] + g[Rest(s)]]
    <2> HIDE DEF Old, Rest
    <2> QED
      BY <1>5
  <1>7. IsTable(f, T, g)
    <2> HIDE DEF g
    <2> QED
      BY <1>6 DEF IsTable
  <1> QED
    BY <1>2, <1>7

\* The sum over S by the element the fold takes first.
LEMMA SumStep ==
    ASSUME NEW f, NEW S, IsFiniteSet(S)
    PROVE  SumFunctionOnSet(f, S) =
             IF S = {} THEN 0 ELSE f[FirstOf(S)] + SumFunctionOnSet(f, S \ {FirstOf(S)})
  <1> DEFINE t == CHOOSE t : IsTable(f, S, t)
             R == S \ {FirstOf(S)}
             u == CHOOSE u : IsTable(f, R, u)
  <1>1. R \in SUBSET S /\ IsFiniteSet(R)
    BY FS_Subset
  <1>2. IsTable(f, S, t) /\ IsTable(f, R, u)
    BY <1>1, TableExists
  <1>3. SumFunctionOnSet(f, S) = t[S] /\ SumFunctionOnSet(f, R) = u[R]
    BY SumIsTable
  <1> HIDE DEF t, R, u
  <1>4. u[R] = t[R]
    BY <1>1, <1>2, TablesAgree
  <1>5. t[S] = IF S = {} THEN 0 ELSE f[FirstOf(S)] + t[S \ {FirstOf(S)}]
    BY <1>2 DEF IsTable
  <1> QED
    BY <1>3, <1>4, <1>5 DEF R

\* Nothing adds up to nothing.
LEMMA SumEmpty == \A f : SumFunctionOnSet(f, {}) = 0
  BY SumStep, FS_EmptySet

\* A sum of naturals is a natural.
LEMMA SumType ==
    ASSUME NEW f, NEW S, IsFiniteSet(S), \A x \in S : f[x] \in Nat
    PROVE  SumFunctionOnSet(f, S) \in Nat
  <1> DEFINE Family == {T \in SUBSET S : SumFunctionOnSet(f, T) \notin Nat}
  <1> SUFFICES ASSUME Family # {} PROVE FALSE
    OBVIOUS
  <1>0. Family \in SUBSET (SUBSET S)
    OBVIOUS
  <1>1. PICK T \in Family : \A U \in Family : ~(U \subseteq T /\ U # T)
    <2> HIDE DEF Family
    <2> QED
      BY <1>0, MinimalSubset
  <1>2. T \in SUBSET S /\ IsFiniteSet(T) /\ SumFunctionOnSet(f, T) \notin Nat
    BY FS_Subset
  <1>3. T # {}
    BY <1>2, SumEmpty
  <1>4. FirstOf(T) \in T
    BY <1>3, FirstFacts
  <1>5. SumFunctionOnSet(f, T \ {FirstOf(T)}) \in Nat
    BY <1>1, <1>2, <1>4
  <1>6. SumFunctionOnSet(f, T) = f[FirstOf(T)] + SumFunctionOnSet(f, T \ {FirstOf(T)})
    BY <1>2, <1>3, SumStep
  <1>7. f[FirstOf(T)] \in Nat
    BY <1>2, <1>4
  <1> QED
    BY <1>2, <1>5, <1>6, <1>7


----------------------------------------------------------------------------
(* The scorer and the treasury agent.                                      *)

Wallet == FinanceTypes /\ balance \in Nat

\* A payment is confirmed only when the wallet holds its price.
LEMMA WalletStep == ASSUME FInv, Wallet, [Next]_vars PROVE Wallet'
<1>1. FinanceTypes'
  BY StepFInv DEF FInv
<1>2. CASE PaymentLogged
  <2>1. balance >= Amount /\ balance' = balance - Amount /\ Amount \in Nat
    BY <1>2, FinanceAssumption DEF PaymentLogged
  <2> QED
    BY <1>1, <2>1 DEF Wallet
<1>3. CASE UNCHANGED balance
  BY <1>1, <1>3 DEF Wallet
<1> QED
  BY <1>2, <1>3
     DEF Next, vars, Tick, Sampled, PaymentDropped, EventLogged, ScoringFallback, RiskScoring,
         TreasuryWakes, TreasuryAnswered, TreasuryFails, Concludes, TreasuryRecovers,
         InvoiceDue, InvoiceAnnounced

\* What was spent over some places of the payment log is an amount.
LEMMA LamportsType ==
    ASSUME FinanceTypes, NEW places \in SUBSET DOMAIN paymentLog
    PROVE  Lamports(paymentLog, places) \in Nat
<1> DEFINE f == [i \in DOMAIN paymentLog |-> paymentLog[i].lamports]
<1>1. /\ paymentLog \in Seq(Logged) /\ Amount \in Nat
      /\ DOMAIN paymentLog = 1..Len(paymentLog) /\ Len(paymentLog) \in Nat
  BY FinanceAssumption DEF FinanceTypes
<1>2. \A i \in 1..Len(paymentLog) : paymentLog[i] \in Logged
  BY <1>1
<1>3. \A i \in places : f[i] \in Nat
  <2>1. Recorded \subseteq Nat
    BY <1>1 DEF Recorded
  <2> QED
    BY <1>1, <1>2, <2>1 DEF Logged
<1>4. IsFiniteSet(1..Len(paymentLog))
  BY <1>1, FS_Interval
<1>5. IsFiniteSet(places)
  BY <1>1, <1>4, FS_Subset
<1> HIDE DEF f
<1>6. SumFunctionOnSet(f, places) \in Nat
  BY <1>3, <1>5, SumType
<1> QED
  BY <1>6 DEF Lamports, f

\* A quotient below a bound.
LEMMA HalfRunway ==
    ASSUME NEW money \in Nat, NEW spent \in Nat, NEW rate \in Nat, NEW hours \in Nat \ {0},
           rate = spent \div hours, 2 * money < hours * rate
    PROVE  spent > 0 /\ (100 * money) \div spent \in Nat /\ (100 * money) \div spent < 50
<1>1. hours * rate <= spent
  OBVIOUS
<1>2. spent > 0 /\ 2 * money < spent
  <2> DEFINE x == hours * rate
  <2>1. x \in Int /\ 2 * money < x /\ x <= spent
    BY <1>1
  <2> HIDE DEF x
  <2> QED
    BY <2>1
<1> DEFINE q == (100 * money) \div spent
<1>3. q \in Int /\ spent * q <= 100 * money /\ q >= 0
  BY <1>2
<1> HIDE DEF q
<1>4. ASSUME q >= 50 PROVE FALSE
  <2>1. spent * q >= spent * 50
    BY <1>2, <1>3, <1>4
  <2>2. spent * 50 > 100 * money
    BY <1>2
  <2> DEFINE y == spent * q
             z == spent * 50
  <2>3. y \in Int /\ z \in Int /\ y <= 100 * money /\ y >= z /\ z > 100 * money
    BY <1>3, <2>1, <2>2
  <2> HIDE DEF y, z
  <2> QED
    BY <2>3
<1> QED
  BY <1>2, <1>3, <1>4 DEF q

\* The agent's critical runway always costs more than half of the runway
\* score, for every log, log size, balance and time.
THEOREM RunwaysAgree == Spec => []CriticalIsScored
<1>1. ASSUME Wallet PROVE CriticalIsScored
  <2> DEFINE last == Since(paymentLog, Day, clock)
             spent == Lamports(paymentLog, last)
             burn == BurnRate(paymentLog, clock)
  <2>1. spent \in Nat /\ balance \in Nat /\ Day \in Nat \ {0} /\ burn = spent \div Day
    BY <1>1, LamportsType, DayAssumption DEF Wallet, Since, BurnRate
  <2>2. burn \in Nat
    <3> HIDE DEF spent, burn
    <3> QED
      BY <2>1
  <2> SUFFICES ASSUME RunwayStatus(balance, burn) = "critical"
               PROVE  RunwayScore(paymentLog, balance, clock) < 50
    BY DEF CriticalIsScored
  <2>3. RunwayScore(paymentLog, balance, clock)
          = IF spent = 0 THEN 100 ELSE Clamp((100 * balance) \div spent)
    BY DEF RunwayScore
  <2> HIDE DEF spent, burn
  <2>4. 2 * balance < Day * burn
    BY <2>1, <2>2 DEF RunwayStatus
  <2>5. /\ spent > 0 /\ (100 * balance) \div spent \in Nat
        /\ (100 * balance) \div spent < 50
    BY <2>1, <2>2, <2>4, HalfRunway
  <2> DEFINE q == (100 * balance) \div spent
  <2>6. RunwayScore(paymentLog, balance, clock) = Clamp(q) /\ q \in Nat /\ q < 50
    BY <2>1, <2>3, <2>5
  <2> HIDE DEF q
  <2> QED
    BY <2>6 DEF Clamp
<1>2. Init => FInv /\ Wallet
  <2>1. Init => FInv
    BY InitFInv
  <2>2. Init => balance \in Nat
    BY FinanceAssumption DEF Init
  <2> QED
    BY <2>1, <2>2 DEF FInv, Wallet
<1>3. FInv /\ Wallet /\ [Next]_vars => FInv' /\ Wallet'
  BY StepFInv, WalletStep
<1> QED
  BY <1>1, <1>2, <1>3, PTL DEF Spec

\* A payment now is one more recent payment, and no more of the days before.
LEMMA PaidNow ==
    ASSUME FinanceTypes, NEW e \in [id : {0}, at : {clock}, provider : Providers,
                                    lamports : Recorded, success : {TRUE}]
    PROVE  LET recent(log) == Cardinality(Since(log, 3 * Day, clock))
               older(log) == Cardinality(Between(log, 6, 3, clock))
           IN  /\ recent(Append(paymentLog, e)) = recent(paymentLog) + 1
               /\ older(Append(paymentLog, e)) = older(paymentLog)
               /\ recent(paymentLog) \in Nat /\ older(paymentLog) \in Nat
<1> DEFINE log == paymentLog
           new == Append(log, e)
           n == Len(log)
<1>1. /\ log \in Seq(Logged) /\ n \in Nat /\ DOMAIN log = 1..n /\ DOMAIN new = 1..(n + 1)
      /\ new[n + 1] = e /\ \A i \in 1..n : new[i] = log[i]
      /\ Day \in Nat \ {0} /\ clock \in Nat /\ e.at = clock
  BY DayAssumption DEF FinanceTypes
<1> HIDE DEF log, new, n
<1>2. \A i \in 1..n : log[i].at \in Nat
  <2>1. \A i \in 1..n : log[i] \in Logged
    BY <1>1 DEF n
  <2> QED
    BY <2>1 DEF Logged
<1>3. Since(new, 3 * Day, clock) = Since(log, 3 * Day, clock) \cup {n + 1}
  BY <1>1, <1>2 DEF Since
<1>4. n + 1 \notin Since(log, 3 * Day, clock)
  BY <1>1 DEF Since
<1>5. Between(new, 6, 3, clock) = Between(log, 6, 3, clock)
  BY <1>1, <1>2 DEF Between
<1>6. IsFiniteSet(1..n)
  BY <1>1, FS_Interval
<1>7. IsFiniteSet(Since(log, 3 * Day, clock)) /\ IsFiniteSet(Between(log, 6, 3, clock))
  <2>1. Since(log, 3 * Day, clock) \in SUBSET (1..n) /\ Between(log, 6, 3, clock) \in SUBSET (1..n)
    BY <1>1 DEF Since, Between
  <2> QED
    BY <1>6, <2>1, FS_Subset
<1> QED
  BY <1>3, <1>4, <1>5, <1>7, FS_AddElement, FS_CardinalityType DEF log, new

\* One more recent payment never makes the label worse.
LEMMA TrendMonotone ==
    ASSUME NEW recent \in Nat, NEW older \in Nat, NEW a, NEW b,
           TrendOf(recent + 1, older, a, b) = "declining"
    PROVE  TrendOf(recent, older, a, b) = "declining"
<1> DEFINE fewer == IF a < b THEN 1 ELSE 0
           more == IF a > b + 1 THEN 1 ELSE 0
<1>1. fewer \in {0, 1} /\ more \in {0, 1}
  OBVIOUS
<1>2. \A r \in Nat : TrendOf(r, older, a, b) =
        LET better == fewer + (IF 10 * r > 12 * older THEN 1 ELSE 0)
            worse == more + (IF 10 * r < 7 * older THEN 1 ELSE 0)
        IN  IF better = worse THEN "stable"
            ELSE IF better > worse THEN "improving" ELSE "declining"
  BY DEF TrendOf
<1> HIDE DEF fewer, more
<1> QED
  BY <1>1, <1>2

\* No log, event history or price makes a payment turn the label to declining.
THEOREM PayingNeverDeclines == Spec => []PayingIsNoDecline
<1>1. ASSUME FInv PROVE PayingIsNoDecline
  <2>1. ASSUME NEW p \in Providers,
               Trend(Append(paymentLog, Payment(0, clock, p)), complianceLog, clock) = "declining"
        PROVE  Trend(paymentLog, complianceLog, clock) = "declining"
    <3> DEFINE e == Payment(0, clock, p)
               a == Penalty(complianceLog, Since(complianceLog, 3 * Day, clock))
               b == Penalty(complianceLog, Between(complianceLog, 6, 3, clock))
               recent(log) == Cardinality(Since(log, 3 * Day, clock))
               older(log) == Cardinality(Between(log, 6, 3, clock))
    <3>1. \A log : Trend(log, complianceLog, clock) = TrendOf(recent(log), older(log), a, b)
      BY DEF Trend
    <3>2. /\ recent(Append(paymentLog, e)) = recent(paymentLog) + 1
          /\ older(Append(paymentLog, e)) = older(paymentLog)
          /\ recent(paymentLog) \in Nat /\ older(paymentLog) \in Nat
      <4>1. e \in [id : {0}, at : {clock}, provider : Providers,
                   lamports : Recorded, success : {TRUE}]
        BY DEF Payment, Recorded
      <4> HIDE DEF e
      <4> QED
        BY <1>1, <4>1, PaidNow DEF FInv
    <3> HIDE DEF a, b, recent, older
    <3> QED
      BY <2>1, <3>1, <3>2, TrendMonotone
  <2> QED
    BY <2>1 DEF PayingIsNoDecline
<1> QED
  BY <1>1, InitFInv, StepFInv, PTL DEF Spec
----------------------------------------------------------------------------
(* Types of the rest: no stamp is later than the clock, the wallet never   *)
(* holds more than it started with, the logs keep their sizes.             *)

Flags ==
    /\ report \in {NoReport, TRUE, FALSE} /\ analysis \in Statuses \cup {NoAnalysis}
    /\ ready \in BOOLEAN /\ throttled \in BOOLEAN /\ reduced \in BOOLEAN
    /\ worker.pc = "asking" => worker.fallback.status \in Statuses

Stamped ==
    /\ clock \in 0..MaxTime /\ flight \in Seq(0..clock)
    /\ complianceLog \in Seq([at : 0..clock, severity : Severities])
    /\ Len(complianceLog) <= settings.events /\ Len(paymentLog) <= PaymentLogMax
    /\ \E b \in Balances : balance \in 0..b

\* What was stamped before is stamped before a later time.
LEMMA StampsLater ==
    ASSUME NEW S, NEW T, S \subseteq T, NEW s \in Seq(S)
    PROVE  s \in Seq(T)
OBVIOUS

LEMMA FallbackStatus ==
    ASSUME NEW payments, NEW b, NEW risky, NEW now
    PROVE  FallbackAnalysis(payments, b, risky, now).status \in Statuses
<1> DEFINE burn == BurnRate(payments, now)
<1>1. FallbackAnalysis(payments, b, risky, now).status = RunwayStatus(b, burn)
  BY DEF FallbackAnalysis
<1> HIDE DEF burn
<1>2. RunwayStatus(b, burn) \in {"healthy", "warning", "critical"}
  BY DEF RunwayStatus
<1> QED
  BY <1>1, <1>2 DEF Statuses

LEMMA InitRest == ASSUME Init PROVE Flags /\ Stamped
<1>1. Flags
  <2>1. worker.pc = "waiting"
    BY DEF Init, Waiting
  <2> QED
    BY <2>1 DEF Init, Flags
<1>2. Stamped
  <2>1. /\ clock = 0 /\ balance \in Balances /\ flight = <<>> /\ paymentLog = <<>>
        /\ complianceLog = <<>> /\ settings.events \in Nat
    BY FinanceAssumption DEF Init
  <2>2. MaxTime \in Nat /\ PaymentLogMax \in Nat /\ Balances \subseteq Nat
    BY FinanceAssumption
  <2>3. balance \in 0..balance
    BY <2>1, <2>2
  <2> QED
    BY <2>1, <2>2, <2>3 DEF Stamped
<1> QED
  BY <1>1, <1>2

LEMMA StepFlags == ASSUME Flags, [Next]_vars PROVE Flags'
<1>1. CASE UNCHANGED <<ready, advice>>
  BY <1>1 DEF Flags, advice
<1>2. CASE Tick \/ Sampled \/ PaymentDropped \/ InvoiceDue \/ InvoiceAnnounced \/ UNCHANGED vars
  BY <1>1, <1>2 DEF Tick, Sampled, PaymentDropped, InvoiceDue, InvoiceAnnounced, vars
<1>3. CASE PaymentLogged \/ EventLogged \/ ScoringFallback
  <2>1. ready' \in BOOLEAN /\ UNCHANGED advice
    BY <1>3 DEF PaymentLogged, EventLogged, ScoringFallback
  <2> QED
    BY <2>1 DEF Flags, advice
<1>4. CASE RiskScoring
  <2>1. report' \in BOOLEAN /\ UNCHANGED <<ready, worker, analysis, throttled, reduced>>
    <3>1. PICK b \in BalanceRead : report' =
             (Shown(Overall(paymentLog, complianceLog, b, clock)) < 50 * Scale)
      BY <1>4 DEF RiskScoring
    <3> DEFINE low == Shown(Overall(paymentLog, complianceLog, b, clock)) < 50 * Scale
    <3>2. low \in BOOLEAN
      OBVIOUS
    <3>3. report' = low
      BY <3>1
    <3> HIDE DEF low
    <3> QED
      BY <1>4, <3>2, <3>3 DEF RiskScoring
  <2> QED
    BY <2>1 DEF Flags
<1>5. CASE TreasuryWakes
  <2>1. PICK b \in BalanceRead : worker' =
          [pc |-> "asking", fallback |-> FallbackAnalysis(paymentLog, b, report = TRUE, clock)]
    BY <1>5 DEF TreasuryWakes
  <2>2. worker'.fallback.status \in Statuses
    <3>1. worker'.fallback = FallbackAnalysis(paymentLog, b, report = TRUE, clock)
      BY <2>1
    <3> QED
      BY <3>1, FallbackStatus
  <2>3. UNCHANGED <<ready, report, analysis, throttled, reduced>> /\ Statuses' = Statuses
    BY <1>5 DEF TreasuryWakes, Statuses
  <2> QED
    BY <2>2, <2>3 DEF Flags
<1>6. ASSUME NEW a, Concludes(a), a.status \in Statuses PROVE Flags'
  <2>1. analysis' = a.status /\ worker'.pc = "applying" /\ UNCHANGED <<ready, report>>
    BY <1>6 DEF Concludes
  <2>2. throttled' \in BOOLEAN /\ reduced' \in BOOLEAN
    BY <1>6 DEF Concludes
  <2> QED
    BY <1>6, <2>1, <2>2 DEF Flags, Statuses
<1>7. CASE TreasuryAnswered
  <2>1. PICK answer \in Answers : Concludes(ParseLlmResponse(answer))
    BY <1>7 DEF TreasuryAnswered
  <2>2. ParseLlmResponse(answer).status \in Statuses
    BY DEF ParseLlmResponse, Statuses
  <2> QED
    BY <1>6, <2>1, <2>2
<1>8. CASE TreasuryFails
  BY <1>6, <1>8 DEF TreasuryFails, Flags
<1>9. CASE TreasuryRecovers
  <2>1. worker'.pc = "waiting" /\ UNCHANGED <<ready, report, analysis>>
    BY <1>9 DEF TreasuryRecovers, Waiting
  <2>2. throttled' \in BOOLEAN /\ reduced' \in BOOLEAN
    BY <1>9 DEF TreasuryRecovers, Reset
  <2> QED
    BY <2>1, <2>2 DEF Flags, Statuses
<1> QED
  BY <1>1, <1>2, <1>3, <1>4, <1>5, <1>7, <1>8, <1>9 DEF Next

LEMMA StepStamped == ASSUME FInv, Stamped, [Next]_vars PROVE Stamped'
<1>1. /\ clock \in Nat /\ MaxTime \in Nat /\ flight \in Seq(0..clock) /\ PaymentLogMax \in Nat
      /\ paymentLog \in Seq(Logged)
      /\ complianceLog \in Seq([at : 0..clock, severity : Severities])
  BY FinanceAssumption DEF FInv, FinanceTypes, Stamped
<1>2. CASE Tick
  <2>1. clock' \in 0..MaxTime /\ 0..clock \subseteq 0..clock'
    BY <1>1, <1>2 DEF Tick, Stamped
  <2>2. /\ flight \in Seq(0..clock')
        /\ complianceLog \in Seq([at : 0..clock', severity : Severities])
    <3>1. [at : 0..clock, severity : Severities] \subseteq [at : 0..clock', severity : Severities]
      BY <2>1
    <3> HIDE <1>2
    <3> QED
      BY <1>1, <2>1, <3>1, StampsLater
  <2> QED
    BY <1>2, <2>1, <2>2 DEF Tick, logs, Stamped
<1>3. CASE Sampled
  <2>1. Append(flight, clock) \in Seq(0..clock)
    BY <1>1, AppendFacts
  <2> QED
    BY <1>3, <2>1 DEF Sampled, Stamped
<1>4. CASE PaymentLogged
  <2>1. PICK p \in Providers : paymentLog' = Kept(Append(paymentLog,
            Payment(Cardinality(confirmed) + 1, Head(flight), p)))
    BY <1>4 DEF PaymentLogged
  <2> DEFINE entry == Payment(Cardinality(confirmed) + 1, Head(flight), p)
  <2>2. flight # <<>> /\ flight' = Tail(flight) /\ balance >= Amount /\ balance' = balance - Amount
        /\ UNCHANGED <<settings, clock, complianceLog>>
    BY <1>4 DEF PaymentLogged
  <2>3. flight' \in Seq(0..clock) /\ Head(flight) \in 0..clock
    BY <1>1, <2>2, TailFacts
  <2>4. entry \in Logged
    <3>1. Cardinality(confirmed) \in Nat
      BY FS_CardinalityType DEF FInv, Numbered
    <3> QED
      BY <1>1, <2>3, <3>1 DEF Payment, Logged, Recorded
  <2> HIDE DEF entry
  <2>5. Len(paymentLog') <= PaymentLogMax
    <3> DEFINE longer == Append(paymentLog, entry)
    <3>1. longer \in Seq(Logged) /\ Len(longer) = Len(paymentLog) + 1 /\ Len(paymentLog) \in Nat
      BY <1>1, <2>4, AppendFacts
    <3>2. longer # <<>> /\ paymentLog' = Kept(longer)
      BY <2>1, <3>1 DEF entry
    <3> HIDE DEF longer
    <3>3. Len(Tail(longer)) = Len(longer) - 1
      BY <3>1, <3>2, TailFacts
    <3> QED
      BY <1>1, <3>1, <3>2, <3>3 DEF Kept, Stamped
  <2>6. \E b \in Balances : balance' \in 0..b
    <3>1. PICK b \in Balances : balance \in 0..b
      BY DEF Stamped
    <3>2. b \in Nat /\ Amount \in Nat
      BY FinanceAssumption
    <3>3. balance' \in 0..b
      BY <2>2, <3>1, <3>2
    <3> QED
      BY <3>3
  <2> QED
    BY <1>1, <2>2, <2>3, <2>5, <2>6 DEF Stamped
<1>5. CASE PaymentDropped
  <2>1. Tail(flight) \in Seq(0..clock)
    BY <1>1, <1>5, TailFacts DEF PaymentDropped
  <2> QED
    BY <1>5, <2>1 DEF PaymentDropped, Stamped
<1>6. CASE EventLogged
  <2>1. PICK s \in Severities : complianceLog' = Append(complianceLog, [at |-> clock, severity |-> s])
    BY <1>6 DEF EventLogged
  <2>2. [at |-> clock, severity |-> s] \in [at : 0..clock, severity : Severities]
    BY <1>1
  <2>3. /\ complianceLog' \in Seq([at : 0..clock, severity : Severities])
        /\ Len(complianceLog') = Len(complianceLog) + 1 /\ Len(complianceLog) \in Nat
    BY <1>1, <2>1, <2>2, AppendFacts
  <2>4. settings.events \in Nat /\ Len(complianceLog) < settings.events
        /\ UNCHANGED <<settings, clock, balance, flight, paymentLog>>
    BY <1>6 DEF EventLogged, FInv, FinanceTypes
  <2> QED
    BY <2>3, <2>4 DEF Stamped
<1>7. CASE UNCHANGED <<settings, clock, balance, flight, paymentLog, complianceLog>>
  BY <1>7 DEF Stamped
<1>8. CASE ScoringFallback \/ RiskScoring \/ InvoiceDue \/ InvoiceAnnounced \/ UNCHANGED vars
  BY <1>7, <1>8 DEF ScoringFallback, RiskScoring, InvoiceDue, InvoiceAnnounced, vars, logs
<1>9. CASE TreasuryWakes \/ TreasuryAnswered \/ TreasuryFails \/ TreasuryRecovers
  BY <1>7, <1>9 DEF TreasuryWakes, TreasuryAnswered, TreasuryFails, Concludes, TreasuryRecovers, logs
<1> QED
  BY <1>2, <1>3, <1>4, <1>5, <1>6, <1>8, <1>9 DEF Next

\* The financial workers keep their types: the two logs keep their sizes, no
\* stamp is later than the clock, the wallet is never overdrawn.
THEOREM FinanceTypeCorrect == Spec => []TypeOK
<1>1. ASSUME FInv, Recovered, Flags, Stamped PROVE TypeOK
  <2>1. {ready, throttled, reduced} \subseteq BOOLEAN
    BY <1>1 DEF Flags
  <2> QED
    BY <1>1, <2>1 DEF FInv, FinanceTypes, Recovered, Flags, Stamped, TypeOK
<1>2. Init => FInv /\ Recovered /\ Flags /\ Stamped
  BY InitFInv, InitRecovered, InitRest
<1>3. FInv /\ Recovered /\ Flags /\ Stamped /\ [Next]_vars => (FInv /\ Recovered /\ Flags /\ Stamped)'
  BY StepFInv, StepRecovered, StepFlags, StepStamped
<1> QED
  BY <1>1, <1>2, <1>3, PTL DEF Spec

----------------------------------------------------------------------------
(* The scores are percentages: the code clamps every dimension and the     *)
(* overall score once more, and RiskScorer, which leaves that out, shows   *)
(* that nothing is ever cut.                                               *)

LEMMA MaxIn ==
    \A S : IsFiniteSet(S) /\ S \subseteq Int /\ S # {}
              => Max(S) \in S /\ \A x \in S : x <= Max(S)
<1> SUFFICES ASSUME NEW S, IsFiniteSet(S) /\ S # {}
             PROVE  S \subseteq Int => Max(S) \in S /\ \A x \in S : x <= Max(S)
  OBVIOUS
<1> DEFINE Family == {T \in SUBSET S : T # {} /\ ~\E x \in T : \A y \in T : x >= y}
<1>1. ASSUME S \subseteq Int PROVE Family = {}
  <2> SUFFICES ASSUME Family # {} PROVE FALSE
    OBVIOUS
  <2>0. Family \in SUBSET (SUBSET S)
    OBVIOUS
  <2>1. PICK T \in Family : \A U \in Family : ~(U \subseteq T /\ U # T)
    <3> HIDE DEF Family
    <3> QED
      BY <2>0, MinimalSubset
  <2>2. PICK x \in T : TRUE
    OBVIOUS
  <2>3. CASE T = {x}
    BY <1>1, <2>1, <2>3
  <2>4. CASE T # {x}
    <3> DEFINE U == T \ {x}
    <3>1. U # {} /\ U \in SUBSET S /\ U \subseteq T /\ U # T
      BY <2>2, <2>4
    <3>2. PICK m \in U : \A y \in U : m >= y
      BY <2>1, <3>1
    <3>3. \E z \in T : \A y \in T : z >= y
      <4>1. m \in Int /\ x \in Int /\ T \subseteq Int /\ m \in T /\ x \in T
        BY <1>1, <2>2
      <4>2. CASE m >= x
        BY <3>2, <4>1, <4>2
      <4>3. CASE x >= m
        BY <3>2, <4>1, <4>3
      <4> QED
        BY <4>1, <4>2, <4>3
    <3> QED
      BY <3>3
  <2> QED
    BY <2>3, <2>4
<1> SUFFICES ASSUME S \subseteq Int PROVE Max(S) \in S /\ \A x \in S : x <= Max(S)
  OBVIOUS
<1>2. \E x \in S : \A y \in S : x >= y
  BY <1>1
<1>3. Max(S) \in S /\ \A y \in S : Max(S) >= y
  BY <1>2 DEF Max
<1> QED
  BY <1>3

LEMMA ClampType == ASSUME NEW v \in Int PROVE Clamp(v) \in 0..100
BY DEF Clamp

LEMMA Percent ==
    ASSUME NEW a \in Nat, NEW b \in Nat \ {0}, a <= 100 * b
    PROVE  a \div b \in 0..100
<1> DEFINE q == a \div b
<1>1. q \in Int /\ q >= 0 /\ b * q <= a
  OBVIOUS
<1> HIDE DEF q
<1>2. ASSUME q > 100 PROVE FALSE
  <2>1. b * q >= b * 101
    BY <1>1, <1>2
  <2> DEFINE y == b * q
  <2>2. y \in Int /\ y >= b * 101 /\ y <= a
    BY <1>1, <2>1
  <2> HIDE DEF y
  <2> QED
    BY <2>2
<1> QED
  BY <1>1, <1>2 DEF q

LEMMA FiniteBelow == ASSUME NEW m \in Nat, NEW S \in SUBSET (0..m) PROVE IsFiniteSet(S)
<1>1. IsFiniteSet(0..m)
  BY FS_Interval
<1> QED
  BY <1>1, FS_Subset

LEMMA TopOfHundred == ASSUME NEW P, P \subseteq 1..100 PROVE Max({0} \cup P) \in 0..100
<1> DEFINE S == {0} \cup P
<1>1. S \in SUBSET (0..100) /\ S # {} /\ S \subseteq Int
  OBVIOUS
<1> HIDE DEF S
<1>2. IsFiniteSet(S)
  BY <1>1, FiniteBelow
<1>3. Max(S) \in S
  BY <1>1, <1>2, MaxIn
<1> QED
  BY <1>1, <1>3 DEF S

LEMMA SteadinessType == ASSUME NEW f, NEW spread PROVE Steadiness(f, spread) \in 0..100
BY TopOfHundred, Zenon DEF Steadiness

\* A sum of at most c for each element.
LEMMA SumBounded ==
    ASSUME NEW f, NEW S, IsFiniteSet(S), NEW c \in Nat, \A x \in S : f[x] \in 0..c
    PROVE  SumFunctionOnSet(f, S) \in 0..(c * Cardinality(S))
  <1> DEFINE Family == {T \in SUBSET S : SumFunctionOnSet(f, T) \notin 0..(c * Cardinality(T))}
  <1> SUFFICES ASSUME Family # {} PROVE FALSE
    OBVIOUS
  <1>0. Family \in SUBSET (SUBSET S)
    OBVIOUS
  <1>1. PICK T \in Family : \A U \in Family : ~(U \subseteq T /\ U # T)
    <2> HIDE DEF Family
    <2> QED
      BY <1>0, MinimalSubset
  <1>2. T \in SUBSET S /\ IsFiniteSet(T) /\ SumFunctionOnSet(f, T) \notin 0..(c * Cardinality(T))
    BY FS_Subset
  <1>3. T # {}
    BY <1>2, SumEmpty, FS_EmptySet
  <1> DEFINE x == FirstOf(T)
             R == T \ {x}
  <1>4. x \in T
    BY <1>3, FirstFacts
  <1>5. SumFunctionOnSet(f, R) \in 0..(c * Cardinality(R))
    BY <1>1, <1>2, <1>4
  <1>6. SumFunctionOnSet(f, T) = f[x] + SumFunctionOnSet(f, R)
    BY <1>2, <1>3, SumStep
  <1>7. f[x] \in 0..c
    BY <1>2, <1>4
  <1>8. Cardinality(R) = Cardinality(T) - 1 /\ Cardinality(T) \in Nat /\ Cardinality(R) \in Nat
    BY <1>2, <1>4, FS_RemoveElement, FS_CardinalityType
  <1>9. c * Cardinality(T) = c * Cardinality(R) + c
    BY <1>8
  <1> QED
    BY <1>2, <1>5, <1>6, <1>7, <1>8, <1>9

\* Finitely many entries have finitely many of anything.
LEMMA FiniteValues ==
    ASSUME NEW S, IsFiniteSet(S), NEW f
    PROVE  IsFiniteSet({f[x] : x \in S})
<1> DEFINE T == {f[x] : x \in S}
           g == [x \in S |-> f[x]]
<1>1. g \in Surjection(S, T)
  BY DEF Surjection
<1> QED
  BY <1>1, FS_Surjection

EntriesOf(D, who, p) == {i \in D : who[i] = p}

\* The sum of squares is at most the square of the sum: the concentration
\* index of payments over providers.
LEMMA SquaresBounded ==
    ASSUME NEW D, IsFiniteSet(D), NEW who, NEW P, IsFiniteSet(P), \A i \in D : who[i] \in P,
           NEW f, \A p \in P : f[p] = Cardinality(EntriesOf(D, who, p))
                                     * Cardinality(EntriesOf(D, who, p))
    PROVE  SumFunctionOnSet(f, P) \in 0..(Cardinality(D) * Cardinality(D))
<1> DEFINE places(T) == {i \in D : who[i] \in T}
           of(T) == Cardinality(places(T))
           at(p) == EntriesOf(D, who, p)
           count(p) == Cardinality(at(p))
           Family == {T \in SUBSET P : SumFunctionOnSet(f, T) \notin 0..(of(T) * of(T))}
<1>1. Family = {}
  <2> SUFFICES ASSUME Family # {} PROVE FALSE
    OBVIOUS
  <2>0. Family \in SUBSET (SUBSET P)
    OBVIOUS
  <2>1. PICK T \in Family : \A U \in Family : ~(U \subseteq T /\ U # T)
    <3> HIDE DEF Family
    <3> QED
      BY <2>0, MinimalSubset
  <2>2. T \in SUBSET P /\ IsFiniteSet(T) /\ SumFunctionOnSet(f, T) \notin 0..(of(T) * of(T))
    BY FS_Subset
  <2>3. \A U \in SUBSET D : IsFiniteSet(U) /\ Cardinality(U) \in Nat
    BY FS_Subset, FS_CardinalityType
  <2>4. \A U : of(U) \in Nat /\ IsFiniteSet(places(U)) /\ count(U) \in Nat /\ IsFiniteSet(at(U))
    BY <2>3 DEF EntriesOf
  <2>5. T # {}
    <3>1. ASSUME T = {} PROVE SumFunctionOnSet(f, T) \in 0..(of(T) * of(T))
      <4> DEFINE n == of(T)
      <4>1. n \in Nat
        BY <2>4
      <4>2. SumFunctionOnSet(f, T) = 0
        BY <3>1, SumEmpty
      <4> HIDE DEF n
      <4>3. n * n \in Nat
        BY <4>1
      <4> QED
        BY <4>2, <4>3 DEF n
    <3> QED
      BY <2>2, <3>1
  <2> DEFINE x == FirstOf(T)
             R == T \ {x}
  <2>6. x \in T /\ x \in P
    BY <2>2, <2>5, FirstFacts
  <2>7. SumFunctionOnSet(f, R) \in 0..(of(R) * of(R))
    <3>1. R \in SUBSET P /\ R \subseteq T /\ R # T
      BY <2>2, <2>6
    <3> HIDE DEF R, of
    <3> QED
      BY <2>1, <3>1
  <2>8. SumFunctionOnSet(f, T) = f[x] + SumFunctionOnSet(f, R)
    BY <2>2, <2>5, SumStep
  <2>9. f[x] = count(x) * count(x)
    BY <2>6
  <2>10. of(T) = of(R) + count(x)
    <3>1. places(T) = places(R) \cup at(x) /\ places(R) \cap at(x) = {}
      BY <2>6 DEF EntriesOf
    <3> HIDE DEF places, at, R, x
    <3>2. Cardinality(places(R) \cup at(x)) = Cardinality(places(R)) + Cardinality(at(x)) - 0
      BY <2>4, <3>1, FS_Union, FS_EmptySet
    <3> QED
      BY <2>4, <3>1, <3>2
  <2> DEFINE a == of(R)
             b == count(x)
             s == SumFunctionOnSet(f, R)
  <2>11. a \in Nat /\ b \in Nat /\ s \in 0..(a * a) /\ of(T) = a + b
         /\ SumFunctionOnSet(f, T) = b * b + s
    BY <2>4, <2>7, <2>8, <2>9, <2>10
  <2> HIDE DEF a, b, s
  <2>12. b * b + s \in 0..((a + b) * (a + b))
    <3>1. (a + b) * (a + b) = a * a + 2 * (a * b) + b * b
      BY <2>11
    <3>2. a * b \in Nat /\ b * b \in Nat /\ a * a \in Nat
      BY <2>11
    <3> QED
      BY <2>11, <3>1, <3>2
  <2> QED
    BY <2>2, <2>11, <2>12
<1>2. SumFunctionOnSet(f, P) \in 0..(of(P) * of(P))
  <2> HIDE DEF of
  <2> QED
    BY <1>1
<1>3. places(P) = D
  OBVIOUS
<1> QED
  BY <1>2, <1>3

\* What the scorer reads: the two logs, stamped no later than now.
History == FinanceTypes /\ Wallet /\ Stamped

LEMMA EntryType == ASSUME NEW S, NEW s \in Seq(S) PROVE \A i \in DOMAIN s : s[i] \in S
OBVIOUS

LEMMA Entries ==
    ASSUME History
    PROVE  /\ Len(paymentLog) \in Nat /\ DOMAIN paymentLog = 1..Len(paymentLog)
           /\ \A i \in DOMAIN paymentLog : paymentLog[i].at \in Nat
           /\ Len(complianceLog) \in Nat /\ DOMAIN complianceLog = 1..Len(complianceLog)
           /\ \A i \in DOMAIN complianceLog :
                 complianceLog[i].at \in Nat /\ complianceLog[i].severity \in 0..3
           /\ IsFiniteSet(DOMAIN paymentLog) /\ IsFiniteSet(DOMAIN complianceLog)
           /\ clock \in Nat /\ Day \in Nat \ {0} /\ Week \in Nat \ {0}
<1>1. /\ paymentLog \in Seq(Logged) /\ clock \in Nat
      /\ complianceLog \in Seq([at : 0..clock, severity : Severities])
  BY DEF History, FinanceTypes, Stamped
<1>2. /\ Len(paymentLog) \in Nat /\ DOMAIN paymentLog = 1..Len(paymentLog)
      /\ Len(complianceLog) \in Nat /\ DOMAIN complianceLog = 1..Len(complianceLog)
  BY <1>1
<1>3. \A i \in DOMAIN paymentLog : paymentLog[i] \in Logged
  BY <1>1
<1>4. \A i \in DOMAIN complianceLog : complianceLog[i] \in [at : 0..clock, severity : Severities]
  BY <1>1, EntryType
<1>5. \A i \in DOMAIN paymentLog : paymentLog[i].at \in Nat
  BY <1>3 DEF Logged
<1>6. \A i \in DOMAIN complianceLog :
         complianceLog[i].at \in Nat /\ complianceLog[i].severity \in 0..3
  <2> SUFFICES ASSUME NEW i \in DOMAIN complianceLog
               PROVE  complianceLog[i].at \in Nat /\ complianceLog[i].severity \in 0..3
    OBVIOUS
  <2>1. complianceLog[i].at \in 0..clock /\ complianceLog[i].severity \in Severities
    BY <1>4
  <2>2. Severities \subseteq 0..3
    BY FinanceAssumption
  <2>3. complianceLog[i].severity \in 0..3
    BY <2>1, <2>2
  <2> DEFINE t == complianceLog[i].at
  <2>4. t \in 0..clock /\ clock \in Nat
    BY <1>1, <2>1
  <2> HIDE DEF t
  <2>5. t \in Nat
    BY <2>4
  <2> QED
    BY <2>3, <2>5 DEF t
<1>7. IsFiniteSet(1..Len(paymentLog)) /\ IsFiniteSet(1..Len(complianceLog))
  BY <1>2, FS_Interval
<1>8. Day \in Nat \ {0} /\ Week \in Nat \ {0}
  BY DayAssumption DEF Week
<1> QED
  BY <1>1, <1>2, <1>5, <1>6, <1>7, <1>8

LEMMA FinancialHealthRange ==
    ASSUME History, NEW b \in BalanceRead
    PROVE  FinancialHealth(paymentLog, b, clock) \in 0..10000
<1>1. RunwayScore(paymentLog, b, clock) \in 0..100
  <2> DEFINE burn == Lamports(paymentLog, Since(paymentLog, Day, clock))
  <2>1. burn \in Nat
    BY LamportsType DEF Since, History
  <2>2. RunwayScore(paymentLog, b, clock) = IF burn = 0 THEN 100 ELSE Clamp((100 * b) \div burn)
    BY DEF RunwayScore
  <2> HIDE DEF burn
  <2>3. b \in Nat
    BY DEF BalanceRead, History, Wallet
  <2>4. burn # 0 => (100 * b) \div burn \in Int
    BY <2>1, <2>3
  <2> QED
    BY <2>2, <2>4, ClampType
<1>2. StabilityScore(paymentLog, clock) \in 0..100
  BY SteadinessType DEF StabilityScore
<1>3. TrendScore(paymentLog, b, clock) \in 0..100
  BY DEF TrendScore
<1> DEFINE x == RunwayScore(paymentLog, b, clock)
           y == StabilityScore(paymentLog, clock)
           z == TrendScore(paymentLog, b, clock)
<1>4. FinancialHealth(paymentLog, b, clock) =
        IF paymentLog = <<>> THEN 50 * 100 ELSE 40 * x + 35 * y + 25 * z
  BY DEF FinancialHealth
<1>5. x \in 0..100 /\ y \in 0..100 /\ z \in 0..100
  BY <1>1, <1>2, <1>3
<1> HIDE DEF x, y, z
<1> QED
  BY <1>4, <1>5

LEMMA OperationalStabilityRange ==
    ASSUME History
    PROVE  OperationalStability(paymentLog, clock) \in 0..10000
<1> DEFINE n == Len(paymentLog)
           week == Since(paymentLog, Week, clock)
           active == Hours(paymentLog, week, clock)
           successful == Cardinality({i \in DOMAIN paymentLog : paymentLog[i].success})
           x == RegularityScore(paymentLog)
           y == Clamp((100 * Cardinality(active)) \div Week)
           z == (100 * successful) \div n
<1>1. OperationalStability(paymentLog, clock) =
        IF n < 2 THEN 50 * 100 ELSE 45 * x + 35 * y + 20 * z
  BY DEF OperationalStability
<1>2. x \in 0..100
  BY SteadinessType DEF RegularityScore
<1>3. y \in 0..100
  <2>1. IsFiniteSet(week)
    BY Entries, FS_Subset DEF Since
  <2>2. IsFiniteSet(active)
    <3> DEFINE f == [i \in week |-> clock - paymentLog[i].at]
    <3>1. active = {f[i] : i \in week}
      BY DEF Hours
    <3> HIDE DEF f, week
    <3> QED
      BY <2>1, <3>1, FiniteValues
  <2> DEFINE k == Cardinality(active)
  <2>3. k \in Nat
    BY <2>2, FS_CardinalityType
  <2> HIDE DEF k
  <2>4. (100 * k) \div Week \in Int
    BY <2>3, Entries
  <2> QED
    BY <2>4, ClampType DEF k
<1>4. n >= 2 => z \in 0..100
  <2>1. IsFiniteSet({i \in DOMAIN paymentLog : paymentLog[i].success})
        /\ successful <= Cardinality(DOMAIN paymentLog)
    BY Entries, FS_Subset
  <2>2. successful \in Nat /\ n \in Nat /\ Cardinality(DOMAIN paymentLog) = n
    <3>1. n \in Nat /\ DOMAIN paymentLog = 1..n
      BY Entries
    <3> HIDE DEF n
    <3>2. Cardinality(1..n) = n
      BY <3>1, FS_Interval
    <3>3. successful \in Nat
      BY <2>1, FS_CardinalityType
    <3> QED
      BY <3>1, <3>2, <3>3
  <2> HIDE DEF successful, n
  <2> SUFFICES ASSUME n >= 2 PROVE (100 * successful) \div n \in 0..100
    OBVIOUS
  <2>3. 100 * successful \in Nat /\ n \in Nat \ {0} /\ 100 * successful <= 100 * n
    BY <2>1, <2>2
  <2> QED
    BY <2>3, Percent
<1>5. n \in Nat
  BY Entries
<1> HIDE DEF n, x, y, z
<1>6. CASE n < 2
  BY <1>1, <1>6
<1>7. CASE n >= 2
  <2>1. x \in 0..100 /\ y \in 0..100 /\ z \in 0..100
    BY <1>2, <1>3, <1>4, <1>7
  <2>2. 45 * x + 35 * y + 20 * z \in 0..10000
    BY <2>1
  <2> QED
    BY <1>1, <1>5, <1>7, <2>2
<1> QED
  BY <1>5, <1>6, <1>7

LEMMA ComplianceRecordRange ==
    ASSUME History
    PROVE  ComplianceRecord(complianceLog, paymentLog, clock) \in 0..10000
<1> DEFINE n == Len(complianceLog)
           transactions == IF paymentLog = <<>> THEN 1 ELSE Len(paymentLog)
           penalty == Penalty(complianceLog, DOMAIN complianceLog)
           x == Clamp(100 - (2000 * n) \div transactions)
           y == IF complianceLog = <<>> THEN 100 ELSE 100 - (10 * penalty) \div n
           z == RecencyScore(complianceLog, clock)
<1>1. ComplianceRecord(complianceLog, paymentLog, clock) = 40 * x + 35 * y + 25 * z
  BY DEF ComplianceRecord
<1>2. n \in Nat /\ transactions \in Nat \ {0} /\ (complianceLog # <<>> => n # 0)
  <2>1. Len(paymentLog) \in Nat /\ n \in Nat
    BY Entries
  <2>2. (paymentLog # <<>> => Len(paymentLog) # 0) /\ (complianceLog # <<>> => n # 0)
    BY DEF History, FinanceTypes, Stamped
  <2> QED
    BY <2>1, <2>2
<1>3. x \in 0..100
  <2> DEFINE v == 100 - (2000 * n) \div transactions
  <2>1. v \in Int
    <3> HIDE DEF n, transactions
    <3> QED
      BY <1>2
  <2>2. x = Clamp(v)
    OBVIOUS
  <2> HIDE DEF v, x
  <2> QED
    BY <2>1, <2>2, ClampType
<1>4. y \in 0..100
  <2> DEFINE f == [i \in DOMAIN complianceLog |-> <<1, 3, 6, 10>>[complianceLog[i].severity + 1]]
  <2>1. ASSUME NEW i \in DOMAIN complianceLog PROVE f[i] \in 0..10
    <3> DEFINE s == complianceLog[i].severity
    <3>1. s \in {0, 1, 2, 3} /\ f[i] = <<1, 3, 6, 10>>[s + 1]
      BY Entries
    <3> HIDE DEF s, f
    <3> QED
      BY <3>1
  <2>2. penalty = SumFunctionOnSet(f, DOMAIN complianceLog)
    BY DEF Penalty
  <2>3. IsFiniteSet(DOMAIN complianceLog)
    BY Entries
  <2>4. Cardinality(DOMAIN complianceLog) = n
    <3>1. DOMAIN complianceLog = 1..n
      BY Entries
    <3> HIDE DEF n
    <3> QED
      BY <1>2, <3>1, FS_Interval
  <2> HIDE DEF f, penalty, n
  <2>5. penalty \in 0..(10 * n)
    BY <2>1, <2>2, <2>3, <2>4, SumBounded
  <2>6. CASE complianceLog # <<>>
    <3>1. n \in Nat \ {0} /\ 10 * penalty \in Nat /\ 10 * penalty <= 100 * n
      BY <1>2, <2>5, <2>6
    <3> DEFINE q == (10 * penalty) \div n
    <3>2. q \in 0..100
      BY <3>1, Percent
    <3>3. y = 100 - q
      BY <2>6
    <3> HIDE DEF q, y
    <3> QED
      BY <3>2, <3>3
  <2> QED
    BY <2>6
<1>5. z \in 0..100
  <2> DEFINE index == {j \in DOMAIN complianceLog : complianceLog[j].severity >= 2}
             severe == {complianceLog[i].at : i \in index}
             quiet == clock - Max(severe)
  <2>1. z = IF severe = {} THEN 100
            ELSE IF quiet < Day THEN 20 ELSE Clamp((100 * quiet) \div Week)
    BY DEF RecencyScore
  <2>2. IsFiniteSet(severe)
    <3>1. IsFiniteSet(index)
      BY Entries, FS_Subset
    <3> DEFINE f == [i \in index |-> complianceLog[i].at]
    <3>2. severe = {f[i] : i \in index}
      OBVIOUS
    <3> HIDE DEF f, index, severe
    <3> QED
      BY <3>1, <3>2, FiniteValues
  <2>3. severe \subseteq Int
    BY Entries
  <2> HIDE DEF severe, z
  <2>4. severe # {} => Max(severe) \in Int
    BY <2>2, <2>3, MaxIn
  <2> HIDE DEF quiet
  <2>5. severe # {} => (100 * quiet) \div Week \in Int
    BY <2>4, Entries DEF quiet
  <2> QED
    BY <2>1, <2>5, ClampType
<1> HIDE DEF x, y, z
<1> QED
  BY <1>1, <1>3, <1>4, <1>5

LEMMA StreakRange ==
    ASSUME History, paymentLog # <<>>
    PROVE  Streak(paymentLog) \in 1..Len(paymentLog)
<1> DEFINE n == Len(paymentLog)
           sorted == ByTime(paymentLog)
           same(i, j) == \A k \in i..j : sorted[k].provider = sorted[i].provider
           runs == {run \in (DOMAIN sorted) \X (DOMAIN sorted) :
                       run[1] <= run[2] /\ same(run[1], run[2])}
           lengths == {run[2] - run[1] + 1 : run \in runs}
<1>1. Streak(paymentLog) = Max(lengths)
  BY DEF Streak
<1>2. DOMAIN sorted = 1..n /\ n \in Nat \ {0}
  <2>1. n \in Nat /\ DOMAIN paymentLog = 1..n
    BY Entries
  <2>2. n # 0
    BY DEF History, FinanceTypes
  <2>3. DOMAIN sorted = DOMAIN paymentLog
    BY DEF ByTime
  <2> QED
    BY <2>1, <2>2, <2>3
<1> HIDE DEF n, sorted
<1>3. lengths \subseteq 1..n
  BY <1>2
<1>4. lengths # {}
  <2>1. same(1, 1)
    OBVIOUS
  <2>2. <<1, 1>> \in runs
    BY <1>2, <2>1
  <2> QED
    BY <2>2
<1> HIDE DEF lengths
<1>5. lengths \subseteq Int /\ lengths \in SUBSET (0..n)
  BY <1>2, <1>3
<1>6. IsFiniteSet(lengths)
  BY <1>2, <1>5, FiniteBelow
<1>7. Max(lengths) \in lengths
  BY <1>4, <1>5, <1>6, MaxIn
<1> QED
  BY <1>1, <1>3, <1>7 DEF n

LEMMA ProviderDiversityRange ==
    ASSUME History
    PROVE  ProviderDiversity(paymentLog) \in 0..10000
<1>0. ASSUME paymentLog = <<>> PROVE ProviderDiversity(paymentLog) = 5000
  BY <1>0 DEF ProviderDiversity
<1> SUFFICES ASSUME paymentLog # <<>> PROVE ProviderDiversity(paymentLog) \in 0..10000
  BY <1>0
<1> DEFINE D == DOMAIN paymentLog
           total == Len(paymentLog)
           who == [i \in D |-> paymentLog[i].provider]
           P == {paymentLog[i].provider : i \in D}
           count(p) == Cardinality({i \in D : paymentLog[i].provider = p})
           unique == Cardinality(P)
           squares == SumFunction([p \in P |-> count(p) * count(p)])
           x == IF unique >= 4 THEN 100 ELSE (90 + 70 * (unique - 1)) \div 3
           y == 100 - (100 * squares) \div (total * total)
           z == 100 - (100 * Streak(paymentLog)) \div total
<1>1. ProviderDiversity(paymentLog) = 40 * x + 40 * y + 20 * z
  BY DEF ProviderDiversity
<1>2. D = 1..total /\ total \in Nat \ {0} /\ IsFiniteSet(D)
  <2>1. total # 0
    BY DEF History, FinanceTypes
  <2> QED
    BY <2>1, Entries
<1>3. P = {who[i] : i \in D}
  OBVIOUS
<1>4. IsFiniteSet(P)
  <2> HIDE DEF D, P, who
  <2> QED
    BY <1>2, <1>3, FiniteValues
<1>5. x \in 0..100
  <2>1. unique \in Nat
    BY <1>4, FS_CardinalityType
  <2>2. unique # 0
    <3>1. paymentLog[1].provider \in P
      BY <1>2
    <3> HIDE DEF P
    <3> QED
      BY <1>4, <3>1, FS_EmptySet
  <2> HIDE DEF unique
  <2>3. CASE unique >= 4
    BY <2>3
  <2>4. CASE unique \in {1, 2, 3}
    BY <2>4
  <2> QED
    BY <2>1, <2>2, <2>3, <2>4
<1>6. y \in 0..100
  <2> DEFINE f == [p \in P |-> count(p) * count(p)]
  <2>1. ASSUME NEW p \in P
        PROVE  f[p] = Cardinality(EntriesOf(D, who, p)) * Cardinality(EntriesOf(D, who, p))
    <3>1. EntriesOf(D, who, p) = {i \in D : paymentLog[i].provider = p}
      BY DEF EntriesOf
    <3> QED
      BY <3>1
  <2>2. squares = SumFunctionOnSet(f, P)
    BY DEF SumFunction
  <2>3. \A i \in D : who[i] \in P
    OBVIOUS
  <2>4. Cardinality(D) = total
    <3> HIDE DEF total, D
    <3>1. Cardinality(1..total) = total
      BY <1>2, FS_Interval
    <3> QED
      BY <1>2, <3>1
  <2>5. squares \in 0..(total * total)
    <3> HIDE DEF f, P, D, who, squares, total
    <3>1. SumFunctionOnSet(f, P) \in 0..(Cardinality(D) * Cardinality(D))
      BY <1>2, <1>4, <2>1, <2>3, SquaresBounded
    <3> QED
      BY <2>2, <2>4, <3>1
  <2> DEFINE area == total * total
             q == (100 * squares) \div area
  <2> HIDE DEF squares, total
  <2>6. area \in Nat \ {0}
    <3>1. total * total > 0
      BY <1>2
    <3> QED
      BY <1>2, <3>1
  <2> HIDE DEF area
  <2>7. 100 * squares \in Nat /\ 100 * squares <= 100 * area
    BY <2>5, <2>6 DEF area
  <2>8. q \in 0..100
    BY <2>6, <2>7, Percent
  <2>9. y = 100 - q
    BY DEF area
  <2> HIDE DEF q, y
  <2> QED
    BY <2>8, <2>9
<1>7. z \in 0..100
  <2> DEFINE s == Streak(paymentLog)
             q == (100 * s) \div total
  <2>1. s \in 1..total
    BY StreakRange
  <2>2. z = 100 - q
    OBVIOUS
  <2> HIDE DEF s, total, z
  <2>3. 100 * s \in Nat /\ 100 * s <= 100 * total
    BY <1>2, <2>1
  <2>4. q \in 0..100
    BY <1>2, <2>3, Percent
  <2> HIDE DEF q
  <2> QED
    BY <2>2, <2>4
<1> HIDE DEF x, y, z
<1> QED
  BY <1>1, <1>5, <1>6, <1>7

Percentage(score, unit) == score \in Nat /\ score <= 100 * unit

\* Every dimension and the overall score of the report the risk worker would
\* make now are percentages, in their units, for both readings of the balance:
\* the outer _clamps of scorer.py:128, 187, 236, 295 and 498 change nothing.
ScoresInRange ==
    \A b \in BalanceRead :
        /\ Percentage(FinancialHealth(paymentLog, b, clock), 100)
        /\ Percentage(OperationalStability(paymentLog, clock), 100)
        /\ Percentage(ComplianceRecord(complianceLog, paymentLog, clock), 100)
        /\ Percentage(ProviderDiversity(paymentLog), 100)
        /\ Percentage(Overall(paymentLog, complianceLog, b, clock), Scale)

LEMMA Weighted ==
    ASSUME NEW v, NEW x, NEW y, NEW z,
           Percentage(v, 100), Percentage(x, 100), Percentage(y, 100), Percentage(z, 100)
    PROVE  Percentage(30 * v + 25 * x + 25 * y + 20 * z, Scale)
BY SMT DEF Percentage, Scale

LEMMA Neutral == Percentage(50 * Scale, Scale)
BY SMT DEF Percentage, Scale

LEMMA HistoryScores ==
    ASSUME History, NEW b \in BalanceRead
    PROVE  /\ Percentage(FinancialHealth(paymentLog, b, clock), 100)
           /\ Percentage(OperationalStability(paymentLog, clock), 100)
           /\ Percentage(ComplianceRecord(complianceLog, paymentLog, clock), 100)
           /\ Percentage(ProviderDiversity(paymentLog), 100)
           /\ Percentage(Overall(paymentLog, complianceLog, b, clock), Scale)
<1> DEFINE v == FinancialHealth(paymentLog, b, clock)
           x == OperationalStability(paymentLog, clock)
           y == ComplianceRecord(complianceLog, paymentLog, clock)
           z == ProviderDiversity(paymentLog)
<1>1. v \in 0..10000
  BY FinancialHealthRange
<1>2. x \in 0..10000 /\ y \in 0..10000 /\ z \in 0..10000
  <2>1. x \in 0..10000
    BY OperationalStabilityRange
  <2>2. y \in 0..10000
    BY ComplianceRecordRange
  <2>3. z \in 0..10000
    BY ProviderDiversityRange
  <2> HIDE DEF x, y, z
  <2> QED
    BY <2>1, <2>2, <2>3
<1>3. Percentage(v, 100)
  <2> HIDE DEF v
  <2> QED
    BY <1>1, SMT DEF Percentage
<1>4. Percentage(x, 100) /\ Percentage(y, 100) /\ Percentage(z, 100)
  <2> HIDE DEF x, y, z
  <2> QED
    BY <1>2, SMT DEF Percentage
<1>5. Percentage(Overall(paymentLog, complianceLog, b, clock), Scale)
  <2> DEFINE w == 30 * v + 25 * x + 25 * y + 20 * z
             o == Overall(paymentLog, complianceLog, b, clock)
  <2>1. o = 50 * Scale \/ o = w
    BY DEF Overall
  <2> HIDE DEF v, x, y, z
  <2>2. Percentage(w, Scale)
    BY <1>3, <1>4, Weighted
  <2> HIDE DEF w, o
  <2>3. Percentage(o, Scale)
    BY <2>1, <2>2, Neutral
  <2> QED
    BY <2>3 DEF o
<1> QED
  BY <1>3, <1>4, <1>5

\* For every log, size of the log, price, balance and time the scores are
\* percentages.
THEOREM ScoresArePercentages == Spec => []ScoresInRange
<1>1. Init => FInv /\ Wallet /\ Stamped
  BY InitFInv, InitRest, FinanceAssumption DEF Wallet, FInv, Init
<1>2. FInv /\ Wallet /\ Stamped /\ [Next]_vars => (FInv /\ Wallet /\ Stamped)'
  BY StepFInv, WalletStep, StepStamped
<1>3. FInv /\ Wallet /\ Stamped => ScoresInRange
  <2> SUFFICES ASSUME FInv, Wallet, Stamped PROVE ScoresInRange
    OBVIOUS
  <2>1. History
    BY DEF History, FInv
  <2> QED
    BY <2>1, HistoryScores DEF ScoresInRange
<1> QED
  BY <1>1, <1>2, <1>3, PTL DEF Spec
=============================================================================
