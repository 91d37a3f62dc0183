------------------------------- MODULE Finance -------------------------------
(***************************************************************************)
(* The bridge's financial workers: payments and compliance events reach    *)
(* the two logs when they are confirmed, stamped with the time of their    *)
(* frame; the risk, the treasury and the invoice worker copy the logs.     *)
(* A step is the code between two awaits.  Rendering takes time, so the    *)
(* clock has moved on when an invoice is done.                             *)
(***************************************************************************)
EXTENDS Treasury

CONSTANTS Settings,             \* what a start may be given, see settings
          Providers,            \* providers paid; the bridge has one
          Amount,               \* lamports paid for a frame
          Severities,           \* severities of compliance events
          Answers,              \* what the model may answer the treasury agent
          PaymentLogMax,        \* _payment_log_max
          MinPayments,          \* _SCORING_MIN_PAYMENTS
          NoReport, NoAnalysis, \* None
          Balances,             \* lamports in the wallet at the start
          MaxTime, MaxPayments, MaxFlight    \* bounds

ASSUME FinanceAssumption ==
    /\ PaymentLogMax \in Nat \ {0}
    /\ Settings \subseteq [interval : Nat \ {0}, ready : Nat, events : Nat]
    /\ {Amount, MinPayments, MaxTime} \subseteq Nat /\ Balances \subseteq Nat
    /\ Severities \subseteq 0..3

VARIABLES
    settings,       \* AUXIN_INVOICE_INTERVAL_H, the 30 s of the scoring fallback, in
                    \* ticks, and a bound on the events
    clock, balance,
    flight,         \* stamps of frames whose payment is queued or submitted
    paymentLog,     \* _payment_log
    complianceLog,  \* _compliance_log
    ready,          \* _scoring_ready
    report,         \* what is read of _latest_risk_report: its score is below 50
    worker,         \* the treasury worker: where it is, what it does if not answered
    analysis,       \* runway_status of _latest_treasury_analysis
    throttled,      \* _oracle_interval_multiplier > 1
    reduced,        \* _payment_lamport_multiplier < 1
    invoicer,       \* the invoice worker: when it wakes, or what it announces
    \* History: payments confirmed, with the time they were logged; every
    \* invoice that has its files, the last named by _latest_invoice_path.
    confirmed, invoices

Interval == settings.interval

logs == <<flight, paymentLog, complianceLog, confirmed>>
advice == <<report, worker, analysis, throttled, reduced>>
billing == <<invoicer, invoices>>
vars == <<settings, clock, balance, logs, ready, advice, billing>>

Waiting == [pc |-> "waiting"]
\* Those of the agent's own rules, and what the model is free to say.
Statuses == {"healthy", "warning", "critical"} \cup {answer.status : answer \in Answers}

TypeOK ==
    /\ clock \in 0..MaxTime /\ \E b \in Balances : balance \in 0..b
    /\ flight \in Seq(0..clock) /\ Len(paymentLog) <= PaymentLogMax
    /\ complianceLog \in Seq([at : 0..clock, severity : Severities])
    /\ Len(complianceLog) <= settings.events
    /\ report \in {NoReport, TRUE, FALSE}
    /\ worker.pc \in {"waiting", "asking", "applying"}
    /\ analysis \in Statuses \cup {NoAnalysis}
    /\ {ready, throttled, reduced} \subseteq BOOLEAN
    /\ invoicer.pc \in {"asleep", "announcing"}

Init ==
    /\ settings \in Settings /\ clock = 0 /\ balance \in Balances
    /\ flight = <<>> /\ paymentLog = <<>> /\ complianceLog = <<>> /\ ready = FALSE
    /\ report = NoReport /\ worker = Waiting /\ analysis = NoAnalysis
    /\ throttled = FALSE /\ reduced = FALSE
    /\ invoicer = [pc |-> "asleep", wake |-> Interval]
    /\ confirmed = {} /\ invoices = <<>>

----------------------------------------------------------------------------
(* Time, frames and the chain.                                             *)

\* A worker that is due runs before the clock passes it by.
Tick ==
    /\ clock < MaxTime /\ clock' = clock + 1
    /\ invoicer.pc = "announcing" \/ clock < invoicer.wake
    /\ UNCHANGED <<settings, balance, logs, ready, advice, billing>>

Sampled ==
    /\ Len(flight) < MaxFlight /\ Cardinality(confirmed) + Len(flight) < MaxPayments
    /\ flight' = Append(flight, clock)
    /\ UNCHANGED <<settings, clock, balance, paymentLog, complianceLog, confirmed, ready, advice, billing>>

\* The arm pays the full amount; what is recorded is seven tenths of it while
\* the treasury holds back.
Payment(id, at, provider) ==
    [id |-> id, at |-> at, provider |-> provider, success |-> TRUE,
     lamports |-> IF reduced THEN (7 * Amount) \div 10 ELSE Amount]

\* The payment worker's append, cut to the newest.  Variant: to one payment fewer.
KeptShort(log) == IF Len(log) >= PaymentLogMax THEN Tail(log) ELSE log
Kept(log) == IF Len(log) > PaymentLogMax THEN Tail(log) ELSE log

PaymentLogged ==
    /\ flight # <<>> /\ balance >= Amount
    /\ flight' = Tail(flight) /\ balance' = balance - Amount
    /\ \E p \in Providers :
          paymentLog' = Kept(Append(paymentLog,
                                    Payment(Cardinality(confirmed) + 1, Head(flight), p)))
    /\ confirmed' = confirmed \cup {[id |-> Cardinality(confirmed) + 1, at |-> Head(flight),
                                     logged |-> clock]}
    /\ ready' = (ready \/ Cardinality(confirmed) + 1 >= MinPayments)
    /\ UNCHANGED <<settings, clock, complianceLog, advice, billing>>

\* Refused by the oracle, or failed.
PaymentDropped ==
    /\ flight # <<>> /\ flight' = Tail(flight)
    /\ UNCHANGED <<settings, clock, balance, paymentLog, complianceLog, confirmed, ready, advice, billing>>

EventLogged ==
    /\ Len(complianceLog) < settings.events
    /\ \E s \in Severities : complianceLog' = Append(complianceLog, [at |-> clock, severity |-> s])
    /\ ready' = TRUE
    /\ UNCHANGED <<settings, clock, balance, flight, paymentLog, confirmed, advice, billing>>

ScoringFallback ==
    /\ ~ready /\ clock >= settings.ready /\ ready' = TRUE
    /\ UNCHANGED <<settings, clock, balance, logs, advice, billing>>

----------------------------------------------------------------------------
(* The risk and the treasury worker.                                       *)

\* _get_balance_sol: a failed request is a balance of zero.
BalanceRead == {balance, 0}

RiskScoring ==
    /\ ready
    /\ \E b \in BalanceRead :
          report' = (Shown(Overall(paymentLog, complianceLog, b, clock)) < 50 * Scale)
    /\ UNCHANGED <<settings, clock, balance, logs, ready, worker, analysis, throttled, reduced, billing>>

\* The call gets copies of the history, the balance and the score: what the
\* agent does without the model is settled by them.
TreasuryWakes ==
    /\ ready /\ worker = Waiting
    /\ \E b \in BalanceRead :
          worker' = [pc |-> "asking",
                     fallback |-> FallbackAnalysis(paymentLog, b, report = TRUE, clock)]
    /\ UNCHANGED <<settings, clock, balance, logs, ready, report, analysis, throttled, reduced, billing>>

\* The actions that are critical and may be executed are, whatever the status.
Orders(a, name) ==
    \E action \in a.actions : action.auto /\ action.priority = "critical" /\ action.name = name
Concludes(a) ==
    /\ analysis' = a.status
    /\ throttled' = (throttled \/ Orders(a, "throttle_inference"))
    /\ reduced' = (reduced \/ Orders(a, "increase_reserve"))
    /\ worker' = [pc |-> "applying"]
    /\ UNCHANGED <<settings, clock, balance, logs, ready, report, billing>>

TreasuryAnswered ==
    worker.pc = "asking" /\ \E answer \in Answers : Concludes(ParseLlmResponse(answer))

\* No key, or three exceptions.
TreasuryFails == worker.pc = "asking" /\ Concludes(worker.fallback)

\* After the broadcasts a healthy runway resets both multipliers.
\* Variant: it resets the first.
ResetThrottle ==
    throttled' = (throttled /\ analysis # "healthy") /\ UNCHANGED reduced
Reset ==
    /\ throttled' = (throttled /\ analysis # "healthy")
    /\ reduced' = (reduced /\ analysis # "healthy")
TreasuryRecovers ==
    /\ worker.pc = "applying" /\ worker' = Waiting /\ Reset
    /\ UNCHANGED <<settings, clock, balance, logs, ready, report, analysis, billing>>

----------------------------------------------------------------------------
(* The invoice worker and the generator.                                   *)

\* generate(): both ends of the period are in it.
\* Variant: the period starts one tick early.
InPeriodEarly(at, now) == now - Interval - 1 <= at /\ at <= now
InPeriod(at, now) == now - Interval <= at /\ at <= now
Generate(now) ==
    [from |-> now - Interval, to |-> now,
     items |-> {paymentLog[i].id : i \in {j \in DOMAIN paymentLog :
                                             InPeriod(paymentLog[j].at, now)}}]

\* render_pdf: a pdflatex that fails gives way to the next engine, one of the
\* others that fails ends the rendering; the page itself is the last resort.
Engine == {"works", "absent", "fails"}
Renders(latex, weasy, kit) ==
    latex = "works" \/ weasy = "works" \/ (weasy = "absent" /\ kit # "fails")

\* The files are written before the next await; without them the worker sleeps on.
Asleep(now) == [pc |-> "asleep", wake |-> now + Interval]
InvoiceDue ==
    /\ invoicer.pc = "asleep" /\ clock >= invoicer.wake
    /\ \E latex, weasy, kit \in Engine :
          IF Renders(latex, weasy, kit)
          THEN /\ invoicer' = [pc |-> "announcing", wake |-> clock]
               /\ invoices' = Append(invoices, Generate(clock))
          ELSE invoicer' = Asleep(clock) /\ UNCHANGED invoices
    /\ UNCHANGED <<settings, clock, balance, logs, ready, advice>>

InvoiceAnnounced ==
    /\ invoicer.pc = "announcing" /\ clock > invoicer.wake /\ invoicer' = Asleep(clock)
    /\ UNCHANGED <<settings, clock, balance, logs, ready, advice, invoices>>

Next ==
    \/ Tick \/ Sampled \/ PaymentLogged \/ PaymentDropped \/ EventLogged \/ ScoringFallback
    \/ RiskScoring \/ TreasuryWakes \/ TreasuryAnswered \/ TreasuryFails \/ TreasuryRecovers
    \/ InvoiceDue \/ InvoiceAnnounced

Spec == Init /\ [][Next]_vars

----------------------------------------------------------------------------
\* The scorer and the treasury agent agree about the runway: a wallet whose
\* runway the agent's own rules call critical has less than half of the runway
\* score, whatever payments the log holds and whichever it has dropped.
CriticalIsScored ==
    RunwayStatus(balance, BurnRate(paymentLog, clock)) = "critical"
        => RunwayScore(paymentLog, balance, clock) < 50

\* A payment made now never turns the label to declining.
PayingIsNoDecline ==
    \A p \in Providers :
        Trend(Append(paymentLog, Payment(0, clock, p)), complianceLog, clock) = "declining"
            => Trend(paymentLog, complianceLog, clock) = "declining"

\* Once an analysis that finds the wallet healthy is carried out, the arm is
\* sampled and paid for at the full rate, whatever that or an earlier one ordered.
HealthyMeansFullRate ==
    analysis = "healthy" /\ worker.pc # "applying" => ~throttled /\ ~reduced

\* No payment is on two invoices.
BilledOnce ==
    \A i, j \in DOMAIN invoices : i # j => invoices[i].items \cap invoices[j].items = {}

\* A payment that the log held when an invoice of its period was made is on
\* that invoice; the log holds the newest PaymentLogMax payments.
LoggedIsBilled ==
    \A p \in confirmed, i \in DOMAIN invoices :
        LET bill == invoices[i]
            newer == {q \in confirmed : q.id > p.id /\ q.logged <= bill.to}
        IN  (bill.from <= p.at /\ p.logged < bill.to /\ Cardinality(newer) < PaymentLogMax)
                => p.id \in bill.items

\* "Generates compute invoices from on-chain payment ... data": a payment whose
\* period has passed is on an invoice.
EveryPaymentBilled ==
    \A p \in confirmed : (Len(invoices) > 0 /\ invoices[1].from <= p.at
                           /\ invoices[Len(invoices)].from > p.at)
                              => \E i \in DOMAIN invoices : p.id \in invoices[i].items
=============================================================================
