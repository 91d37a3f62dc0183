\* Three payments and a log of two: the treasury's hours, without an
\* event or from one on, or a first half minute of invoices.
SPECIFICATION Spec
CONSTANTS
    Day = 1
    Settings <- MCSettings
    Providers = {"compute"}
    Amount = 2
    Severities = {2}
    Answers <- MCAnswers
    PaymentLogMax = 2
    MinPayments = 4
    NoReport = NoReport
    NoAnalysis = NoAnalysis
    MaxTime = 4
    MaxPayments = 3
    Balances = {7}
    MaxFlight = 1
CHECK_DEADLOCK FALSE
INVARIANTS
    CriticalIsScored
    PayingIsNoDecline
    HealthyMeansFullRate
    BilledOnce
    LoggedIsBilled
