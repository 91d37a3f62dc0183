\* Two agents sharing a hardware key, which pays for the logs, and two
\* providers, one of them the first agent's own PDA.
SPECIFICATION LedgerSpec
CONSTANTS
    o1 = o1
    o2 = o2
    h1 = h1
    p1 = p1
    Owners = {o1, o2}
    Hardware = {h1}
    Providers <- LedgerProviders
    Budgets = {2, 3}
    Amounts = {0, 1, 2, 3}
    Hashes = {d1}
    Severities = {2, 3, 4}
    SubIndexes = {0}
    MaxProviders = 2
    MaxTxs = 2
    WindowSlots = 2
    MaxPayment = 2
    AgentRent = 1
    RecordRent = 1
    LogRent = 1
    Recipients <- LedgerRecipients
    Endowment <- LedgerEndowment
    MaxSlot = 2
    Unregistered = Unregistered
CHECK_DEADLOCK FALSE
INVARIANTS
    Solvent
    WhitelistIsSet
    ReceiptsMatchSpending
    LamportsConserved
    EpochRateLimit
    ComplianceNeverGated
PROPERTIES
    LogsImmutable
    ImplementsAllowance
