SPECIFICATION Spec
CONSTANTS
    Only = a1
    Address = {a1, a2}
    Faults = {"database", "wallet"}
    Documents0 <- MCDocuments
    MaxRestarts = 1
    MaxDigits = 3
    MinimumAmount = 3
    ValuesFound = TRUE
    Indeterminate <- MCZero
    MinutesPerDay = 1
    MaxSleep = 1
    SendMinutes = 0
    LastDay = 0
    Blocks <- MCBlocks
    VoteTables <- MCVotes
    Recognised = TRUE
    Seeded = TRUE
    Collections = 1
    Place <- MCPlace
    BareFilterAccepted = TRUE
    Leftovers <- MCZero
    Capacity = 100
    MaxBlocks = 2
    MaxFailures = 0
INVARIANTS
    TypeOK
    NoShareLost
    NothingPaidTwice
PROPERTY
    LedgerKept
CHECK_DEADLOCK FALSE
