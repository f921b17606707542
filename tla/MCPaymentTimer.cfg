SPECIFICATION FairSpec
CONSTANTS
    Address = {a1, a2}
    Faults = {"database", "cursor", "wallet"}
    MaxDigits = 3
    MinimumAmount = 3
    ValuesFound = TRUE
    Indeterminate <- MCNumbers
    Documents0 <- MCDocuments
    MinutesPerDay = 2
    MaxSleep = 2
    SendMinutes = 1
    LastDay = 1
    MaxRestarts = 1
INVARIANTS
    TypeOK
    PassRecordsWhatItSends
    RecordsMatchTransfers
PROPERTIES
    OnePassPerDay
    PromiseKept
    PassServesEveryDueAddress
    PassEnds
CHECK_DEADLOCK FALSE
