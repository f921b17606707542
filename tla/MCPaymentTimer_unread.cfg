SPECIFICATION FairSpec
CONSTANTS
    Address = {a1, a2}
    Faults = {}
    MaxDigits = 3
    MinimumAmount = 3
    ValuesFound = FALSE
    Indeterminate <- MCLeftovers
    Documents0 <- MCDocuments
    MinutesPerDay = 2
    MaxSleep = 2
    SendMinutes = 1
    LastDay = 1
    MaxRestarts = 0
PROPERTY
    PassServesEveryDueAddress
CHECK_DEADLOCK FALSE
