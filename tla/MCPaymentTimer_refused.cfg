SPECIFICATION FairSpec
CONSTANTS
    Address = {a1, a2}
    Faults = {"wallet"}
    MaxDigits = 3
    MinimumAmount = 3
    ValuesFound = TRUE
    Indeterminate <- MCNumbers
    Documents0 <- MCDocuments
    MinutesPerDay = 2
    MaxSleep = 2
    SendMinutes = 1
    LastDay = 1
    MaxRestarts = 0
INVARIANT
    EveryRecordHasATransfer
CHECK_DEADLOCK FALSE
