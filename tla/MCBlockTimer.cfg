SPECIFICATION FairSpec
CONSTANTS
    Address = {a1, a2}
    Faults = {"database", "daemon", "refusal"}
    Blocks <- MCBlocks
    VoteTables <- MCVotes
    Documents0 <- MCDocuments
    Recognised = TRUE
    Seeded = TRUE
    Collections = 2
    Place <- MCPlace
    BareFilterAccepted = TRUE
    Leftovers <- MCLeftovers
    Capacity = 3
    MaxBlocks = 2
    MaxFailures = 1
    MaxRestarts = 1
INVARIANTS
    TypeOK
    RecordedBlockIsOurs
    
    
    StatisticsFollowBlocks
PROPERTY
    NoticesBlocks
CHECK_DEADLOCK FALSE
