SPECIFICATION FairSpec
CONSTANTS
    Address = {a1, a2}
    Faults = {}
    Blocks <- MCBlocks
    VoteTables <- MCBothVote
    Documents0 <- MCDocuments
    Recognised = TRUE
    Seeded = FALSE
    Collections = 2
    Place <- MCPlace
    BareFilterAccepted = TRUE
    Leftovers <- MCLeftovers
    Capacity = 4
    MaxBlocks = 2
    MaxFailures = 1
    MaxRestarts = 0
PROPERTY
    NewBlocksAreNoticed
CHECK_DEADLOCK FALSE
