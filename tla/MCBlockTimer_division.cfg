SPECIFICATION FairSpec
CONSTANTS
    Address = {a1, a2}
    Faults = {}
    Blocks <- MCBlocks
    VoteTables <- MCBothVote
    Documents0 <- MCDocuments
    Recognised = TRUE
    Seeded = TRUE
    Collections = 2
    Place <- MCPlace
    BareFilterAccepted = TRUE
    Leftovers <- MCLeftovers
    Capacity = 4
    MaxBlocks = 2
    MaxFailures = 1
    MaxRestarts = 0
INVARIANT
    EveryVoterGetsAShare
CHECK_DEADLOCK FALSE
