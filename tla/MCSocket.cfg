SPECIFICATION FairSpec
CONSTANTS
    Character <- MCCharacters
    Replies <- MCReplies
    RequestLength = 2
    BufferSize = 6
    Looks = 3
INVARIANTS
    TypeOK
    EveryPathReleases
    FailureLeavesResult
    LastPieceIsDelivered
    OverflowOnlyByRace
PROPERTY
    ReceiveEnds
CHECK_DEADLOCK FALSE
