SPECIFICATION FairSpec
CONSTANTS
    Connection = {c1}
    Requests <- MCRequests
    Failing <- MCFailing
    IndexExists = FALSE
    Rewards <- MCRewards
    TestReward = 15
    TestVotes <- MCTestVotes
    Contents <- MCContents
    Collections = 2
    Capacity = 2
    MaxRequests = 2
    MaxChanges = 2
    MaxStarts = 2
INVARIANTS
    TypeOK
    UndefinedHasACause
    RepliesAreCurrent
    AnsweredExactlyOnce
    ConnectionsRelease
    ClientOutlivesRequests
    OneStatisticsDocument
PROPERTY
    GetsAreAnswered
CHECK_DEADLOCK FALSE
