SPECIFICATION FairSpec
CONSTANTS
    Mine = mine
    Theirs = theirs
    Address = {mine, theirs}
    Delegate = mine
    Nodes = 3
    Lists <- MCLists
    SignatureLengths = {93, 94}
    TextLengths = {100, 500}
    Silent = {"daemon", "node", "wallet"}
    Refusing = {"daemon", "wallet"}
    Leftovers <- MCLeftovers
    MaxBlocks = 3
    MaxCalls = 1
INVARIANTS
    TypeOK
    ReadAnswersKnowTheBlock
    RefusedForLengthOnly
PROPERTY
    CallsEnd
CHECK_DEADLOCK FALSE
