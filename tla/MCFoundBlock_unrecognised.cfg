SPECIFICATION Spec
CONSTANTS
    Mine = mine
    Theirs = theirs
    Address = {mine, theirs}
    Delegate = mine
    Nodes = 3
    Lists <- MCLists
    SignatureLengths = {93}
    TextLengths = {500}
    Silent = {}
    Refusing = {}
    Leftovers = {}
    MaxBlocks = 2
    MaxCalls = 1
INVARIANT
    VerifiedAnswersDecide
CHECK_DEADLOCK FALSE
