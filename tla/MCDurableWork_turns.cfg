SPECIFICATION Spec
CONSTANTS
    JobIds = {j1, j2, j3}
    Owners <- MCOwners
    Conversations = {chat}
    OwnerOf <- MCOwnerOf
    Keys = {k1, k2, k3}
    Ops = {}
    Origins = {n1}
    Checks = {c1}
    Null = Null
    TheOwner = alice
    MaxAttempts = 2
    ConversationLimit = 3
    OwnerLimit = 2
    MaxGeneration = 1
    MaxEpoch = 1
SYMMETRY Symmetry
CHECK_DEADLOCK FALSE
INVARIANTS
    ConversationIsOrderly
PROPERTIES
    ContextIsStable
    NextTurnIsWoken
