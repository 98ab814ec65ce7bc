SPECIFICATION Spec
CONSTANTS
    JobIds = {j1, j2}
    Owners <- MCOwners
    Conversations = {chat}
    OwnerOf <- MCOwnerOf
    Keys = {k1, k2}
    Ops = {o1}
    Origins = {}
    Checks = {c1, c2}
    Null = Null
    TheOwner = alice
    MaxAttempts = 2
    ConversationLimit = 2
    OwnerLimit = 2
    MaxGeneration = 2
    MaxEpoch = 2
SYMMETRY Symmetry
CHECK_DEADLOCK FALSE
INVARIANTS
    OneAuthorizedAttempt
    HoldMatchesReviews
    NoStaleWork
    IntentIsNotRetried
PROPERTIES
    TurnsAreSerial
    OutcomesAreFinal
