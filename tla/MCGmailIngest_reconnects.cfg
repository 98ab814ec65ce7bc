SPECIFICATION FairMailSpec
CONSTANTS
    p1 = p1
    p2 = p2
    Pollers = {p1}
    Start = Start
    Null = Null
    MaxMail = 1
    PageLimit = 1
    OwnerLimit = 1
    MaxAttempts = 2
    MaxGeneration = 3
    MaxEpoch = 2
    MaxFaults = 1
CHECK_DEADLOCK FALSE
INVARIANTS
    NothingRevokedRuns
    OneTodoPerMail
PROPERTIES
    MailIsIngested
