SPECIFICATION MailSpec
CONSTANTS
    p1 = p1
    p2 = p2
    Pollers <- MCPollers
    Start = Start
    Null = Null
    MaxMail = 2
    PageLimit = 1
    OwnerLimit = 1
    MaxAttempts = 1
    MaxGeneration = 1
    MaxEpoch = 1
    MaxFaults = 2
CHECK_DEADLOCK FALSE
SYMMETRY MCSymmetry
INVARIANTS
    CursorIsSound
    OnePollerCommits
