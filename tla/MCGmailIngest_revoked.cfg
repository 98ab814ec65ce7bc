SPECIFICATION MailSpec
CONSTANTS
    p1 = p1
    p2 = p2
    Pollers = {p1}
    Start = Start
    Null = Null
    MaxMail = 1
    PageLimit = 1
    OwnerLimit = 1
    MaxAttempts = 1
    MaxGeneration = 3
    MaxEpoch = 1
    MaxFaults = 0
CHECK_DEADLOCK FALSE
PROPERTIES
    CursorLeavesNoRevokedMail
