SPECIFICATION FairPartsSpec
CONSTANTS
    Parts = {"clock", "dispatch"}
    LeaseSeconds = 2
    AttemptSeconds = 3
    TtlSeconds = 9
    MaxAttempts = 3
    RetrySeconds <- MCRetrySeconds
    Jitter = {0, 1}
    MaxTime = 10
    Never = Never
    TheJob = j1
    TheChat = chat
    TheOwner = alice
    TheKey = k1
    NoValue = NoValue
    JobCount = 1
    Rows = {r1, r2}
    Dispatchers = {d1, d2}
    Receivers = {w1}
    Null = Null
    MaxFaults = 1
    MaxEpoch = 2
CHECK_DEADLOCK FALSE
INVARIANTS
    DeadlinesHold
    OneDispatcherOwns
PROPERTIES
    LapsedIsLost
    JobEnds
    FlagsFollowClock
    RunnableIsTaken
