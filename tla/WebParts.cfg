SPECIFICATION WebSpec
CONSTANTS
    Parts = {"identity", "tab", "work_page", "execution", "thread", "todo"}
    Emails = {e1, e2}
    Subjects = {s1, s2}
    Browsers = {b1, b2}
    None = None
    SeatLimit = 1
    SessionLimit = 1
    BrowserLimit = 1
    GlobalLimit = 2
    MaxSessions = 2
    MaxFlows = 2
    MaxEpoch = 1
    Accounts = {a1, a2}
    Nobody = Nobody
    Ops = {o1}
    Keys = {k1}
    Loads = {l1, l2}
    MaxGeneration = 2
    Caps = {c1, c2}
    Refreshes = {r1}
    MaxAttempt = 2
    MaxLink = 3
    MaxEra = 2
    Todos = {t1, t2}
    Calls = {c1, c2}
    NoThread = NoThread
    Patches = {p1, p2}
    Titles = {"a", "b"}
INVARIANTS
    LimitsHold
    SessionsAreEarned
    OneAccountShown
    PageKeepsTrack
    AccessIsCurrent
    PageIsTrue
CHECK_DEADLOCK FALSE
