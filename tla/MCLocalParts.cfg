SPECIFICATION LocalSpec
CONSTANTS
    Parts = {"pollers", "buckets", "browser", "table", "notices", "replies", "phone", "enrolment", "accounts", "schema", "chrome", "activity"}
    MaxMail = 3
    MaxConnects = 2
    None = None
    Items = {i1, i2}
    Lookback = 2
    FirstWindow = 3
    MaxTime = 4
    Never = Never
    MaxDay = 4
    PromptMax = 2
    MaxSlips = 1
    Servers = {{"gmail"}, {"pocket"}, {"fathom"}, {"system"}, {"morning_digest"}}
    Machines = {m1, m2}
    Samples = {1, 2}
    Issues = {i1}
    MinInterval = 1
    LastTime = 2
    NoSnapshot = NoSnapshot
    Hosts = {h1}
    MaxVisits = 6
    HistoryDay = 4
    MaxRows = 3
    Interval = 2
    Nothing = Nothing
    Ids = {i1, i2}
    Tasks = {k1}
    Short = 1
    Long = 2
    LastDay = 3
    News = {t1, t2}
    MaxLists = 2
    People = {u1, u2}
    Phones = {n1}
    Codes = {k1}
    NoPhone = NoPhone
    MaxSubs = 2
    Mailboxes = {m1, m2}
    NoMailbox = NoMailbox
    MaxConsents = 2
    Starters = {web, poller}
    Histories = {"fresh", "single_user", "single_account"}
    NoStarter = NoStarter
    MaxStarts = 3
    Turns = {c1, c2}
    TurnCount = 2
    MaxSteps = 3
    Works = {w1, w2}
    Important = {w1}
    Deadlines <- MCDeadlines
    NoDeadline = NoDeadline
    DayLength = 4
    Offset = 1
    SendHour = 2
    UrgentWindow = 5
    AgeOut = 3
    SuggestionLimit = 1
    LastHour = 10
    Yes = Yes
    No = No
    Labels = {Yes, No}
    NoLabel = NoLabel
    Blocks <- MCBlocks
    QuestionsCap = 2
    OptionsCap = 2
INVARIANTS
    NothingIsMissed
    DigestIsBounded
    NothingComesBack
    AnswersAreUnderstood
    SettingsAreTrue
    UpgradeLosesNothing
    TurnIsAttended
PROPERTIES
    DigestServes
CHECK_DEADLOCK FALSE
