SPECIFICATION BucketSpec
CONSTANTS
    Works = {w1}
    Important = {w1}
    Deadlines <- MCDeadlines
    NoDeadline = NoDeadline
    DayLength = 24
    Offset = 5
    SendHour = 9
    UrgentWindow = 72
    AgeOut = 168
    SuggestionLimit = 15
    LastHour = 48
PROPERTIES
    DueTodayLeads
CHECK_DEADLOCK FALSE
