SPECIFICATION Spec
CONSTANTS
    Slack = 0
    MaxNow = 2
    MaxPlugIns = 2
    Fields = {"energy", "cost"}
    Limits = {"cost limit"}
    MaxEnds = 2
    Band = 2
    MaxTicks = 3
    MaxSessions = 2
    Estimates = {0, 1, 6, 9, 17, 300, 308, 311}
    MaxTime = 16
    Day = 4
    Quarter = 2
    Rates <- ForecastRates
    Powers = {0, 1, 2}
    Amounts = {0, 1, 3, 5, 8, 11}
    ScheduleAmounts = {5, 13}
    Initials = {0, 37, 80, 100}
    Capacities = {50, 77}
    Losses = {0, 7, 33}
    Delivered = {0, 1, 50, 333, 1999, 2480, 9000}
    Targets = {80, 90, 100}
INVARIANTS
    ForecastsAreTrue
    CostsAreCounted
PROPERTIES
    MemoryIsTrue
    EndIsTold
    FinishIsTrue
CHECK_DEADLOCK FALSE
