SPECIFICATION FairSpec
CONSTANTS
    Refreshes <- AllRefreshes
    ChargingInterval = 3
    IdleInterval = 6
    OfflineInterval = 6
    RetryInterval = 1
    ControlGrace = 3
    AvailabilityGrace = 6
    Backoff = 3
    RefreshDelays <- OneDelay
    PollTime = 1
    OfflineFailures = 2
    OfflineAfter = 7
INVARIANTS
    TimersAreEarned
    AvailabilityIsTrue
PROPERTIES
    Reappears
CHECK_DEADLOCK FALSE
