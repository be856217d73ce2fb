SPECIFICATION FairSpec
CONSTANTS
    Policies <- AllPolicies
    Hours <- TwoHours
    FollowPolls = 2
    RetryPolls = 2
    Retries = 1
    counter = counter
    Meters <- JustCounter
    ResetMeters <- JustCounter
    ConfirmPolls = 3
    Top = 1
    Lives = 1
    BootPolls = 2
    Options = {"Off", "Auto"}
    MismatchTTL = 1
    OptimisticTTL = 2
    ControlGrace = 1
    PollTicks = 1
PROPERTIES
    NewIncidentIsSeen
    MovedOnEvidence
    NoticesSettle
    FollowsHome
    FallsAreNewLives
    StoreIsCurrent
    OptionIsTrue
CHECK_DEADLOCK FALSE
