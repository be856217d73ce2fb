SPECIFICATION FairSpec
CONSTANTS
    c1 = c1
    c2 = c2
    Calls <- TwoCalls
    Coalescing = TRUE
    Retries = 1
    Values <- TwoValues
    Want <- OpposedWants
    MismatchTTL = 1
    OptimisticTTL = 2
    ControlGrace = 1
    PollTicks = 1
INVARIANTS
    SuccessIsReal
PROPERTIES
    DisplayFollowsWrites
    NewestWins
    Settles
CHECK_DEADLOCK FALSE
