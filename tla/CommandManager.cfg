SPECIFICATION FairSpec
CONSTANTS
    reve = reve
    plain = plain
    stop = stop
    Calls <- ThreeCalls
    StopCalls <- JustStop
    GuardedCalls <- JustStop
    ReveCalls <- JustReve
    OneShotCalls <- JustPlain
    Retries = 1
INVARIANTS
    AnswersAreHonest
PROPERTIES
    MutexRefinement
    PostsAreDue
    EveryCallReturns
CHECK_DEADLOCK FALSE
