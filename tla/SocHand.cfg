SPECIFICATION SocSpec
CONSTANTS
    Levels = {1}
    ByHand = {0}
    MaxClock = 1
    MaxPlugged = 2
PROPERTY HandValueWins
CHECK_DEADLOCK FALSE
