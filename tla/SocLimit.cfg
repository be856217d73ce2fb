SPECIFICATION FairSpec
CONSTANTS
    MaxEnergy = 1
    MaxClock = 1
    ResetEps = 0
    Thresholds <- TwoThresholds
PROPERTIES
    StopIsDueAtTheWire
    EventIsTheStops
    SwitchKeepsItsSetting
    LimitIsEnforced
CHECK_DEADLOCK FALSE
