SPECIFICATION Spec
CONSTANTS
    MaxEnergy = 1
    MaxClock = 1
    ResetEps = 0
    Thresholds <- TwoThresholds
PROPERTIES
    SwitchKeepsItsSettingOffline
CHECK_DEADLOCK FALSE
