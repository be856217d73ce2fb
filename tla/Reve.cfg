SPECIFICATION Spec
CONSTANTS
    Slack = 1
    MaxNow = 2
    MaxSessions = 2
    MeasurementsRetry = 1
    Refresh = 2
    Hold = 2
    MaxAge = 3
    MaxSession = 2
    Slots = {1, 2}
    MaxVersions = 3
PROPERTIES
    ManualModeHolds
    SessionIsNotOver
    GraphqlRecovers
    OthersStay
CHECK_DEADLOCK FALSE
