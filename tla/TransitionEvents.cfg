SPECIFICATION Spec
CONSTANTS
    GracePolls = 2
    Codes <- TwoCodes
    AtRest <- TwoRests
    MaxEnergy = 2
    MaxPlugIns = 2
PROPERTIES
    EventsAreSeen
    EveryChargeFinishesOnce
    SummaryIsTheCharges
CHECK_DEADLOCK FALSE
