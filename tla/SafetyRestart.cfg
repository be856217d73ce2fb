SPECIFICATION SafetySpec
CONSTANTS
    Policies <- AllPolicies
PROPERTIES
    DismissalOutlivesRestart
