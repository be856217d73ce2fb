SPECIFICATION Spec
CONSTANTS
    Hosts = {"host 1", "host 2"}
    Credentials = {"old", "new"}
    Connections = {"16 A"}
    Cars = {"car 1", "car 2"}
    Batteries = {"small"}
    Keys = {"follow"}
    Chargers = {"host 1", "host 2"}
    Slots = {"entry 1", "entry 2", "entry 3"}
    Dialogs = {"add 1", "add 2"}
    Addresses = {"host 1", "host 2"}
    Trigger = 3
    ClearAfter = 2
    FollowPolls = 2
    Hours = {1, 2}
    Levels = {1}
    ByHand = {0}
    MaxClock = 1
    MaxPlugged = 2
INVARIANTS
    EveryChoiceStands
    RunsWhatIsStored
PROPERTIES
    OneEntryPerCharger
    NothingIsLost
    AdviceIsTrue
    NumberIsTrue
CHECK_DEADLOCK FALSE
