SPECIFICATION Spec
CONSTANTS
    Values = {"u", "v"}
    NKeys = 2
    MaxCheck = 3
    MaxCheckWifi = 4
    MaxCommands = 1
    MaxCrashes = 0
INVARIANTS
    NotConnectedIsTrue
CHECK_DEADLOCK FALSE
