SPECIFICATION FairSpec
CONSTANTS
    Values = {"u", "v"}
    NKeys = 2
    MaxCheck = 2
    MaxCheckWifi = 3
    MaxCommands = 2
    MaxCrashes = 1
INVARIANTS
    RefusedKeepsProfile
    UplinkIsThePersistedOne
    YesMeansDone
PROPERTIES
    PersistedOnlyAfterLink
    HandlerReturns
CHECK_DEADLOCK FALSE
