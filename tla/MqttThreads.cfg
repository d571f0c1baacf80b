SPECIFICATION Spec
CONSTANTS
    Threads = {"main"}
    MaxCalls = 3
    MaxFaults = 1
    Messages = {"reading"}
    MaxPosts = 2
INVARIANTS
    CallsAreAnswered
    ConnectedIsServed
PROPERTIES
    NothingHangs
CHECK_DEADLOCK FALSE
