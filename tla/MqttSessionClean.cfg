SPECIFICATION Spec
CONSTANTS
    Modes = {"clean"}
    Qos = {1, 2}
    MaxMsgs = 1
    MaxFaults = 1
    MaxInflight = 1
    MaxId = 5
INVARIANT PublishedIsKept
CHECK_DEADLOCK FALSE
