SPECIFICATION Spec
CONSTANTS
    Modes = {"persistent", "clean"}
    Qos = {1, 2}
    MaxMsgs = 2
    MaxFaults = 2
    MaxInflight = 2
    MaxId = 5
INVARIANTS
    SessionIsOnDisk
    ArrivesOnce
PROPERTIES
    DeliveryKept
    NoOvertaking
    PublicationsEnd
    OffersArrive
CHECK_DEADLOCK FALSE
