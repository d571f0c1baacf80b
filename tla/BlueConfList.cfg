SPECIFICATION ConfsSpec
CONSTANTS
    Values = {v1, v2}
    Supported = {v1}
    Default = v1
    Absent = Absent
    MaxSensors = 1
    MaxFd = 1
    MaxCommands = 2
    MaxKills = 1
    MaxRuns = 1
    Names = {n1, n2}
    Factory = n1
    Devices = {d1, d2}
    NameLen <- NameLengths
    TypeLen <- TypeLengths
    Missing = Missing
    MaxBlueCommands = 2
    MaxEvents = 2
    Daemons = {net, common}
    FileKey = {"wan", "name"}
    FileValue = {"old", "new"}
    None = "none"
    MaxUpdates = 3
    MaxChecks = 3
    MaxSwitches = 3
    Parts = {"blue"}
INVARIANTS
    ConnectedAreListed
CHECK_DEADLOCK FALSE
