SPECIFICATION FairSpec
CONSTANTS
    MaxCommands = 3
    MaxDrops = 1
    Cells = 2
    Kinds = {"answered", "mute", "unknown"}
    Clients = {"eager", "patient", "spaced"}
INVARIANTS
    OnePublicationPerSignal
    NeverBackInTime
PROPERTIES
    AnswersTheAsker
    DeadChildIsReplaced
    EveryCommandIsSettled
CHECK_DEADLOCK FALSE
