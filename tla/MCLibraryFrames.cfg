SPECIFICATION LibrarySpec
CONSTANTS
    Clients = {1, 2}
    MaxSent = 2
    MaxTokens = 1
    MaxConnects = 2
    MaxLost = 1
    Parts = {"web"}
INVARIANT
    FramesAreWhole
CHECK_DEADLOCK FALSE
