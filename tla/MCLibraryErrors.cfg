SPECIFICATION LibrarySpec
CONSTANTS
    Clients = {1, 2}
    MaxSent = 2
    MaxTokens = 1
    MaxConnects = 2
    MaxLost = 1
    Parts = {"handles"}
INVARIANT
    OnlyItsOwnError
CHECK_DEADLOCK FALSE
