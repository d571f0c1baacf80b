SPECIFICATION LibrarySpec
CONSTANTS
    Clients = {1, 2}
    MaxSent = 2
    MaxTokens = 1
    MaxConnects = 2
    MaxLost = 1
    Parts = {"heap", "list", "input", "output", "text", "tree", "codec", "web", "handles"}
INVARIANTS
    RecordsAreTheHeap
    LinksAreTheLists
    NoByteLost
    WritesAreWhole
    TextIsFaithful
    PacketsAreUnderstood
    FirstFramesAreWhole
    HandlesAreApart
CHECK_DEADLOCK FALSE
