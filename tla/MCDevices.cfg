SPECIFICATION DevicesSpec
CONSTANTS
    Byte = {1, 2, 5}
    Token = 1
    Length = 6
    Wrap = 64
    BufSize = 2
    RxpSize = 4
    CheckCrc <- MCCheckCrc
    IsReport <- MCIsReport
    Registers <- MCRegisters
    ByteBits = 2
    Gains <- MCGains
    LutMax = 3
    PllAttempts = 2
    Packets <- MCPackets
    Powers <- MCPowers
    Radio = "SX1255"
    TxChains = {0}
    NotchUs = 3
    Mappings = {7, 16}
    MaxCuts = 2
    Channels <- MCChannels
    StartFreq = 8630
    Granule = 2
    Period = 32
    Longest <- MCLongest
    PairLongest <- MCPairLongest
    Second = 6
    Delay = 1
    Durations = {5}
    MaxBusy = 10
    Horizon = 6
    MaxNow = 35
    Kinds <- MCKinds
    FifoSize = 2
    MaxPkt = 2
    SendEvery = 2
    MaxFaults = 1
    MaxSignals = 1
INVARIANTS
    WrittenIsRead
    StartedAsConfigured
    TriggeredIsAsked
    AllowedMeansRecentlyFree
    EveryReadingOnce
PROPERTIES
    LiveQueueSpec
    OnlyAJamRefuses
    TerminationIsHeeded
CHECK_DEADLOCK FALSE
