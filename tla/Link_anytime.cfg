SPECIFICATION FairSpec
CONSTANTS
    MAX_INPUT_WIFI = 7
    Streams = {"0", "1"}
    ShortTimeout = 2
    LongTimeout = 7
    CountMod = 4
    MaxImage = 1
    MaxCommands = 2
    ModuleMay = {"silent", "refuse", "late", "report", "hold", "overrun"}
INVARIANTS LineTerminated
PROPERTIES CommandReturns
