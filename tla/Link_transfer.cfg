SPECIFICATION FairSpec
CONSTANTS
    MAX_INPUT_WIFI = 7
    Streams = {"0", "1"}
    ShortTimeout = 2
    LongTimeout = 7
    CountMod = 4
    MaxImage = 3
    MaxCommands = 3
    ModuleMay = {"hold"}
INVARIANTS StreamAgreed
PROPERTIES ImageDelivered
