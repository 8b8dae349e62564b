SPECIFICATION Spec
CONSTANTS
    MAX_INPUT_WIFI = 7
    Streams = {"0", "1"}
    ShortTimeout = 2
    LongTimeout = 7
    CountMod = 4
    MaxImage = 2
    MaxCommands = 3
    ModuleMay = {"silent", "refuse", "hold"}
INVARIANTS TypeOK AckIsOwn LinkInv PollAnswerIsCurrent LineNotData
PROPERTIES ImplementsExchange
