SPECIFICATION FairSpec
CONSTANTS
    MAX_INTERRUPT_SOURCES = 2
    Sources <- MCSources
    Handlers = {"comm", "vsync"}
    NULL = "NULL"
    MaxPriority = 1
INVARIANTS PioInv NoNullCall
PROPERTIES ImplementsPinHandlers InterruptHandled
