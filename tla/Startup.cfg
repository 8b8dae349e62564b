SPECIFICATION FairSpec
CONSTANTS
    XTAL = 12000000
    MUL = 20
    DIV = 1
    PRES = 2
    BAUDRATE = 115200
    TWI_CLK = 400000
    TC_FREQ = 1
    Timeout = 1
    MaxResets = 1
INVARIANTS StartupInv NeverTooFast HzKnown HandlerKnown DevicesReachable RatesRight
PROPERTIES StartsUp InterruptsServed
