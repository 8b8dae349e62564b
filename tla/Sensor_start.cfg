SPECIFICATION FairSpec
CONSTANTS
    TWI_TIMEOUT = 2
    MaxFaults = 3
    Gains = {"40", "ad", "00"}
INVARIANTS ConfigureInv ConfiguresTheSensor TrialUndone Configured
PROPERTIES ConfigureReturns
CHECK_DEADLOCK FALSE
