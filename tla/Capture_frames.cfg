SPECIFICATION FairSpec
CONSTANTS
    MAX_IMAGE_SIZE = 11
    MaxFrame = 6
INVARIANTS FrameInv VsyncFlagFresh BanksFree CapturesWholeFrame
PROPERTIES CaptureReturns
