SPECIFICATION FairSpec
CONSTANT CtsInReset = {TRUE}
PROPERTIES ResetReleased
