SPECIFICATION FairSpec
CONSTANT CtsInReset = {FALSE, TRUE}
INVARIANTS MainInv NoTrafficWhileHeld
PROPERTIES NoPictureForNobody RequestTaken LoopGoesOn
