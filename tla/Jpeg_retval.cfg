SPECIFICATION Spec
CONSTANTS
    MAX_IMAGE_SIZE = 4
    WordMod = 64
INVARIANTS SuccessMeansStart
