SPECIFICATION Spec
CONSTANTS
    MAX_IMAGE_SIZE = 6
    WordMod = 64
INVARIANTS ScanInv FindsTheImage ReportsNullLength
