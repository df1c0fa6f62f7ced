SPECIFICATION Spec
CONSTANTS
    MAX_ROWS = 2
    MAX_DATA = 2
    Sizes <- MCSizes
    Texts <- MCTexts
INVARIANT RecordTypeOK
PROPERTIES
    CrashSafe
    ExitDoes
