\* A payload of two lines, a guest that prints twice of its own accord.
SPECIFICATION Spec
CONSTANTS
    Chunks = 2
    Codes <- MCCodes
    Numbers = {0}
    Chatter = 2
CHECK_DEADLOCK FALSE
INVARIANTS
    CTypeOK
    PassIsEarned
    CodeIsAPrefix
PROPERTIES
    DriverEnds
