\* Line 148's promise, without the mark as a precondition.
SPECIFICATION Spec
CONSTANTS
    k1 = k1
    k2 = k2
    NoKey = NoKey
    Keys <- MCKeys
    Images <- MCImages
    Loaders <- MCLoaders
    MaxMints = 2
INVARIANTS
    ReportMeansSafe
