\* Skipping a step leaves a way in.
SPECIFICATION WSpec
CONSTANTS
    Measured = TRUE
    MaxPolls = 2
    MaxBoots = 2
INVARIANTS
    SkippingLeavesAWayIn
