\* Two polls, two reboots.
SPECIFICATION WFairSpec
CONSTANTS
    Measured = TRUE
    MaxPolls = 2
    MaxBoots = 2
INVARIANTS
    WTypeOK
    EnrolledMeansWalked
    NoSecondWizard
PROPERTIES
    InterruptedIsOfferedAgain
    WaitEnds
