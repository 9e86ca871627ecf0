\* Every step the wizard offers can be run.
SPECIFICATION WSpec
CONSTANTS
    Measured = TRUE
    MaxPolls = 2
    MaxBoots = 2
INVARIANTS
    OfferedStepCanRun
