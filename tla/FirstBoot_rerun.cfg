\* A Secure Boot step accepted once more can succeed.
SPECIFICATION WSpec
CONSTANTS
    Measured = TRUE
    MaxPolls = 2
    MaxBoots = 2
PROPERTIES
    AcceptedCeremonyCanSucceed
