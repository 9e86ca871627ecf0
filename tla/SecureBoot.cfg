\* Two YubiKeys, a loader and a UKI, two minting runs.
SPECIFICATION FairSpec
CONSTANTS
    k1 = k1
    k2 = k2
    NoKey = NoKey
    Keys <- MCKeys
    Images <- MCImages
    Loaders <- MCLoaders
    MaxMints = 2
INVARIANTS
    TypeOK
    MarkMeansEnrolled
    OneCeremony
    ReportedImagesBoot
PROPERTIES
    EnrolledKeysStay
    BootableImagesStay
    HalfwayEnds
    CeremonyPromise
