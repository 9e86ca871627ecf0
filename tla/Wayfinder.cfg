\* Four maps on two frames, two of them too large for a row, two requests and
\* one POST to the ledger at a time, two map rows, two ledger rows.
SPECIFICATION WSpec
CONSTANTS
    small = small
    large = large
    moved = moved
    other = other
    c1 = c1
    c2 = c2
    p1 = p1
    alpha = alpha
    beta = beta
    gamma = gamma
    f1 = f1
    f2 = f2
    NoMap = NoMap
    NoName = NoName
    Maps <- MCMaps
    LargeMaps <- MCLarge
    Clients <- MCClients
    MaxId = 2
    LastRowId <- MCLastRowId
    Posters <- MCPosters
    Names <- MCNames
    Targets <- MCTargets
    Places <- MCPlaces
    Near <- MCNear
    PointsOf <- MCPointsOf
    FrameOf <- MCFrameOf
    MaxRows = 2
CONSTRAINTS FewAtATime NotFull
SYMMETRY Symmetry
INVARIANTS
    LedgerTypeOK
    ReadsAreTheSavedMap
    AnsweredSavesStay
    ServerDeltaIsReal
    LedgersBalance
    FiltersAgree
PROPERTIES
    DeletedStaysDeleted
    ArchivePromise
