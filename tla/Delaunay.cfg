\* All orders of up to three points of the grid, of four with a corner, and of
\* two of five, some of six; a repeated point.
SPECIFICATION DSpec
CONSTANT Inputs <- MCInputs
INVARIANTS
    DTypeOK
    MeshIsWhole
    LinksLeadBack
    AlwaysDelaunay
    FloodFindsAll
    EdgesAreDelaunay
    IncidenceIsRight
    NothingLeftToFlip
    WorklistEmpties
PROPERTY EveryInputEnds
