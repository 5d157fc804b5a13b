SPECIFICATION Spec
CONSTANTS
    File = {1, 2, 3}
    NumBatches = 2
    BatchOf <- SingleFirst
    NoState = NoState
    Sessions <- AllCommands
    SnapshotEvery = 2
    InitialDestination <- AllDestinations
    CaravanNamed = {2}
    Unlisted = {3}
    Drift = FALSE
INVARIANTS
    TypeOK
    NoFileLost
    StateFileMatchesSource
    CompletedMeansMoved
    Inv
PROPERTIES
    DeletesOnlyApprovedState
    RecordedProgressStays
    ResumeKeepsForeignFiles
    VerifiedNotRecopied
    LedgerAddsOnlyCopies
    MovesSafely
