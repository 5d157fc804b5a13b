SPECIFICATION FairSpec
CONSTANTS
    File = {1, 2, 3}
    NumBatches = 2
    BatchOf <- MCBatchOf
    NoState = NoState
    Sessions <- TransferAndResume
    SnapshotEvery = 1
    InitialDestination <- CleanDestination
    CaravanNamed = {3}
    Unlisted = {2}
    Drift = TRUE
INVARIANT
    Inv
PROPERTIES
    DeletesOnlyApprovedState
    RecordedProgressStays
    LoopsDescend
    SessionEnds
