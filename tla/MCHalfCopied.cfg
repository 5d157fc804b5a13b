SPECIFICATION Spec
CONSTANTS
    File = {1, 2, 3}
    NumBatches = 2
    BatchOf <- MCBatchOf
    NoState = NoState
    Sessions <- TransferAndResume
    SnapshotEvery = 0
    InitialDestination <- CleanDestination
    CaravanNamed = {}
    Unlisted = {}
    Drift = FALSE
PROPERTY
    ResumeReconcilesOwnCopies
