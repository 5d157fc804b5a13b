SPECIFICATION LiveSpec
CONSTANTS
    File = {1, 2, 3}
    NumBatches = 2
    BatchOf <- MCBatchOf
    NoState = NoState
    Sessions <- TransferCommands
    SnapshotEvery = 1
    InitialDestination <- CleanDestination
    CaravanNamed = {}
    Unlisted = {}
    Drift = FALSE
    MaxFaults = 1
    InterruptsDeletion = TRUE
PROPERTY
    RerunningCompletes
