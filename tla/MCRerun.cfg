SPECIFICATION LiveSpec
CONSTANTS
    File = {1, 2, 3}
    NumBatches = 2
    BatchOf <- MCBatchOf
    NoState = NoState
    Sessions <- TransferCommands
    SnapshotEvery = 1
    InitialDestination <- CleanDestination
    CaravanNamed = {3}
    Unlisted = {2}
    Drift = FALSE
    MaxFaults = 3
    InterruptsDeletion = FALSE
PROPERTY
    RerunningCompletes
