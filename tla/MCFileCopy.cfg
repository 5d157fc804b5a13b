SPECIFICATION Spec
CONSTANTS
    NumFiles = 3
    Sizes = {0, 2}
    BatchSizes = {1, 4}
    MaxFiles = {2}
    CaravanNamed = {2}
    Dir = {"videos", "music"}
    DirOf <- Directories
    Above <- Tree
    Standing = {"videos"}
    Configs <- Migrations
    Capacity = 7
    MaxOthers = 1
    NoFile = NoFile
INVARIANTS
    CopyInv
    NeverTorn
    RecordedCopiesSurvive
    MigrateKeepsRemoved
    RoomToFinish
    PlanIsGreedy
PROPERTY
    CopiesAreKept
