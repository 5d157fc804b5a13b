SPECIFICATION Spec
CONSTANTS
    Identity = {"photos", "videos"}
    Canonical = {"photos.json", "videos.json"}
    Backup = {"here/state.json", "there/state.json"}
    CanonicalOf <- OwnCanonical
    BackupOf <- OwnDirectory
    LegacyPaths = {"photos.json", "here/state.json"}
    Observed = "photos"
    MaxVersion = 5
    NoState = NoState
    Missing = Missing
    Damaged = Damaged
INVARIANTS
    StoreInv
    NeverDiverges
PROPERTIES
    IsRegister
    CanonicalIsAuthoritative
