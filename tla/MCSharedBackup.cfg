SPECIFICATION Spec
CONSTANTS
    Identity = {"photos", "videos"}
    Canonical = {"photos.json", "videos.json"}
    Backup = {"here/state.json"}
    CanonicalOf <- OwnCanonical
    BackupOf <- OneDirectory
    LegacyPaths = {}
    Observed = "photos"
    MaxVersion = 4
    NoState = NoState
    Missing = Missing
    Damaged = Damaged
PROPERTY
    CanonicalIsAuthoritative
