SPECIFICATION Spec
CONSTANTS
    nas = nas
    usb = usb
    Dest = {nas, usb}
    NoStatus = NoStatus
    NumFiles = 2
    Content = {"short", "longer"}
    SizeOf <- Sizes
    Gone = Gone
    NoState = NoState
    First <- AllAlike
    Absent = Absent
    Damaged = Damaged
    NoDest = NoDest
    MaxCommands = 3
    MaxEdits = 1
SYMMETRY Alike
CHECK_DEADLOCK FALSE
INVARIANTS
    BookInv
    OnlyNewestUnfinished
    LedgerBacked
    SkippedElsewhere
PROPERTIES
    PlansOnlyUncopied
    SkipsOnlyCopied
    IsStatusBoard
