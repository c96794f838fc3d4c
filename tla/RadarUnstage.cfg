SPECIFICATION Spec
CONSTANTS
    d1 = d1
    d2 = d2
    Days <- TwoDays
    Files = 1
    Partial = Partial
    Damaged = Damaged
    NoEntry = NoEntry
    MaxVersion = 2
    MaxCutovers = 2
    MaxFaults = 3
CHECK_DEADLOCK FALSE
SYMMETRY Symmetry
INVARIANTS
    NothingIsLost
    ReadersSeeWholeDays
    InactiveMeansInPlace
    WithdrawnStaysInPlace
    WithdrawalIsRecorded
PROPERTIES
    ReleasedAfterFullRead
