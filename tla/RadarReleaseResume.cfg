\* One day of two files, and one command killed.
SPECIFICATION Spec
CONSTANTS
    d1 = d1
    d2 = d2
    Days <- OneDay
    Files = 2
    Partial = Partial
    Damaged = Damaged
    NoEntry = NoEntry
    MaxVersion = 1
    MaxCutovers = 1
    MaxFaults = 1
CHECK_DEADLOCK FALSE
INVARIANT
    MissingHasIntent
