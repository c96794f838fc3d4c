SPECIFICATION FairSpec
CONSTANTS
    f1 = f1
    f2 = f2
    Files <- TwoFiles
    Dispatcher = Dispatcher
    Sync = Sync
    Fast <- OneFast
    Bulk <- OneBulk
    Orphan = Orphan
    Free = Free
    r1 = r1
    Receivers <- OneReceiver
    NoRow = NoRow
    WaitExpires = TRUE
    MaxFiles = 1
    BatchFiles = 1
    MaxStamp = 2
    MaxFaults = 1
INVARIANTS
    OneTransfer
    FlagsAreTrue
    NothingQueuedIsLost
PROPERTIES
    BulkYields
    GwsNeverRegresses
    FastIsServed
    ArchivesCatchUp
