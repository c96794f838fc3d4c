SPECIFICATION FairSpec
CONSTANTS
    raw = raw
    products = products
    gate = gate
    r1 = r1
    r2 = r2
    g1 = g1
    g2 = g2
    g3 = g3
    g4 = g4
    Families <- OneFamily
    Gates <- OneGate
    Readers <- OneReader
    Generations <- FourGenerations
    None = None
    Legacy = Legacy
    Cleaner = Cleaner
    Free = Free
    NoGate = NoGate
    HistoryKeep = 2
    Unsteady <- NoFamilies
    MaxId = 1
    MaxCrashes = 2
    CleanerCrashes = FALSE
    EmbedCrashes = FALSE
    MaxRollbacks = 0
INVARIANTS
    LatestIsComplete
    PinnedIsIntact
PROPERTIES
    StoreIsRegister
    CompatCatchesUp
    HistoryIsBounded
    MigrationCompletes
