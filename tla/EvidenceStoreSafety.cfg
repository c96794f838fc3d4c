SPECIFICATION Spec
CONSTANTS
    raw = raw
    products = products
    gate = gate
    r1 = r1
    r2 = r2
    g1 = g1
    g2 = g2
    g3 = g3
    g4 = g4
    Families <- TwoFamilies
    Gates <- OneGate
    Readers <- NoFamilies
    Generations <- ThreeGenerations
    None = None
    Legacy = Legacy
    Cleaner = Cleaner
    Free = Free
    NoGate = NoGate
    HistoryKeep = 2
    Unsteady <- OneFamily
    MaxId = 2
    MaxCrashes = 1
    CleanerCrashes = TRUE
    EmbedCrashes = TRUE
    MaxRollbacks = 1
INVARIANTS
    PublishedIsKept
    ReadersSeeLatestJudgement
PROPERTIES
    CountedOnce
