SPECIFICATION Spec
CONSTANTS
    raw = raw
    p1 = p1
    p2 = p2
    e1 = e1
    Families <- ProductFamilies
    Raw = raw
    SourceErrors <- OneError
    NoError = NoError
    NoFamily = NoFamily
    MaxEpochs = 2
    MaxAudits = 0
    Disturbances <- AllDisturbances
    MaxDisturbances = 1
INVARIANTS
    RepairingIsOwed
    LaneHasOneWorker
PROPERTIES
    PublicationIsFenced
SYMMETRY ProductSymmetry
