SPECIFICATION Spec
CONSTANTS
    raw = raw
    p1 = p1
    p2 = p2
    e1 = e1
    Families <- BothLanes
    Raw = raw
    SourceErrors <- OneError
    NoError = NoError
    NoFamily = NoFamily
    MaxEpochs = 4
    MaxAudits = 0
    Disturbances <- FaultAndCrash
    MaxDisturbances = 2
INVARIANTS
    CopyExcludesObservation
