SPECIFICATION FairSpec
CONSTANTS
    raw = raw
    p1 = p1
    p2 = p2
    e1 = e1
    Families <- OneFamily
    Raw = raw
    SourceErrors <- OneError
    NoError = NoError
    NoFamily = NoFamily
    MaxEpochs = 4
    MaxAudits = 0
    Disturbances <- ManualInvalidation
    MaxDisturbances = 1
PROPERTIES
    RepairingEnds
