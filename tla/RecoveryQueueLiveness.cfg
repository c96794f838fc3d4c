SPECIFICATION FairSpec
CONSTANTS
    raw = raw
    p1 = p1
    p2 = p2
    e1 = e1
    Families <- OneFamily
    Raw = raw
    SourceErrors <- OneError
    NoError = NoError
    NoFamily = NoFamily
    MaxEpochs = 10
    MaxAudits = 1
    Disturbances <- Unattended
    MaxDisturbances = 1
PROPERTIES
    QueueSettles
