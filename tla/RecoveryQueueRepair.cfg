SPECIFICATION Spec
CONSTANTS
    raw = raw
    p1 = p1
    p2 = p2
    e1 = e1
    Families <- OneFamily
    Raw = raw
    SourceErrors <- OneError
    NoError = NoError
    NoFamily = NoFamily
    MaxEpochs = 3
    MaxAudits = 2
    Disturbances <- NoSourceFaults
    MaxDisturbances = 2
INVARIANTS
    NoRequestIsLost
    AuditsCreditedInOrder
    CopyExcludesObservation
    CopyMatchesLatest
    TwoFreshConfirmations
PROPERTIES
    PublishedEvidenceIsUncopied
