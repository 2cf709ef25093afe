SPECIFICATION FairIntegrationSpec
CONSTANTS
    Extensions = {x1, x2, x3}
    Flows = {f1, f2}
    Callers = {c1}
    FirstVersions = {0, 1, 3}
    MaxIds = 9
    MaxRequests = 2
    MaxFaults = 1
INVARIANTS
    IntegrationTypeOK
    OneTargetPerExtension
    NoEntityLeftBehind
    NothingSwallowed
PROPERTIES
    NoSaveIsLost
    EntitiesFollow
CHECK_DEADLOCK FALSE
