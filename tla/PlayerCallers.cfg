SPECIFICATION FairSpec
CONSTANTS
    Targets = {t1, t2}
    Requests = {p1, p2}
    UrgentPages = {}
    CallIds = {c1, c2}
    Policies = {"replace"}
    LockChoices = {TRUE}
    StreamDepth = 3
    DropsSubscriber = FALSE
    PlayerMayFail = FALSE
    MaxCommands = 0
    QueueDepth = 2
    PostsTimeOut = TRUE
    HoldsTimeOut = TRUE
    LinkFails = FALSE
    Interferes = FALSE
    Reloads = TRUE
INVARIANTS
    LockOwned
PROPERTIES
    EveryCallerIsTold
CHECK_DEADLOCK FALSE
