SPECIFICATION Spec
CONSTANTS
    Targets = {t1}
    Requests = {p1, p2}
    UrgentPages = {p2}
    CallIds = {c1, c2}
    Policies = {"queue", "preempt", "reject"}
    LockChoices = {FALSE}
    StreamDepth = 3
    DropsSubscriber = FALSE
    PlayerMayFail = TRUE
    MaxCommands = 0
    QueueDepth = 2
    PostsTimeOut = FALSE
    HoldsTimeOut = TRUE
    LinkFails = TRUE
    Interferes = FALSE
    Reloads = FALSE
INVARIANTS
    OneCallPerTarget
SYMMETRY Interchangeable
CHECK_DEADLOCK FALSE
