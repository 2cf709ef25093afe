SPECIFICATION Spec
CONSTANTS
    Targets = {t1}
    Requests = {p1, p2, p3}
    UrgentPages = {p3}
    CallIds = {c1, c2, c3}
    Policies = {"queue", "preempt", "reject"}
    LockChoices = {FALSE}
    StreamDepth = 3
    DropsSubscriber = FALSE
    PlayerMayFail = TRUE
    MaxCommands = 1
    QueueDepth = 2
    PostsTimeOut = FALSE
    HoldsTimeOut = FALSE
    LinkFails = FALSE
    Interferes = TRUE
    Reloads = FALSE
INVARIANTS
    PlayerTypeOK
    PagesAccounted
    NoLostWakeup
    UrgentSkipsQueue
PROPERTIES
    HeldUntilTheEnd
SYMMETRY Interchangeable
CHECK_DEADLOCK FALSE
