SPECIFICATION Spec
CONSTANTS
    Targets = {t1}
    Requests = {p1, p2}
    UrgentPages = {p2}
    CallIds = {c1, c2}
    Policies = {"queue"}
    LockChoices = {FALSE}
    StreamDepth = 3
    DropsSubscriber = FALSE
    PlayerMayFail = FALSE
    MaxCommands = 0
    QueueDepth = 2
    PostsTimeOut = FALSE
    HoldsTimeOut = FALSE
    LinkFails = FALSE
    Interferes = FALSE
    Reloads = FALSE
INVARIANTS
    UrgentPreempts
SYMMETRY Interchangeable
CHECK_DEADLOCK FALSE
