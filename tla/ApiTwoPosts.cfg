SPECIFICATION ApiSpec
CONSTANTS
    Requests = {r1, r2}
    CallIds = {c1, c2}
    Targets = {t1}
    StreamDepth = 3
    DropsSubscriber = TRUE
    PlayerMayFail = FALSE
    MaxCommands = 0
INVARIANTS
    OneCallPerTarget
SYMMETRY Interchangeable
