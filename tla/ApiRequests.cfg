SPECIFICATION FairApiSpec
CONSTANTS
    Requests = {r1, r2}
    CallIds = {c1}
    Targets = {t1}
    StreamDepth = 2
    DropsSubscriber = TRUE
    PlayerMayFail = TRUE
    MaxCommands = 1
PROPERTIES
    EveryRequestAnswered
