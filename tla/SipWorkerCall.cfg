SPECIFICATION FairSpec
CONSTANTS
    CallIds = {c1}
    Targets = {t1}
    Accounts = {a1}
    Commands = {"place_call", "hangup", "hangup_target", "replace_media", "set_paused", "stop"}
    Durations = {1, 3}
    LeadIns = {1}
    AnswerTimeout = 2
    MaxCall = 4
    Tail = 1
    EofSlack = 1
    PlayerMayFail = TRUE
    LastStart = 1
    MaxTime = 7
INVARIANTS
    TypeOK
    HardCap
    AnswerCap
    NoLinger
    ClipAccounting
    HistoryExplains
    EventsTellTheTruth
PROPERTIES
    CompleteOnlyWhenHeard
    KeepsCallPromise
    EveryCallEnds
CHECK_DEADLOCK FALSE
