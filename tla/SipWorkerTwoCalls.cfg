SPECIFICATION Spec
CONSTANTS
    CallIds = {c1, c2}
    Targets = {t1, t2}
    Accounts = {a1}
    Commands = {"place_call", "hangup", "hangup_target"}
    Durations = {1}
    LeadIns = {0, 1}
    AnswerTimeout = 2
    MaxCall = 2
    Tail = 1
    EofSlack = 1
    PlayerMayFail = FALSE
    LastStart = 1
    MaxTime = 5
INVARIANTS
    LeadInHonoured
PROPERTIES
    PreemptClearsTarget
SYMMETRY Interchangeable
