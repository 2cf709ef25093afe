SPECIFICATION FairClientSpec
CONSTANTS
    Accounts = {a1, a2}
    StreamDepth = 2
    MaxChanges = 5
    MaxFaults = 3
    BackoffMax = 2
INVARIANTS
    ClientTypeOK
    LateButRight
    NothingShownBlind
PROPERTIES
    ComesRight
CHECK_DEADLOCK FALSE
