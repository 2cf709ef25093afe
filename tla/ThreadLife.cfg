SPECIFICATION FairThreadSpec
CONSTANTS
    Commands = {k1, k2, k3}
    LoopMayDie = TRUE
INVARIANTS
    EventsBeforeAnswers
PROPERTIES
    EveryCommandAnswered
CHECK_DEADLOCK FALSE
