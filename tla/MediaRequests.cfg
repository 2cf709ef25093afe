SPECIFICATION FairCacheSpec
CONSTANTS
    Requests = {r1, r2}
    Urls = {speech, other}
    Sounds = {ding}
    Chimes = {ding}
    Budget = 2
    MaxEdits = 1
    Restarts = TRUE
    Long = other
    Bytes <- ClipBytes
INVARIANTS
    CacheTypeOK
    OneWriter
    ClipsAreWhole
    JoinsAreWhole
    PromisedIsPlayable
PROPERTIES
    HitsAreCurrent
    EveryPageResolved
CHECK_DEADLOCK FALSE
