SPECIFICATION FairSpec
CONSTANTS
    Tasks = {t1, t2}
    Messages = {m1, m2, bad}
    Invalid = {bad}
    NoTask = NoTask
    NoMessage = NoMessage
    MaxOutages = 2
    MaxStops = 1
INVARIANTS
    NothingLost
    RepeatsExplained
    ReconnectScheduled
PROPERTIES
    KeepsItsPromise
    CacheIsDrained
CHECK_DEADLOCK FALSE
