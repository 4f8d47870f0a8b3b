SPECIFICATION Spec
CONSTANTS
    i1 = i1
    i2 = i2
    t1 = t1
    t2 = t2
    s1 = s1
    Ids <- MCIds
    MaxAlerts = 3
    Threads <- MCThreads
    Admins <- MCAdmins
    Deployments <- MCDeployments
    Requests = 2
    Prunes = 1
    NoAlert = NoAlert
    NoDoc = NoDoc
INVARIANTS
    StatusKept
    OneDocument
    AllCounted
    HighIsAudited
PROPERTY
    FlushReachesServer
CHECK_DEADLOCK FALSE
