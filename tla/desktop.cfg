SPECIFICATION Spec
CONSTANTS
    u1 = u1
    u2 = u2
    v1 = v1
    v2 = v2
    s1 = s1
    s2 = s2
    Users <- MCUsers
    VMs <- MCVMs
    Sessions <- MCSessions
    MaxTries = 3
    Deployments <- MCDeployments
    NoUser = NoUser
    NoVM = NoVM
    NoSession = NoSession
INVARIANTS
    ConnectedIsReal
    TunnelIsUsers
    NoSeatLeft
PROPERTIES
    
    LeavingEndsTunnel
CHECK_DEADLOCK FALSE
