CONSTANTS
    u0 = u0  u1 = u1  u2 = u2  j1 = j1
    n0 = n0  n1 = n1  e0 = e0  e1 = e1  e2 = e2
    h1 = h1  h2 = h2  w1 = w1  w2 = w2
    Users = {u0, u1, u2, j1}
    JobUsers = {j1}
    Founders = {u0}
    Names = {n0, n1}
    Emails = {e0, e1, e2}
    People <- ThePeople
    Identity <- TheIdentity
    UserLimit = 2
    Handlers = {h1, h2}
    Workers = {w1, w2}
    Deployments <- TheDeployments
    Requests = 3
    NoUser = NoUser
    NoName = NoName
    NoEmail = NoEmail
SPECIFICATION Spec
INVARIANTS   AdminRemains
 
CHECK_DEADLOCK FALSE
