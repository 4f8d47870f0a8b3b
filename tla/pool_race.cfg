SPECIFICATION Spec
CONSTANTS
    alice = alice
    bob = bob
    t1 = t1
    t2 = t2
    g1 = g1
    Users = {alice, bob}
    VMs = {v1, v2}
    Templates = {t1, t2}
    Groups = {g1}
    StartJobs = {j1, j2, m1}
    ManualJobs = {m1}
    Handlers = {h1, h2}
    Members <- MCMembers
    AccessGroups <- MCAccessGroups
    GroupMembers <- MCGroupMembers
    Faults = TRUE
    NoUser = NoUser
    NoVM = NoVM
    NoTemplate = NoTemplate
SYMMETRY Symmetric
INVARIANTS
    UsedIffOwned
    OwnersEntitled
