SPECIFICATION FairSpec
CONSTANTS
    alice = alice
    bob = bob
    t1 = t1
    t2 = t2
    g1 = g1
    Users = {alice, bob}
    VMs = {v1, v2, v3}
    Templates = {t1}
    Groups = {g1}
    StartJobs = {j1, j2, m1}
    ManualJobs = {m1}
    Handlers = {h1}
    Members <- PairMembers
    AccessGroups <- PairAccessGroups
    GroupMembers <- PairGroupMembers
    Faults = FALSE
    NoUser = NoUser
    NoVM = NoVM
    NoTemplate = NoTemplate
INVARIANTS
    SeatsAreHeld
PROPERTIES
    EveryMemberGetsAVM
