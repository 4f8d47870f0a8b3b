SPECIFICATION FairSpec
CONSTANTS
    Handlers = {h1, h2}
    Workers = {w1, w2}
    Modes <- AllModes
    Counts = {1}
    Limits = {1}
    Faults = {}
    MaxPosts = 2
PROPERTIES
    MarkedOrgSettles
CHECK_DEADLOCK FALSE
