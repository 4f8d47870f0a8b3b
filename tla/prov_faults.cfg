SPECIFICATION Spec
CONSTANTS
    Handlers = {h1, h2}
    Workers = {w1, w2}
    Modes <- AllModes
    Counts = {1}
    Limits = {1, 2}
    Faults = {"raise", "crash"}
    MaxPosts = 2
SYMMETRY Symmetric
INVARIANTS
    OneInventoryPerWorker
    OneWelcomePerWorker
    OneBuildPerThread
CHECK_DEADLOCK FALSE
