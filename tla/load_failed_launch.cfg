SPECIFICATION FairSpec
CONSTANTS
    l1 = l1
    n1 = n1
    h1 = h1
    h2 = h2
    w1 = w1
    NoLoad = NoLoad
    NoWorker = NoWorker
    Loads = {l1, n1}
    LocalLoads = {l1}
    Handles = {h1, h2}
    Workers = {w1}
    Sizes = {1}
    ByteLimit = 2
    PendingLimit = 1
    RequestLimit = 2
    InitialLimit = 1
    Concurrency = {}
    MaxRuns = 1
    MaxSpawnFailures = 1
PROPERTY QueuedGetsASlot
