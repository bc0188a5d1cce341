SPECIFICATION FairSpec
CONSTANTS
    n1 = n1
    n2 = n2
    h1 = h1
    h2 = h2
    w1 = w1
    NoLoad = NoLoad
    NoWorker = NoWorker
    Loads = {n1, n2}
    LocalLoads = {}
    Handles = {h1, h2}
    Workers = {w1}
    Sizes = {1}
    ByteLimit = 2
    PendingLimit = 1
    RequestLimit = 1
    InitialLimit = 1
    Concurrency = {}
    MaxRuns = 1
    MaxSpawnFailures = 1
INVARIANTS AdmissionAccounted
PROPERTIES LoadsEnd
