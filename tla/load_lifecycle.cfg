SPECIFICATION Spec
CONSTANTS
    l1 = l1
    n1 = n1
    h1 = h1
    h2 = h2
    w1 = w1
    w2 = w2
    NoLoad = NoLoad
    NoWorker = NoWorker
    Loads = {l1, n1}
    LocalLoads = {l1}
    Handles = {h1, h2}
    Workers = {w1, w2}
    Sizes = {1, 3}
    ByteLimit = 2
    PendingLimit = 1
    RequestLimit = 2
    InitialLimit = 1
    Concurrency = {0, 2}
    MaxRuns = 2
    MaxSpawnFailures = 0
SYMMETRY Interchangeable
INVARIANTS TypeOK QueuedWaitsForASlot ResultsAreSound NothingIsKept BytesAccounted
PROPERTIES PayloadHandedOver KeepsPromise
