SPECIFICATION Spec
CONSTANTS
    Threads = {t1, main}
    Main = main
    Kinds <- MixedKinds
    Limits = {}
    External = FALSE
    Failures = TRUE
    Destroys = TRUE
    MaxListeners = 2
    MaxDepth = 2
    MaxBacklog = 2
INVARIANTS TypeOK ListsAreSound
PROPERTIES RemovalIsExact
CHECK_DEADLOCK FALSE
