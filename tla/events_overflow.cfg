SPECIFICATION FairSpec
CONSTANTS
    Threads = {t1, t2, main}
    Main = main
    Kinds <- MainKinds
    Limits = {0, 1, 2}
    External = TRUE
    Failures = TRUE
    Destroys = TRUE
    MaxListeners = 1
    MaxDepth = 1
    MaxBacklog = 2
INVARIANTS BacklogAccounted
PROPERTIES CopiesAreServed
CHECK_DEADLOCK FALSE
