\* The process ends, so that the system may stop.
CHECK_DEADLOCK FALSE
SPECIFICATION FairSpec
CONSTANTS
    main = main
    worker = worker
    exiting = exiting
    ordinary = ordinary
    NoCallback = NoCallback
    Main = main
    Threads <- MCThreads
    Callbacks <- MCCallbacks
    ExitCallbacks <- MCExitCallbacks
INVARIANTS TypeOK CancelledOnce EndsForCause
PROPERTIES EndsAreReached
