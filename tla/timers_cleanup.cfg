\* Two nodes, two timers, callbacks that may schedule.
SPECIFICATION NodeSpec
CONSTANTS
    o1 = o1
    o2 = o2
    Ids = {i1, i2}
    Owners = {o1, o2}
    Callers = {main}
    Main = main
    Worker = worker
    Requests <- OneShots
    MaxLag = 0
    MaxTime = 2
    None = None
INVARIANTS QuietAfterCleanup
CHECK_DEADLOCK FALSE
