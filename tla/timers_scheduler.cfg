\* Two timers of one owner or two, an outside thread and callbacks that call, and
\* a clock long enough for the worker to fall behind by more than an interval.
SPECIFICATION FairSpec
CONSTANTS
    o1 = o1
    o2 = o2
    Ids = {i1, i2}
    Owners = {o1, o2}
    Callers = {main}
    Worker = worker
    Requests <- SomeRequests
    MaxLag = 1
    MaxTime = 3
    None = None
INVARIANTS TypeOK CancelIsFinal SleepersAreRight
PROPERTIES RepeatsInTime DueTasksRun CallersReturn
CHECK_DEADLOCK FALSE
