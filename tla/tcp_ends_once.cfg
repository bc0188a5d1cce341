\* One sender and one payload that the kernel does not take at once.
SPECIFICATION Spec
CONSTANTS
    Senders = {s1}
    Requests <- SomeRequests
    Marks = {0}
    Timeouts = {TRUE}
    Capacity = 1
    Main = main
    Receiver = receiver
    Writer = writer
    MaxSends = 1
INVARIANT EndsOnce
CHECK_DEADLOCK FALSE
