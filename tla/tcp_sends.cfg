\* Two senders with two sends between them, lent and of two bytes or owned and empty,
\* a kernel that takes one byte at a time, a limit that comes and goes, sends with and
\* without a timeout.
SPECIFICATION FairSpec
CONSTANTS
    Senders = {s1, s2}
    Requests <- SomeRequests
    Marks = {0, 1}
    Timeouts = {FALSE, TRUE}
    Capacity = 1
    Main = main
    Receiver = receiver
    Writer = writer
    MaxSends = 2
INVARIANTS TypeOK PayloadsAreSound CloseIsNoFailure
PROPERTIES KeepsOrder NobodyHangs
CHECK_DEADLOCK FALSE
