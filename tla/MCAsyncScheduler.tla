-------------------------- MODULE MCAsyncScheduler --------------------------
(* A small instance of AsyncScheduler for TLC: callbacks run once at once, *)
(* repeat at once (an interval below a tick) and repeat every tick.        *)
EXTENDS AsyncScheduler

CONSTANTS o1, o2

Ask(o, d, r) == [owner |-> o, delay |-> d, repeats |-> r]
SomeRequests == {Ask(o1, 0, FALSE), Ask(o1, 1, TRUE), Ask(o2, 0, TRUE)}

=============================================================================
