---------------------------- MODULE MCNodeTimers ----------------------------
(* A small instance of NodeTimers for TLC: callbacks that run once, a tick *)
(* after they were asked for.                                              *)
EXTENDS NodeTimers

CONSTANTS o1, o2

OneShots == {[owner |-> o, delay |-> 1, repeats |-> FALSE] : o \in Owners}

=============================================================================
