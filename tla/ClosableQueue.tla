--------------------------- MODULE ClosableQueue ---------------------------
(***************************************************************************)
(* What a ThreadChannel promises (tcThreadChannel.h): the values come out  *)
(* once each and in the order they were sent, but for those dropped by     *)
(* clear(), and after close() nothing goes in or comes out.                *)
(*                                                                         *)
(* ThreadChannel implements this specification.  Values are named by the   *)
(* order they were sent in.                                                *)
(***************************************************************************)
EXTENDS Integers, Sequences

VARIABLES
    sent,     \* how many values were sent
    left,     \* how many of them are no longer queued
    got,      \* the values received, in order
    closed
cqvars == <<sent, left, got, closed>>

CQInit == sent = 0 /\ left = 0 /\ got = <<>> /\ closed = FALSE

Put ==
    /\ ~closed
    /\ sent' = sent + 1
    /\ UNCHANGED <<left, got, closed>>

\* The n oldest values go to one receiver.
TakeOldest(n) ==
    /\ ~closed
    /\ got' = got \o [i \in 1 .. n |-> left + i]
    /\ left' = left + n
    /\ UNCHANGED <<sent, closed>>

Drop ==
    /\ left' = sent
    /\ UNCHANGED <<sent, got, closed>>

Shut ==
    /\ closed' = TRUE
    /\ UNCHANGED <<sent, left, got>>

CQNext == Put \/ Drop \/ Shut \/ \E n \in 1 .. sent - left : TakeOldest(n)

CQSpec == CQInit /\ [][CQNext]_cqvars
=============================================================================
