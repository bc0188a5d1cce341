----------------------------- MODULE SlotQueue -----------------------------
(***************************************************************************)
(* What posting a slot to the main thread promises, whatever lock-free     *)
(* list carries it: slots run oldest first, a slot waits at most once at a *)
(* time, and a turn runs only what was waiting when it began.              *)
(*                                                                         *)
(* MainThreadSlots implements this specification.                          *)
(***************************************************************************)
EXTENDS Naturals, Sequences

CONSTANTS Slots, Null

VARIABLES
    waiting,    \* posted slots, oldest first
    taken,      \* the slots of the current turn that have still to run
    running     \* the slot that runs, or Null
qvars == <<waiting, taken, running>>

Queued(s) == \E i \in 1 .. Len(waiting) : waiting[i] = s
Taken(s) == \E i \in 1 .. Len(taken) : taken[i] = s

QInit == waiting = <<>> /\ taken = <<>> /\ running = Null

Post(s) ==
    /\ ~Queued(s) /\ ~Taken(s)
    /\ waiting' = Append(waiting, s)
    /\ UNCHANGED <<taken, running>>

Turn ==
    /\ taken = <<>> /\ running = Null
    /\ taken' = waiting
    /\ waiting' = <<>>
    /\ UNCHANGED running

Run ==
    /\ taken # <<>> /\ running = Null
    /\ running' = Head(taken)
    /\ taken' = Tail(taken)
    /\ UNCHANGED waiting

Return ==
    /\ running # Null
    /\ running' = Null
    /\ UNCHANGED <<waiting, taken>>

QNext == (\E s \in Slots : Post(s)) \/ Turn \/ Run \/ Return

QSpec == QInit /\ [][QNext]_qvars
=============================================================================
