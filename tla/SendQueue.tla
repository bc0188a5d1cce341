----------------------------- MODULE SendQueue -----------------------------
(***************************************************************************)
(* What sendAsync and send promise of one connection (tcSendResult.h),     *)
(* whatever threads carry the bytes: an accepted send completes once, in   *)
(* the order of acceptance; the first one that fails ends the connection,  *)
(* so that later ones fail too and no more are accepted.                   *)
(*                                                                         *)
(* TcpConnection implements this specification.                            *)
(***************************************************************************)
EXTENDS Naturals, Sequences

VARIABLES
    accepted,   \* how many sends were given an id: the ids are 1 .. accepted
    completed   \* the completions reported, oldest first
sqvars == <<accepted, completed>>

Completion(n, e) == [id |-> n, error |-> e]

Broken == \E i \in 1 .. Len(completed) : completed[i].error # "None"

SQInit == accepted = 0 /\ completed = <<>>

Accept ==
    /\ ~Broken
    /\ accepted' = accepted + 1
    /\ UNCHANGED completed

Complete(e) ==
    /\ Len(completed) < accepted
    /\ Broken => e # "None"
    /\ completed' = Append(completed, Completion(Len(completed) + 1, e))
    /\ UNCHANGED accepted

SQNext == Accept \/ \E e \in {"None", "Disconnected"} : Complete(e)

SQSpec == SQInit /\ [][SQNext]_sqvars
=============================================================================
