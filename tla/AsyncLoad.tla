----------------------------- MODULE AsyncLoad ------------------------------
(***************************************************************************)
(* What loadAsync promises of a handle (Image, SoundBuffer, Font), whatever *)
(* threads, queues and limits serve it:                                    *)
(*                                                                         *)
(*   - a handle has at most one load in progress; starting another cancels *)
(*     it;                                                                 *)
(*   - a load is delivered at most once, to the handle that started it, and*)
(*     never after it was cancelled or superseded;                         *)
(*   - the end of a run abandons loads that were not delivered.            *)
(*                                                                         *)
(* ResourceLoad implements this specification.                             *)
(***************************************************************************)
CONSTANTS Loads, Handles, NoLoad

VARIABLES
    status,     \* [Loads -> {"new", "loading", "delivered", "cancelled"}]
    current     \* [Handles -> Loads \cup {NoLoad}]: the load a handle waits for
avars == <<status, current>>

AInit ==
    /\ status = [l \in Loads |-> "new"]
    /\ current = [h \in Handles |-> NoLoad]

\* A load that stops being awaited is cancelled unless it has ended already.
Dropped(l) == IF status[l] = "loading" THEN "cancelled" ELSE status[l]

Start(h, l) ==
    /\ status[l] = "new"
    /\ status' = [k \in Loads |-> IF k = l THEN "loading"
                                  ELSE IF k = current[h] THEN Dropped(k) ELSE status[k]]
    /\ current' = [current EXCEPT ![h] = l]

Cancel(h) ==
    /\ current[h] # NoLoad
    /\ status' = [status EXCEPT ![current[h]] = Dropped(current[h])]
    /\ current' = [current EXCEPT ![h] = NoLoad]

DeliverTo(h) ==
    /\ current[h] # NoLoad /\ status[current[h]] = "loading"
    /\ status' = [status EXCEPT ![current[h]] = "delivered"]
    /\ current' = [current EXCEPT ![h] = NoLoad]

\* The run ends before the result is delivered; the handle may outlive it.
Abandon(l) ==
    /\ status[l] = "loading"
    /\ status' = [status EXCEPT ![l] = "cancelled"]
    /\ UNCHANGED current

ANext ==
    \/ \E h \in Handles, l \in Loads : Start(h, l)
    \/ \E h \in Handles : Cancel(h) \/ DeliverTo(h)
    \/ \E l \in Loads : Abandon(l)

ASpec == AInit /\ [][ANext]_avars
=============================================================================
