----------------------------- MODULE NodeTimers -----------------------------
(***************************************************************************)
(* Nodes that own async timers: AsyncScheduler together with the part of   *)
(* Node (tcNode.h) that schedules on behalf of a node and stops its timers *)
(* before the node's cleanup().  A node is its owner token.                *)
(***************************************************************************)
EXTENDS AsyncScheduler

CONSTANT Main   \* the member of Callers that runs node trees

VARIABLE node   \* per owner: "alive", "leaving" (in onCleanupStart), "clean"

nodeVars == <<vars, node>>

NodeInit == Init /\ node = [o \in Owners |-> "alive"]

\* callAfterAsync, callEveryAsync: a thread calls them on a live node, a callback on
\* its own node or on a live one.
MaySchedule(c, o) ==
    \/ node[o] = "alive"
    \/ c = Worker /\ executing # None /\ o = owner[executing]

NodeSchedules(c) ==
    \E i \in Ids, r \in Requests :
        /\ MaySchedule(c, r.owner)
        /\ Schedule(c, i, r, now)
        /\ UNCHANGED node

\* cancelAsyncTimer.
NodeCancels(c) == \E i \in scheduled : Cancel(c, i) /\ UNCHANGED node

\* cleanupTree: onCleanupStart cancels the node's timers and waits.
CleanupStarts(o) ==
    /\ node[o] = "alive"
    /\ Cancel(Main, o)
    /\ node' = [node EXCEPT ![o] = IF awaits'[Main] = None THEN "clean" ELSE "leaving"]

\* The wait goes on or ends; cleanup() then runs.
CleanupResumes ==
    /\ Recheck(Main)
    /\ node' = [o \in Owners |->
                   IF node[o] = "leaving" /\ awaits'[Main] = None THEN "clean" ELSE node[o]]

NodeNext ==
    \/ \E c \in Callers \cup {Worker} : NodeSchedules(c) \/ NodeCancels(c)
    \/ \E o \in Owners : CleanupStarts(o)
    \/ CleanupResumes
    \/ (\E c \in Callers \ {Main} : Recheck(c)) /\ UNCHANGED node
    \/ (WorkerLoop \/ CallbackReturns \/ WorkerWakes \/ Tick) /\ UNCHANGED node

NodeSpec == NodeInit /\ [][NodeNext]_nodeVars

\* Once cleanup() may run, no async callback of the node does: the hook has cancelled
\* them and waited.
QuietAfterCleanup == executing # None => node[owner[executing]] # "clean"

=============================================================================
