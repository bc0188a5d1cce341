---------------------------- MODULE WorkerThread ----------------------------
(***************************************************************************)
(* Thread (tcThread.h): an object with a worker, an owner that starts,     *)
(* stops, joins and destroys it, and a threadedFunction() that takes work  *)
(* from a ThreadChannel and may destroy the object on its own thread.      *)
(* Every access to an atomic member, every lock and every join is a step   *)
(* of its own, but where no other thread can run in between.               *)
(*                                                                         *)
(* The owner's object may be of a subclass whose destructor waits for the  *)
(* worker, as the header asks, or does not; in between, the subclass is    *)
(* destroyed and the virtual call reaches Thread's pure virtual.           *)
(***************************************************************************)
EXTENDS ThreadChannel

CONSTANTS
    Worker,      \* the worker, one of the Receivers
    MaxStarts    \* bound: threads created

ASSUME WorkerConstants == Worker \in Receivers /\ MaxStarts \in Nat

VARIABLES
    \* the object: threadRunning_, workerActive_, destroying_, whether thread_
    \* is joinable, whether startThread holds startMutex_, and whether
    \* selfDestroyed_ points to the worker's flag
    running, active, destroying, joinable, startHeld, selfSet,
    gone,        \* the object's lifetime has ended
    opc, wpc,    \* where the owner and the worker are
    destroyed,   \* the flag on the worker's stack
    \* history: threads created and calls of threadedFunction(), whether the
    \* subclass waited in its destructor, whether a stop was asked for since
    \* the last start, and whether the destructor warned
    spawned, calls, waited, stopAsked, warned

objvars == <<running, active, destroying, joinable, startHeld, selfSet, gone>>
history == <<spawned, calls, waited, stopAsked, warned>>
vars == <<chanvars, objvars, opc, wpc, destroyed, history>>

\* The owner is at a join, or in what destroys the object.
Joining == {"startJoin", "join", "subJoin", "dtorJoin"}
Destruction == {"base", "look", "dtorStop", "dtorJoin", "gone"}

Init ==
    /\ ChannelInit
    /\ running = FALSE /\ active = FALSE /\ destroying = FALSE
    /\ joinable = FALSE /\ startHeld = FALSE /\ selfSet = FALSE /\ gone = FALSE
    /\ opc = "idle" /\ wpc = "none" /\ destroyed = FALSE
    /\ spawned = 0 /\ calls = 0
    /\ waited = FALSE /\ stopAsked = FALSE /\ warned = FALSE

-----------------------------------------------------------------------------
(* The owner.                                                              *)

OwnerIdle == opc = "idle" /\ ~gone

\* startThread reads threadRunning_, and thread_ if it goes on.
Start ==
    /\ OwnerIdle /\ spawned < MaxStarts
    /\ ~running
    /\ opc' = IF joinable THEN "startJoin" ELSE "flags"
    /\ UNCHANGED <<chanvars, objvars, wpc, destroyed, history>>

\* The three joins of the owner: thread_ is joined, and the next step.
Join(from, to) ==
    /\ opc = from /\ wpc = "dead"
    /\ joinable' = FALSE /\ wpc' = "none"
    /\ opc' = to
    /\ UNCHANGED <<chanvars, running, active, destroying, startHeld, selfSet,
                   gone, destroyed, history>>

\* No worker lives here: the flags and the lock are one step.
SetFlags ==
    /\ opc = "flags"
    /\ running' = TRUE /\ active' = TRUE /\ startHeld' = TRUE
    /\ stopAsked' = FALSE
    /\ opc' = "spawn"
    /\ UNCHANGED <<chanvars, destroying, joinable, selfSet, gone, wpc,
                   destroyed, spawned, calls, waited, warned>>

\* The constructor of std::thread starts the worker before thread_ is
\* assigned, or throws: the lock is released, and the flags stay.
Spawn ==
    /\ opc = "spawn"
    /\ wpc' = "born" /\ destroyed' = FALSE
    /\ spawned' = spawned + 1
    /\ opc' = "assign"
    /\ UNCHANGED <<chanvars, objvars, calls, waited, stopAsked, warned>>

SpawnFails ==
    /\ opc = "spawn"
    /\ startHeld' = FALSE
    /\ opc' = "idle"
    /\ UNCHANGED <<chanvars, running, active, destroying, joinable, selfSet,
                   gone, wpc, destroyed, history>>

Assign ==
    /\ opc = "assign"
    /\ joinable' = TRUE
    /\ opc' = "unlock"
    /\ UNCHANGED <<chanvars, running, active, destroying, startHeld, selfSet,
                   gone, wpc, destroyed, history>>

Unlock ==
    /\ opc = "unlock"
    /\ startHeld' = FALSE
    /\ opc' = "idle"
    /\ UNCHANGED <<chanvars, running, active, destroying, joinable, selfSet,
                   gone, wpc, destroyed, history>>

\* stopThread, called by the owner.
Stop ==
    /\ OwnerIdle
    /\ running' = FALSE /\ stopAsked' = TRUE
    /\ UNCHANGED <<chanvars, active, destroying, joinable, startHeld, selfSet,
                   gone, opc, wpc, destroyed, spawned, calls, waited, warned>>

\* waitForThread(stop): as a call of its own (next is "join"), or in the
\* destructor of a subclass that waits ("subJoin").
Wait(stop, next, after) ==
    /\ OwnerIdle
    /\ IF stop THEN running' = FALSE /\ stopAsked' = TRUE
               ELSE UNCHANGED <<running, stopAsked>>
    /\ opc' = IF joinable THEN next ELSE after
    /\ waited' = (next = "subJoin")
    /\ UNCHANGED <<chanvars, active, destroying, joinable, startHeld, selfSet,
                   gone, wpc, destroyed, spawned, calls, warned>>

\* The destructor of a subclass that does not wait.
DestroyUnwaited ==
    /\ OwnerIdle
    /\ opc' = "base"
    /\ UNCHANGED <<chanvars, objvars, wpc, destroyed, history>>

\* ~Thread, from its first statement on.
DtorMarks ==
    /\ opc = "base"
    /\ destroying' = TRUE
    /\ opc' = "look"
    /\ UNCHANGED <<chanvars, running, active, joinable, startHeld, selfSet,
                   gone, wpc, destroyed, history>>

DtorLooks ==
    /\ opc = "look"
    /\ warned' = (joinable /\ active)
    /\ opc' = "dtorStop"
    /\ UNCHANGED <<chanvars, objvars, wpc, destroyed, spawned, calls, waited,
                   stopAsked>>

DtorStops ==
    /\ opc = "dtorStop"
    /\ running' = FALSE /\ stopAsked' = TRUE
    /\ opc' = IF joinable THEN "dtorJoin" ELSE "gone"
    /\ gone' = ~joinable
    /\ UNCHANGED <<chanvars, active, destroying, joinable, startHeld, selfSet,
                   wpc, destroyed, spawned, calls, waited, warned>>

DtorJoins ==
    /\ opc = "dtorJoin" /\ wpc = "dead"
    /\ joinable' = FALSE /\ wpc' = "none"
    /\ gone' = TRUE /\ opc' = "gone"
    /\ UNCHANGED <<chanvars, running, active, destroying, startHeld, selfSet,
                   destroyed, history>>

Waits == \/ \E stop \in BOOLEAN : Wait(stop, "join", "idle")
         \/ Wait(TRUE, "subJoin", "base")

\* What the owner does once it has begun an operation.
Proceeds ==
    \/ Join("startJoin", "flags") \/ SetFlags \/ Spawn \/ Assign \/ Unlock
    \/ Join("join", "idle") \/ Join("subJoin", "base")
    \/ DtorMarks \/ DtorLooks \/ DtorStops \/ DtorJoins

Owner == \/ Start \/ SpawnFails \/ Stop \/ Waits \/ DestroyUnwaited
         \/ Proceeds

-----------------------------------------------------------------------------
(* The worker: startThread's lambda.                                       *)

WorkerGoes(from, to) == wpc = from /\ wpc' = to

\* mutant: startMutex_ is not taken.
WorkerRushes ==
    /\ WorkerGoes("born", "check")
    /\ UNCHANGED <<chanvars, objvars, opc, destroyed, history>>

\* It waits for startThread to release startMutex_.
WorkerStarts ==
    /\ WorkerGoes("born", "check")
    /\ ~startHeld
    /\ UNCHANGED <<chanvars, objvars, opc, destroyed, history>>

\* mutant: a worker that was stopped skips the call as well.
WorkerSkipsStopped ==
    /\ WorkerGoes("check", "exit")
    /\ destroying \/ ~running
    /\ UNCHANGED <<chanvars, objvars, opc, destroyed, history>>

\* It skips the call once ~Thread has begun, and dies.
WorkerSkips ==
    /\ WorkerGoes("check", "exit")
    /\ destroying
    /\ UNCHANGED <<chanvars, objvars, opc, destroyed, history>>

WorkerPasses ==
    /\ WorkerGoes("check", "call")
    /\ ~destroying
    /\ selfSet' = TRUE
    /\ UNCHANGED <<chanvars, running, active, destroying, joinable, startHeld,
                   gone, opc, destroyed, history>>

\* The virtual call.  In ~Thread it reaches the pure virtual: abort.
WorkerCalls ==
    /\ WorkerGoes("call", IF opc \in Destruction THEN "aborted" ELSE "function")
    /\ calls' = IF opc \in Destruction THEN calls ELSE calls + 1
    /\ UNCHANGED <<chanvars, objvars, opc, destroyed, spawned, waited,
                   stopAsked, warned>>

WorkerReturns ==
    /\ WorkerGoes("function", "returned")
    /\ at[Worker] = "away"
    /\ UNCHANGED <<chanvars, objvars, opc, destroyed, history>>

\* threadedFunction() as the header has it: while (isThreadRunning()) receive.
WorkerReceives ==
    /\ wpc = "function" /\ running /\ ~destroyed
    /\ Receives(Worker)
    /\ UNCHANGED <<objvars, opc, wpc, destroyed, history>>

\* waitForThread() on the worker itself stops it and does not join.
WaitOnWorker ==
    /\ wpc = "function" /\ at[Worker] = "away" /\ ~gone
    /\ running' = FALSE /\ stopAsked' = TRUE
    /\ UNCHANGED <<chanvars, active, destroying, joinable, startHeld, selfSet,
                   gone, opc, wpc, destroyed, spawned, calls, waited, warned>>

\* mutant: the call is made again while it should run.
WorkerRepeats ==
    /\ WorkerGoes("returned", IF destroyed THEN "exit"
                              ELSE IF running THEN "call" ELSE "unset")
    /\ UNCHANGED <<chanvars, objvars, opc, destroyed, history>>

WorkerLeaves ==
    /\ WorkerGoes("returned", IF destroyed THEN "exit" ELSE "unset")
    /\ UNCHANGED <<chanvars, objvars, opc, destroyed, history>>

WorkerUnsets ==
    /\ WorkerGoes("unset", "inactive")
    /\ selfSet' = FALSE
    /\ UNCHANGED <<chanvars, running, active, destroying, joinable, startHeld,
                   gone, opc, destroyed, history>>

\* mutant: threadRunning_ is cleared first.
StoppedFirst ==
    /\ WorkerGoes("inactive", "stopped")
    /\ running' = FALSE
    /\ UNCHANGED <<chanvars, active, destroying, joinable, startHeld, selfSet,
                   gone, opc, destroyed, history>>

WorkerInactive ==
    /\ WorkerGoes("inactive", "stopped")
    /\ active' = FALSE
    /\ UNCHANGED <<chanvars, running, destroying, joinable, startHeld, selfSet,
                   gone, opc, destroyed, history>>

WorkerStopped ==
    /\ WorkerGoes("stopped", "exit")
    /\ running' = FALSE
    /\ UNCHANGED <<chanvars, active, destroying, joinable, startHeld, selfSet,
                   gone, opc, destroyed, history>>

\* The lambda is over; a detached worker has nobody left to join it.
WorkerDies ==
    /\ WorkerGoes("exit", "dead")
    /\ UNCHANGED <<chanvars, objvars, opc, destroyed, history>>

\* ~Thread on the worker: threadedFunction(), or a thread_local owner at the
\* end of the thread, releases the object.  The owner has let go of it, but
\* may still be in the startThread that created this worker.
DestroyOnWorker ==
    /\ wpc \in {"function", "exit"} /\ at[Worker] = "away"
    /\ ~gone /\ opc \in {"idle", "assign", "unlock"}
    /\ destroying' = TRUE /\ running' = FALSE /\ stopAsked' = TRUE
    /\ destroyed' = (destroyed \/ (joinable /\ selfSet))
    /\ joinable' = FALSE
    /\ gone' = TRUE
    /\ UNCHANGED <<chanvars, active, startHeld, selfSet, opc, wpc, spawned,
                   calls, waited, warned>>

Lambda == \/ WorkerStarts \/ WorkerSkips \/ WorkerPasses \/ WorkerCalls
          \/ WorkerLeaves \/ WorkerUnsets \/ WorkerInactive \/ WorkerStopped
          \/ WorkerDies

WorkerNext == \/ Lambda \/ WorkerReturns \/ WorkerReceives \/ WaitOnWorker
              \/ DestroyOnWorker

-----------------------------------------------------------------------------
\* The channel's other users.
Others ==
    /\ \/ AnyThread
       \/ \E r \in Receivers \ {Worker} : Receives(r)
       \/ \E r \in Receivers : Wakes(r)
    /\ UNCHANGED <<objvars, opc, wpc, destroyed, history>>

Next == wpc # "aborted" /\ (Owner \/ WorkerNext \/ Others)

Spec == Init /\ [][Next]_vars

\* What a threadedFunction() written as the header asks does in the end: it
\* returns when it was stopped or its channel was closed.
Finishes == WorkerReturns /\ (~running \/ closed)

WakesUp(r) == Resume(r) /\ UNCHANGED <<objvars, opc, wpc, destroyed, history>>

\* The threads run on; the owner and senders are free to do nothing more.
Fairness ==
    /\ WF_vars(wpc # "aborted" /\ Proceeds)
    /\ WF_vars(Lambda) /\ WF_vars(Finishes)
    /\ \A r \in Receivers : WF_vars(wpc # "aborted" /\ WakesUp(r))

FairSpec == Spec /\ Fairness

-----------------------------------------------------------------------------
(* Properties.                                                             *)

TypeOK ==
    /\ ChannelTypeOK
    /\ running \in BOOLEAN /\ active \in BOOLEAN /\ destroying \in BOOLEAN
    /\ joinable \in BOOLEAN /\ startHeld \in BOOLEAN /\ selfSet \in BOOLEAN
    /\ gone \in BOOLEAN /\ destroyed \in BOOLEAN
    /\ waited \in BOOLEAN /\ stopAsked \in BOOLEAN /\ warned \in BOOLEAN
    /\ opc \in {"idle", "flags", "spawn", "assign", "unlock"} \cup Joining
                 \cup Destruction
    /\ wpc \in {"none", "born", "check", "call", "aborted", "function",
                "returned", "unset", "inactive", "stopped", "exit", "dead"}
    /\ spawned \in 0 .. MaxStarts /\ calls \in 0 .. spawned

\* Neither thread touches a destroyed object: the worker is only where it
\* reads nothing of it, and the owner is not in startThread.  And the
\* object never points to a flag whose frame is gone.
NoneTouchesTheDead ==
    /\ gone => /\ wpc \in {"none", "function", "returned", "exit", "dead"}
               /\ opc \in {"idle", "gone"}
               /\ wpc \in {"function", "returned"} => destroyed
    /\ selfSet => gone \/ wpc \in {"call", "function", "returned", "unset", "aborted"}

\* The header's promise to a subclass that waits in its own destructor: once
\* ~Thread runs there is no worker, every thread it started has called
\* threadedFunction(), and no warning is logged.
WaitingIsEnough ==
    waited /\ opc \in Destruction => wpc = "none" /\ calls = spawned /\ ~warned

\* A Thread may be destroyed wherever its header says so, by its owner or on its
\* own worker.
DestructionIsSafe == NoneTouchesTheDead /\ WaitingIsEnough

\* The flags tell the truth as long as nobody asked for a stop: a worker on
\* its way to or in threadedFunction() is seen running, whatever the one
\* before it still had to write, and whoever sees isThreadRunning() false
\* finds workerActive_ false too, so that a thread that finished by itself
\* is not warned about.
FlagsAreTrue ==
    ~stopAsked => /\ wpc \in {"born", "check", "call", "function"} => running
                  /\ ~running => ~active

\* Nobody waits on everybody: with the channel closed, every join returns,
\* unless the program has aborted in the pure virtual.
JoinsReturn ==
    (opc \in Joining /\ closed) ~> (opc \notin Joining \/ wpc = "aborted")
=============================================================================
