---------------------------- MODULE ResourceLoad ----------------------------
(***************************************************************************)
(* Asynchronous resource loading: the process-wide LoadHost of             *)
(* tcResourceLoad.cpp, the per-handle ResourceLoadSlot of tcResourceLoad.h *)
(* and their three kinds of threads:                                       *)
(*                                                                         *)
(*   - main, which runs application code, starts and cancels loads, takes  *)
(*     the completion mailbox once a turn and applies its results;         *)
(*   - preparation workers, each of which keeps one of `activeLimit` slots *)
(*     while it drains the pending queue;                                  *)
(*   - the reaper, which joins finished workers.                           *)
(*                                                                         *)
(* One mutex guards the host.  `cancelled` is the only field that is read  *)
(* and written outside it, so a critical section is one action except in   *)
(* completeResourceLoad, which reads `cancelled` twice while it holds the  *)
(* mutex: `lockedBy` is the worker between those two reads.                *)
(*                                                                         *)
(* The desktop build is modelled; the __EMSCRIPTEN__ branches are not.     *)
(***************************************************************************)
EXTENDS Integers, FiniteSets, SequencesExt

CONSTANTS
    Loads,          \* one per begin(): the ResourceLoadState objects
    LocalLoads,     \* the loads whose `localFile` is set
    Handles,        \* Image / SoundBuffer / Font objects, one slot each
    Workers,        \* preparation threads
    Sizes,          \* retainedBytes() of a successful preparation
    ByteLimit,      \* host.byteLimit
    PendingLimit,   \* host.pendingLimit
    RequestLimit,   \* host.requestLimit
    InitialLimit,   \* the default of host.activeLimit
    Concurrency,    \* arguments of setResourceLoadConcurrency
    MaxRuns,        \* bound: Runtime runs of one process
    MaxSpawnFailures, \* bound: std::thread constructors that throw
    NoLoad, NoWorker

ASSUME LoadConstants ==
    /\ IsFiniteSet(Loads) /\ LocalLoads \subseteq Loads /\ NoLoad \notin Loads
    /\ IsFiniteSet(Workers) /\ NoWorker \notin Workers
    /\ Sizes \subseteq Nat /\ Concurrency \subseteq Nat
    /\ ByteLimit \in Nat /\ PendingLimit \in Nat /\ RequestLimit \in Nat
    /\ InitialLimit \in Nat \ {0} /\ MaxRuns \in Nat /\ MaxSpawnFailures \in Nat

VARIABLES
    \* LoadHost
    pending,        \* pendingHead .. pendingTail
    active,         \* preparation slots in use
    activeLimit,
    outstanding,    \* live request credits
    retained,       \* bytes charged for results
    mailbox,        \* mailbox.results
    lockedBy,       \* the worker between the two reads of completeResourceLoad
    \* ResourceLoadState
    begun,          \* loads that exist
    liveRun,        \* loads whose run token still reads true
    cancelled, completed,
    failed,         \* loads whose result is an error
    payload,        \* bytes of decoded data the load owns
    credits,        \* its share of `retained`
    requestCredit,  \* loads that hold a request credit
    \* ResourceLoadSlot::state_
    slot,
    \* preparation workers
    wpc, job,
    \* main
    where,          \* what main is running
    mstep,          \* the next step of the host call main is inside, or "idle"
    mload, mnew,    \* its operands: the load it cancels or launches, and the one it starts
    batch,          \* results of the ResourceLoadBatch still to deliver
    \* history
    delivered, runs, spawnFailures

hostVars == <<pending, active, activeLimit, outstanding, retained, mailbox, lockedBy>>
creditVars == <<outstanding, retained, credits, requestCredit>>
loadVars == <<begun, liveRun, cancelled, completed, failed, payload, credits, requestCredit>>
workerVars == <<wpc, job>>
mainVars == <<where, mstep, mload, mnew, batch>>
historyVars == <<delivered, runs, spawnFailures>>
vars == <<hostVars, loadVars, slot, workerVars, mainVars, historyVars>>

LockFree == lockedBy = NoWorker
Idle == mstep = "idle"

\* Places in which application code runs and may use handles.
AppCode == Idle /\ where \in {"frame", "listener", "cleanup"}

Init ==
    /\ pending = <<>> /\ active = 0 /\ activeLimit = InitialLimit
    /\ outstanding = 0 /\ retained = 0 /\ mailbox = <<>> /\ lockedBy = NoWorker
    /\ begun = {} /\ liveRun = {} /\ cancelled = {} /\ completed = {} /\ failed = {}
    /\ payload = [l \in Loads |-> 0] /\ credits = [l \in Loads |-> 0] /\ requestCredit = {}
    /\ slot = [h \in Handles |-> NoLoad]
    /\ wpc = [w \in Workers |-> "none"] /\ job = [w \in Workers |-> NoLoad]
    /\ where = "frame" /\ mstep = "idle" /\ mload = NoLoad /\ mnew = NoLoad /\ batch = <<>>
    /\ delivered = {} /\ runs = 1 /\ spawnFailures = 0

-----------------------------------------------------------------------------
(* Pieces of critical sections.                                            *)

ReleaseAlways(l) ==                         \* mutant: no check that a credit is held
    /\ retained' = retained - credits[l]
    /\ credits' = [credits EXCEPT ![l] = 0]
    /\ outstanding' = outstanding - 1
    /\ requestCredit' = requestCredit \ {l}

ReleaseKeepsRequest(l) ==                   \* mutant: requestCredit is not reset
    /\ retained' = retained - credits[l]
    /\ credits' = [credits EXCEPT ![l] = 0]
    /\ outstanding' = IF l \in requestCredit THEN outstanding - 1 ELSE outstanding
    /\ UNCHANGED requestCredit

ReleaseKeepsBytes(l) ==                     \* mutant: credits is not reset
    /\ retained' = retained - credits[l]
    /\ outstanding' = IF l \in requestCredit THEN outstanding - 1 ELSE outstanding
    /\ requestCredit' = requestCredit \ {l}
    /\ UNCHANGED credits

ReleaseCredits(l) ==
    /\ retained' = retained - credits[l]
    /\ credits' = [credits EXCEPT ![l] = 0]
    /\ outstanding' = IF l \in requestCredit THEN outstanding - 1 ELSE outstanding
    /\ requestCredit' = requestCredit \ {l}

DiscardPayload(l) == payload' = [payload EXCEPT ![l] = 0]

\* cancel() leaves a payload alone until the load has completed.
MayDiscardEarly(l) == TRUE                  \* mutant
MayDiscard(l) == l \in completed

LeaveQueued(l) == UNCHANGED pending         \* mutant: no unlink

\* The unlink loop of ResourceLoadState::cancel.
Unlink(l) ==
    pending' = IF \E i \in DOMAIN pending : pending[i] = l
               THEN RemoveAt(pending, CHOOSE i \in DOMAIN pending : pending[i] = l)
               ELSE pending

OverBudgetBefore(l) == retained > ByteLimit \* mutant: ignores the new result
OverBudget(l) == retained + payload[l] > ByteLimit

RefusedIfOverOrCancelled(l) ==              \* mutant: keeps a failed result's payload
    l \in cancelled \/ (l \notin LocalLoads /\ OverBudget(l))
Refused(l) == l \in cancelled \/ l \in failed \/ (l \notin LocalLoads /\ OverBudget(l))

\* The second call of completeResourceLoad for a load returns at once.
NeverSettled(l) == FALSE                    \* mutant
Settled(l) == l \in completed

\* The second read of `cancelled`: a cancelled result is not published.
PublishesSuccess(l) == l \notin cancelled \cup failed   \* mutant: drops failures
Publishes(l) == l \notin cancelled

\* completeResourceLoad up to the second read of `cancelled`.
Settle(l) ==
    /\ completed' = completed \cup {l}
    /\ IF Refused(l)
       THEN /\ failed' = IF l \in cancelled THEN failed ELSE failed \cup {l}
            /\ DiscardPayload(l)
            /\ ReleaseCredits(l)
       ELSE /\ retained' = retained + payload[l]
            /\ credits' = [credits EXCEPT ![l] = payload[l]]
            /\ UNCHANGED <<failed, payload, outstanding, requestCredit>>

AcceptsAtLimit(l) ==                        \* mutant: off by one
    \/ l \in LocalLoads
    \/ /\ outstanding <= RequestLimit
       /\ Len(pending) < PendingLimit
       /\ retained < ByteLimit

Accepts(l) ==
    \/ l \in LocalLoads
    \/ /\ outstanding < RequestLimit
       /\ Len(pending) < PendingLimit
       /\ retained < ByteLimit

\* pumpExternalLoads starts no more work.
PumpStops == pending = <<>> \/ active >= activeLimit

\* A worker that is done with a job exits.
RetiresAtLimit == pending = <<>> \/ active >= activeLimit  \* mutant: off by one
Retires == pending = <<>> \/ active > activeLimit

KeepSlot == UNCHANGED active                \* mutant: the slot leaks
GiveSlotBack == active' = active - 1

\* ResourceLoadState::cancel up to the mutex.
MarkNothing(l) == UNCHANGED cancelled       \* mutant
MarkCancelled(l) == cancelled' = cancelled \cup {l}

-----------------------------------------------------------------------------
(* Main: operations on handles.                                            *)

\* ResourceLoadSlot::begin: cancel() of the handle's previous load, then the
\* new state with the current run's token.  The first half of that cancel is
\* the store outside the mutex.
Begin(h, l) ==
    /\ AppCode /\ l \notin begun
    /\ begun' = begun \cup {l}
    /\ liveRun' = IF where = "cleanup" THEN liveRun ELSE liveRun \cup {l}
    /\ slot' = [slot EXCEPT ![h] = l]
    /\ mnew' = l
    /\ mload' = slot[h]
    /\ IF slot[h] = NoLoad
       THEN mstep' = "admit" /\ UNCHANGED cancelled
       ELSE mstep' = "cancel" /\ MarkCancelled(slot[h])
    /\ UNCHANGED <<hostVars, completed, failed, payload, credits, requestCredit,
                   workerVars, where, batch, historyVars>>

\* ResourceLoadSlot::cancel, also its destructor.
CancelHandle(h) ==
    /\ AppCode /\ slot[h] # NoLoad
    /\ MarkCancelled(slot[h])
    /\ slot' = [slot EXCEPT ![h] = NoLoad]
    /\ mload' = slot[h]
    /\ mstep' = "cancel"
    /\ UNCHANGED <<hostVars, begun, liveRun, completed, failed, payload, credits, requestCredit,
                   workerVars, where, mnew, batch, historyVars>>

\* The critical section of ResourceLoadState::cancel.
CancelLocked ==
    /\ mstep = "cancel" /\ LockFree
    /\ IF MayDiscard(mload) THEN DiscardPayload(mload) ELSE UNCHANGED payload
    /\ ReleaseCredits(mload)
    /\ Unlink(mload)
    /\ mstep' = IF mnew = NoLoad THEN "idle" ELSE "admit"
    /\ mload' = NoLoad
    /\ UNCHANGED <<active, activeLimit, mailbox, lockedBy, begun, liveRun, cancelled, completed,
                   failed, slot, workerVars, where, mnew, batch, historyVars>>

\* startExternalResourceLoad: admission.
Admit ==
    /\ mstep = "admit" /\ LockFree
    /\ IF Accepts(mnew)
       THEN /\ pending' = Append(pending, mnew)
            /\ outstanding' = outstanding + 1
            /\ requestCredit' = requestCredit \cup {mnew}
            /\ mnew' = NoLoad
            /\ mstep' = "pump"
            /\ UNCHANGED failed
       ELSE /\ failed' = failed \cup {mnew}
            /\ mstep' = "settle"
            /\ UNCHANGED <<pending, outstanding, requestCredit, mnew>>
    /\ UNCHANGED <<active, activeLimit, retained, mailbox, lockedBy, begun, liveRun, cancelled,
                   completed, payload, credits, slot, workerVars, where, mload, batch, historyVars>>

\* Font::loadAsync: a cached atlas or a failed file check settles the load on
\* main, without a request credit or a slot.
CompleteAtOnce ==
    /\ mstep = "admit"
    /\ UNCHANGED failed \/ failed' = failed \cup {mnew}
    /\ mstep' = "settle"
    /\ UNCHANGED <<hostVars, begun, liveRun, cancelled, completed, payload, credits, requestCredit,
                   slot, workerVars, where, mload, mnew, batch, historyVars>>

\* completeResourceLoad on main, of a rejected request or at once; only main
\* cancels, so its two reads of `cancelled` agree.
CompleteOnMain ==
    /\ mstep = "settle" /\ LockFree
    /\ Settle(mnew)
    /\ mailbox' = IF Publishes(mnew) THEN Append(mailbox, mnew) ELSE mailbox
    /\ mnew' = NoLoad
    /\ mstep' = "idle"
    /\ UNCHANGED <<pending, active, activeLimit, lockedBy, begun, liveRun, cancelled,
                   slot, workerVars, where, mload, batch, historyVars>>

SetConcurrency(n) ==
    /\ AppCode /\ LockFree
    /\ activeLimit' = IF n < 1 THEN 1 ELSE n
    /\ mstep' = "pump"
    /\ UNCHANGED <<pending, active, outstanding, retained, mailbox, lockedBy, loadVars, slot,
                   workerVars, where, mload, mnew, batch, historyVars>>

\* pumpExternalLoads: the loop's critical section.
Pump ==
    /\ mstep = "pump" /\ LockFree
    /\ IF PumpStops
       THEN mstep' = "idle" /\ UNCHANGED <<pending, active, mload>>
       ELSE /\ mload' = Head(pending)
            /\ pending' = Tail(pending)
            /\ active' = active + 1
            /\ mstep' = "spawn"
    /\ UNCHANGED <<activeLimit, outstanding, retained, mailbox, lockedBy, loadVars, slot,
                   workerVars, where, mnew, batch, historyVars>>

\* startResourceLoad: the worker enters the host's list and its thread starts.
Spawn(w) ==
    /\ mstep = "spawn" /\ LockFree /\ wpc[w] = "none"
    /\ wpc' = [wpc EXCEPT ![w] = "check"]
    /\ job' = [job EXCEPT ![w] = mload]
    /\ mload' = NoLoad
    /\ mstep' = "pump"
    /\ UNCHANGED <<hostVars, loadVars, slot, where, mnew, batch, historyVars>>

\* The std::thread constructor throws: the catch block removes the list entry
\* and rethrows through pumpExternalLoads to the caller, which goes on.
SpawnFails ==
    /\ mstep = "spawn" /\ LockFree /\ spawnFailures < MaxSpawnFailures
    /\ spawnFailures' = spawnFailures + 1
    /\ mload' = NoLoad
    /\ mstep' = "idle"
    /\ UNCHANGED <<hostVars, loadVars, slot, workerVars, where, mnew, batch, delivered, runs>>

-----------------------------------------------------------------------------
(* Workers.                                                                *)

Goto(w, label) == wpc' = [wpc EXCEPT ![w] = label]

\* runExternalJob: the check under the mutex.
WorkerCheck(w) ==
    /\ wpc[w] = "check" /\ LockFree
    /\ failed' = IF job[w] \notin LocalLoads /\ retained >= ByteLimit /\ job[w] \notin cancelled
                 THEN failed \cup {job[w]} ELSE failed
    /\ Goto(w, "decide")
    /\ UNCHANGED <<hostVars, begun, liveRun, cancelled, completed, payload, credits,
                   requestCredit, slot, job, mainVars, historyVars>>

\* runExternalJob: a cancelled or refused job is not prepared.
WorkerDecide(w) ==
    /\ wpc[w] = "decide"
    /\ Goto(w, IF job[w] \in cancelled \cup failed THEN "complete" ELSE "prepare")
    /\ UNCHANGED <<hostVars, loadVars, slot, job, mainVars, historyVars>>

\* The preparation decodes into the load's payload.
WorkerPrepare(w) ==
    /\ wpc[w] = "prepare"
    /\ \E size \in Sizes : payload' = [payload EXCEPT ![job[w]] = size]
    /\ Goto(w, "prepared")
    /\ UNCHANGED <<hostVars, begun, liveRun, cancelled, completed, failed, credits, requestCredit,
                   slot, job, mainVars, historyVars>>

\* It succeeds, or fails with part of the data, and calls completeResourceLoad
\* itself unless it finds the load cancelled.
WorkerPrepared(w) ==
    /\ wpc[w] = "prepared"
    /\ UNCHANGED failed \/ failed' = failed \cup {job[w]}
    /\ Goto(w, IF job[w] \in cancelled THEN "complete" ELSE "completeInside")
    /\ UNCHANGED <<hostVars, begun, liveRun, cancelled, completed, payload, credits, requestCredit,
                   slot, job, mainVars, historyVars>>

\* The preparation throws: prepareResourceLoad records a failure and discards
\* the payload under the mutex.
WorkerThrows(w) ==
    /\ wpc[w] \in {"prepare", "prepared"} /\ LockFree
    /\ failed' = failed \cup {job[w]}
    /\ DiscardPayload(job[w])
    /\ Goto(w, "complete")
    /\ UNCHANGED <<hostVars, begun, liveRun, cancelled, completed, credits, requestCredit,
                   slot, job, mainVars, historyVars>>

\* completeResourceLoad, called by the preparation ("completeInside") and then
\* by runExternalJob ("complete"); it takes the mutex and keeps it to Publish.
WorkerComplete(w) ==
    /\ wpc[w] \in {"completeInside", "complete"} /\ LockFree
    /\ IF Settled(job[w])
       THEN /\ Goto(w, IF wpc[w] = "complete" THEN "next" ELSE "complete")
            /\ UNCHANGED <<lockedBy, completed, failed, payload, creditVars>>
       ELSE /\ Settle(job[w])
            /\ lockedBy' = w
            /\ Goto(w, IF wpc[w] = "complete" THEN "publish" ELSE "publishInside")
    /\ UNCHANGED <<pending, active, activeLimit, mailbox, begun, liveRun, cancelled,
                   slot, job, mainVars, historyVars>>

\* The second read of `cancelled`, and the unlock.
WorkerPublish(w) ==
    /\ wpc[w] \in {"publishInside", "publish"}
    /\ mailbox' = IF Publishes(job[w]) THEN Append(mailbox, job[w]) ELSE mailbox
    /\ lockedBy' = NoWorker
    /\ Goto(w, IF wpc[w] = "publish" THEN "next" ELSE "complete")
    /\ UNCHANGED <<pending, active, activeLimit, outstanding, retained, loadVars,
                   slot, job, mainVars, historyVars>>

\* The worker loop: take the next job or give the slot back.
WorkerNext(w) ==
    /\ wpc[w] = "next" /\ LockFree
    /\ IF Retires
       THEN /\ GiveSlotBack
            /\ job' = [job EXCEPT ![w] = NoLoad]
            /\ Goto(w, "finish")
            /\ UNCHANGED pending
       ELSE /\ job' = [job EXCEPT ![w] = Head(pending)]
            /\ pending' = Tail(pending)
            /\ Goto(w, "check")
            /\ UNCHANGED active
    /\ UNCHANGED <<activeLimit, outstanding, retained, mailbox, lockedBy, loadVars,
                   slot, mainVars, historyVars>>

WorkerForgets(w) == wpc[w] = "finish" /\ UNCHANGED vars     \* mutant: `done` is not set

\* The tail of the worker's thread function sets `done`.
WorkerFinish(w) ==
    /\ wpc[w] = "finish" /\ LockFree
    /\ Goto(w, "done")
    /\ UNCHANGED <<hostVars, loadVars, slot, job, mainVars, historyVars>>

\* The reaper joins a done worker and erases it from the list.
Reap(w) ==
    /\ wpc[w] = "done" /\ LockFree
    /\ Goto(w, "none")
    /\ UNCHANGED <<hostVars, loadVars, slot, job, mainVars, historyVars>>

-----------------------------------------------------------------------------
(* Main: the turn.                                                         *)

TakeBatch ==
    /\ Idle /\ where = "frame" /\ LockFree
    /\ batch' = mailbox
    /\ mailbox' = <<>>
    /\ where' = "batch"
    /\ UNCHANGED <<pending, active, activeLimit, outstanding, retained, lockedBy, loadVars,
                   slot, workerVars, mstep, mload, mnew, historyVars>>

Alive(l) == l \notin cancelled /\ l \in liveRun

\* deliver: the target applies the result if its slot still holds this load,
\* cancels it, resets the slot and only then runs the listeners.  Otherwise the
\* Retirement guard cancels the load.
Deliver ==
    /\ Idle /\ where = "batch" /\ batch # <<>> /\ LockFree
    /\ LET l == Head(batch) IN
       /\ batch' = Tail(batch)
       /\ MarkCancelled(l)
       /\ mload' = l
       /\ mstep' = "cancel"
       /\ IF Alive(l) /\ \E h \in Handles : slot[h] = l
          THEN /\ delivered' = delivered \cup {l}
               /\ slot' = [h \in Handles |-> IF slot[h] = l THEN NoLoad ELSE slot[h]]
               /\ where' = "listener"
          ELSE UNCHANGED <<delivered, slot, where>>
    /\ UNCHANGED <<hostVars, begun, liveRun, completed, failed, payload, credits, requestCredit,
                   workerVars, mnew, runs, spawnFailures>>

ListenerReturns ==
    /\ Idle /\ where = "listener"
    /\ where' = "batch"
    /\ UNCHANGED <<hostVars, loadVars, slot, workerVars, mstep, mload, mnew, batch, historyVars>>

EndBatch ==
    /\ Idle /\ where = "batch" /\ batch = <<>>
    /\ where' = "frame"
    /\ UNCHANGED <<hostVars, loadVars, slot, workerVars, mstep, mload, mnew, batch, historyVars>>

-----------------------------------------------------------------------------
(* Main: the end of a run and of the process.                              *)

\* shutdownRuntime turns every run token false.
ShutdownRuntime ==
    /\ Idle /\ where = "frame"
    /\ liveRun' = {}
    /\ where' = "cancel"
    /\ UNCHANGED <<hostVars, begun, cancelled, completed, failed, payload, credits, requestCredit,
                   slot, workerVars, mstep, mload, mnew, batch, historyVars>>

\* cancelResourceBackends: the registered stop of one load.  cancel() of a load
\* that is already cancelled changes nothing.
CancelBackend(l) ==
    /\ Idle /\ where \in {"cancel", "drain", "atexit"} /\ l \in begun \ cancelled
    /\ MarkCancelled(l)
    /\ mload' = l
    /\ mstep' = "cancel"
    /\ UNCHANGED <<hostVars, begun, liveRun, completed, failed, payload, credits, requestCredit,
                   slot, workerVars, where, mnew, batch, historyVars>>

\* The launcher cleanup callback runs application code after the first pass.
LauncherCleanup ==
    /\ Idle /\ where = "cancel" /\ begun \subseteq cancelled
    /\ where' = "cleanup"
    /\ UNCHANGED <<hostVars, loadVars, slot, workerVars, mstep, mload, mnew, batch, historyVars>>

\* waitForResourceLoadsAtAppExit starts: it cancels once more.
EnterDrain ==
    /\ Idle /\ where = "cleanup"
    /\ where' = "drain"
    /\ UNCHANGED <<hostVars, loadVars, slot, workerVars, mstep, mload, mnew, batch, historyVars>>

NothingPending == pending = <<>>            \* mutant: does not wait for the threads
WorkersEmpty == \A w \in Workers : wpc[w] = "none"

\* The wait is over: the batch taken here is discarded.
FinishDrain ==
    /\ Idle /\ where = "drain" /\ begun \subseteq cancelled /\ WorkersEmpty /\ LockFree
    /\ mailbox' = <<>>
    /\ where' = "ended"
    /\ UNCHANGED <<pending, active, activeLimit, outstanding, retained, lockedBy, loadVars,
                   slot, workerVars, mstep, mload, mnew, batch, historyVars>>

\* beginRuntimeRun: a hot reload host starts another run in this process.
BeginRuntimeRun ==
    /\ where = "ended" /\ runs < MaxRuns
    /\ runs' = runs + 1
    /\ where' = "frame"
    /\ UNCHANGED <<hostVars, loadVars, slot, workerVars, mstep, mload, mnew, batch,
                   delivered, spawnFailures>>

\* finishResourceLoadsAtExit, reached by returning from main or by std::exit
\* called from application code on main.
AtExit ==
    /\ Idle /\ where \in {"frame", "listener", "cleanup", "ended"}
    /\ liveRun' = {}
    /\ where' = "atexit"
    /\ UNCHANGED <<hostVars, begun, cancelled, completed, failed, payload, credits, requestCredit,
                   slot, workerVars, mstep, mload, mnew, batch, historyVars>>

\* The reaper has returned (exiting and no workers) and was joined.
FinishAtExit ==
    /\ Idle /\ where = "atexit" /\ begun \subseteq cancelled /\ WorkersEmpty /\ LockFree
    /\ mailbox' = <<>>
    /\ where' = "gone"
    /\ UNCHANGED <<pending, active, activeLimit, outstanding, retained, lockedBy, loadVars,
                   slot, workerVars, mstep, mload, mnew, batch, historyVars>>

Gone == where = "gone" /\ UNCHANGED vars

-----------------------------------------------------------------------------
AppNext ==
    \/ \E h \in Handles, l \in Loads : Begin(h, l)
    \/ \E h \in Handles : CancelHandle(h)
    \/ \E n \in Concurrency : SetConcurrency(n)
    \/ ShutdownRuntime
    \/ AtExit
    \/ BeginRuntimeRun

HostCall == CancelLocked \/ Admit \/ CompleteAtOnce \/ CompleteOnMain \/ Pump \/ (\E w \in Workers : Spawn(w)) \/ SpawnFails

TurnNext == TakeBatch \/ Deliver \/ ListenerReturns \/ EndBatch

ExitNext == (\E l \in Loads : CancelBackend(l)) \/ LauncherCleanup \/ EnterDrain \/ FinishDrain \/ FinishAtExit

WorkerNextStep(w) ==
    \/ WorkerCheck(w) \/ WorkerDecide(w) \/ WorkerPrepare(w) \/ WorkerPrepared(w) \/ WorkerThrows(w)
    \/ WorkerComplete(w) \/ WorkerPublish(w) \/ WorkerNext(w) \/ WorkerFinish(w)

Next ==
    \/ AppNext \/ HostCall \/ TurnNext \/ ExitNext
    \/ \E w \in Workers : WorkerNextStep(w) \/ Reap(w)
    \/ Gone

\* Main goes on inside the framework, its application code returns once per
\* call even if it keeps calling the host (strong fairness), threads run and
\* decoders return.  Nothing makes an application start, cancel or exit.
Framework == HostCall \/ Deliver \/ EndBatch \/ LauncherCleanup \/ FinishDrain \/ FinishAtExit
                \/ \E l \in Loads : CancelBackend(l)
AppReturns == TakeBatch \/ ListenerReturns \/ EnterDrain

Fairness ==
    /\ WF_vars(Framework)
    /\ SF_vars(AppReturns)
    /\ \A w \in Workers : WF_vars(WorkerNextStep(w) \/ Reap(w))

Spec == Init /\ [][Next]_vars
FairSpec == Spec /\ Fairness
-----------------------------------------------------------------------------
(* Properties.                                                             *)

WorkerLabels == {"none", "check", "decide", "prepare", "prepared", "completeInside", "publishInside",
                 "complete", "publish", "next", "finish", "done"}
Places == {"frame", "batch", "listener", "cancel", "cleanup", "drain", "ended", "atexit", "gone"}
CallSteps == {"idle", "cancel", "admit", "settle", "pump", "spawn"}

\* The types of the host's, the loads' and the threads' state (that `retained`
\* never drops below zero is BytesBalance).
TypeOK ==
    /\ pending \in Seq(Loads) /\ active \in Nat /\ activeLimit \in Nat
    /\ outstanding \in Nat /\ retained \in Int /\ mailbox \in Seq(Loads)
    /\ lockedBy \in Workers \cup {NoWorker}
    /\ begun \subseteq Loads /\ liveRun \subseteq Loads /\ cancelled \subseteq Loads
    /\ completed \subseteq Loads /\ failed \subseteq Loads
    /\ payload \in [Loads -> Nat] /\ credits \in [Loads -> Nat] /\ requestCredit \subseteq Loads
    /\ slot \in [Handles -> Loads \cup {NoLoad}]
    /\ wpc \in [Workers -> WorkerLabels] /\ job \in [Workers -> Loads \cup {NoLoad}]
    /\ where \in Places /\ mstep \in CallSteps
    /\ mload \in Loads \cup {NoLoad} /\ mnew \in Loads \cup {NoLoad}
    /\ batch \in Seq(Loads)
    /\ delivered \subseteq Loads /\ runs \in Nat /\ spawnFailures \in 0 .. MaxSpawnFailures

Elements(s) == {s[i] : i \in DOMAIN s}

SumCredits(S) == SumFunctionOnSet(credits, S)

\* Every live request credit is held by one load: none is lost or given back
\* twice when completion races cancellation, delivery, batch destruction or the
\* end of a run (startExternalResourceLoad, releaseCredits).
RequestsBalance == outstanding = Cardinality(requestCredit)

\* The bytes the host has charged are those its loads are charged for
\* (completeResourceLoad, releaseCredits).
BytesBalance == retained = SumCredits(Loads)

\* Network loads stay within the request limit whatever local files, which are
\* exempt from it, do to the shared counter (startExternalResourceLoad).
NetworkRequestsBounded == Cardinality(requestCredit \ LocalLoads) <= RequestLimit

\* The same for the bytes of their results (completeResourceLoad).
NetworkBytesBounded == SumCredits(Loads \ LocalLoads) <= ByteLimit

\* Both together: no byte of a result is charged twice, kept or given back too
\* early, and local files never make network results exceed their limit.
BytesAccounted == BytesBalance /\ NetworkBytesBounded

HoldsSlot(w) == wpc[w] \notin {"none", "finish", "done"}

Holding == {w \in Workers : HoldsSlot(w)}

\* host.active counts the workers that hold a preparation slot and will give it
\* back, the launch in progress, and every launch that failed: pumpExternalLoads
\* does not give the slot of a failed launch back.  Nothing else leaks a slot and
\* none is given back twice.
SlotsHeld == active = Cardinality(Holding) + (IF mstep = "spawn" THEN 1 ELSE 0) + spawnFailures

\* The two counters that admit work, host.outstanding and host.active, count what
\* holds a credit or a slot, whichever way a load ends.
CountersBalance == RequestsBalance /\ SlotsHeld

\* Admission rests on both: the counters are exact and network loads keep within
\* their limit.
AdmissionAccounted == CountersBalance /\ NetworkRequestsBounded

\* Queued work waits only because every slot is taken: a worker that exits, a
\* cancellation or a raised limit strands no pending load (pumpExternalLoads and
\* the worker loop decide in separate critical sections).  A failed launch ends
\* the pump early.
QueuedWaitsForASlot ==
    (pending # <<>> /\ mstep \notin {"pump", "spawn"} /\ spawnFailures = 0)
        => active >= activeLimit

\* A load is queued, prepared or published, one at a time: it is never prepared
\* by two workers, nor prepared after it completed, nor published twice.
Preparing(l) == {w \in Workers : job[w] = l /\ wpc[w] \in {"check", "decide", "prepare", "prepared"}}
OneStageAtATime ==
    /\ IsInjective(pending) /\ IsInjective(batch \o mailbox)
    /\ \A w1, w2 \in Workers : job[w1] = job[w2] /\ HoldsSlot(w1) /\ HoldsSlot(w2) => w1 = w2
    /\ \A l \in completed : Preparing(l) = {} /\ l \notin Elements(pending)
    /\ Elements(mailbox) \cup Elements(batch) \subseteq completed

\* Once main has left cancel() for a load it owns nothing in the host: no queue
\* entry and no request credit, and, when it completes or has completed, no
\* bytes and no payload.
CancelledOwnsNothing ==
    \A l \in cancelled :
        \/ mstep = "cancel" /\ mload = l
        \/ /\ l \notin Elements(pending) /\ l \notin requestCredit /\ credits[l] = 0
           /\ l \in completed => payload[l] = 0

\* What main is about to apply is whole: a successful result that was not
\* cancelled still has the payload it was charged for.
ResultIntact ==
    \A l \in (Elements(mailbox) \cup Elements(batch)) \ cancelled :
        /\ l \in failed => payload[l] = 0
        /\ credits[l] = payload[l]
        /\ \E h \in Handles : slot[h] = l

\* A load passes through its stages one at a time, and what comes out of them for
\* delivery is whole, unless it was cancelled.
ResultsAreSound == OneStageAtATime /\ ResultIntact

\* A load's payload belongs to its worker until the load completes; main, which
\* cancels at any time, never touches it before (data race otherwise).
PayloadHandedOver ==
    [][\A l \in Loads : payload'[l] # payload[l] =>
           IF wpc' = wpc THEN l \in completed \/ \A w \in Workers : job[w] # l
           ELSE l \notin completed]_vars

\* waitForResourceLoadsAtAppExit and finishResourceLoadsAtExit leave nothing
\* behind: the next run, or static destruction, finds all slots and credits free.
ExitIsClean ==
    where \in {"ended", "gone"} =>
        /\ (\A w \in Workers : wpc[w] = "none") /\ pending = <<>> /\ mailbox = <<>>
        /\ active = 0 /\ outstanding = 0 /\ retained = 0
        /\ begun \subseteq cancelled

\* Neither a cancelled load nor a run that has ended keeps anything of the host.
NothingIsKept == CancelledOwnsNothing /\ ExitIsClean

\* Queued work gets a preparation slot, or is cancelled, if it waits long enough.
QueuedGetsASlot ==
    \A l \in Loads : (l \in Elements(pending)) ~> (l \notin Elements(pending))

\* Every load ends: its result is applied and its listeners run, or it was
\* cancelled (delivery cancels the load it applied).  A rejected load, a failed
\* or throwing decoder and a lowered limit are no exception; a thread that could
\* not be launched is (pumpExternalLoads, see QueuedGetsASlot).
EveryLoadSettles == \A l \in Loads : l \in begun ~> (l \in cancelled \/ spawnFailures > 0)

\* The wait at the end of a run, or of the process, ends.
ExitCompletes == (where = "drain" ~> where = "ended") /\ (where = "atexit" ~> where = "gone")

\* What was begun ends, and so do main's waits for it.
LoadsEnd == EveryLoadSettles /\ ExitCompletes

-----------------------------------------------------------------------------
(* Refinement.                                                             *)

Status(l) ==
    IF l \notin begun THEN "new"
    ELSE IF l \in delivered THEN "delivered"
    ELSE IF l \in cancelled THEN "cancelled" ELSE "loading"

Promise == INSTANCE AsyncLoad WITH status <- [l \in Loads |-> Status(l)], current <- slot

\* Behind every load of a handle the host keeps loadAsync's promise: one load in
\* progress per handle, delivered once to it and never after a cancellation.
KeepsPromise == Promise!ASpec
=============================================================================
