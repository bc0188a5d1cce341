--------------------------- MODULE AsyncScheduler ---------------------------
(***************************************************************************)
(* AsyncScheduler of tcAsyncScheduler.h: one worker thread that runs       *)
(* callbacks at given times (Node::callAfterAsync, callEveryAsync) and can *)
(* be told to forget them.  Scheduling and cancelling hold mtx_ from end   *)
(* to end, so each is one step; the worker gives the mutex up only to      *)
(* sleep or to run a callback.  The worker's evaluation of its loop and    *)
(* the clock readings in it are one step: it holds the mutex throughout.   *)
(*                                                                         *)
(* Time is a count of steady_clock ticks that only Tick moves.  An         *)
(* interval shorter than a tick rounds to 0 but still repeats.             *)
(***************************************************************************)
EXTENDS Integers

CONSTANTS
    Ids,        \* ids nextId_ hands out
    Owners,     \* owner tokens
    Callers,    \* threads other than the worker
    Worker,     \* the scheduler thread
    Requests,   \* what is asked of callAfterAsync and callEveryAsync, see below
    MaxLag,     \* bound: how long a thread may wait for the mutex with its clock reading
    MaxTime,    \* bound on the clock
    None

\* The arguments of schedule: the delay is also the interval of a timer that repeats.
Request == [owner : Owners, delay : Nat, repeats : BOOLEAN]

ASSUME SchedulerConstants ==
    /\ None \notin Ids \cup Owners \cup Nat /\ Ids \cap Owners = {}
    /\ Worker \notin Callers /\ Requests \subseteq Request
    /\ MaxLag \in Nat /\ MaxTime \in Nat

VARIABLES
    now,        \* Clock::now()
    \* tasks_: the listed ids, and the fields of every id handed out
    listed, scheduled, owner, when, interval, repeating,
    \* the worker: where it is, until when it sleeps, executingId_, stop_
    pc, alarm, executing, stop,
    \* callers in waitInFlight: what they wait for, and who is asleep on doneCv_
    awaits, asleep,
    \* history: ids a cancel has erased, ids each call in progress covers, and
    \* ids covered by a call that has returned to a thread other than the worker
    cancelled, covers, silenced,
    \* history of a repeating timer: its due time without resyncs, whether one
    \* was needed, and when its last two callbacks began
    nominal, late, newer, older

taskVars == <<listed, scheduled, owner, when, interval, repeating>>
workerVars == <<pc, alarm, executing, stop>>
callVars == <<awaits, asleep>>
cancelGhosts == <<cancelled, covers, silenced>>
timeGhosts == <<nominal, late, newer, older>>
vars == <<now, taskVars, workerVars, callVars, cancelGhosts, timeGhosts>>

-----------------------------------------------------------------------------
(* What the operations are built from.                                     *)

\* After a callback the worker takes mtx_ and keeps it until it sleeps, stops or
\* runs the next one.
MutexFree == pc # "looping"

\* wakeWorker, with mtx_ held.  mutant: not called.
NotWoken == UNCHANGED <<pc, alarm>>

WakeWorker ==
    IF pc = "sleeping" THEN pc' = "woken" /\ alarm' = None ELSE UNCHANGED <<pc, alarm>>

Due(i) == when[i] <= now

\* The head of the time order (of equals, any).  mutant: the comparison is reversed.
Latest(i) == i \in listed /\ \A j \in listed : when[i] >= when[j]

Earliest(i) == i \in listed /\ \A j \in listed : when[i] <= when[j]

\* mutant: a repeating timer restarts from the current time.
RescheduleFromNow(i) == now + interval[i]

\* mutant: no resync, so missed ticks are replayed.
RescheduleAlways(i) == when[i] + interval[i]

\* Where the next callback of a repeating timer goes.
Reschedule(i) ==
    LET due == when[i] + interval[i]
    IN  IF due < now THEN now ELSE due

\* What is left of tasks_ once the worker has picked i.
Remaining(i) == IF i \in repeating THEN listed ELSE listed \ {i}

\* The tasks cancel(what) or cancelOwner(what) is about.
Named(what) == {i \in scheduled : what \in {i, owner[i]}}

\* mutant: the ids of an owner are compared with the owner.
EraseById(what) == listed \ {what}

Erase(what) == listed \ Named(what)

\* waitInFlight's predicate.
Matches(what) == executing # None /\ what \in {executing, owner[executing]}

\* mutant: cancel does not wait.
NeverBlocks(c, what) == FALSE

Blocks(c, what) == c # Worker /\ Matches(what)

\* doneCv_.notify_all.  mutant: nobody is notified.
NotifyNobody == asleep

NotifyAll == [c \in Callers |-> FALSE]

\* mutant: the worker stops only when it has nothing left to do.
StopsWhenIdle == stop /\ listed = {}

Stops == stop

-----------------------------------------------------------------------------
Init ==
    /\ now = 0
    /\ listed = {} /\ scheduled = {}
    /\ owner = [i \in Ids |-> None] /\ when = [i \in Ids |-> 0]
    /\ interval = [i \in Ids |-> 0] /\ repeating = {}
    /\ pc = "woken" /\ alarm = None /\ executing = None /\ stop = FALSE
    /\ awaits = [c \in Callers |-> None] /\ asleep = [c \in Callers |-> FALSE]
    /\ cancelled = {} /\ covers = [c \in Callers |-> {}] /\ silenced = {}
    /\ nominal = [i \in Ids |-> 0] /\ late = {}
    /\ newer = [i \in Ids |-> 0] /\ older = [i \in Ids |-> 0]

\* Who may call: a thread that is not in a call, or a callback.  Nobody calls once
\* the destructor has begun, except a callback still running.
CanCall(c) ==
    /\ MutexFree
    /\ \/ c \in Callers /\ awaits[c] = None /\ ~stop
       \/ c = Worker /\ pc = "running"

\* schedule(): the clock is read before the mutex is taken, at `asked`.
Schedule(c, i, r, asked) ==
    /\ CanCall(c) /\ i \notin scheduled
    /\ listed' = listed \cup {i} /\ scheduled' = scheduled \cup {i}
    /\ owner' = [owner EXCEPT ![i] = r.owner]
    /\ when' = [when EXCEPT ![i] = asked + r.delay]
    /\ interval' = [interval EXCEPT ![i] = IF r.repeats THEN r.delay ELSE 0]
    /\ repeating' = IF r.repeats THEN repeating \cup {i} ELSE repeating
    /\ WakeWorker
    /\ IF r.repeats
       THEN /\ nominal' = [nominal EXCEPT ![i] = asked + r.delay]
            /\ newer' = [newer EXCEPT ![i] = asked]
            /\ older' = [older EXCEPT ![i] = asked]
       ELSE UNCHANGED <<nominal, newer, older>>
    /\ UNCHANGED <<now, executing, stop, callVars, cancelGhosts, late>>

\* cancel(id) and cancelOwner(owner), up to the wait or the return.
Cancel(c, what) ==
    /\ CanCall(c)
    /\ listed' = Erase(what)
    /\ WakeWorker
    /\ cancelled' = cancelled \cup Named(what)
    /\ IF Blocks(c, what)
       THEN /\ awaits' = [awaits EXCEPT ![c] = what]
            /\ asleep' = [asleep EXCEPT ![c] = TRUE]
            /\ covers' = [covers EXCEPT ![c] = Named(what)]
            /\ UNCHANGED silenced
       ELSE /\ silenced' = IF c = Worker THEN silenced ELSE silenced \cup Named(what)
            /\ UNCHANGED <<callVars, covers>>
    /\ UNCHANGED <<now, scheduled, owner, when, interval, repeating, executing, stop, timeGhosts>>

\* A caller woken from doneCv_ takes the mutex and looks again.
Recheck(c) ==
    /\ awaits[c] # None /\ ~asleep[c] /\ MutexFree
    /\ IF Matches(awaits[c])
       THEN asleep' = [asleep EXCEPT ![c] = TRUE] /\ UNCHANGED <<awaits, covers, silenced>>
       ELSE /\ awaits' = [awaits EXCEPT ![c] = None]
            /\ covers' = [covers EXCEPT ![c] = {}]
            /\ silenced' = silenced \cup covers[c]
            /\ UNCHANGED asleep
    /\ UNCHANGED <<now, taskVars, workerVars, cancelled, timeGhosts>>

\* A condition variable may wake a caller for no reason.
SpuriousWake(c) ==
    /\ asleep[c]
    /\ asleep' = [asleep EXCEPT ![c] = FALSE]
    /\ UNCHANGED <<now, taskVars, workerVars, awaits, cancelGhosts, timeGhosts>>

\* ~AsyncScheduler, up to the join.
Stop ==
    /\ ~stop /\ MutexFree
    /\ stop' = TRUE /\ WakeWorker
    /\ UNCHANGED <<now, taskVars, executing, callVars, cancelGhosts, timeGhosts>>

-----------------------------------------------------------------------------
(* The worker: run().                                                      *)

\* The worker has the mutex and is at the top of its loop.
AtTop == pc \in {"woken", "looping"}

WorkerStops ==
    /\ AtTop /\ Stops
    /\ pc' = "stopped"
    /\ UNCHANGED <<now, taskVars, alarm, executing, stop, callVars, cancelGhosts, timeGhosts>>

\* Nothing to do: sleep until there is a task.
WorkerSleeps ==
    /\ AtTop /\ ~Stops /\ listed = {}
    /\ pc' = "sleeping" /\ alarm' = None
    /\ UNCHANGED <<now, taskVars, executing, stop, callVars, cancelGhosts, timeGhosts>>

\* waitUntil the earliest task.
WorkerSleepsUntil(i) ==
    /\ AtTop /\ ~Stops /\ Earliest(i) /\ ~Due(i)
    /\ pc' = "sleeping" /\ alarm' = when[i]
    /\ UNCHANGED <<now, taskVars, executing, stop, callVars, cancelGhosts, timeGhosts>>

\* The earliest task is due: reschedule or erase it, and begin its callback.
Fire(i) ==
    /\ AtTop /\ ~Stops /\ Earliest(i) /\ Due(i)
    /\ listed' = Remaining(i)
    /\ executing' = i /\ pc' = "running"
    /\ IF i \in repeating
       THEN /\ when' = [when EXCEPT ![i] = Reschedule(i)]
            /\ nominal' = [nominal EXCEPT ![i] = @ + interval[i]]
            /\ late' = IF now > when[i] + interval[i] THEN late \cup {i} ELSE late
            /\ newer' = [newer EXCEPT ![i] = now] /\ older' = [older EXCEPT ![i] = newer[i]]
       ELSE UNCHANGED <<when, timeGhosts>>
    /\ UNCHANGED <<now, scheduled, owner, interval, repeating, alarm, stop, callVars,
                   cancelGhosts>>

\* mutant: the executing id is not cleared.
CallbackForgets ==
    /\ pc = "running"
    /\ pc' = "looping" /\ asleep' = NotifyAll
    /\ UNCHANGED <<now, taskVars, alarm, executing, stop, awaits, cancelGhosts, timeGhosts>>

\* The callback returns; the worker takes the mutex and tells who waits.
CallbackReturns ==
    /\ pc = "running"
    /\ pc' = "looping" /\ executing' = None
    /\ asleep' = NotifyAll
    /\ UNCHANGED <<now, taskVars, alarm, stop, awaits, cancelGhosts, timeGhosts>>

\* The alarm goes off, or the wait fails or ends for no reason.
WorkerWakes ==
    /\ pc = "sleeping"
    /\ pc' = "woken" /\ alarm' = None
    /\ UNCHANGED <<now, taskVars, executing, stop, callVars, cancelGhosts, timeGhosts>>

AlarmGoesOff == alarm # None /\ alarm <= now /\ WorkerWakes

Tick ==
    /\ now < MaxTime
    /\ now' = now + 1
    /\ UNCHANGED <<taskVars, workerVars, callVars, cancelGhosts, timeGhosts>>

-----------------------------------------------------------------------------
WorkerLoop ==
    \/ WorkerStops \/ WorkerSleeps
    \/ \E i \in Ids : WorkerSleepsUntil(i) \/ Fire(i)

CallerStep(c) ==
    \/ \E i \in Ids, r \in Requests, asked \in 0..now :
           now - MaxLag <= asked /\ Schedule(c, i, r, asked)
    \/ \E what \in scheduled \cup Owners : Cancel(c, what)

Next ==
    \/ \E c \in Callers \cup {Worker} : CallerStep(c)
    \/ \E c \in Callers : Recheck(c) \/ SpuriousWake(c)
    \/ Stop
    \/ WorkerLoop \/ CallbackReturns \/ WorkerWakes
    \/ Tick

\* Time passes, threads that can run do, and callbacks return.  Taking the mutex is
\* strong fairness: the worker frees it again and again.
Fairness ==
    /\ WF_vars(Tick)
    /\ WF_vars(WorkerLoop) /\ WF_vars(AlarmGoesOff) /\ WF_vars(CallbackReturns)
    /\ \A c \in Callers : SF_vars(Recheck(c))

Spec == Init /\ [][Next]_vars
FairSpec == Spec /\ Fairness

-----------------------------------------------------------------------------
(* Properties.                                                             *)

\* The scheduler's state is well typed.
TypeOK ==
    /\ now \in Nat /\ listed \subseteq scheduled /\ scheduled \subseteq Ids
    /\ owner \in [Ids -> Owners \cup {None}] /\ \A i \in scheduled : owner[i] \in Owners
    /\ when \in [Ids -> Nat] /\ interval \in [Ids -> Nat] /\ repeating \subseteq scheduled
    /\ pc \in {"woken", "looping", "sleeping", "running", "stopped"}
    /\ alarm \in Nat \cup {None} /\ executing \in scheduled \cup {None} /\ stop \in BOOLEAN
    /\ (executing # None) <=> (pc = "running")
    /\ awaits \in [Callers -> Ids \cup Owners \cup {None}] /\ asleep \in [Callers -> BOOLEAN]
    /\ cancelled \subseteq scheduled /\ silenced \subseteq cancelled
    /\ covers \in [Callers -> SUBSET cancelled]
    /\ nominal \in [Ids -> Nat] /\ late \subseteq scheduled
    /\ newer \in [Ids -> Nat] /\ older \in [Ids -> Nat]

\* cancel and cancelOwner are a barrier: what they cancelled is never listed again,
\* whatever the worker was about to write back, and once they have returned to a
\* thread other than the worker none of it is running.
CancelIsFinal ==
    /\ cancelled \cap listed = {}
    /\ executing \notin silenced

\* While the worker sleeps, its alarm is no later than any listed task: a task that
\* arrives while it computes or sleeps never waits for an older, later alarm.
SleepsNoLonger ==
    pc = "sleeping" => \A i \in listed : alarm # None /\ alarm <= when[i]

\* A caller sleeps in cancel only while what it waits for is running.
WaitsOnlyForRunning ==
    \A c \in Callers : asleep[c] => Matches(awaits[c])

\* Nobody sleeps longer than it should, in the worker's wait or in cancel.
SleepersAreRight == SleepsNoLonger /\ WaitsOnlyForRunning

Starts(i) == executing' = i /\ executing # i

\* A repeating timer never runs ahead of its grid, and stays on it (no drift) as
\* long as the worker was never more than an interval behind.
KeepsTime ==
    [][\A i \in repeating : Starts(i) =>
          /\ now >= nominal[i]
          /\ i \notin late => when[i] = nominal[i]]_vars

\* No burst: however far the worker falls behind, three consecutive callbacks of a
\* timer (counting its creation as one) span at least an interval.
NoBurst ==
    [][\A i \in repeating : Starts(i) => now - older[i] >= interval[i]]_vars

\* A repeating timer is neither early, nor drifting, nor in bursts.
RepeatsInTime == KeepsTime /\ NoBurst

\* A due task is run or cancelled.  (Up to the bound on the clock: at MaxTime
\* an interval of 0 is due again at once, for good.)
DueTasksRun ==
    \A i \in Ids :
        (i \in listed /\ when[i] < MaxTime) ~> (executing = i \/ i \in cancelled \/ stop)

\* cancel(id) returns, even if the timer repeats at once.
CancelReturns ==
    \A c \in Callers : (awaits[c] \in Ids) ~> (awaits[c] = None)

\* The destructor's join returns.
ExitJoins == stop ~> (pc = "stopped")

\* Both waits of other threads for the worker end.
CallersReturn == CancelReturns /\ ExitJoins
=============================================================================
