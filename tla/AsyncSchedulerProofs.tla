------------------------ MODULE AsyncSchedulerProofs ------------------------
(***************************************************************************)
(* Proofs about AsyncScheduler, for any ids, owners, callers, requests and *)
(* clock.  The invariants are proved one on top of the other: typing; the  *)
(* worker's alarm; the callers' waits; what cancels cover; the due times   *)
(* of repeating timers.  The last part is about the nodes of NodeTimers,   *)
(* which use the scheduler as any caller does.                             *)
(***************************************************************************)
EXTENDS NodeTimers, TLAPS

-----------------------------------------------------------------------------
(* Typing.                                                                 *)

LEMMA InitTyped == Init => TypeOK
<1> SUFFICES ASSUME Init PROVE TypeOK
    OBVIOUS
<1>1. /\ listed \subseteq scheduled /\ scheduled \subseteq Ids /\ repeating \subseteq scheduled
      /\ \A i \in scheduled : owner[i] \in Owners
      /\ cancelled \subseteq scheduled /\ silenced \subseteq cancelled /\ late \subseteq scheduled
    BY DEF Init
<1>2. /\ when \in [Ids -> Nat] /\ interval \in [Ids -> Nat] /\ nominal \in [Ids -> Nat]
      /\ newer \in [Ids -> Nat] /\ older \in [Ids -> Nat] /\ now \in Nat
    BY DEF Init
<1>3. /\ owner \in [Ids -> Owners \cup {None}]
      /\ awaits \in [Callers -> Ids \cup Owners \cup {None}] /\ asleep \in [Callers -> BOOLEAN]
      /\ covers \in [Callers -> SUBSET cancelled]
    BY DEF Init
<1>4. pc = "woken" /\ alarm = None /\ executing = None /\ stop \in BOOLEAN
    BY DEF Init
<1> QED
    BY <1>1, <1>2, <1>3, <1>4 DEF TypeOK

LEMMA ScheduleTyped ==
    ASSUME TypeOK, NEW c, NEW i \in Ids, NEW r \in Requests, NEW asked \in 0..now,
           Schedule(c, i, r, asked)
    PROVE  TypeOK'
<1>1. /\ r.owner \in Owners /\ r.delay \in Nat /\ r.repeats \in BOOLEAN /\ asked \in Nat
      /\ asked + r.delay \in Nat
    BY SchedulerConstants DEF Request, TypeOK
<1>2. /\ scheduled' = scheduled \cup {i} /\ listed' = listed \cup {i}
      /\ repeating \subseteq repeating' /\ repeating' \subseteq repeating \cup {i}
      /\ UNCHANGED <<now, executing, stop, callVars, cancelGhosts, late>>
    BY DEF Schedule
<1>3. /\ owner' \in [Ids -> Owners \cup {None}] /\ \A j \in scheduled' : owner'[j] \in Owners
    BY <1>1, <1>2 DEF Schedule, TypeOK
<1>4. when' \in [Ids -> Nat] /\ interval' \in [Ids -> Nat]
    BY <1>1 DEF Schedule, TypeOK
<1>5. nominal' \in [Ids -> Nat] /\ newer' \in [Ids -> Nat] /\ older' \in [Ids -> Nat]
    BY <1>1 DEF Schedule, TypeOK
<1>6. /\ pc' \in {"woken", "looping", "sleeping", "running", "stopped"}
      /\ alarm' \in Nat \cup {None} /\ (pc' = "running" <=> pc = "running")
    BY DEF Schedule, WakeWorker, TypeOK
<1> QED
    BY <1>2, <1>3, <1>4, <1>5, <1>6 DEF TypeOK, callVars, cancelGhosts

LEMMA CancelTyped ==
    ASSUME TypeOK, NEW c \in Callers \cup {Worker}, NEW what \in scheduled \cup Owners,
           Cancel(c, what)
    PROVE  TypeOK'
<1>1. Named(what) \subseteq scheduled
    BY DEF Named
<1>2. /\ listed' \subseteq listed /\ cancelled' = cancelled \cup Named(what)
      /\ UNCHANGED <<now, scheduled, owner, when, interval, repeating, executing, stop,
                     timeGhosts>>
    BY DEF Cancel, Erase
<1>3. /\ pc' \in {"woken", "looping", "sleeping", "running", "stopped"}
      /\ alarm' \in Nat \cup {None} /\ (pc' = "running" <=> pc = "running")
    BY DEF Cancel, WakeWorker, TypeOK
<1>4. awaits' \in [Callers -> Ids \cup Owners \cup {None}] /\ asleep' \in [Callers -> BOOLEAN]
    BY DEF Cancel, TypeOK, callVars
<1>5. covers' \in [Callers -> SUBSET cancelled']
    BY <1>2 DEF Cancel, TypeOK
<1>6. silenced' \subseteq cancelled'
    BY <1>2 DEF Cancel, TypeOK
<1> QED
    BY <1>1, <1>2, <1>3, <1>4, <1>5, <1>6 DEF TypeOK, timeGhosts

LEMMA RecheckTyped ==
    ASSUME TypeOK, NEW c \in Callers, Recheck(c)
    PROVE  TypeOK'
<1>1. awaits' \in [Callers -> Ids \cup Owners \cup {None}] /\ asleep' \in [Callers -> BOOLEAN]
    BY DEF Recheck, TypeOK
<1>2. covers' \in [Callers -> SUBSET cancelled] /\ silenced' \subseteq cancelled
    BY DEF Recheck, TypeOK
<1> QED
    BY <1>1, <1>2 DEF Recheck, TypeOK, taskVars, workerVars, timeGhosts

LEMMA FireTyped ==
    ASSUME TypeOK, NEW i \in Ids, Fire(i)
    PROVE  TypeOK'
<1>1. i \in listed /\ i \in scheduled /\ listed' \subseteq listed
    BY DEF Fire, Earliest, Remaining, TypeOK
<1>2. Reschedule(i) \in Nat
    BY DEF Reschedule, TypeOK
<1>3. when' \in [Ids -> Nat] /\ nominal' \in [Ids -> Nat]
    BY <1>2 DEF Fire, TypeOK, timeGhosts
<1>4. late' \subseteq scheduled /\ newer' \in [Ids -> Nat] /\ older' \in [Ids -> Nat]
    BY <1>1 DEF Fire, TypeOK, timeGhosts
<1>5. executing' \in scheduled /\ executing' # None /\ pc' = "running"
    BY <1>1, SchedulerConstants DEF Fire, TypeOK
<1> QED
    BY <1>1, <1>3, <1>4, <1>5 DEF Fire, TypeOK, callVars, cancelGhosts

\* Every step keeps the types.
LEMMA NextTyped == TypeOK /\ [Next]_vars => TypeOK'
<1> SUFFICES ASSUME TypeOK, [Next]_vars PROVE TypeOK'
    OBVIOUS
<1> USE DEF taskVars, workerVars, callVars, cancelGhosts, timeGhosts
<1>1. ASSUME NEW c \in Callers \cup {Worker}, CallerStep(c) PROVE TypeOK'
    BY <1>1, ScheduleTyped, CancelTyped DEF CallerStep
<1>2. ASSUME NEW c \in Callers, SpuriousWake(c) PROVE TypeOK'
    BY <1>2 DEF SpuriousWake, TypeOK
<1>3. CASE Stop
    BY <1>3 DEF Stop, WakeWorker, TypeOK
<1>4. CASE WorkerStops
    BY <1>4 DEF WorkerStops, AtTop, TypeOK
<1>5. CASE WorkerSleeps
    BY <1>5 DEF WorkerSleeps, AtTop, TypeOK
<1>6. ASSUME NEW i \in Ids, WorkerSleepsUntil(i) PROVE TypeOK'
    BY <1>6 DEF WorkerSleepsUntil, AtTop, TypeOK
<1>7. CASE CallbackReturns
    BY <1>7 DEF CallbackReturns, NotifyAll, TypeOK
<1>8. CASE WorkerWakes
    BY <1>8 DEF WorkerWakes, TypeOK
<1>9. CASE Tick
    BY <1>9 DEF Tick, TypeOK
<1>10. CASE UNCHANGED vars
    BY <1>10 DEF vars, TypeOK
<1> QED
    BY <1>1, <1>2, <1>3, <1>4, <1>5, <1>6, <1>7, <1>8, <1>9, <1>10, RecheckTyped, FireTyped
    DEF Next, WorkerLoop

\* The scheduler's state is well typed in every instance.
THEOREM TypeCorrect == Spec => []TypeOK
BY InitTyped, NextTyped, PTL DEF Spec

-----------------------------------------------------------------------------
(* The worker's alarm.                                                     *)

LEMMA AlarmKept == TypeOK /\ SleepsNoLonger /\ [Next]_vars => SleepsNoLonger'
<1> SUFFICES ASSUME TypeOK, SleepsNoLonger, [Next]_vars PROVE SleepsNoLonger'
    OBVIOUS
<1> USE DEF SleepsNoLonger, taskVars, workerVars, callVars, cancelGhosts, timeGhosts
<1>1. ASSUME NEW c \in Callers \cup {Worker}, CallerStep(c) PROVE SleepsNoLonger'
  <2>1. pc' # "sleeping"
      BY <1>1 DEF CallerStep, Schedule, Cancel, WakeWorker
  <2> QED
      BY <2>1
<1>2. CASE Stop
    BY <1>2 DEF Stop, WakeWorker
<1>3. CASE WorkerSleeps
    BY <1>3 DEF WorkerSleeps
<1>4. ASSUME NEW i \in Ids, WorkerSleepsUntil(i) PROVE SleepsNoLonger'
  <2>1. when[i] \in Nat /\ \A j \in listed : when[i] <= when[j]
      BY <1>4 DEF WorkerSleepsUntil, Earliest, TypeOK
  <2>2. alarm' # None
      BY <1>4, <2>1, SchedulerConstants DEF WorkerSleepsUntil
  <2> QED
      BY <1>4, <2>1, <2>2 DEF WorkerSleepsUntil
<1>5. ASSUME NEW c \in Callers, Recheck(c) \/ SpuriousWake(c) PROVE SleepsNoLonger'
    BY <1>5 DEF Recheck, SpuriousWake
<1>6. ASSUME NEW i \in Ids, Fire(i) PROVE SleepsNoLonger'
    BY <1>6 DEF Fire
<1>7. CASE WorkerStops \/ CallbackReturns \/ WorkerWakes
    BY <1>7 DEF WorkerStops, CallbackReturns, WorkerWakes
<1>8. CASE Tick \/ UNCHANGED vars
    BY <1>8 DEF Tick, vars
<1> QED
    BY <1>1, <1>2, <1>3, <1>4, <1>5, <1>6, <1>7, <1>8 DEF Next, WorkerLoop

\* The worker never sleeps past a task, whatever arrives while it decides to.
THEOREM WorkerSleepsNoLonger == Spec => []SleepsNoLonger
<1>1. Init => SleepsNoLonger
    BY DEF Init, SleepsNoLonger
<1> QED
    BY <1>1, TypeCorrect, AlarmKept, PTL DEF Spec

-----------------------------------------------------------------------------
(* The callers' waits.                                                     *)

LEMMA WaitsKept == TypeOK /\ WaitsOnlyForRunning /\ [Next]_vars => WaitsOnlyForRunning'
<1> SUFFICES ASSUME TypeOK, WaitsOnlyForRunning, [Next]_vars,
                    NEW k \in Callers, asleep'[k]
             PROVE  Matches(awaits[k])'
    BY DEF WaitsOnlyForRunning
<1>old. asleep[k] => Matches(awaits[k])
    BY DEF WaitsOnlyForRunning
<1> USE DEF taskVars, workerVars, callVars, cancelGhosts, timeGhosts
<1>1. ASSUME NEW c \in Callers \cup {Worker}, NEW i \in Ids, NEW r \in Requests,
             NEW asked \in 0..now, Schedule(c, i, r, asked)
      PROVE  Matches(awaits[k])'
    BY <1>1, <1>old DEF Schedule, Matches, TypeOK
<1>2. ASSUME NEW c \in Callers \cup {Worker}, NEW what \in scheduled \cup Owners,
             Cancel(c, what)
      PROVE  Matches(awaits[k])'
    BY <1>2, <1>old DEF Cancel, Blocks, Matches, TypeOK
<1>3. ASSUME NEW c \in Callers, Recheck(c) PROVE Matches(awaits[k])'
    BY <1>3, <1>old DEF Recheck, Matches, TypeOK
<1>4. ASSUME NEW c \in Callers, SpuriousWake(c) PROVE Matches(awaits[k])'
    BY <1>4, <1>old DEF SpuriousWake, Matches, TypeOK
<1>5. ASSUME NEW i \in Ids, Fire(i) PROVE Matches(awaits[k])'
  <2>1. ~asleep[k]
      BY <1>5, <1>old DEF Fire, AtTop, Matches, TypeOK
  <2> QED
      BY <1>5, <2>1 DEF Fire
<1>6. CASE CallbackReturns
    BY <1>6 DEF CallbackReturns, NotifyAll
<1>7. ASSUME \/ Stop \/ WorkerStops \/ WorkerSleeps \/ WorkerWakes \/ Tick \/ UNCHANGED vars
             \/ \E i \in Ids : WorkerSleepsUntil(i)
      PROVE  Matches(awaits[k])'
    BY <1>7, <1>old
    DEF Stop, WorkerStops, WorkerSleeps, WorkerSleepsUntil, WorkerWakes, Tick, vars, Matches
<1> QED
    BY <1>1, <1>2, <1>3, <1>4, <1>5, <1>6, <1>7 DEF Next, WorkerLoop, CallerStep

\* No caller sleeps in cancel for a callback that has returned: no wakeup is lost.
THEOREM NoLostNotification == Spec => []WaitsOnlyForRunning
<1>1. Init => WaitsOnlyForRunning
    BY DEF Init, WaitsOnlyForRunning
<1> QED
    BY <1>1, TypeCorrect, WaitsKept, PTL DEF Spec

\* Neither the worker nor a caller of cancel oversleeps.
THEOREM SleepersStayRight == Spec => []SleepersAreRight
BY WorkerSleepsNoLonger, NoLostNotification, PTL DEF SleepersAreRight

-----------------------------------------------------------------------------
(* What cancels cover.                                                     *)

\* A call in progress waits for each task it covers that is running.
CoversAwaited == \A c \in Callers : \A i \in covers[c] : awaits[c] \in {i, owner[i]}

CancelInv == CancelIsFinal /\ CoversAwaited

LEMMA CancelInvKept == TypeOK /\ CancelInv /\ [Next]_vars => CancelInv'
<1> SUFFICES ASSUME TypeOK, CancelInv, [Next]_vars PROVE CancelInv'
    OBVIOUS
<1> USE DEF taskVars, workerVars, callVars, cancelGhosts, timeGhosts, CancelInv, CancelIsFinal,
            CoversAwaited
<1>1. ASSUME NEW c \in Callers \cup {Worker}, NEW i \in Ids, NEW r \in Requests,
             NEW asked \in 0..now, Schedule(c, i, r, asked)
      PROVE  CancelInv'
    BY <1>1 DEF Schedule, TypeOK
<1>2. ASSUME NEW c \in Callers \cup {Worker}, NEW what \in scheduled \cup Owners,
             Cancel(c, what)
      PROVE  CancelInv'
  <2>1. (cancelled \cap listed = {})'
      BY <1>2 DEF Cancel, Erase
  <2>2. executing' \notin silenced'
      BY <1>2, SchedulerConstants DEF Cancel, Blocks, Matches, Named, TypeOK
  <2>3. CoversAwaited'
      BY <1>2 DEF Cancel, Named, TypeOK
  <2> QED
      BY <2>1, <2>2, <2>3
<1>3. ASSUME NEW c \in Callers, Recheck(c) PROVE CancelInv'
  <2>1. executing' \notin silenced'
    <3>1. ~Matches(awaits[c]) => executing \notin covers[c]
        BY SchedulerConstants DEF Matches, TypeOK
    <3> QED
        BY <1>3, <3>1 DEF Recheck
  <2>2. CoversAwaited'
      BY <1>3 DEF Recheck, TypeOK
  <2> QED
      BY <1>3, <2>1, <2>2 DEF Recheck
<1>4. ASSUME NEW i \in Ids, Fire(i) PROVE CancelInv'
    BY <1>4 DEF Fire, Earliest, Remaining, TypeOK
<1>5. CASE CallbackReturns
  <2>1. executing' \notin silenced'
      BY <1>5, SchedulerConstants DEF CallbackReturns, TypeOK
  <2> QED
      BY <1>5, <2>1 DEF CallbackReturns
<1>6. ASSUME \/ Stop \/ WorkerStops \/ WorkerSleeps \/ WorkerWakes \/ Tick \/ UNCHANGED vars
             \/ \E c \in Callers : SpuriousWake(c)
             \/ \E i \in Ids : WorkerSleepsUntil(i)
      PROVE  CancelInv'
    BY <1>6
    DEF Stop, WorkerStops, WorkerSleeps, WorkerSleepsUntil, WorkerWakes, Tick, SpuriousWake, vars
<1> QED
    BY <1>1, <1>2, <1>3, <1>4, <1>5, <1>6 DEF Next, WorkerLoop, CallerStep

\* cancel and cancelOwner are a barrier for what they cancelled.
THEOREM CancelIsABarrier == Spec => []CancelIsFinal
<1>1. Init => CancelInv
    BY DEF Init, CancelInv, CancelIsFinal, CoversAwaited
<1>2. CancelInv => CancelIsFinal
    BY DEF CancelInv
<1> QED
    BY <1>1, <1>2, TypeCorrect, CancelInvKept, PTL DEF Spec

-----------------------------------------------------------------------------
(* Due times of repeating timers.                                          *)

\* The due time is on the grid or after it, and an interval after the last callback
\* but one.
TimerInv(i) ==
    /\ nominal[i] <= when[i] /\ (i \notin late => when[i] = nominal[i])
    /\ newer[i] <= when[i] /\ older[i] + interval[i] <= when[i]

TimersInv == \A i \in repeating : TimerInv(i)

LEMMA TimersKept == TypeOK /\ TimersInv /\ [Next]_vars => TimersInv'
<1> SUFFICES ASSUME TypeOK, TimersInv, [Next]_vars, NEW k \in repeating' PROVE TimerInv(k)'
    BY DEF TimersInv
<1> USE DEF taskVars, workerVars, callVars, cancelGhosts, timeGhosts
<1>old. k \in repeating => TimerInv(k)
    BY DEF TimersInv
<1>1. ASSUME NEW c \in Callers \cup {Worker}, NEW i \in Ids, NEW r \in Requests,
             NEW asked \in 0..now, Schedule(c, i, r, asked)
      PROVE  TimerInv(k)'
  <2>1. r.delay \in Nat /\ asked \in Nat
      BY SchedulerConstants DEF Request, TypeOK
  <2>2. CASE k = i
    <3>1. r.repeats
        BY <1>1, <2>2 DEF Schedule, TypeOK
    <3>2. /\ when'[k] = asked + r.delay /\ nominal'[k] = asked + r.delay /\ interval'[k] = r.delay
          /\ newer'[k] = asked /\ older'[k] = asked
        BY <1>1, <2>2, <3>1 DEF Schedule, TypeOK
    <3> QED
        BY <2>1, <3>2 DEF TimerInv
  <2>3. CASE k # i
    <3>1. k \in repeating
        BY <1>1, <2>3 DEF Schedule
    <3>2. /\ when'[k] = when[k] /\ nominal'[k] = nominal[k] /\ newer'[k] = newer[k]
          /\ older'[k] = older[k] /\ interval'[k] = interval[k] /\ late' = late
        BY <1>1, <2>3, <3>1 DEF Schedule, TypeOK
    <3> QED
        BY <1>old, <3>1, <3>2 DEF TimerInv
  <2> QED
      BY <2>2, <2>3
<1>2. ASSUME NEW i \in Ids, Fire(i) PROVE TimerInv(k)'
  <2>1. k \in repeating /\ k \in Ids
      BY <1>2 DEF Fire, TypeOK
  <2>2. CASE k = i
    <3>1. when[k] <= now
        BY <1>2, <2>2 DEF Fire, Due
    <3>2. /\ when'[k] = Reschedule(k) /\ nominal'[k] = nominal[k] + interval[k]
          /\ newer'[k] = now /\ older'[k] = newer[k] /\ interval' = interval
          /\ late' = IF now > when[k] + interval[k] THEN late \cup {k} ELSE late
        BY <1>2, <2>1, <2>2 DEF Fire, TypeOK
    <3> QED
        BY <1>old, <2>1, <3>1, <3>2 DEF TimerInv, Reschedule, TypeOK
  <2>3. CASE k # i
    <3>1. /\ when'[k] = when[k] /\ nominal'[k] = nominal[k] /\ newer'[k] = newer[k]
          /\ older'[k] = older[k] /\ interval' = interval /\ (k \in late' <=> k \in late)
        BY <1>2, <2>1, <2>3 DEF Fire, TypeOK
    <3> QED
        BY <1>old, <2>1, <3>1 DEF TimerInv
  <2> QED
      BY <2>2, <2>3
<1>3. ASSUME NEW c \in Callers \cup {Worker}, NEW what \in scheduled \cup Owners,
             Cancel(c, what)
      PROVE  TimerInv(k)'
    BY <1>3, <1>old DEF Cancel, TimerInv
<1>4. ASSUME \/ Stop \/ WorkerStops \/ WorkerSleeps \/ WorkerWakes \/ CallbackReturns
             \/ \E c \in Callers : Recheck(c) \/ SpuriousWake(c)
             \/ \E i \in Ids : WorkerSleepsUntil(i)
             \/ Tick \/ UNCHANGED vars
      PROVE  TimerInv(k)'
    BY <1>4, <1>old
    DEF Stop, WorkerStops, WorkerSleeps, WorkerSleepsUntil, WorkerWakes, CallbackReturns, Recheck,
        SpuriousWake, Tick, vars, TimerInv
<1> QED
    BY <1>1, <1>2, <1>3, <1>4 DEF Next, WorkerLoop, CallerStep

\* A step that starts a callback is Fire.
LEMMA StartsByFire ==
    ASSUME TypeOK, [Next]_vars, NEW i \in repeating, Starts(i)
    PROVE  Fire(i)
<1> USE DEF taskVars, workerVars, callVars, cancelGhosts, timeGhosts
<1>1. i # None
    BY SchedulerConstants DEF TypeOK
<1>2. executing' # executing /\ executing' # None
    BY <1>1 DEF Starts
<1> QED
    BY <1>2
    DEF Next, WorkerLoop, CallerStep, Schedule, Cancel, Recheck, SpuriousWake, Stop, WorkerStops,
        WorkerSleeps, WorkerSleepsUntil, Fire, CallbackReturns, WorkerWakes, Tick, vars, Starts

LEMMA StartsInTime ==
    ASSUME TypeOK, TimersInv, [Next]_vars, NEW i \in repeating, Starts(i)
    PROVE  /\ now >= nominal[i] /\ (i \notin late => when[i] = nominal[i])
           /\ now - older[i] >= interval[i]
<1>1. Fire(i)
    BY StartsByFire
<1>2. when[i] <= now /\ TimerInv(i)
    BY <1>1 DEF Fire, Due, TimersInv
<1>3. /\ i \in Ids /\ now \in Nat /\ when[i] \in Nat /\ nominal[i] \in Nat
      /\ older[i] \in Nat /\ interval[i] \in Nat
    BY DEF TypeOK
<1> QED
    BY <1>2, <1>3 DEF TimerInv

LEMMA TimersInvariant == Spec => []TimersInv
<1>1. Init => TimersInv
    BY DEF Init, TimersInv
<1> QED
    BY <1>1, TypeCorrect, TimersKept, PTL DEF Spec

\* Repeating timers keep to their grid and never run ahead of it.
THEOREM TimersKeepTime == Spec => KeepsTime
<1>1. TypeOK /\ TimersInv /\ [Next]_vars =>
          [\A i \in repeating : Starts(i) =>
              /\ now >= nominal[i]
              /\ i \notin late => when[i] = nominal[i]]_vars
    BY StartsInTime
<1> QED
    BY <1>1, TypeCorrect, TimersInvariant, PTL DEF Spec, KeepsTime

\* However late the worker is, no timer replays the callbacks it missed.
THEOREM TimersDoNotBurst == Spec => NoBurst
<1>1. TypeOK /\ TimersInv /\ [Next]_vars =>
          [\A i \in repeating : Starts(i) => now - older[i] >= interval[i]]_vars
    BY StartsInTime
<1> QED
    BY <1>1, TypeCorrect, TimersInvariant, PTL DEF Spec, NoBurst

\* Repeating timers are neither early, nor do they drift or come in bursts.
THEOREM TimersRepeatInTime == Spec => RepeatsInTime
BY TimersKeepTime, TimersDoNotBurst DEF RepeatsInTime

-----------------------------------------------------------------------------
(* Nodes.                                                                  *)

\* What nodes do with the scheduler, callers of any kind may do: what is proved of
\* the scheduler holds of the timers of nodes.
THEOREM NodesUseScheduler == ASSUME Main \in Callers PROVE NodeSpec => Spec
<1>1. ASSUME TypeOK, [NodeNext]_nodeVars PROVE [Next]_vars
  <2>1. ASSUME NEW c \in Callers \cup {Worker}, NodeSchedules(c) PROVE CallerStep(c)
    <3>1. now \in 0..now /\ now - MaxLag <= now
        BY <1>1, SchedulerConstants DEF TypeOK
    <3> QED
        BY <2>1, <3>1 DEF NodeSchedules, CallerStep
  <2>2. ASSUME NEW c \in Callers \cup {Worker}, NodeCancels(c) PROVE CallerStep(c)
      BY <2>2 DEF NodeCancels, CallerStep
  <2>3. ASSUME NEW o \in Owners, CleanupStarts(o) PROVE CallerStep(Main)
      BY <2>3 DEF CleanupStarts, CallerStep
  <2>4. CASE CleanupResumes
      BY <2>4 DEF CleanupResumes, Next
  <2>5. CASE UNCHANGED nodeVars
      BY <2>5 DEF nodeVars
  <2> QED
      BY <1>1, <2>1, <2>2, <2>3, <2>4, <2>5 DEF NodeNext, Next
<1>2. NodeInit => Init
    BY DEF NodeInit
<1>3. TypeOK /\ [NodeNext]_nodeVars => TypeOK'
    BY <1>1, NextTyped
<1> QED
    BY <1>1, <1>2, <1>3, InitTyped, PTL DEF NodeSpec, Spec

\* A new timer is for a node that has not begun its cleanup.
NewTimersAreWanted == \A i \in scheduled' \ scheduled : node[owner'[i]] = "alive"

\* A node past the beginning of its cleanup has no timer listed, and Main waits for
\* its last callback before it calls the node clean.
NodesInv ==
    /\ node \in [Owners -> {"alive", "leaving", "clean"}]
    /\ \A i \in listed : node[owner[i]] = "alive"
    /\ \A o \in Owners : node[o] = "leaving" => awaits[Main] = o
    /\ QuietAfterCleanup

LEMMA NodesKept ==
    ASSUME Main \in Callers, TypeOK, NodesInv, [NodeNext /\ NewTimersAreWanted]_nodeVars
    PROVE  NodesInv'
<1> USE DEF taskVars, workerVars, callVars, cancelGhosts, timeGhosts
<1>0. /\ executing # None => executing \in scheduled /\ owner[executing] \in Owners
      /\ listed \subseteq scheduled /\ \A i \in scheduled : owner[i] \in Owners
      /\ scheduled \subseteq Ids /\ Main # Worker
      /\ None \notin Owners /\ Ids \cap Owners = {} /\ None \notin Ids
      /\ owner \in [Ids -> Owners \cup {None}] /\ awaits \in [Callers -> Ids \cup Owners \cup {None}]
    BY SchedulerConstants DEF TypeOK
\* Steps that start no callback, list nothing and leave Main's wait alone.
<1>1. ASSUME UNCHANGED <<node, owner>>, listed' \subseteq listed, executing' \in {executing, None},
             awaits'[Main] = awaits[Main] \/ awaits[Main] = None
      PROVE  NodesInv'
  <2>1. \A o \in Owners : node[o] = "leaving" => awaits'[Main] = o
      BY <1>0, <1>1 DEF NodesInv
  <2> QED
      BY <1>0, <1>1, <2>1 DEF NodesInv, QuietAfterCleanup
<1>2. ASSUME NEW c \in Callers \cup {Worker}, NodeSchedules(c), NewTimersAreWanted PROVE NodesInv'
  <2>1. PICK i \in Ids, r \in Requests : MaySchedule(c, r.owner) /\ Schedule(c, i, r, now)
      BY <1>2 DEF NodeSchedules
  <2>2. /\ i \notin scheduled /\ listed' = listed \cup {i} /\ scheduled' = scheduled \cup {i}
        /\ owner' = [owner EXCEPT ![i] = r.owner] /\ UNCHANGED <<executing, awaits>> /\ node' = node
      BY <1>2, <2>1 DEF Schedule, NodeSchedules
  <2>3. node[owner'[i]] = "alive"
      BY <1>2, <2>2 DEF NewTimersAreWanted
  <2>4. \A j \in scheduled : owner'[j] = owner[j]
      BY <1>0, <2>2
  <2>5. \A j \in listed' : node'[owner'[j]] = "alive"
      BY <1>0, <2>2, <2>3, <2>4 DEF NodesInv
  <2>6. QuietAfterCleanup'
      BY <1>0, <2>2, <2>4 DEF NodesInv, QuietAfterCleanup
  <2> QED
      BY <2>2, <2>5, <2>6 DEF NodesInv
<1>3. ASSUME NEW c \in Callers \cup {Worker}, NodeCancels(c) PROVE NodesInv'
  <2>1. PICK i \in scheduled : Cancel(c, i) /\ node' = node
      BY <1>3 DEF NodeCancels
  <2>2. UNCHANGED <<owner, executing>> /\ listed' \subseteq listed
      BY <2>1 DEF Cancel, Erase
  <2>3. awaits'[Main] = awaits[Main] \/ awaits[Main] = None
      BY <1>0, <2>1, SchedulerConstants DEF Cancel, CanCall
  <2> QED
      BY <1>1, <2>1, <2>2, <2>3
<1>4. ASSUME NEW o \in Owners, CleanupStarts(o) PROVE NodesInv'
  <2>1. /\ node[o] = "alive" /\ awaits[Main] = None /\ listed' = Erase(o)
        /\ UNCHANGED <<owner, executing>>
        /\ node' = [node EXCEPT ![o] = IF awaits'[Main] = None THEN "clean" ELSE "leaving"]
      BY <1>0, <1>4 DEF CleanupStarts, Cancel, CanCall
  <2>2. awaits' = IF Blocks(Main, o) THEN [awaits EXCEPT ![Main] = o] ELSE awaits
      BY <1>4 DEF CleanupStarts, Cancel
  <2>3. awaits'[Main] = IF Matches(o) THEN o ELSE None
      BY <1>0, <2>1, <2>2 DEF Blocks
  <2>4. \A i \in listed' : i \in listed /\ owner[i] # o
      BY <1>0, <2>1 DEF Erase, Named
  <2>5. \A i \in listed' : node'[owner'[i]] = "alive"
      BY <1>0, <2>1, <2>4 DEF NodesInv
  <2>6. \A p \in Owners : node[p] # "leaving"
      BY <1>0, <2>1 DEF NodesInv
  <2>7. \A p \in Owners : node'[p] = "leaving" => awaits'[Main] = p
      BY <1>0, <2>1, <2>3, <2>6 DEF NodesInv
  <2>8. executing # None /\ owner[executing] = o => Matches(o)
      BY DEF Matches
  <2>9. QuietAfterCleanup'
      BY <1>0, <2>1, <2>3, <2>8 DEF NodesInv, QuietAfterCleanup
  <2>10. node' \in [Owners -> {"alive", "leaving", "clean"}]
      BY <2>1 DEF NodesInv
  <2> QED
      BY <2>5, <2>7, <2>9, <2>10 DEF NodesInv
<1>5. CASE CleanupResumes
  <2>1. /\ UNCHANGED <<listed, owner, executing>>
        /\ awaits' = IF Matches(awaits[Main]) THEN awaits ELSE [awaits EXCEPT ![Main] = None]
        /\ node' = [o \in Owners |->
                       IF node[o] = "leaving" /\ awaits'[Main] = None THEN "clean" ELSE node[o]]
      BY <1>5 DEF CleanupResumes, Recheck
  <2>2. awaits[Main] # None
      BY <1>5 DEF CleanupResumes, Recheck
  <2>3. CASE Matches(awaits[Main])
    <3>1. awaits'[Main] # None /\ awaits' = awaits
        BY <2>1, <2>2, <2>3
    <3>2. node' = node
        BY <2>1, <3>1 DEF NodesInv
    <3> QED
        BY <1>1, <2>1, <3>1, <3>2
  <2>4. CASE ~Matches(awaits[Main])
    <3>1. awaits'[Main] = None
        BY <1>0, <2>1, <2>4
    <3>2. \A o \in Owners : node'[o] = IF node[o] = "leaving" THEN "clean" ELSE node[o]
        BY <2>1, <3>1
    <3>3. \A o \in Owners : node[o] = "leaving" => executing = None \/ owner[executing] # o
        BY <2>4 DEF NodesInv, Matches
    <3>4. \A i \in listed' : node'[owner'[i]] = "alive"
        BY <1>0, <2>1, <3>2 DEF NodesInv
    <3>5. QuietAfterCleanup'
        BY <1>0, <2>1, <3>2, <3>3 DEF NodesInv, QuietAfterCleanup
    <3>6. node' \in [Owners -> {"alive", "leaving", "clean"}] /\ \A o \in Owners : node'[o] # "leaving"
        BY <2>1, <3>2 DEF NodesInv
    <3> QED
        BY <3>4, <3>5, <3>6 DEF NodesInv
  <2> QED
      BY <2>3, <2>4
<1>6. ASSUME NEW c \in Callers \ {Main}, Recheck(c), node' = node PROVE NodesInv'
  <2>1. UNCHANGED <<listed, owner, executing>> /\ awaits'[Main] = awaits[Main]
      BY <1>0, <1>6 DEF Recheck
  <2> QED
      BY <1>1, <1>6, <2>1
<1>7. ASSUME NEW i \in Ids, Fire(i), node' = node PROVE NodesInv'
  <2>1. /\ executing' = i /\ i \in listed /\ listed' \subseteq listed
        /\ UNCHANGED <<owner, awaits>>
      BY <1>7 DEF Fire, Earliest, Remaining
  <2>2. QuietAfterCleanup'
      BY <1>0, <1>7, <2>1 DEF NodesInv, QuietAfterCleanup
  <2> QED
      BY <1>7, <2>1, <2>2 DEF NodesInv
<1>8. ASSUME \/ WorkerStops \/ WorkerSleeps \/ CallbackReturns \/ WorkerWakes \/ Tick
             \/ \E i \in Ids : WorkerSleepsUntil(i),
             node' = node
      PROVE  NodesInv'
  <2>1. UNCHANGED <<listed, owner, awaits>> /\ executing' \in {executing, None}
      BY <1>8 DEF WorkerStops, WorkerSleeps, CallbackReturns, WorkerWakes, Tick, WorkerSleepsUntil
  <2> QED
      BY <1>1, <1>8, <2>1
<1>9. CASE UNCHANGED nodeVars
  <2>1. UNCHANGED <<node, listed, owner, awaits, executing>>
      BY <1>9 DEF nodeVars, vars
  <2> QED
      BY <1>1, <2>1
<1> QED
    BY <1>2, <1>3, <1>4, <1>5, <1>6, <1>7, <1>8, <1>9 DEF NodeNext, WorkerLoop

\* onCleanupStart does what tcNode.h says of it, cancel the node's callbacks and wait,
\* unless a callback in flight asks for another timer of a node whose cleanup has
\* begun: the new timer is the only way to a callback after cleanup().
THEOREM CleanupIsQuiet ==
    ASSUME Main \in Callers
    PROVE  NodeSpec /\ [][NewTimersAreWanted]_nodeVars => []QuietAfterCleanup
<1>1. NodeInit => NodesInv
    BY DEF NodeInit, Init, NodesInv, QuietAfterCleanup
<1>2. TypeOK /\ NodesInv /\ [NodeNext]_nodeVars /\ [NewTimersAreWanted]_nodeVars => NodesInv'
    BY NodesKept
<1>3. NodesInv => QuietAfterCleanup
    BY DEF NodesInv
<1>4. NodeSpec => []TypeOK
    BY NodesUseScheduler, TypeCorrect, PTL
<1> QED
    BY <1>1, <1>2, <1>3, <1>4, PTL DEF NodeSpec
=============================================================================
