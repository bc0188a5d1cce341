--------------------------- MODULE EventDispatch ---------------------------
(***************************************************************************)
(* One Event<T> of tcEvent.h, the limit on its copies for the main thread  *)
(* (tcExternalDelivery.cpp) and the closure queue those copies travel in   *)
(* (runOnMainThread and drainMainThreadQueue of tcMainThread.h).           *)
(*                                                                         *)
(* The listener list is copied on write: listen, a removal and clear       *)
(* replace it under the event's mutex, and notify walks the copy it loaded *)
(* without a lock, checking each listener's liveness token before it calls *)
(* the callback.  A listener of Deliver::Main notified off the main thread *)
(* is copied into the queue and its token is checked again by the drain.   *)
(*                                                                         *)
(* A thread's stack holds one frame for each notify pass, or copy run by   *)
(* the drain, it is in: a callback may listen, disconnect, clear, notify   *)
(* or destroy the event while the pass below it is under way.              *)
(***************************************************************************)
EXTENDS Integers, Sequences, FiniteSets, Functions

CONSTANTS
    Threads, Main,  \* Main \in Threads runs the drain
    Kinds,          \* what listen may be given: [priority, main, framework]; see Entry
    Limits,         \* what setMainThreadDeliveryLimit may be given
    External,       \* TRUE: workers notify as an external source, under the limit
    Failures,       \* whether allocations may fail
    Destroys,       \* whether the event is destroyed
    MaxListeners,   \* bound: registrations
    MaxDepth,       \* bound: frames of one thread
    MaxBacklog      \* bound: workers notify while fewer copies wait for the main thread

ASSUME EventConstants ==
    /\ Main \in Threads /\ IsFiniteSet(Threads)
    /\ Kinds \subseteq [priority : Int, main : BOOLEAN, framework : BOOLEAN]
    /\ Limits \subseteq Nat
    /\ {External, Failures, Destroys} \subseteq BOOLEAN
    /\ {MaxListeners, MaxDepth, MaxBacklog} \subseteq Nat

VARIABLES
    \* Event
    nextId,             \* nextId_: the id the last registration took
    entries,            \* entries_, the published list
    frameworkEntries,   \* frameworkEntries_, what clear will publish
    alive,              \* ids whose liveness token is true
    handles,            \* ids whose EventListener is connected
    sourceAlive,        \* the event's own token, alive_
    lock,               \* mutex_, and what its holder is doing
    \* ExternalDeliveryStore
    limit, pending, overflowing,
    \* threads: their frames, the topmost first; the queue and main's batch
    stack, queue, batch,
    \* history: the listeners each thread removed itself
    removedBy

listVars == <<nextId, entries, frameworkEntries, alive, handles, sourceAlive, lock>>
storeVars == <<limit, pending, overflowing>>
queueVars == <<queue, batch>>
vars == <<listVars, storeVars, stack, queueVars, removedBy>>

\* A registration: its listener runs at a priority, on the main thread or
\* inline, and belongs to the framework or to the user.
Entry(k, id) == [id |-> id, priority |-> k.priority, main |-> k.main, framework |-> k.framework]

Free == [by |-> "none", op |-> "free", left |-> <<>>]
Holder(t, op, left) == [by |-> t, op |-> op, left |-> left]

Frame(list, external, drained, leased) ==
    [at |-> "check", list |-> list, external |-> external, drained |-> drained, leased |-> leased]

\* What the queue carries: a copy for a listener, with its lease if it has one,
\* or the warning of a reserve.
Copy(e, leased) == [kind |-> "copy", entry |-> e, leased |-> leased]
Warning == [kind |-> "warning", leased |-> FALSE]

Init ==
    /\ nextId = 0 /\ entries = <<>> /\ frameworkEntries = <<>>
    /\ alive = {} /\ handles = {} /\ sourceAlive = TRUE /\ lock = Free
    /\ limit = 0 /\ pending = 0 /\ overflowing = FALSE
    /\ stack = [t \in Threads |-> <<>>]
    /\ queue = <<>> /\ batch = <<>>
    /\ removedBy = [t \in Threads |-> {}]

Top(t) == Head(stack[t])
In(t, at) == stack[t] # <<>> /\ Top(t).at = at
Current(t) == Head(Top(t).list)

\* User code runs in a thread's own loop and in the callbacks, and for the main
\* thread not between two closures of a drain.
UserCode(t) ==
    /\ lock.by # t
    /\ In(t, "running") \/ (stack[t] = <<>> /\ (t = Main => batch = <<>>))

-----------------------------------------------------------------------------
(* The listener list.                                                      *)

Live(e) == e.id \in alive

\* The entries of s that are in S, in their order: the list's copies are all made
\* by leaving entries out.
Kept(s, S) ==
    LET Upto[n \in 0 .. Len(s)] ==
            IF n = 0 THEN <<>>
            ELSE IF s[n] \in S THEN Append(Upto[n - 1], s[n]) ELSE Upto[n - 1]
    IN  Upto[Len(s)]

Swept(s) == Kept(s, {e \in Range(s) : Live(e)})
Others(s) == Kept(s, {e \in Range(s) : ~e.framework})
Framework(s) == Kept(s, {e \in Range(s) : e.framework})

\* stable_sort by priority of a sorted list and its newcomer.
InsertedBefore(s, e) ==         \* mutant: the newcomer goes first among its equals
    Kept(s, {f \in Range(s) : f.priority < e.priority}) \o <<e>>
        \o Kept(s, {f \in Range(s) : f.priority >= e.priority})
Inserted(s, e) ==
    Kept(s, {f \in Range(s) : f.priority <= e.priority}) \o <<e>>
        \o Kept(s, {f \in Range(s) : f.priority > e.priority})

UserOnlyList(s) == <<>>         \* mutant: clear publishes an empty list
Survivors(s) == Framework(s)

Publish(next) == entries' = next /\ frameworkEntries' = Survivors(next)

MutexIgnored == TRUE            \* mutant: listen does not wait for the mutex
MutexFree == lock = Free

\* listenImpl: sweep what failed removals left, insert, publish.  Under the mutex
\* with one visible effect.  A failed allocation changes nothing but the id.
Listen(t, k) ==
    /\ UserCode(t) /\ sourceAlive /\ MutexFree
    /\ nextId < MaxListeners
    /\ LET id == nextId + 1 IN
       /\ Publish(Inserted(Swept(entries), Entry(k, id)))
       /\ nextId' = id
       /\ alive' = alive \cup {id}
       /\ handles' = handles \cup {id}
    /\ UNCHANGED <<sourceAlive, lock, storeVars, stack, queueVars, removedBy>>

Ids(s) == {s[i].id : i \in DOMAIN s}

\* EventListener::disconnect, by the handle's owner: removeListener turns the
\* token off first.
Disconnect(t, id) ==
    /\ UserCode(t) /\ sourceAlive /\ lock = Free
    /\ id \in handles
    /\ handles' = handles \ {id}
    /\ alive' = alive \ ({id} \cap Ids(entries))
    /\ lock' = Holder(t, "remove", <<>>)
    /\ removedBy' = [removedBy EXCEPT ![t] = @ \cup {id}]
    /\ UNCHANGED <<nextId, entries, frameworkEntries, sourceAlive, storeVars, stack, queueVars>>

\* After the event the handle has nothing to do.
DisconnectDead(t, id) ==
    /\ UserCode(t) /\ ~sourceAlive
    /\ id \in handles
    /\ handles' = handles \ {id}
    /\ UNCHANGED <<nextId, entries, frameworkEntries, alive, sourceAlive, lock, storeVars,
                   stack, queueVars, removedBy>>

\* removeListener then publishes the list without the dead.  disconnect contains
\* a failed allocation, which leaves the entry behind with its token off.
Rebuild(t) ==
    /\ lock.by = t /\ lock.op = "remove"
    /\ \/ Publish(Swept(entries))
       \/ Failures /\ UNCHANGED <<entries, frameworkEntries>>
    /\ lock' = Free
    /\ UNCHANGED <<nextId, alive, handles, sourceAlive, storeVars, stack, queueVars, removedBy>>

\* clear() turns the tokens of the user's entries off one after the other ...
Clear(t) ==
    /\ UserCode(t) /\ sourceAlive /\ lock = Free
    /\ entries # <<>>
    /\ lock' = Holder(t, "clear", Others(entries))
    /\ UNCHANGED <<nextId, entries, frameworkEntries, alive, handles, sourceAlive, storeVars,
                   stack, queueVars, removedBy>>

ClearOne(t) ==
    /\ lock.by = t /\ lock.op = "clear" /\ lock.left # <<>>
    /\ alive' = alive \ {Head(lock.left).id}
    /\ removedBy' = [removedBy EXCEPT ![t] = @ \cup {Head(lock.left).id}]
    /\ lock' = [lock EXCEPT !.left = Tail(@)]
    /\ UNCHANGED <<nextId, entries, frameworkEntries, handles, sourceAlive, storeVars, stack, queueVars>>

\* ... and publishes the prepared list.
ClearEnd(t) ==
    /\ lock.by = t /\ lock.op = "clear" /\ lock.left = <<>>
    /\ entries' = frameworkEntries
    /\ lock' = Free
    /\ UNCHANGED <<nextId, frameworkEntries, alive, handles, sourceAlive, storeVars, stack,
                   queueVars, removedBy>>

\* ~Event, on the main thread: also from a callback of this event.
Destroy ==
    /\ Destroys
    /\ UserCode(Main) /\ sourceAlive /\ lock = Free
    /\ sourceAlive' = FALSE
    /\ UNCHANGED <<nextId, entries, frameworkEntries, alive, handles, lock, storeVars, stack,
                   queueVars, removedBy>>

-----------------------------------------------------------------------------
(* The limit on external copies.                                           *)

SetLimit(t, n) ==
    /\ UserCode(t) /\ sourceAlive /\ lock = Free
    /\ limit' = n
    /\ overflowing' = (overflowing /\ n # 0 /\ pending >= n)
    /\ UNCHANGED <<listVars, pending, stack, queueVars, removedBy>>

NoRearm(n) == FALSE             \* mutant: a full drain does not end the overflow episode
Rearm(n) == n = 0

\* ~Lease, if there is one.
Release(leased) ==
    IF leased THEN pending' = pending - 1 /\ overflowing' = (overflowing /\ ~Rearm(pending - 1))
              ELSE UNCHANGED <<pending, overflowing>>

-----------------------------------------------------------------------------
(* notifySnapshot.                                                         *)

Replaced(t, f) == [stack EXCEPT ![t] = <<f>> \o Tail(@)]
Popped(t) == [stack EXCEPT ![t] = Tail(@)]

\* The loop's next entry, or the end of the pass.
AdvancedPast(t) ==              \* mutant: the loop goes past the list's end
    Replaced(t, [Top(t) EXCEPT !.at = "check", !.list = Tail(@), !.leased = FALSE])
Advanced(t) ==
    IF Len(Top(t).list) = 1 THEN Popped(t)
    ELSE Replaced(t, [Top(t) EXCEPT !.at = "check", !.list = Tail(@), !.leased = FALSE])

GoTo(t, at) == Replaced(t, [Top(t) EXCEPT !.at = at])

\* notify, or the external delivery's, which limits only copies for the main thread.
Notify(t) ==
    /\ UserCode(t) /\ sourceAlive
    /\ entries # <<>>
    /\ Len(stack[t]) < MaxDepth
    /\ t # Main => Len(queue) + Len(batch) < MaxBacklog
    /\ stack' = [stack EXCEPT ![t] = <<Frame(entries, External, FALSE, FALSE)>> \o @]
    /\ UNCHANGED <<listVars, storeVars, queueVars, removedBy>>

TokenIgnored(e) == TRUE         \* mutant: the pass, or the drain, does not look at the token
TokenSet(e) == Live(e)

\* Read the entry's token and choose how to deliver it.
Check(t) ==
    /\ In(t, "check") /\ ~Top(t).drained
    /\ stack' = IF ~TokenSet(Current(t)) THEN Advanced(t)
                ELSE IF ~Current(t).main \/ t = Main THEN GoTo(t, "call")
                ELSE IF Top(t).external THEN GoTo(t, "reserve") ELSE GoTo(t, "post")
    /\ UNCHANGED <<listVars, storeVars, queueVars, removedBy>>

Call(t) ==
    /\ In(t, "call") /\ ~Top(t).drained
    /\ stack' = GoTo(t, "running")
    /\ UNCHANGED <<listVars, storeVars, queueVars, removedBy>>

\* The callback returns; the event may have been consumed.
Return(t) ==
    /\ In(t, "running") /\ lock.by # t /\ ~Top(t).drained
    /\ stack' \in {Advanced(t), Popped(t)}
    /\ UNCHANGED <<listVars, storeVars, queueVars, removedBy>>

\* reserve, under the store's mutex: a lease, or a drop that opens an episode, or
\* the episode's next drop.  Without memory for a lease the copy is dropped.
Reserve(t) ==
    /\ In(t, "reserve")
    /\ \/ /\ limit = 0 \/ pending < limit
          /\ pending' = pending + 1
          /\ stack' = Replaced(t, [Top(t) EXCEPT !.at = "post", !.leased = TRUE])
          /\ UNCHANGED overflowing
       \/ /\ limit # 0 /\ pending >= limit
          /\ overflowing' = TRUE
          /\ stack' = IF overflowing THEN Advanced(t) ELSE GoTo(t, "warn")
          /\ UNCHANGED pending
       \/ /\ Failures
          /\ stack' = Advanced(t)
          /\ UNCHANGED <<pending, overflowing>>
    /\ UNCHANGED <<listVars, limit, queueVars, removedBy>>

\* Outside the store's mutex: one warning for the episode.
Warn(t) ==
    /\ In(t, "warn")
    /\ queue' = Append(queue, Warning) \/ (Failures /\ UNCHANGED queue)
    /\ stack' = Advanced(t)
    /\ UNCHANGED <<listVars, storeVars, batch, removedBy>>

\* Copy the payload and the callback and queue them.  The poster's own reference to the
\* copy, which it drops a moment later, goes with this step.
Post(t) ==
    /\ In(t, "post")
    /\ queue' = Append(queue, Copy(Current(t), Top(t).leased))
    /\ stack' = Advanced(t)
    /\ UNCHANGED <<listVars, storeVars, batch, removedBy>>

LeaseKept(f) == FALSE           \* mutant: a failed copy keeps its place
LeaseOf(f) == f.leased

\* Without memory an external copy is dropped with its lease; a plain notify throws.
PostFails(t) ==
    /\ Failures /\ In(t, "post")
    /\ Release(LeaseOf(Top(t)))
    /\ stack' = IF Top(t).external THEN Advanced(t) ELSE Popped(t)
    /\ UNCHANGED <<listVars, limit, queueVars, removedBy>>

-----------------------------------------------------------------------------
(* drainMainThreadQueue, at an outer turn of the main thread.              *)

OnlyFirst(q) == <<Head(q)>>     \* mutant: the rest of the batch is lost
Received(q) == q

Drain ==
    /\ stack[Main] = <<>> /\ batch = <<>> /\ lock.by # Main
    /\ queue # <<>>
    /\ batch' = Received(queue) /\ queue' = <<>>
    /\ UNCHANGED <<listVars, storeVars, stack, removedBy>>

\* Move the next closure out of the batch.  The warning only logs.
RunNext ==
    /\ stack[Main] = <<>> /\ batch # <<>>
    /\ batch' = Tail(batch)
    /\ stack' = IF Head(batch).kind = "warning" THEN stack
                ELSE [stack EXCEPT ![Main] = <<Frame(<<Head(batch).entry>>, FALSE, TRUE, Head(batch).leased)>>]
    /\ UNCHANGED <<listVars, storeVars, queue, removedBy>>

\* The wrapper runOnMainThread put around the copy reads the token ...
Recheck ==
    /\ In(Main, "check") /\ Top(Main).drained
    /\ IF TokenSet(Current(Main))
       THEN stack' = GoTo(Main, "call") /\ UNCHANGED <<pending, overflowing>>
       ELSE stack' = Popped(Main) /\ Release(Top(Main).leased)
    /\ UNCHANGED <<listVars, limit, queueVars, removedBy>>

SourceIgnored == TRUE           \* mutant: the drain does not look at the event
SourceSet == sourceAlive

\* ... and the copy the event's.
CallCopy ==
    /\ In(Main, "call") /\ Top(Main).drained
    /\ IF SourceSet
       THEN stack' = GoTo(Main, "running") /\ UNCHANGED <<pending, overflowing>>
       ELSE stack' = Popped(Main) /\ Release(Top(Main).leased)
    /\ UNCHANGED <<listVars, limit, queueVars, removedBy>>

\* The closure is released right after it ran.
ReturnCopy ==
    /\ In(Main, "running") /\ lock.by # Main /\ Top(Main).drained
    /\ stack' = Popped(Main)
    /\ Release(Top(Main).leased)
    /\ UNCHANGED <<listVars, limit, queueVars, removedBy>>

-----------------------------------------------------------------------------
User(t) ==
    \/ \E k \in Kinds : Listen(t, k)
    \/ \E id \in handles : Disconnect(t, id) \/ DisconnectDead(t, id)
    \/ Clear(t)
    \/ \E n \in Limits : SetLimit(t, n)
    \/ Notify(t)

Mutex(t) == Rebuild(t) \/ ClearOne(t) \/ ClearEnd(t)
Pass(t) == Check(t) \/ Call(t) \/ Return(t) \/ Reserve(t) \/ Warn(t) \/ Post(t) \/ PostFails(t)
MainTurn == Drain \/ RunNext \/ Recheck \/ CallCopy \/ ReturnCopy

Next == Destroy \/ MainTurn \/ \E t \in Threads : User(t) \/ Mutex(t) \/ Pass(t)

Spec == Init /\ [][Next]_vars

\* Threads are scheduled and a drain goes on; a callback returns whatever it does
\* before, and the host reaches its next drain whatever the app does in between.
Returns(t, d) == Len(stack[t]) = d /\ (Return(t) \/ (t = Main /\ ReturnCopy))

Fairness ==
    /\ WF_vars(MainTurn) /\ SF_vars(Drain)
    /\ \A t \in Threads :
        /\ WF_vars(Mutex(t)) /\ WF_vars(Pass(t))
        /\ \A d \in 1 .. MaxDepth : SF_vars(Returns(t, d))

FairSpec == Spec /\ Fairness

-----------------------------------------------------------------------------
(* Properties.                                                             *)

IdRange == 1 .. nextId
Entries == [id : IdRange, priority : Int, main : BOOLEAN, framework : BOOLEAN]
Frames == [at : {"check", "call", "running", "reserve", "warn", "post"}, list : Seq(Entries),
           external : BOOLEAN, drained : BOOLEAN, leased : BOOLEAN]
Copies == [kind : {"copy"}, entry : Entries, leased : BOOLEAN] \cup {Warning}
Owners == Threads \cup {"none"}

\* The types of the variables; a frame always has a current entry.
TypeOK ==
    /\ nextId \in 0 .. MaxListeners
    /\ entries \in Seq(Entries) /\ frameworkEntries \in Seq(Entries)
    /\ alive \subseteq IdRange /\ handles \subseteq IdRange
    /\ sourceAlive \in BOOLEAN
    /\ lock \in [by : Owners, op : {"free", "remove", "clear"}, left : Seq(Entries)]
    /\ limit \in Nat /\ pending \in Nat /\ overflowing \in BOOLEAN
    /\ stack \in [Threads -> Seq(Frames)]
    /\ \A t \in Threads : \A i \in DOMAIN stack[t] : stack[t][i].list # <<>>
    /\ queue \in Seq(Copies) /\ batch \in Seq(Copies)
    /\ removedBy \in [Threads -> SUBSET IdRange]

\* A thread never starts a callback of a listener that it disconnected or cleared
\* itself, from the pass under way or from a copy queued before (tcEvent.h 331-341:
\* removal by another thread does not wait and is not covered), and a queued copy
\* never runs once its event is gone.
Starts(t) == In(t, "call") /\ In(t, "running")' /\ Len(stack'[t]) = Len(stack[t])

RemovedStayQuiet ==
    [][\A t \in Threads : Starts(t) =>
        /\ Current(t).id \notin removedBy[t]
        /\ Top(t).drained => sourceAlive]_vars

\* Every live listener is in the published list, so that notify reaches it and clear
\* can silence it, and when allocations succeed the list between two updates holds
\* no dead one: updates by several threads are not lost.
NothingLost ==
    /\ alive \subseteq Ids(entries)
    /\ lock = Free /\ ~Failures => Ids(entries) = alive

\* Whatever clear, other removals and failed rebuilds do, a framework listener whose
\* handle is connected stays published and keeps its token.
FrameworkSurvives ==
    [][\A e \in Range(entries) : e.framework /\ e.id \in handles' =>
        e \in Range(entries') /\ e.id \in alive']_vars

\* Removal silences exactly what was removed: no callback of a removed listener
\* starts on the removing thread, and no framework listener goes with the others.
RemovalIsExact == RemovedStayQuiet /\ FrameworkSurvives

Before(e, f) == e.priority < f.priority \/ (e.priority = f.priority /\ e.id < f.id)
Ordered(s) == \A i, j \in DOMAIN s : i < j => Before(s[i], s[j])

\* A pass calls its listeners by priority and, within one, in the order they were
\* registered, whatever swept, cleared or inserted entries since.
InOrder ==
    /\ Ordered(entries)
    /\ \A t \in Threads : \A i \in DOMAIN stack[t] : Ordered(stack[t][i].list)

\* The leases held by the closures of a queue or the frames of a stack.
Leases(s) == Cardinality({i \in DOMAIN s : s[i].leased})
Backlog == Leases(queue) + Leases(batch)
               + SumFunctionOnSet([t \in Threads |-> Leases(stack[t])], Threads)

\* The published lists hold what is registered, in the order it is called in.
ListsAreSound == NothingLost /\ InOrder

\* pending counts exactly the copies that are being made, queued, or executing: a
\* failed copy, a copy whose listener is gone and one whose event is gone give their
\* places back.
LeasesBalanced == pending = Backlog

\* While an episode of overflow lasts a copy is outstanding whose release can end
\* it: the warning is never muted for good.
EpisodesEnd == overflowing => pending # 0

\* The account of the backlog is exact, and an overflow can always end.
BacklogAccounted == LeasesBalanced /\ EpisodesEnd

\* A copy queued for a listener is run, unless the listener is removed or the event
\* destroyed first.
Queued(id) == \E i \in DOMAIN queue : queue[i].kind = "copy" /\ queue[i].entry.id = id
RunsCopy(id) == In(Main, "running") /\ Top(Main).drained /\ Current(Main).id = id

CopiesAreServed ==
    \A id \in 1 .. MaxListeners :
        Queued(id) ~> RunsCopy(id) \/ id \notin alive \/ ~sourceAlive
=============================================================================
