-------------------------- MODULE MainThreadSlots --------------------------
(***************************************************************************)
(* MainThreadSlot and MainThreadSlotBatch of tcMainThread.h: delivery to   *)
(* the main thread for threads that must neither allocate nor block (an    *)
(* audio callback, a serial reader).  Any thread pushes a preallocated     *)
(* slot on an intrusive LIFO with compare-and-swap; main exchanges the     *)
(* head for null, reverses the links into a batch and runs it.             *)
(*                                                                         *)
(* An owner first records what it has to say and then posts its slot (a    *)
(* serial warning, a lost audio device); `mail` holds the slots with       *)
(* something recorded that no run has seen.  Every step is one access to   *)
(* shared memory; accesses are sequentially consistent, which the code's   *)
(* release / acquire pairs on `queued_` and the head justify for the plain *)
(* fields they publish.                                                    *)
(***************************************************************************)
EXTENDS Integers, Sequences

CONSTANTS
    Slots,      \* MainThreadSlot objects
    Threads,    \* threads that post
    Main,       \* the member of Threads that drains
    Modes,      \* {TRUE}: batches are delivered; FALSE \in Modes: or discarded
    MaxPosts,   \* bound: calls of post, 0 for any number
    Null

ASSUME SlotConstants == Null \notin Slots /\ Main \in Threads /\ Modes \subseteq BOOLEAN /\ MaxPosts \in Nat

VARIABLES
    \* the list and the slots' fields
    head, next, queued,
    keepAlive,  \* slots whose keepAlive_ is set
    \* a thread inside post
    pc, target, top,
    \* main inside drainMainThreadSlots
    mpc, posted, first, running,
    held,       \* the slot consume's local keepAlive owns
    deliver,    \* consume's parameter
    \* owners
    mail, owned,
    \* history: the order of posts, the batch, how much of it is not reversed, and
    \* the number of calls of post when MaxPosts bounds them
    waiting, taken, left, posts

listVars == <<head, next, queued, keepAlive>>
postVars == <<pc, target, top>>
drainVars == <<mpc, posted, first, running, held, deliver>>
ownerVars == <<mail, owned>>
ghosts == <<waiting, taken, left>>
vars == <<listVars, postVars, drainVars, ownerVars, ghosts, posts>>

\* References to a slot's storage besides those its owners keep.
Held(s) == \/ s \in keepAlive \/ held = s
           \/ \E t \in Threads : target[t] = s /\ pc[t] \in {"exchange", "keep"}
Freed(s) == s \notin owned /\ ~Held(s)

\* Main posts between turns or from a slot it runs, and finishes before it goes on.
MainIn(labels) == mpc \in labels /\ pc[Main] = "idle"

Init ==
    /\ head = Null /\ next = [s \in Slots |-> Null]
    /\ queued = [s \in Slots |-> FALSE] /\ keepAlive = {}
    /\ pc = [t \in Threads |-> "idle"] /\ target = [t \in Threads |-> Null]
    /\ top = [t \in Threads |-> Null]
    /\ mpc = "idle" /\ posted = Null /\ first = Null /\ running = Null /\ held = Null
    /\ deliver = TRUE
    /\ mail = {} /\ owned = Slots
    /\ waiting = <<>> /\ taken = <<>> /\ left = 0 /\ posts = 0

-----------------------------------------------------------------------------
(* Posting.                                                                *)

\* The owner records something under its own lock and calls post with a
\* reference to itself.
Record(t, s) ==
    /\ pc[t] = "idle" /\ s \in owned
    /\ t = Main => mpc \in {"idle", "running"}
    /\ IF MaxPosts = 0 THEN UNCHANGED posts ELSE posts < MaxPosts /\ posts' = posts + 1
    /\ mail' = mail \cup {s}
    /\ pc' = [pc EXCEPT ![t] = "exchange"]
    /\ target' = [target EXCEPT ![t] = s]
    /\ UNCHANGED <<listVars, top, drainVars, owned, ghosts>>

AlreadyQueuedIgnored(s) == FALSE            \* mutant: every caller links the slot
AlreadyQueued(s) == queued[s]

\* queued_.exchange(true): one caller wins.
Exchange(t) ==
    /\ pc[t] = "exchange"
    /\ LET s == target[t] IN
       /\ queued' = [queued EXCEPT ![s] = TRUE]
       /\ IF AlreadyQueued(s)
          THEN pc' = [pc EXCEPT ![t] = "idle"] /\ target' = [target EXCEPT ![t] = Null]
          ELSE pc' = [pc EXCEPT ![t] = "keep"] /\ UNCHANGED target
    /\ UNCHANGED <<head, next, keepAlive, top, drainVars, ownerVars, ghosts, posts>>

\* The winner moves the reference into the slot and loads the head.
Keep(t) ==
    /\ pc[t] = "keep"
    /\ keepAlive' = keepAlive \cup {target[t]}
    /\ top' = [top EXCEPT ![t] = head]
    /\ pc' = [pc EXCEPT ![t] = "link"]
    /\ UNCHANGED <<head, next, queued, target, drainVars, ownerVars, ghosts, posts>>

Link(t) ==
    /\ pc[t] = "link"
    /\ next' = [next EXCEPT ![target[t]] = top[t]]
    /\ pc' = [pc EXCEPT ![t] = "cas"]
    /\ UNCHANGED <<head, queued, keepAlive, target, top, drainVars, ownerVars, ghosts, posts>>

AlwaysPush(t) == TRUE                       \* mutant: a plain store of the head
MayPush(t) == head = top[t]

CasWins(t) ==
    /\ pc[t] = "cas" /\ MayPush(t)
    /\ head' = target[t]
    /\ waiting' = Append(waiting, target[t])
    /\ pc' = [pc EXCEPT ![t] = "idle"]
    /\ target' = [target EXCEPT ![t] = Null]
    /\ top' = [top EXCEPT ![t] = Null]
    /\ UNCHANGED <<next, queued, keepAlive, drainVars, ownerVars, taken, left, posts>>

\* compare_exchange_weak: also without a reason.
CasFails(t) ==
    /\ pc[t] = "cas"
    /\ top' = [top EXCEPT ![t] = head]
    /\ pc' = [pc EXCEPT ![t] = "link"]
    /\ UNCHANGED <<listVars, target, drainVars, ownerVars, ghosts, posts>>

-----------------------------------------------------------------------------
(* Draining.                                                               *)

\* MainThreadSlotBatch(head): the exchange.
TakeList(d) ==
    /\ MainIn({"idle"})
    /\ deliver' = d
    /\ posted' = head
    /\ head' = Null
    /\ mpc' = "reverse"
    /\ taken' = waiting /\ left' = Len(waiting) /\ waiting' = <<>>
    /\ UNCHANGED <<next, queued, keepAlive, postVars, first, running, held, ownerVars, posts>>

ReverseNot ==                               \* mutant: the batch keeps the list's order
    /\ MainIn({"reverse"})
    /\ mpc' = "consume" /\ first' = posted /\ posted' = Null /\ left' = 0
    /\ UNCHANGED <<listVars, postVars, running, held, deliver, ownerVars, waiting, taken, posts>>

\* One step of the constructor's loop; consume starts when it ends.
Reverse ==
    /\ MainIn({"reverse"})
    /\ IF posted = Null
       THEN mpc' = "consume" /\ UNCHANGED <<next, posted, first, left>>
       ELSE /\ posted' = next[posted]
            /\ next' = [next EXCEPT ![posted] = first]
            /\ first' = posted
            /\ left' = left - 1
            /\ UNCHANGED mpc
    /\ UNCHANGED <<head, queued, keepAlive, postVars, running, held, deliver, ownerVars,
                   waiting, taken, posts>>

HoldNothing(s) == UNCHANGED held            \* mutant: the reference is dropped before the run
Hold(s) == held' = s

Advance(s) == first' = next[s]

\* consume takes the first slot and moves its reference out; the batch ends.
ConsumeTake ==
    /\ MainIn({"consume"})
    /\ IF first = Null
       THEN mpc' = "idle" /\ UNCHANGED <<keepAlive, first, running, held, taken>>
       ELSE /\ running' = first
            /\ Advance(first)
            /\ Hold(first)
            /\ keepAlive' = keepAlive \ {first}
            /\ mpc' = "unqueue"
            /\ taken' = SubSeq(taken, 2, Len(taken))
    /\ UNCHANGED <<head, next, queued, postVars, posted, deliver, ownerVars, waiting, left, posts>>

UnqueueNot(s) == UNCHANGED queued           \* mutant: queued_ is never reset
Unqueue(s) == queued' = [queued EXCEPT ![s] = FALSE]

ConsumeUnqueue ==
    /\ MainIn({"unqueue"})
    /\ Unqueue(running)
    /\ mpc' = "run"
    /\ UNCHANGED <<head, next, keepAlive, postVars, posted, first, running, held, deliver,
                   ownerVars, ghosts, posts>>

\* run_ sees what the owner has recorded; no slot of this code has a discard_.
ConsumeRun ==
    /\ MainIn({"run"})
    /\ mail' = IF deliver THEN mail \ {running} ELSE mail
    /\ mpc' = "running"
    /\ UNCHANGED <<listVars, postVars, posted, first, running, held, deliver, owned, ghosts, posts>>

\* It returns, and the local reference goes.
RunReturns ==
    /\ MainIn({"running"})
    /\ running' = Null /\ held' = Null
    /\ mpc' = "consume"
    /\ UNCHANGED <<listVars, postVars, posted, first, deliver, ownerVars, ghosts, posts>>

\* The last owner goes, in any thread (a Serial is closed, moved or destroyed).
DropOwner(s) ==
    /\ s \in owned
    /\ owned' = owned \ {s}
    /\ UNCHANGED <<listVars, postVars, drainVars, mail, ghosts, posts>>

-----------------------------------------------------------------------------
PostStep(t) == Exchange(t) \/ Keep(t) \/ Link(t) \/ CasWins(t) \/ CasFails(t)
DrainStep == (\E d \in Modes : TakeList(d)) \/ Reverse \/ ConsumeTake \/ ConsumeUnqueue \/ ConsumeRun \/ RunReturns

Next ==
    \/ \E t \in Threads, s \in Slots : Record(t, s)
    \/ \E t \in Threads : PostStep(t)
    \/ DrainStep
    \/ \E s \in Slots : DropOwner(s)

Spec == Init /\ [][Next]_vars

\* The host takes turns for ever and application code on main returns to it
\* however often it posts (strong fairness); posts go on, and a compare-and-swap
\* retried while the head stays the same does not fail for ever.  The list is
\* lock-free, not wait-free: with MaxPosts = 0 endless posts of others could
\* starve one thread.
FairSpec ==
    /\ Spec /\ SF_vars(DrainStep)
    /\ \A t \in Threads : WF_vars(PostStep(t)) /\ SF_vars(CasWins(t))
-----------------------------------------------------------------------------
(* Properties.                                                             *)

Winner(t) == pc[t] \in {"keep", "link", "cas"}

\* The types of the list, the posters and the drain.
TypeOK ==
    /\ head \in Slots \cup {Null} /\ next \in [Slots -> Slots \cup {Null}]
    /\ queued \in [Slots -> BOOLEAN] /\ keepAlive \subseteq Slots
    /\ pc \in [Threads -> {"idle", "exchange", "keep", "link", "cas"}]
    /\ target \in [Threads -> Slots \cup {Null}] /\ top \in [Threads -> Slots \cup {Null}]
    /\ mpc \in {"idle", "reverse", "consume", "unqueue", "run", "running"}
    /\ posted \in Slots \cup {Null} /\ first \in Slots \cup {Null}
    /\ running \in Slots \cup {Null} /\ held \in Slots \cup {Null} /\ deliver \in BOOLEAN
    /\ mail \subseteq Slots /\ owned \subseteq Slots
    /\ waiting \in Seq(Slots) /\ taken \in Seq(Slots) /\ left \in Nat /\ posts \in Nat

\* The links represent the order of posts: the LIFO from the head is `waiting`
\* backwards, the part of the batch still to reverse is a prefix of `taken`
\* backwards and the rest is in order.  No concurrent push, spurious failure or
\* reused address (the same slot back on the head) loses, doubles or cuts off a
\* slot (post, MainThreadSlotBatch).
Linked ==
    /\ head = IF waiting = <<>> THEN Null ELSE waiting[Len(waiting)]
    /\ \A i \in 1 .. Len(waiting) : next[waiting[i]] = IF i = 1 THEN Null ELSE waiting[i - 1]
    /\ left <= Len(taken)
    /\ posted = IF left = 0 THEN Null ELSE taken[left]
    /\ \A i \in 1 .. left : next[taken[i]] = IF i = 1 THEN Null ELSE taken[i - 1]
    /\ first = IF left = Len(taken) THEN Null ELSE taken[left + 1]
    /\ \A i \in left + 1 .. Len(taken) :
           next[taken[i]] = IF i = Len(taken) THEN Null ELSE taken[i + 1]

Queued(s) == \E i \in 1 .. Len(waiting) : waiting[i] = s
Taken(s) == \E i \in 1 .. Len(taken) : taken[i] = s
Unqueuing(s) == mpc = "unqueue" /\ running = s

\* `queued_` is a lock on the slot's plain fields next_ and keepAlive_: they
\* belong to exactly one of the thread that won it, the list, the batch and
\* consume, so none of their accesses race (the comment in post).
OneOwner ==
    \A s \in Slots :
        /\ queued[s] <=> Queued(s) \/ Taken(s) \/ Unqueuing(s) \/ \E t \in Threads : Winner(t) /\ target[t] = s
        /\ ~(Queued(s) /\ Taken(s))
        /\ Unqueuing(s) => ~Queued(s) /\ ~Taken(s)
        /\ \A t \in Threads : Winner(t) /\ target[t] = s =>
               /\ ~Queued(s) /\ ~Taken(s) /\ ~Unqueuing(s)
               /\ \A u \in Threads : Winner(u) /\ target[u] = s => u = t

\* A slot's storage outlives every pointer to it: the list, the batch, a thread
\* inside post and the run itself, even when its owner goes meanwhile.
StorageAlive ==
    \A s \in Slots : Freed(s) =>
        /\ ~Queued(s) /\ ~Taken(s) /\ running # s
        /\ \A t \in Threads : target[t] # s

\* The intrusive list as a whole: links, owners of the plain fields, storage.
ListIsSound == Linked /\ OneOwner /\ StorageAlive

\* What an owner records is never left behind: until a run has seen it the slot
\* is queued or on its way there, or about to run.  In particular a post that
\* finds the slot queued may return.
NothingLeftBehind ==
    \A s \in mail :
        \/ Queued(s) \/ Taken(s)
        \/ mpc \in {"unqueue", "run"} /\ running = s
        \/ \E t \in Threads : target[t] = s

\* It reaches main.
MailIsDelivered == \A s \in Slots : s \in mail ~> s \notin mail

Queue == INSTANCE SlotQueue

\* Slots run oldest first, once per post, and only those posted before the turn.
RunsInOrder == Queue!QSpec
=============================================================================
