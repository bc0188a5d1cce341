------------------------- MODULE WorkerThreadProofs -------------------------
(***************************************************************************)
(* Theorems about ThreadChannel, for any number of receivers and values,   *)
(* and about WorkerThread, for any number of starts.                       *)
(*                                                                         *)
(* ChannelInv is the inductive invariant of a channel.  That the queue     *)
(* holds the values sent last, in order (QueueIsTail), is what makes a     *)
(* step a step of ClosableQueue; no lost wakeup is inductive with the      *)
(* types alone, by counting who was notified.                              *)
(*                                                                         *)
(* The channel of a worker is a channel (a step of WorkerThread is a step  *)
(* of ThreadChannel), so its theorems carry over.  ThreadInv is the        *)
(* inductive invariant of the thread: where the worker can be while the    *)
(* owner is in an operation (Places), what is left of a destroyed object   *)
(* (Lifetime), where the flag on the worker's stack lives (Frame), what    *)
(* the atomics say (Flags), and how often threadedFunction() was called    *)
(* (Counts).                                                               *)
(***************************************************************************)
EXTENDS WorkerThread, FiniteSetTheorems, SequenceTheorems, TLAPS

QueueIsTail ==
    /\ Len(queue) <= sent
    /\ \A i \in 1 .. Len(queue) : queue[i] = sent - Len(queue) + i

ChannelInv == ChannelTypeOK /\ QueueIsTail /\ NobodyOversleeps

\* A step of a receiver that was asleep, as one of the three things that it
\* may do.
LeaveEmpty(r) ==
    /\ closed \/ queue = <<>>
    /\ at' = [at EXCEPT ![r] = "away"]
    /\ UNCHANGED <<queue, got>>

SleepAgain(r) ==
    /\ ~closed /\ queue = <<>>
    /\ at' = [at EXCEPT ![r] = "asleep"]
    /\ UNCHANGED <<queue, got>>

LeaveFull(r) ==
    /\ ~closed /\ queue # <<>>
    /\ at' = [at EXCEPT ![r] = "away"]
    /\ got' = Append(got, Head(queue))
    /\ queue' = Tail(queue)

LEMMA ResumeCases ==
    ASSUME NEW r \in Receivers, Resume(r)
    PROVE  /\ at[r] \in {"woken", "roused"}
           /\ UNCHANGED <<closed, timed, sent>>
           /\ LeaveEmpty(r) \/ SleepAgain(r) \/ LeaveFull(r)
  BY DEF Resume, LeaveEmpty, SleepAgain, LeaveFull

-----------------------------------------------------------------------------
(* Types, and what is in the queue.                                        *)

LEMMA ChannelInitInv == ChannelInit => ChannelInv
  <1> SUFFICES ASSUME ChannelInit PROVE ChannelInv
    OBVIOUS
  <1>1. ChannelTypeOK
    <2>1. <<>> \in Seq(Nat)
      OBVIOUS
    <2>2. at \in [Receivers -> {"away", "asleep", "woken", "roused"}]
      BY DEF ChannelInit
    <2> QED BY <2>1, <2>2 DEF ChannelInit, ChannelTypeOK
  <1>2. QueueIsTail
    BY DEF ChannelInit, QueueIsTail
  <1>3. NobodyOversleeps
    BY DEF ChannelInit, NobodyOversleeps, Asleep
  <1> QED BY <1>1, <1>2, <1>3 DEF ChannelInv

LEMMA ChannelTypes ==
    ASSUME ChannelTypeOK, [ChannelNext]_chanvars PROVE ChannelTypeOK'
  <1> USE DEF ChannelTypeOK
  <1>1. CASE Send
    BY <1>1 DEF Send, NotifyOne, Asleep
  <1>2. CASE Clear
    BY <1>2 DEF Clear
  <1>3. CASE Close
    BY <1>3 DEF Close, NotifyAll, Asleep
  <1>4. ASSUME NEW r \in Receivers, Receives(r) \/ Wakes(r)
        PROVE  ChannelTypeOK'
    <2>1. CASE TakeFirst(r)
      BY <2>1, HeadTailProperties DEF TakeFirst
    <2>2. CASE FallAsleep(r)
      BY <2>2 DEF FallAsleep
    <2>3. CASE ReceiveAll(r)
      BY <2>3, ConcatProperties DEF ReceiveAll
    <2>4. CASE Rouse(r)
      BY <2>4 DEF Rouse
    <2>5. CASE Resume(r)
      <3>1. CASE LeaveEmpty(r) \/ SleepAgain(r)
        BY <2>5, <3>1, ResumeCases DEF LeaveEmpty, SleepAgain
      <3>2. CASE LeaveFull(r)
        BY <2>5, <3>2, ResumeCases, HeadTailProperties DEF LeaveFull
      <3> QED BY <2>5, <3>1, <3>2, ResumeCases
    <2> QED BY <1>4, <2>1, <2>2, <2>3, <2>4, <2>5 DEF Receives, Wakes
  <1>5. CASE UNCHANGED chanvars
    BY <1>5 DEF chanvars
  <1> QED BY <1>1, <1>2, <1>3, <1>4, <1>5 DEF ChannelNext, AnyThread

\* Taking the first value leaves the values sent after it.
LEMMA TailIsTail ==
    ASSUME ChannelTypeOK, QueueIsTail, queue # <<>>,
           queue' = Tail(queue), sent' = sent
    PROVE  QueueIsTail' /\ Head(queue) = sent - Len(queue) + 1
                        /\ Len(queue') = Len(queue) - 1
  <1>1. queue \in Seq(Nat) /\ Len(queue) \in Nat /\ sent \in Nat
    BY DEF ChannelTypeOK
  <1>2. Len(queue) >= 1 /\ Head(queue) = queue[1]
    BY <1>1, EmptySeq
  <1>3. /\ Len(queue') = Len(queue) - 1
        /\ \A i \in 1 .. Len(queue') : queue'[i] = queue[i + 1]
    BY <1>1, HeadTailProperties
  <1> QED BY <1>1, <1>2, <1>3 DEF QueueIsTail

LEMMA TailKept ==
    ASSUME ChannelTypeOK, QueueIsTail, [ChannelNext]_chanvars
    PROVE  QueueIsTail'
  <1>1. CASE Send
    <2>1. /\ Len(queue') = Len(queue) + 1 /\ sent' = sent + 1
          /\ \A i \in 1 .. Len(queue) : queue'[i] = queue[i]
          /\ queue'[Len(queue) + 1] = sent + 1
      BY <1>1, AppendProperties DEF ChannelTypeOK, Send
    <2>2. Len(queue) \in Nat /\ sent \in Nat
      BY DEF ChannelTypeOK
    <2> QED BY <2>1, <2>2 DEF QueueIsTail
  <1>2. CASE Clear
    BY <1>2 DEF Clear, QueueIsTail, ChannelTypeOK
  <1>3. CASE Close
    BY <1>3 DEF Close, QueueIsTail
  <1>4. ASSUME NEW r \in Receivers, Receives(r) \/ Wakes(r)
        PROVE  QueueIsTail'
    <2>1. CASE TakeFirst(r)
      BY <2>1, TailIsTail DEF TakeFirst
    <2>2. CASE FallAsleep(r) \/ Rouse(r)
      BY <2>2 DEF FallAsleep, Rouse, QueueIsTail
    <2>3. CASE ReceiveAll(r)
      BY <2>3 DEF ReceiveAll, QueueIsTail, ChannelTypeOK
    <2>4. CASE Resume(r)
      <3>1. CASE LeaveEmpty(r) \/ SleepAgain(r)
        BY <2>4, <3>1, ResumeCases DEF LeaveEmpty, SleepAgain, QueueIsTail
      <3>2. CASE LeaveFull(r)
        BY <2>4, <3>2, ResumeCases, TailIsTail DEF LeaveFull
      <3> QED BY <2>4, <3>1, <3>2, ResumeCases
    <2> QED BY <1>4, <2>1, <2>2, <2>3, <2>4 DEF Receives, Wakes
  <1>5. CASE UNCHANGED chanvars
    BY <1>5 DEF chanvars, QueueIsTail
  <1> QED BY <1>1, <1>2, <1>3, <1>4, <1>5 DEF ChannelNext, AnyThread

-----------------------------------------------------------------------------
(* No lost wakeup.                                                         *)

LEMMA WokenFinite ==
    ASSUME NEW S, S \subseteq Receivers
    PROVE  IsFiniteSet(S) /\ Cardinality(S) \in Nat
  BY FS_Subset, FS_CardinalityType, ChannelConstants

\* A notification makes room for one more value.
LEMMA NotifiedOne ==
    ASSUME ChannelTypeOK, NEW r \in Asleep, at' = [at EXCEPT ![r] = "woken"]
    PROVE  Cardinality(Woken') = Cardinality(Woken) + 1
  <1>1. Woken' = Woken \cup {r} /\ r \notin Woken
    BY DEF Woken, Asleep, ChannelTypeOK
  <1>2. IsFiniteSet(Woken) /\ Woken \subseteq Receivers
    BY WokenFinite DEF Woken
  <1> QED BY <1>1, <1>2, FS_AddElement, Zenon

\* Who takes a value may have been notified of it.
LEMMA OneTakes ==
    ASSUME ChannelTypeOK, NEW r \in Receivers, at[r] # "asleep",
           at' = [at EXCEPT ![r] = "away"]
    PROVE  Asleep' = Asleep /\ Cardinality(Woken') >= Cardinality(Woken) - 1
  <1>1. Asleep' = Asleep /\ Woken' = Woken \ {r}
    BY DEF Asleep, Woken, ChannelTypeOK
  <1>2. IsFiniteSet(Woken) /\ Cardinality(Woken) \in Nat
    BY WokenFinite DEF Woken
  <1>3. CASE r \in Woken
    <2>1. Cardinality(Woken \ {r}) = Cardinality(Woken) - 1
      BY <1>2, <1>3, FS_RemoveElement
    <2> QED BY <1>1, <1>2, <2>1
  <1>4. CASE r \notin Woken
    <2>1. Woken \ {r} = Woken
      BY <1>4
    <2> QED BY <1>1, <1>2, <2>1
  <1> QED BY <1>3, <1>4

LEMMA OversleepsKept ==
    ASSUME ChannelInv, [ChannelNext]_chanvars PROVE NobodyOversleeps'
  <1> USE DEF ChannelInv
  <1>1. /\ Len(queue) \in Nat /\ queue \in Seq(Nat) /\ sent \in Nat
        /\ Cardinality(Woken) \in Nat
    BY WokenFinite DEF ChannelTypeOK, Woken
  <1>2. Cardinality(Woken') \in Nat
    <2>1. Woken' \subseteq Receivers
      BY DEF Woken
    <2> QED BY <2>1, WokenFinite
  <1>3. CASE Send
    <2>1. Len(queue') = Len(queue) + 1 /\ closed' = closed /\ ~closed
      BY <1>1, <1>3, AppendProperties DEF Send
    <2>2. CASE Asleep = {} /\ UNCHANGED at
      BY <2>2 DEF NobodyOversleeps, Asleep
    <2>3. ASSUME NEW r \in Asleep, at' = [at EXCEPT ![r] = "woken"]
          PROVE  NobodyOversleeps'
      <3>1. Cardinality(Woken') = Cardinality(Woken) + 1
        BY <2>3, NotifiedOne
      <3>2. ~closed /\ Len(queue) <= Cardinality(Woken)
        BY <2>3 DEF NobodyOversleeps
      <3>3. ~closed' /\ Len(queue') <= Cardinality(Woken')
        BY <3>1, <3>2, <2>1, <1>1, <1>2
      <3> QED BY <3>3 DEF NobodyOversleeps
    <2> QED BY <1>3, <2>2, <2>3 DEF Send, NotifyOne
  <1>4. CASE Close
    <2>1. Asleep' = {}
      BY <1>4 DEF Close, NotifyAll, Asleep
    <2> QED BY <2>1 DEF NobodyOversleeps
  <1>5. ASSUME Len(queue') <= Len(queue), Len(queue') \in Nat,
               UNCHANGED <<closed, at>>
        PROVE  NobodyOversleeps'
    BY <1>1, <1>5 DEF NobodyOversleeps, Asleep, Woken
  <1>6. ASSUME queue' = <<>>, ~closed' PROVE NobodyOversleeps'
    BY <1>2, <1>6 DEF NobodyOversleeps
  <1>7. CASE Clear
    BY <1>1, <1>5, <1>7 DEF Clear
  <1>8. ASSUME NEW r \in Receivers, Receives(r) \/ Wakes(r)
        PROVE  NobodyOversleeps'
    <2>1. CASE TakeFirst(r)
      <3>1. Len(queue') = Len(queue) - 1 /\ Len(queue) # 0
        BY <2>1, <1>1, HeadTailProperties, EmptySeq DEF TakeFirst
      <3> QED BY <2>1, <3>1, <1>1, <1>5 DEF TakeFirst
    <2>2. CASE FallAsleep(r)
      BY <2>2, <1>6 DEF FallAsleep, Arrive
    <2>3. CASE ReceiveAll(r)
      BY <2>3, <1>6 DEF ReceiveAll, Arrive
    <2>4. CASE Rouse(r)
      <3>1. Asleep' \subseteq Asleep /\ Woken' = Woken
        BY <2>4 DEF Rouse, Asleep, Woken, ChannelTypeOK
      <3> QED BY <2>4, <3>1 DEF Rouse, NobodyOversleeps
    <2>5. CASE Resume(r)
      <3>0. at[r] # "asleep" /\ closed' = closed
        BY <2>5, ResumeCases
      <3>1. CASE LeaveEmpty(r)
        <4>1. Asleep' = Asleep
          BY <3>0, <3>1, OneTakes DEF LeaveEmpty
        <4>2. CASE closed
          BY <4>1, <4>2 DEF NobodyOversleeps
        <4>3. CASE ~closed
          BY <3>0, <3>1, <4>3, <1>6 DEF LeaveEmpty
        <4> QED BY <4>2, <4>3
      <3>2. CASE SleepAgain(r)
        BY <3>0, <3>2, <1>6 DEF SleepAgain
      <3>3. CASE LeaveFull(r)
        <4>1. Len(queue') = Len(queue) - 1
          BY <3>3, <1>1, HeadTailProperties DEF LeaveFull
        <4>2. Asleep' = Asleep /\ Cardinality(Woken') >= Cardinality(Woken) - 1
          BY <3>0, <3>3, OneTakes DEF LeaveFull
        <4> QED BY <3>0, <4>1, <4>2, <1>1, <1>2 DEF NobodyOversleeps
      <3> QED BY <2>5, <3>1, <3>2, <3>3, ResumeCases
    <2> QED BY <1>8, <2>1, <2>2, <2>3, <2>4, <2>5 DEF Receives, Wakes
  <1>9. CASE UNCHANGED chanvars
    BY <1>1, <1>5, <1>9 DEF chanvars
  <1> QED BY <1>3, <1>4, <1>7, <1>8, <1>9 DEF ChannelNext, AnyThread

LEMMA ChannelInvKept ==
    ASSUME ChannelInv, [ChannelNext]_chanvars PROVE ChannelInv'
  BY ChannelTypes, TailKept, OversleepsKept DEF ChannelInv

\* In every channel, types are kept.
THEOREM ChannelTypeCorrect == ChannelSpec => []ChannelTypeOK
  <1>1. ChannelInv => ChannelTypeOK
    BY DEF ChannelInv
  <1> QED BY <1>1, ChannelInitInv, ChannelInvKept, PTL DEF ChannelSpec

\* However many threads send and receive on a channel, with or without a
\* timeout, no wakeup is lost (the notify_one of send, the notify_all of
\* close).
THEOREM NoWakeupIsLost == ChannelSpec => []NobodyOversleeps
  <1>1. ChannelInv => NobodyOversleeps
    BY DEF ChannelInv
  <1> QED BY <1>1, ChannelInitInv, ChannelInvKept, PTL DEF ChannelSpec

-----------------------------------------------------------------------------
(* The channel keeps its promise.                                          *)

LEMMA PromiseInit == ChannelInit => Promise!CQInit
  <1> SUFFICES ASSUME ChannelInit PROVE Promise!CQInit
    OBVIOUS
  <1>1. queue = <<>> /\ sent = 0 /\ got = <<>> /\ closed = FALSE
    BY DEF ChannelInit
  <1>2. Len(<<>>) = 0
    OBVIOUS
  <1>3. sent - Len(queue) = 0
    <2>1. Len(queue) = 0
      BY <1>1, <1>2, Zenon
    <2>2. 0 - 0 = 0
      OBVIOUS
    <2> QED BY <1>1, <2>1, <2>2, Zenon
  <1> QED BY <1>1, <1>3 DEF Promise!CQInit

LEMMA FirstIsOldest ==
    ASSUME ChannelTypeOK, QueueIsTail, ~closed, queue # <<>>,
           got' = Append(got, Head(queue)), queue' = Tail(queue),
           UNCHANGED <<closed, sent>>
    PROVE  Promise!CQNext
  <1>1. queue \in Seq(Nat) /\ got \in Seq(Nat) /\ sent \in Nat /\ Len(queue) \in Nat
    BY DEF ChannelTypeOK
  <1> DEFINE one == [i \in 1 .. 1 |-> sent - Len(queue) + i]
  <1>2. /\ Head(queue) = sent - Len(queue) + 1 /\ Head(queue) \in Nat
        /\ Len(queue') = Len(queue) - 1
    BY <1>1, TailIsTail, HeadTailProperties
  <1>3. one = <<Head(queue)>>
    BY <1>2
  <1>4. Append(got, Head(queue)) = got \o one
    <2>1. Append(got, Head(queue)) = got \o <<Head(queue)>>
      BY <1>1, <1>2, AppendIsConcat
    <2> QED BY <2>1, <1>3
  <1>5. 1 \in 1 .. sent - (sent - Len(queue))
    BY <1>1, EmptySeq
  <1>6. sent' - Len(queue') = (sent - Len(queue)) + 1
    BY <1>1, <1>2
  <1>7. Promise!TakeOldest(1)
    BY <1>4, <1>6 DEF Promise!TakeOldest
  <1> QED BY <1>5, <1>7 DEF Promise!CQNext

LEMMA PromiseStep ==
    ASSUME ChannelInv, [ChannelNext]_chanvars
    PROVE  [Promise!CQNext]_Promise!cqvars
  <1> USE DEF ChannelInv
  <1>1. queue \in Seq(Nat) /\ got \in Seq(Nat) /\ sent \in Nat /\ Len(queue) \in Nat
    BY DEF ChannelTypeOK
  <1>2. CASE Send
    <2>1. Len(queue') = Len(queue) + 1 /\ sent' = sent + 1
      BY <1>1, <1>2, AppendProperties DEF Send
    <2>2. sent' - Len(queue') = sent - Len(queue)
      BY <1>1, <2>1
    <2>3. Promise!Put
      BY <1>2, <2>2 DEF Send, Promise!Put
    <2> QED BY <2>3 DEF Promise!CQNext
  <1>3. CASE Clear
    <2>1. sent' - Len(queue') = sent
      BY <1>1, <1>3 DEF Clear
    <2>2. Promise!Drop
      BY <1>3, <2>1 DEF Clear, Promise!Drop
    <2> QED BY <2>2 DEF Promise!CQNext
  <1>4. CASE Close
    BY <1>4 DEF Close, Promise!Shut, Promise!CQNext
  <1>5. ASSUME UNCHANGED <<queue, closed, sent, got>>
        PROVE  [Promise!CQNext]_Promise!cqvars
    BY <1>5 DEF Promise!cqvars
  <1>6. ASSUME NEW r \in Receivers, Receives(r) \/ Wakes(r)
        PROVE  [Promise!CQNext]_Promise!cqvars
    <2>1. CASE TakeFirst(r)
      BY <2>1, FirstIsOldest DEF TakeFirst, Arrive
    <2>2. CASE FallAsleep(r) \/ Rouse(r)
      BY <2>2, <1>5 DEF FallAsleep, Rouse
    <2>3. CASE ReceiveAll(r)
      <3> DEFINE all == [i \in 1 .. Len(queue) |-> sent - Len(queue) + i]
      <3>1. queue = all
        BY <1>1 DEF QueueIsTail
      <3>2. sent' - Len(queue') = (sent - Len(queue)) + Len(queue)
        BY <2>3, <1>1 DEF ReceiveAll
      <3>3. Promise!TakeOldest(Len(queue))
        BY <2>3, <3>1, <3>2 DEF ReceiveAll, Arrive, Promise!TakeOldest
      <3>4. Len(queue) \in 1 .. sent - (sent - Len(queue))
        BY <2>3, <1>1, EmptySeq DEF ReceiveAll
      <3> QED BY <3>3, <3>4 DEF Promise!CQNext
    <2>4. CASE Resume(r)
      <3>1. CASE LeaveEmpty(r) \/ SleepAgain(r)
        BY <2>4, <3>1, <1>5, ResumeCases DEF LeaveEmpty, SleepAgain
      <3>2. CASE LeaveFull(r)
        BY <2>4, <3>2, ResumeCases, FirstIsOldest DEF LeaveFull
      <3> QED BY <2>4, <3>1, <3>2, ResumeCases
    <2> QED BY <1>6, <2>1, <2>2, <2>3, <2>4 DEF Receives, Wakes
  <1>7. CASE UNCHANGED chanvars
    BY <1>5, <1>7 DEF chanvars
  <1> QED BY <1>2, <1>3, <1>4, <1>6, <1>7 DEF ChannelNext, AnyThread

\* Every channel gives its values out once each and in order, and nothing
\* goes in or comes out after close(): ThreadChannel implements
\* ClosableQueue.
THEOREM ChannelKeepsPromise == ChannelSpec => KeepsPromise
  <1> QED BY ChannelInitInv, ChannelInvKept, PromiseInit, PromiseStep, PTL
          DEF ChannelSpec, KeepsPromise, Promise!CQSpec

-----------------------------------------------------------------------------
(* The thread.                                                             *)

LEMMA StepOfChannel == [Next]_vars => [ChannelNext]_chanvars
  <1> SUFFICES ASSUME [Next]_vars PROVE [ChannelNext]_chanvars
    OBVIOUS
  <1>1. CASE Owner
    <2>a. ASSUME NEW from, NEW to, Join(from, to) PROVE UNCHANGED chanvars
      BY <2>a DEF Join, chanvars
    <2>b. ASSUME NEW stop \in BOOLEAN, NEW next, NEW after, Wait(stop, next, after)
          PROVE  UNCHANGED chanvars
      BY <2>b DEF Wait, chanvars
    <2>1. CASE Waits
      BY <2>1, <2>b DEF Waits
    <2>2. CASE Start \/ SpawnFails \/ Stop \/ DestroyUnwaited
      BY <2>2 DEF Start, SpawnFails, Stop, DestroyUnwaited, chanvars
    <2>3. CASE SetFlags \/ Spawn \/ Assign \/ Unlock
      BY <2>3 DEF SetFlags, Spawn, Assign, Unlock, chanvars
    <2>4. CASE DtorMarks \/ DtorLooks \/ DtorStops \/ DtorJoins
      BY <2>4 DEF DtorMarks, DtorLooks, DtorStops, DtorJoins, chanvars
    <2> QED BY <1>1, <2>a, <2>1, <2>2, <2>3, <2>4 DEF Owner, Proceeds
  <1>2. CASE WorkerNext
    <2>1. CASE WorkerReceives
      BY <2>1, WorkerConstants DEF WorkerReceives, ChannelNext
    <2>2. CASE WorkerReturns \/ WaitOnWorker \/ DestroyOnWorker
      BY <2>2 DEF WorkerReturns, WaitOnWorker, DestroyOnWorker, chanvars
    <2>3. CASE Lambda
      BY <2>3 DEF Lambda, WorkerStarts, WorkerSkips, WorkerPasses, WorkerCalls,
         WorkerLeaves, WorkerUnsets, WorkerInactive, WorkerStopped, WorkerDies,
         chanvars
    <2> QED BY <1>2, <2>1, <2>2, <2>3 DEF WorkerNext
  <1>3. CASE Others
    BY <1>3 DEF Others, ChannelNext
  <1>4. CASE UNCHANGED vars
    BY <1>4 DEF vars
  <1> QED BY <1>1, <1>2, <1>3, <1>4 DEF Next

\* The channel a worker shares with others is used as a channel only.
THEOREM UsesChannel == Spec => ChannelSpec
  <1>1. Init => ChannelInit
    BY DEF Init
  <1> QED BY <1>1, StepOfChannel, PTL DEF Spec, ChannelSpec

\* So no wakeup of a worker is lost either, and what it receives are the
\* values that were sent, in order.
THEOREM WorkerChannelIsSafe == Spec => []NobodyOversleeps /\ KeepsPromise
  BY UsesChannel, NoWakeupIsLost, ChannelKeepsPromise

-----------------------------------------------------------------------------
(* The inductive invariant.                                                *)

Places ==
    /\ startHeld <=> opc \in {"spawn", "assign", "unlock"}
    /\ opc \in {"flags", "spawn"} => wpc = "none" /\ ~joinable
    /\ opc = "assign" => wpc = "born" /\ ~joinable
    /\ opc = "unlock" => wpc = "born"
    /\ ~gone /\ opc \notin {"flags", "spawn", "assign"} =>
          (joinable <=> wpc # "none")
    /\ opc \in Joining => joinable

Lifetime ==
    /\ gone => ~joinable /\ opc \in {"idle", "gone"}
    /\ opc = "gone" => gone /\ wpc = "none"
    /\ destroying <=> gone \/ opc \in {"look", "dtorStop", "dtorJoin"}
    /\ destroyed => gone
    /\ gone => wpc \in {"none", "function", "returned", "exit", "dead"}
    /\ gone /\ wpc \in {"function", "returned"} => destroyed

Frame ==
    ~gone => (selfSet <=> wpc \in {"call", "function", "returned", "unset", "aborted"})

Flags ==
    /\ FlagsAreTrue
    /\ opc = "spawn" => running /\ ~stopAsked
    /\ wpc = "stopped" => ~active
    /\ waited => opc \in {"subJoin"} \cup Destruction
    /\ warned => opc \in {"dtorStop", "dtorJoin", "gone"}

Counts ==
    /\ opc \in {"startJoin", "flags", "spawn"} => spawned < MaxStarts
    /\ opc \notin Destruction =>
          IF wpc \in {"born", "check", "call"} THEN spawned = calls + 1
                                               ELSE spawned = calls
    /\ WaitingIsEnough

ThreadInv == TypeOK /\ Places /\ Lifetime /\ Frame /\ Flags /\ Counts

LEMMA ThreadInitInv == Init => ThreadInv
  <1> SUFFICES ASSUME Init PROVE ThreadInv
    OBVIOUS
  <1> USE DEF Init, Joining, Destruction
  <1>1. TypeOK
    <2>1. ChannelTypeOK
      BY ChannelInitInv DEF ChannelInv
    <2>2. spawned \in 0 .. MaxStarts /\ calls \in 0 .. spawned
      BY WorkerConstants
    <2> QED BY <2>1, <2>2 DEF TypeOK
  <1>2. Places /\ Lifetime /\ Frame
    BY DEF Places, Lifetime, Frame
  <1>3. Flags /\ Counts
    BY DEF Flags, FlagsAreTrue, Counts, WaitingIsEnough
  <1> QED BY <1>1, <1>2, <1>3 DEF ThreadInv

-----------------------------------------------------------------------------
(* Every step keeps it.                                                    *)

LEMMA OwnerKeeps ==
    ASSUME ThreadInv, ChannelTypeOK', Owner, wpc # "aborted" PROVE ThreadInv'
  <1> USE DEF ThreadInv, TypeOK, Places, Lifetime, Frame, Flags, FlagsAreTrue,
              Counts, WaitingIsEnough, Joining, Destruction
  <1>1. CASE Start
    BY <1>1 DEF Start, OwnerIdle, objvars, history
  <1>2. CASE SetFlags
    BY <1>2 DEF SetFlags
  <1>3. CASE Spawn
    <2>1. Places' /\ Lifetime' /\ Frame' /\ Flags'
      BY <1>3 DEF Spawn, objvars
    <2>2. spawned \in Nat /\ MaxStarts \in Nat /\ spawned < MaxStarts /\ spawned = calls
      BY <1>3, WorkerConstants DEF Spawn
    <2>3. spawned' = calls' + 1 /\ spawned' \in 0 .. MaxStarts /\ calls' \in 0 .. spawned'
      BY <1>3, <2>2 DEF Spawn
    <2>4. TypeOK' /\ Counts'
      BY <1>3, <2>3 DEF Spawn, objvars
    <2> QED BY <2>1, <2>4
  <1>4. CASE SpawnFails
    BY <1>4 DEF SpawnFails, history
  <1>5. CASE Assign
    BY <1>5 DEF Assign, history
  <1>16. CASE Unlock
    BY <1>16 DEF Unlock, history
  <1>6. CASE Stop
    BY <1>6 DEF Stop, OwnerIdle
  <1>7. ASSUME NEW stop \in BOOLEAN, Wait(stop, "join", "idle")
        PROVE  ThreadInv'
    BY <1>7 DEF Wait, OwnerIdle
  <1>8. CASE Wait(TRUE, "subJoin", "base")
    BY <1>8 DEF Wait, OwnerIdle
  <1>9. CASE Join("startJoin", "flags")
    BY <1>9 DEF Join, history
  <1>17. CASE Join("join", "idle")
    BY <1>17 DEF Join, history
  <1>10. CASE Join("subJoin", "base")
    BY <1>10 DEF Join, history
  <1>11. CASE DestroyUnwaited
    BY <1>11 DEF DestroyUnwaited, OwnerIdle, objvars, history
  <1>12. CASE DtorMarks
    BY <1>12 DEF DtorMarks, history
  <1>13. CASE DtorLooks
    BY <1>13 DEF DtorLooks, objvars
  <1>14. CASE DtorStops
    BY <1>14 DEF DtorStops
  <1>15. CASE DtorJoins
    BY <1>15 DEF DtorJoins, history
  <1> QED BY <1>1, <1>2, <1>3, <1>4, <1>5, <1>6, <1>7, <1>8, <1>9, <1>10,
             <1>11, <1>12, <1>13, <1>14, <1>15, <1>16, <1>17 DEF Owner, Waits, Proceeds

LEMMA WorkerKeeps ==
    ASSUME ThreadInv, ChannelTypeOK', WorkerNext PROVE ThreadInv'
  <1> USE DEF ThreadInv, TypeOK, Places, Lifetime, Frame, Flags, FlagsAreTrue,
              Counts, WaitingIsEnough, Joining, Destruction, WorkerGoes
  <1>1. CASE WorkerStarts \/ WorkerSkips
    BY <1>1 DEF WorkerStarts, WorkerSkips, objvars, history
  <1>2. CASE WorkerPasses
    BY <1>2 DEF WorkerPasses, history
  <1>3. CASE WorkerCalls
    BY <1>3 DEF WorkerCalls, objvars
  <1>4. CASE WorkerReturns
    BY <1>4 DEF WorkerReturns, objvars, history
  <1>5. CASE WorkerReceives
    BY <1>5 DEF WorkerReceives, objvars, history
  <1>6. CASE WaitOnWorker
    BY <1>6 DEF WaitOnWorker
  <1>7. CASE WorkerLeaves
    BY <1>7 DEF WorkerLeaves, objvars, history
  <1>8. CASE WorkerUnsets
    BY <1>8 DEF WorkerUnsets, history
  <1>9. CASE WorkerInactive
    BY <1>9 DEF WorkerInactive, history
  <1>12. CASE WorkerStopped
    BY <1>12 DEF WorkerStopped, history
  <1>10. CASE WorkerDies
    BY <1>10 DEF WorkerDies, objvars, history
  <1>11. CASE DestroyOnWorker
    BY <1>11 DEF DestroyOnWorker
  <1> QED BY <1>1, <1>2, <1>3, <1>4, <1>5, <1>6, <1>7, <1>8, <1>9, <1>10,
             <1>11, <1>12 DEF WorkerNext, Lambda

LEMMA ThreadInvKept ==
    ASSUME ThreadInv, [Next]_vars PROVE ThreadInv'
  <1>1. ChannelTypeOK'
    BY StepOfChannel, ChannelTypes DEF ThreadInv, TypeOK
  <1>2. ASSUME UNCHANGED <<objvars, opc, wpc, destroyed, history>>
        PROVE  ThreadInv'
    BY <1>1, <1>2 DEF objvars, history, ThreadInv, TypeOK, Places, Lifetime,
       Frame, Flags, FlagsAreTrue, Counts, WaitingIsEnough
  <1>3. CASE Others
    BY <1>2, <1>3 DEF Others
  <1>4. CASE UNCHANGED vars
    BY <1>2, <1>4 DEF vars
  <1> QED BY <1>1, <1>3, <1>4, OwnerKeeps, WorkerKeeps DEF Next

\* The state of a Thread and its channel keeps its types, and no thread
\* calls threadedFunction() twice.
THEOREM ThreadTypeCorrect == Spec => []TypeOK
  <1>1. ThreadInv => TypeOK
    BY DEF ThreadInv
  <1> QED BY <1>1, ThreadInitInv, ThreadInvKept, PTL DEF Spec

\* However it is started, joined and destroyed, by its owner or by its own
\* worker: neither thread touches a Thread that is gone, nor does the
\* Thread point to a stack frame that is.
THEOREM ThreadLifetimeSafe == Spec => []NoneTouchesTheDead
  <1>1. ThreadInv => NoneTouchesTheDead
    BY DEF ThreadInv, NoneTouchesTheDead, TypeOK, Lifetime, Frame
  <1> QED BY <1>1, ThreadInitInv, ThreadInvKept, PTL DEF Spec

\* A subclass that waits in its destructor never meets the pure virtual,
\* loses no call of threadedFunction() and is not warned.
THEOREM WaitingRulesOutTheRest == Spec => []WaitingIsEnough
  <1>1. ThreadInv => WaitingIsEnough
    BY DEF ThreadInv, Counts
  <1> QED BY <1>1, ThreadInitInv, ThreadInvKept, PTL DEF Spec

\* Both together: a Thread may be destroyed wherever its header says so.
THEOREM ThreadDestructionSafe == Spec => []DestructionIsSafe
  BY ThreadLifetimeSafe, WaitingRulesOutTheRest, PTL DEF DestructionIsSafe

\* The flags of a worker on its way out never make a running thread look
\* stopped, nor a finished one active.
THEOREM FlagsStayTrue == Spec => []FlagsAreTrue
  <1>1. ThreadInv => FlagsAreTrue
    BY DEF ThreadInv, Flags
  <1> QED BY <1>1, ThreadInitInv, ThreadInvKept, PTL DEF Spec
=============================================================================
