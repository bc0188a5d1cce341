--------------------------- MODULE ThreadChannel ---------------------------
(***************************************************************************)
(* ThreadChannel (tcThreadChannel.h): a queue with one mutex and one       *)
(* condition variable.  Any thread sends, clears and closes; the Receivers *)
(* take values.  A critical section of mutex_ is one action: a receiver    *)
(* that finds the queue empty gives up the lock and falls asleep in one    *)
(* step, and competes for the lock again once it was notified, timed out   *)
(* or woke spuriously.                                                     *)
(*                                                                         *)
(* A value is the number of the send that brought it.                      *)
(***************************************************************************)
EXTENDS Integers, SequencesExt

CONSTANTS
    Receivers,   \* threads that receive
    MaxSent      \* bound: values sent

ASSUME ChannelConstants == IsFiniteSet(Receivers) /\ MaxSent \in Nat

VARIABLES
    queue, closed,   \* queue_ and closed_
    at,      \* where a receiver is: away from the channel, asleep in its
             \* wait, woken by a notification, or roused by anything else
    timed,   \* the receivers whose wait has a timeout
    sent,    \* history: how many values were sent
    got      \* history: the values received, in the order they were taken
chanvars == <<queue, closed, at, timed, sent, got>>

Asleep == {r \in Receivers : at[r] = "asleep"}

Woken == {r \in Receivers : at[r] = "woken"}

ChannelInit ==
    /\ queue = <<>> /\ closed = FALSE
    /\ at = [r \in Receivers |-> "away"] /\ timed = {}
    /\ sent = 0 /\ got = <<>>

-----------------------------------------------------------------------------
(* Any thread.                                                             *)

\* mutant: a notification only for the first value.
NotifyForFirst ==
    \/ (Asleep = {} \/ queue # <<>>) /\ UNCHANGED at
    \/ queue = <<>> /\ \E r \in Asleep : at' = [at EXCEPT ![r] = "woken"]

\* condition_.notify_one: one of those asleep, if there is one.
NotifyOne ==
    \/ Asleep = {} /\ UNCHANGED at
    \/ \E r \in Asleep : at' = [at EXCEPT ![r] = "woken"]

\* send; on a closed channel it only returns false.
Send ==
    /\ ~closed
    /\ sent < MaxSent
    /\ sent' = sent + 1
    /\ queue' = Append(queue, sent + 1)
    /\ NotifyOne
    /\ UNCHANGED <<closed, timed, got>>

Clear ==
    /\ queue' = <<>>
    /\ UNCHANGED <<closed, at, timed, sent, got>>

\* mutant: the notification is forgotten.
NotifyNobody == at

\* condition_.notify_all
NotifyAll == [r \in Receivers |-> IF r \in Asleep THEN "woken" ELSE at[r]]

Close ==
    /\ closed' = TRUE
    /\ at' = NotifyAll
    /\ UNCHANGED <<queue, timed, sent, got>>

-----------------------------------------------------------------------------
(* A receiver.                                                             *)

Arrive(r) == at[r] = "away" /\ ~closed

\* receive and both forms of tryReceive, when a value is there.
TakeFirst(r) ==
    /\ Arrive(r) /\ queue # <<>>
    /\ got' = Append(got, Head(queue))
    /\ queue' = Tail(queue)
    /\ UNCHANGED <<closed, at, timed, sent>>

\* receive and the tryReceive with a timeout, when none is.
FallAsleep(r) ==
    /\ Arrive(r) /\ queue = <<>>
    /\ at' = [at EXCEPT ![r] = "asleep"]
    /\ timed' \in {timed \ {r}, timed \cup {r}}
    /\ UNCHANGED <<queue, closed, sent, got>>

\* receiveAll: the swap under the lock; the caller unpacks it alone.
ReceiveAll(r) ==
    /\ Arrive(r) /\ queue # <<>>
    /\ got' = got \o queue
    /\ queue' = <<>>
    /\ UNCHANGED <<closed, at, timed, sent>>

\* A timeout or a spurious wakeup.
Rouse(r) ==
    /\ at[r] = "asleep"
    /\ at' = [at EXCEPT ![r] = "roused"]
    /\ UNCHANGED <<queue, closed, timed, sent, got>>

\* mutant: a value is taken without a look at closed_.
ResumeAnyway(r) ==
    /\ at[r] \in {"woken", "roused"}
    /\ queue # <<>>
    /\ at' = [at EXCEPT ![r] = "away"]
    /\ got' = Append(got, Head(queue))
    /\ queue' = Tail(queue)
    /\ UNCHANGED <<closed, timed, sent>>

\* A receiver that was asleep has the lock again.  Only receive() waits
\* anew when it finds nothing; a closed channel sends both away.
Resume(r) ==
    /\ at[r] \in {"woken", "roused"}
    /\ \/ /\ closed \/ (queue = <<>> /\ r \in timed)
          /\ at' = [at EXCEPT ![r] = "away"]
          /\ UNCHANGED <<queue, got>>
       \/ /\ ~closed /\ queue = <<>> /\ r \notin timed
          /\ at' = [at EXCEPT ![r] = "asleep"]
          /\ UNCHANGED <<queue, got>>
       \/ /\ ~closed /\ queue # <<>>
          /\ at' = [at EXCEPT ![r] = "away"]
          /\ got' = Append(got, Head(queue))
          /\ queue' = Tail(queue)
    /\ UNCHANGED <<closed, timed, sent>>

-----------------------------------------------------------------------------
AnyThread == Send \/ Clear \/ Close

\* The calls a receiver makes, and what happens to it while it waits.
Receives(r) == TakeFirst(r) \/ FallAsleep(r) \/ ReceiveAll(r)

Wakes(r) == Rouse(r) \/ Resume(r)

ChannelNext == AnyThread \/ \E r \in Receivers : Receives(r) \/ Wakes(r)

ChannelSpec == ChannelInit /\ [][ChannelNext]_chanvars

-----------------------------------------------------------------------------
(* Properties.                                                             *)

ChannelTypeOK ==
    /\ queue \in Seq(Nat) /\ closed \in BOOLEAN
    /\ at \in [Receivers -> {"away", "asleep", "woken", "roused"}]
    /\ timed \subseteq Receivers
    /\ sent \in Nat /\ got \in Seq(Nat)

\* No lost wakeup: while a receiver sleeps, there are no more values in the
\* queue than receivers that were notified and have not run yet, whoever
\* took a value in between, and nobody sleeps on a closed channel.
NobodyOversleeps ==
    Asleep # {} => ~closed /\ Len(queue) <= Cardinality(Woken)

\* First in, first out, once each, and nothing in or out after close():
\* ThreadChannel implements ClosableQueue.
Promise == INSTANCE ClosableQueue WITH left <- sent - Len(queue)
KeepsPromise == Promise!CQSpec
=============================================================================
