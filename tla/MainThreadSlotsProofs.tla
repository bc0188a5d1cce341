----------------------- MODULE MainThreadSlotsProofs -----------------------
(***************************************************************************)
(* Theorems about MainThreadSlots, for any number of slots and threads.    *)
(*                                                                         *)
(* ListInv is the inductive invariant.  Linked and OneOwner depend on each *)
(* other (a slot may be relinked because nothing else points to it), and   *)
(* both need to know where main and the posting threads are (Drain,        *)
(* Posting), that no list holds a slot twice (Distinct) and which slots    *)
(* keep their owner alive (Stored).                                        *)
(***************************************************************************)
EXTENDS MainThreadSlots, SequenceTheorems, TLAPS

Distinct ==
    /\ \A i, j \in 1 .. Len(waiting) : waiting[i] = waiting[j] => i = j
    /\ \A i, j \in 1 .. Len(taken) : taken[i] = taken[j] => i = j

Drain ==
    /\ mpc = "idle" => taken = <<>>
    /\ mpc # "reverse" => left = 0
    /\ running # Null <=> mpc \in {"unqueue", "run", "running"}
    /\ held = running

Posting ==
    \A t \in Threads :
        /\ target[t] = Null <=> pc[t] = "idle"
        /\ pc[t] = "cas" => next[target[t]] = top[t]
        /\ pc[t] \in {"link", "cas"} => target[t] \in keepAlive

Stored == \A s \in Slots : Queued(s) \/ Taken(s) => s \in keepAlive

ListInv == TypeOK /\ Linked /\ OneOwner /\ Distinct /\ Drain /\ Posting /\ Stored

LEMMA ListInit == Init => ListInv
  <1> SUFFICES ASSUME Init PROVE ListInv
    OBVIOUS
  <1>1. TypeOK
    BY SlotConstants DEF Init, TypeOK
  <1>2. Linked /\ Distinct
    BY DEF Init, Linked, Distinct
  <1>3. OneOwner
    <2>1. \A s \in Slots : ~queued[s]
      BY DEF Init
    <2>2. \A s \in Slots : ~Queued(s) /\ ~Taken(s)
      <3>1. waiting = <<>> /\ taken = <<>> /\ 1 .. 0 = {}
        BY DEF Init
      <3>2. Len(waiting) = 0 /\ Len(taken) = 0
        BY <3>1
      <3> QED BY <3>1, <3>2 DEF Queued, Taken
    <2>a. \A s \in Slots : ~Unqueuing(s)
      BY DEF Init, Unqueuing
    <2>3. \A t \in Threads : ~Winner(t)
      BY DEF Init, Winner
    <2> QED BY <2>1, <2>2, <2>a, <2>3 DEF OneOwner
  <1>4. Drain /\ Stored
    BY SlotConstants DEF Init, Drain, Stored, Queued, Taken
  <1>5. Posting
    BY DEF Init, Posting
  <1> QED BY <1>1, <1>2, <1>3, <1>4, <1>5 DEF ListInv

-----------------------------------------------------------------------------
\* The list itself is not touched.
LEMMA ListSame ==
    ASSUME ListInv, UNCHANGED <<head, next, waiting, taken, left, posted, first>>
    PROVE  Linked' /\ Distinct' /\ \A s \in Slots : Queued(s)' = Queued(s) /\ Taken(s)' = Taken(s)
  BY DEF ListInv, Linked, Distinct, Queued, Taken

LEMMA RecordKeeps ==
    ASSUME ListInv, NEW t \in Threads, NEW s \in Slots, Record(t, s)
    PROVE  ListInv'
  <1> USE DEF listVars, drainVars, ghosts
  <1>1. TypeOK'
    BY DEF ListInv, TypeOK, Record
  <1>2. Linked' /\ Distinct' /\ \A x \in Slots : Queued(x)' = Queued(x) /\ Taken(x)' = Taken(x)
    BY ListSame DEF Record
  <1>3. \A u \in Threads : Winner(u)' = Winner(u) /\ (Winner(u) => target'[u] = target[u])
    BY DEF ListInv, TypeOK, Record, Winner
  <1>4. OneOwner'
    BY <1>2, <1>3 DEF ListInv, OneOwner, Record, Unqueuing
  <1>5. Drain' /\ Stored'
    BY <1>2 DEF ListInv, Drain, Stored, Record
  <1>6. Posting'
    BY SlotConstants DEF ListInv, TypeOK, Posting, Record
  <1> QED BY <1>1, <1>2, <1>4, <1>5, <1>6 DEF ListInv

LEMMA ExchangeKeeps ==
    ASSUME ListInv, NEW t \in Threads, Exchange(t)
    PROVE  ListInv'
  <1> USE DEF drainVars, ghosts, ownerVars
  <1>0. target[t] \in Slots
    BY DEF ListInv, TypeOK, Posting, Exchange
  <1>1. TypeOK'
    BY <1>0 DEF ListInv, TypeOK, Exchange, AlreadyQueued
  <1>2. Linked' /\ Distinct' /\ \A x \in Slots : Queued(x)' = Queued(x) /\ Taken(x)' = Taken(x)
    BY ListSame DEF Exchange
  <1>3. queued' = [queued EXCEPT ![target[t]] = TRUE] /\ UNCHANGED <<mpc, running>>
    BY DEF Exchange
  <1>4. OneOwner'
    <2>1. CASE queued[target[t]]
      <3>1. queued' = queued
        BY <1>0, <1>3, <2>1 DEF ListInv, TypeOK
      <3>2. \A u \in Threads : Winner(u)' = Winner(u) /\ (Winner(u) => target'[u] = target[u])
        BY <2>1 DEF ListInv, TypeOK, Exchange, AlreadyQueued, Winner
      <3> QED BY <1>2, <1>3, <3>1, <3>2 DEF ListInv, OneOwner, Unqueuing
    <2>2. CASE ~queued[target[t]]
      <3>1. target' = target /\ Winner(t)' /\ ~Winner(t) /\ \A u \in Threads \ {t} : Winner(u)' = Winner(u)
        BY <2>2 DEF ListInv, TypeOK, Exchange, AlreadyQueued, Winner
      <3>2. /\ ~Queued(target[t]) /\ ~Taken(target[t]) /\ ~Unqueuing(target[t])
            /\ \A u \in Threads : Winner(u) => target[u] # target[t]
        BY <1>0, <2>2 DEF ListInv, OneOwner
      <3>3. \A s \in Slots : queued'[s] <=> (queued[s] \/ s = target[t])
        BY <1>0, <1>3 DEF ListInv, TypeOK
      <3> QED BY <1>0, <1>2, <1>3, <3>1, <3>2, <3>3 DEF ListInv, OneOwner, Unqueuing
    <2> QED BY <2>1, <2>2
  <1>5. Drain' /\ Stored'
    BY <1>2 DEF ListInv, Drain, Stored, Exchange
  <1>6. Posting'
    BY <1>0, SlotConstants DEF ListInv, TypeOK, Posting, Exchange, AlreadyQueued
  <1> QED BY <1>1, <1>2, <1>4, <1>5, <1>6 DEF ListInv

LEMMA KeepKeeps ==
    ASSUME ListInv, NEW t \in Threads, Keep(t)
    PROVE  ListInv'
  <1> USE DEF drainVars, ghosts, ownerVars
  <1>0. target[t] \in Slots
    BY DEF ListInv, TypeOK, Posting, Keep
  <1>1. TypeOK'
    BY <1>0 DEF ListInv, TypeOK, Keep
  <1>2. Linked' /\ Distinct' /\ \A x \in Slots : Queued(x)' = Queued(x) /\ Taken(x)' = Taken(x)
    BY ListSame DEF Keep
  <1>3. \A u \in Threads : Winner(u)' = Winner(u)
    BY DEF ListInv, TypeOK, Keep, Winner
  <1>4. OneOwner'
    BY <1>2, <1>3 DEF ListInv, OneOwner, Unqueuing, Keep
  <1>5. Drain' /\ Stored'
    BY <1>2 DEF ListInv, Drain, Stored, Keep
  <1>6. Posting'
    BY <1>0, SlotConstants DEF ListInv, TypeOK, Posting, Keep
  <1> QED BY <1>1, <1>2, <1>4, <1>5, <1>6 DEF ListInv

\* The target is in no list, so its link may be overwritten.
LEMMA LinkKeeps ==
    ASSUME ListInv, NEW t \in Threads, Link(t)
    PROVE  ListInv'
  <1> USE DEF drainVars, ghosts, ownerVars
  <1>0. target[t] \in Slots /\ Winner(t)
    BY DEF ListInv, TypeOK, Posting, Link, Winner
  <1>1. TypeOK'
    BY <1>0 DEF ListInv, TypeOK, Link
  <1>2. \A x \in Slots : Queued(x)' = Queued(x) /\ Taken(x)' = Taken(x)
    BY DEF Link, Queued, Taken
  <1>3. ~Queued(target[t]) /\ ~Taken(target[t]) /\ \A u \in Threads \ {t} : Winner(u) => target[u] # target[t]
    BY <1>0 DEF ListInv, OneOwner
  <1>4. next' = [next EXCEPT ![target[t]] = top[t]] /\ next \in [Slots -> Slots \cup {Null}]
    BY DEF Link, ListInv, TypeOK
  <1>5. /\ \A i \in 1 .. Len(waiting) : waiting[i] \in Slots /\ next'[waiting[i]] = next[waiting[i]]
        /\ \A i \in 1 .. Len(taken) : taken[i] \in Slots /\ next'[taken[i]] = next[taken[i]]
    BY <1>3, <1>4, ElementOfSeq DEF ListInv, TypeOK, Queued, Taken
  <1>6. Linked' /\ Distinct'
    <2>1. UNCHANGED <<head, waiting, taken, left, posted, first>>
      BY DEF Link
    <2>2. left \in Nat /\ Len(taken) \in Nat /\ left <= Len(taken)
      BY DEF ListInv, TypeOK, Linked
    <2>3. \A i \in 1 .. left : i \in 1 .. Len(taken)
      BY <2>2
    <2>4. \A i \in left + 1 .. Len(taken) : i \in 1 .. Len(taken)
      BY <2>2
    <2> QED BY <1>5, <2>1, <2>2, <2>3, <2>4 DEF ListInv, Linked, Distinct
  <1>7. \A u \in Threads : Winner(u)' = Winner(u)
    BY DEF ListInv, TypeOK, Link, Winner
  <1>8. OneOwner'
    BY <1>2, <1>7 DEF ListInv, OneOwner, Unqueuing, Link
  <1>9. Drain' /\ Stored'
    BY <1>2 DEF ListInv, Drain, Stored, Link
  <1>10. Posting'
    BY <1>0, <1>3, <1>4, SlotConstants DEF ListInv, TypeOK, Posting, Link, Winner
  <1> QED BY <1>1, <1>6, <1>8, <1>9, <1>10 DEF ListInv

\* The pushed slot links to the head it replaces.
LEMMA CasWinsKeeps ==
    ASSUME ListInv, NEW t \in Threads, CasWins(t)
    PROVE  ListInv'
  <1> USE DEF drainVars, ownerVars
  <1>0. target[t] \in Slots /\ Winner(t)
    BY DEF ListInv, TypeOK, Posting, CasWins, Winner
  <1>a. waiting \in Seq(Slots) /\ waiting' = Append(waiting, target[t]) /\ Len(waiting) \in Nat
    BY LenProperties DEF ListInv, TypeOK, CasWins
  <1>b. /\ Len(waiting') = Len(waiting) + 1 /\ waiting'[Len(waiting) + 1] = target[t]
        /\ \A i \in 1 .. Len(waiting) : waiting'[i] = waiting[i]
        /\ waiting' \in Seq(Slots)
    BY <1>0, <1>a, AppendProperties
  <1>1. TypeOK'
    BY <1>0, <1>b DEF ListInv, TypeOK, CasWins
  <1>2. \A x \in Slots : (Queued(x)' <=> (Queued(x) \/ x = target[t])) /\ (Taken(x)' <=> Taken(x))
    BY <1>a, <1>b DEF CasWins, Queued, Taken
  <1>3. ~Queued(target[t]) /\ ~Taken(target[t]) /\ ~Unqueuing(target[t]) /\ queued[target[t]]
        /\ \A u \in Threads \ {t} : Winner(u) => target[u] # target[t]
    BY <1>0 DEF ListInv, OneOwner
  <1>4. head' = target[t] /\ next[target[t]] = head /\ UNCHANGED <<next, taken, left, posted, first, queued, mpc, running>>
    BY DEF ListInv, Posting, CasWins, MayPush
  <1>5. Linked'
    <2>1. head' = IF waiting' = <<>> THEN Null ELSE waiting'[Len(waiting')]
      BY <1>a, <1>b, <1>4
    <2>2. ASSUME NEW i \in 1 .. Len(waiting')
          PROVE  next'[waiting'[i]] = IF i = 1 THEN Null ELSE waiting'[i - 1]
      <3>1. CASE i = Len(waiting')
        BY <1>a, <1>b, <1>4, <3>1 DEF ListInv, Linked
      <3>2. CASE i # Len(waiting')
        <4>1. i \in 1 .. Len(waiting) /\ (i # 1 => i - 1 \in 1 .. Len(waiting))
          BY <1>a, <1>b, <3>2
        <4> QED BY <1>b, <1>4, <4>1 DEF ListInv, Linked
      <3> QED BY <3>1, <3>2
    <2> QED BY <1>4, <2>1, <2>2 DEF ListInv, Linked
  <1>6. Distinct'
    <2>1. \A i \in 1 .. Len(waiting) : waiting[i] # target[t]
      BY <1>3 DEF Queued
    <2> QED BY <1>a, <1>b, <1>4, <2>1 DEF ListInv, Distinct
  <1>7. ~Winner(t)' /\ \A u \in Threads \ {t} : Winner(u)' = Winner(u) /\ target'[u] = target[u]
    BY DEF ListInv, TypeOK, CasWins, Winner
  <1>8. OneOwner'
    BY <1>0, <1>2, <1>3, <1>4, <1>7 DEF ListInv, OneOwner, Unqueuing
  <1>9. Drain' /\ Stored'
    BY <1>2 DEF ListInv, Drain, Stored, Posting, CasWins
  <1>10. Posting'
    BY DEF ListInv, TypeOK, Posting, CasWins
  <1> QED BY <1>1, <1>5, <1>6, <1>8, <1>9, <1>10 DEF ListInv

LEMMA CasFailsKeeps ==
    ASSUME ListInv, NEW t \in Threads, CasFails(t)
    PROVE  ListInv'
  <1> USE DEF listVars, drainVars, ghosts, ownerVars
  <1>1. TypeOK'
    BY DEF ListInv, TypeOK, CasFails
  <1>2. Linked' /\ Distinct' /\ \A x \in Slots : Queued(x)' = Queued(x) /\ Taken(x)' = Taken(x)
    BY ListSame DEF CasFails
  <1>3. \A u \in Threads : Winner(u)' = Winner(u)
    BY DEF ListInv, TypeOK, CasFails, Winner
  <1>4. OneOwner'
    BY <1>2, <1>3 DEF ListInv, OneOwner, Unqueuing, CasFails
  <1>5. Drain' /\ Stored'
    BY <1>2 DEF ListInv, Drain, Stored, CasFails
  <1>6. Posting'
    BY DEF ListInv, TypeOK, Posting, CasFails
  <1> QED BY <1>1, <1>2, <1>4, <1>5, <1>6 DEF ListInv

-----------------------------------------------------------------------------
\* The exchange: what was waiting becomes the batch, all of it to be reversed.
LEMMA TakeListKeeps ==
    ASSUME ListInv, NEW d \in Modes, TakeList(d)
    PROVE  ListInv'
  <1> USE DEF postVars, ownerVars
  <1>0. taken = <<>> /\ left = 0 /\ first = Null /\ waiting \in Seq(Slots)
    BY DEF ListInv, TypeOK, Drain, Linked, TakeList, MainIn
  <1>1. TypeOK'
    BY <1>0, SlotConstants, LenProperties DEF ListInv, TypeOK, TakeList
  <1>2. \A x \in Slots : ~Queued(x)' /\ ~Taken(x) /\ (Taken(x)' <=> Queued(x))
    BY <1>0 DEF TakeList, Queued, Taken
  <1>3. Linked' /\ Distinct'
    <2>1. Len(waiting) \in Nat /\ (waiting = <<>> <=> Len(waiting) = 0)
      BY <1>0, LenProperties, EmptySeq
    <2> QED BY <1>0, <2>1 DEF ListInv, Linked, Distinct, TakeList
  <1>4. \A u \in Threads : Winner(u)' = Winner(u)
    BY DEF TakeList, Winner
  <1>5. \A s \in Slots : ~Unqueuing(s) /\ ~Unqueuing(s)'
    BY DEF TakeList, MainIn, Unqueuing
  <1>6. OneOwner'
    BY <1>2, <1>4, <1>5 DEF ListInv, OneOwner, TakeList
  <1>7. Drain' /\ Stored' /\ Posting'
    <2>1. Stored'
      BY <1>2 DEF ListInv, Stored, TakeList
    <2> QED BY <2>1 DEF ListInv, Drain, Posting, TakeList, MainIn
  <1> QED BY <1>1, <1>3, <1>6, <1>7 DEF ListInv

\* One link turned round.
LEMMA ReverseKeeps ==
    ASSUME ListInv, Reverse
    PROVE  ListInv'
  <1> USE DEF postVars, ownerVars
  <1>1. CASE posted = Null
    <2>0. left = 0
      <3>1. left \in Nat /\ left <= Len(taken) /\ Len(taken) \in Nat /\ (left # 0 => posted = taken[left])
        BY DEF ListInv, TypeOK, Linked
      <3>2. left # 0 => taken[left] \in Slots
        BY <3>1, ElementOfSeq DEF ListInv, TypeOK
      <3> QED BY <1>1, <3>1, <3>2, SlotConstants
    <2>1. UNCHANGED <<head, next, waiting, taken, left, posted, first, queued, keepAlive, running, pc, target, top, held>>
      BY <1>1 DEF Reverse
    <2>2. Linked' /\ Distinct' /\ \A x \in Slots : Queued(x)' = Queued(x) /\ Taken(x)' = Taken(x)
      BY <2>1, ListSame
    <2>3. TypeOK'
      BY <1>1, <2>1 DEF ListInv, TypeOK, Reverse
    <2>4. OneOwner'
      BY <1>1, <2>1, <2>2 DEF ListInv, OneOwner, Unqueuing, Winner, Reverse, MainIn
    <2>5. Drain'
      BY <1>1, <2>0, <2>1 DEF ListInv, Drain, Reverse, MainIn
    <2>6. Posting' /\ Stored'
      BY <2>1, <2>2 DEF ListInv, Posting, Stored
    <2> QED BY <2>2, <2>3, <2>4, <2>5, <2>6 DEF ListInv
  <1>2. CASE posted # Null
    <2>0. /\ left \in 1 .. Len(taken) /\ Len(taken) \in Nat /\ posted = taken[left] /\ posted \in Slots
          /\ next[posted] = IF left = 1 THEN Null ELSE taken[left - 1]
      <3>1. left \in Nat /\ left <= Len(taken) /\ Len(taken) \in Nat /\ left # 0
        BY <1>2 DEF ListInv, TypeOK, Linked
      <3>2. left \in 1 .. Len(taken) /\ left \in 1 .. left
        BY <3>1
      <3> QED BY <1>2, <3>1, <3>2 DEF ListInv, TypeOK, Linked
    <2>1. /\ posted' = next[posted] /\ next' = [next EXCEPT ![posted] = first] /\ first' = posted
          /\ left' = left - 1 /\ UNCHANGED <<head, waiting, taken, queued, keepAlive, running, mpc, pc, target, top, held>>
      BY <1>2 DEF Reverse
    <2>2. TypeOK'
      BY <1>2, <2>0, <2>1 DEF ListInv, TypeOK, Reverse
    <2>3. \A x \in Slots : Queued(x)' = Queued(x) /\ Taken(x)' = Taken(x)
      BY <2>1 DEF Queued, Taken
    <2>4. Taken(posted) /\ ~Queued(posted)
      BY <2>0 DEF Taken, ListInv, OneOwner
    <2>5. \A i \in 1 .. Len(waiting) : next'[waiting[i]] = next[waiting[i]]
      <3>1. \A i \in 1 .. Len(waiting) : waiting[i] \in Slots /\ waiting[i] # posted
        BY <2>4, ElementOfSeq DEF Queued, ListInv, TypeOK
      <3> QED BY <2>1, <3>1 DEF ListInv, TypeOK
    <2>6. \A i \in 1 .. Len(taken) : next'[taken[i]] = IF i = left THEN first ELSE next[taken[i]]
      <3>1. \A i \in 1 .. Len(taken) : taken[i] \in Slots /\ (i # left => taken[i] # posted)
        BY <2>0, ElementOfSeq DEF ListInv, TypeOK, Distinct
      <3> QED BY <2>0, <2>1, <3>1 DEF ListInv, TypeOK
    <2>7. Linked'
      <3>1. \A i \in 1 .. Len(waiting') : next'[waiting'[i]] = IF i = 1 THEN Null ELSE waiting'[i - 1]
        BY <2>1, <2>5 DEF ListInv, Linked
      <3>2. \A i \in 1 .. left' : next'[taken'[i]] = IF i = 1 THEN Null ELSE taken'[i - 1]
        <4>1. \A i \in 1 .. left - 1 : i \in 1 .. left /\ i \in 1 .. Len(taken) /\ i # left
          BY <2>0
        <4> QED BY <2>1, <2>6, <4>1 DEF ListInv, Linked
      <3>3. ASSUME NEW i \in left' + 1 .. Len(taken')
            PROVE  next'[taken'[i]] = IF i = Len(taken') THEN Null ELSE taken'[i + 1]
        <4>1. i \in 1 .. Len(taken) /\ (i = left \/ i \in left + 1 .. Len(taken))
          BY <2>0, <2>1
        <4>2. CASE i = left
          BY <2>0, <2>1, <2>6, <4>1, <4>2 DEF ListInv, Linked
        <4>3. CASE i # left
          BY <2>0, <2>1, <2>6, <4>1, <4>3 DEF ListInv, Linked
        <4> QED BY <4>2, <4>3
      <3>4. /\ left' <= Len(taken') /\ posted' = (IF left' = 0 THEN Null ELSE taken'[left'])
            /\ first' = IF left' = Len(taken') THEN Null ELSE taken'[left' + 1]
        BY <2>0, <2>1
      <3> QED BY <2>1, <3>1, <3>2, <3>3, <3>4 DEF ListInv, Linked
    <2>8. Distinct' /\ Drain' /\ Stored'
      BY <2>0, <2>1, <2>3 DEF ListInv, Distinct, Drain, Stored, Reverse, MainIn
    <2>9. OneOwner'
      BY <2>1, <2>3 DEF ListInv, OneOwner, Unqueuing, Winner
    <2>10. Posting'
      <3>1. \A u \in Threads : pc[u] = "cas" => target[u] \in Slots /\ target[u] # posted
        BY <2>4 DEF ListInv, TypeOK, Posting, OneOwner, Winner
      <3> QED BY <2>1, <3>1 DEF ListInv, TypeOK, Posting
    <2> QED BY <2>2, <2>7, <2>8, <2>9, <2>10 DEF ListInv
  <1> QED BY <1>1, <1>2

\* The first slot leaves the batch; the rest of it is still linked.
LEMMA ConsumeTakeKeeps ==
    ASSUME ListInv, ConsumeTake
    PROVE  ListInv'
  <1> USE DEF postVars, ownerVars
  <1>0. left = 0 /\ running = Null /\ mpc = "consume" /\ taken \in Seq(Slots) /\ Len(taken) \in Nat
    BY LenProperties DEF ListInv, TypeOK, Drain, ConsumeTake, MainIn
  <1>1. CASE first = Null
    <2>1. UNCHANGED <<head, next, waiting, taken, left, posted, first, queued, keepAlive, running, pc, target, top, held>>
          /\ mpc' = "idle"
      BY <1>1 DEF ConsumeTake
    <2>2. Linked' /\ Distinct' /\ \A x \in Slots : Queued(x)' = Queued(x) /\ Taken(x)' = Taken(x)
      BY <2>1, ListSame
    <2>3. taken = <<>>
      <3>1. left # Len(taken) => taken[1] \in Slots /\ first = taken[1]
        BY <1>0, ElementOfSeq DEF ListInv, Linked
      <3> QED BY <1>0, <1>1, <3>1, SlotConstants, EmptySeq
    <2>4. TypeOK'
      BY <1>1, <2>1 DEF ListInv, TypeOK, ConsumeTake
    <2>5. OneOwner'
      BY <1>0, <2>1, <2>2 DEF ListInv, OneOwner, Unqueuing, Winner
    <2>6. Drain' /\ Posting' /\ Stored'
      BY <1>0, <2>1, <2>2, <2>3 DEF ListInv, Drain, Posting, Stored
    <2> QED BY <2>2, <2>4, <2>5, <2>6 DEF ListInv
  <1>2. CASE first # Null
    <2>0. Len(taken) > 0 /\ first = taken[1] /\ first \in Slots
          /\ next[first] = IF Len(taken) = 1 THEN Null ELSE taken[2]
      <3>1. left # Len(taken) /\ 0 + 1 = 1 /\ first = taken[left + 1] /\ first \in Slots
        BY <1>0, <1>2 DEF ListInv, TypeOK, Linked
      <3>2. Len(taken) > 0 /\ 1 \in left + 1 .. Len(taken)
        BY <1>0, <3>1
      <3>3. next[taken[1]] = IF 1 = Len(taken) THEN Null ELSE taken[1 + 1]
        BY <3>2 DEF ListInv, Linked
      <3> QED BY <1>0, <3>1, <3>2, <3>3
    <2>1. /\ running' = first /\ first' = next[first] /\ held' = first /\ keepAlive' = keepAlive \ {first}
          /\ mpc' = "unqueue" /\ taken' = SubSeq(taken, 2, Len(taken))
          /\ UNCHANGED <<head, next, waiting, left, posted, queued, pc, target, top>>
      BY <1>2 DEF ConsumeTake, Advance, Hold
    <2>2. /\ taken' \in Seq(Slots) /\ Len(taken') = Len(taken) - 1
          /\ \A i \in 1 .. Len(taken) - 1 : taken'[i] = taken[i + 1]
      <3>1. \A i \in 2 .. Len(taken) : taken[i] \in Slots
        BY <1>0, ElementOfSeq
      <3>2. 2 \in Int /\ Len(taken) \in Int
        BY <1>0
      <3>3. /\ SubSeq(taken, 2, Len(taken)) \in Seq(Slots)
            /\ Len(SubSeq(taken, 2, Len(taken))) = IF 2 <= Len(taken) THEN Len(taken) - 2 + 1 ELSE 0
            /\ \A i \in 1 .. Len(taken) - 2 + 1 : SubSeq(taken, 2, Len(taken))[i] = taken[2 + i - 1]
        BY <1>0, <3>1, <3>2, SubSeqProperties
      <3>4. ASSUME NEW i \in 1 .. Len(taken) - 1 PROVE taken'[i] = taken[i + 1]
        <4>1. 2 + i - 1 = i + 1 /\ i \in 1 .. Len(taken) - 2 + 1
          BY <1>0
        <4> QED BY <2>1, <3>3, <4>1
      <3>5. Len(taken') = Len(taken) - 1
        <4>1. CASE Len(taken) = 1
          BY <2>1, <3>3, <4>1
        <4>2. CASE 2 <= Len(taken)
          BY <1>0, <2>1, <3>3, <4>2
        <4>3. Len(taken) = 1 \/ 2 <= Len(taken)
          <5>1. Len(taken) \in Nat
            BY <1>0
          <5>2. Len(taken) > 0
            BY <2>0
          <5> QED BY <5>1, <5>2
        <4> QED BY <4>1, <4>2, <4>3
      <3>6. taken' \in Seq(Slots)
        BY <2>1, <3>3
      <3> QED BY <3>4, <3>5, <3>6
    <2>3. TypeOK'
      BY <2>0, <2>1, <2>2, <1>2 DEF ListInv, TypeOK, ConsumeTake
    <2>4. \A i \in 2 .. Len(taken) : taken[i] # first
      BY <1>0, <2>0 DEF ListInv, Distinct
    <2>5. \A x \in Slots : (Queued(x)' <=> Queued(x)) /\ (Taken(x)' <=> (Taken(x) /\ x # first))
      <3>1. ASSUME NEW x \in Slots, Taken(x)' PROVE Taken(x) /\ x # first
        <4>1. PICK i \in 1 .. Len(taken) - 1 : taken[i + 1] = x
          BY <2>2, <3>1 DEF Taken
        <4>2. i + 1 \in 2 .. Len(taken) /\ i + 1 \in 1 .. Len(taken)
          BY <1>0
        <4> QED BY <2>4, <4>1, <4>2 DEF Taken
      <3>2. ASSUME NEW x \in Slots, Taken(x), x # first PROVE Taken(x)'
        <4>1. PICK i \in 1 .. Len(taken) : taken[i] = x
          BY <3>2 DEF Taken
        <4>2. i - 1 \in 1 .. Len(taken) - 1 /\ taken'[i - 1] = x
          BY <1>0, <2>0, <2>2, <3>2, <4>1
        <4> QED BY <2>2, <4>2 DEF Taken
      <3> QED BY <2>1, <3>1, <3>2 DEF Queued
    <2>6. Linked'
      <3>1. first' = IF left' = Len(taken') THEN Null ELSE taken'[left' + 1]
        BY <1>0, <2>0, <2>1, <2>2
      <3>2. ASSUME NEW i \in left' + 1 .. Len(taken')
            PROVE  next'[taken'[i]] = IF i = Len(taken') THEN Null ELSE taken'[i + 1]
        <4>1. i \in 1 .. Len(taken) - 1 /\ i + 1 \in left + 1 .. Len(taken)
          BY <1>0, <2>1, <2>2
        <4>2. next[taken[i + 1]] = IF i + 1 = Len(taken) THEN Null ELSE taken[i + 2]
          BY <1>0, <4>1 DEF ListInv, Linked
        <4> QED BY <1>0, <2>1, <2>2, <4>1, <4>2
      <3> QED BY <1>0, <2>0, <2>1, <2>2, <3>1, <3>2 DEF ListInv, Linked
    <2>7. Distinct'
      <3>1. ASSUME NEW i \in 1 .. Len(taken'), NEW j \in 1 .. Len(taken'), taken'[i] = taken'[j] PROVE i = j
        <4>1. taken[i + 1] = taken[j + 1] /\ i + 1 \in 1 .. Len(taken) /\ j + 1 \in 1 .. Len(taken)
          BY <1>0, <2>2, <3>1
        <4> QED BY <4>1 DEF ListInv, Distinct
      <3> QED BY <2>1, <3>1 DEF ListInv, Distinct
    <2>8. Taken(first) /\ ~Queued(first)
      BY <1>0, <2>0 DEF Taken, ListInv, OneOwner
    <2>9. OneOwner'
      <3>1. \A s \in Slots : (Unqueuing(s)' <=> s = first) /\ ~Unqueuing(s)
        BY <1>0, <2>1 DEF Unqueuing
      <3> QED BY <2>0, <2>1, <2>5, <2>8, <3>1 DEF ListInv, OneOwner, Winner
    <2>10. Drain' /\ Stored'
      BY <1>0, <2>0, <2>1, <2>5, <2>8, SlotConstants DEF ListInv, Drain, Stored
    <2>11. Posting'
      <3>1. \A u \in Threads : pc[u] \in {"link", "cas"} => target[u] \in Slots /\ target[u] # first
        BY <2>8 DEF ListInv, TypeOK, Posting, OneOwner, Winner
      <3> QED BY <2>1, <3>1 DEF ListInv, TypeOK, Posting
    <2> QED BY <2>3, <2>6, <2>7, <2>9, <2>10, <2>11 DEF ListInv
  <1> QED BY <1>1, <1>2

LEMMA ConsumeUnqueueKeeps ==
    ASSUME ListInv, ConsumeUnqueue
    PROVE  ListInv'
  <1> USE DEF postVars, ownerVars, ghosts
  <1>0. mpc = "unqueue" /\ running \in Slots /\ Unqueuing(running) /\ mpc' = "run" /\ running' = running
    BY DEF ListInv, TypeOK, Drain, ConsumeUnqueue, MainIn, Unqueuing
  <1>1. TypeOK'
    BY <1>0 DEF ListInv, TypeOK, ConsumeUnqueue, Unqueue
  <1>2. Linked' /\ Distinct' /\ \A x \in Slots : Queued(x)' = Queued(x) /\ Taken(x)' = Taken(x)
    BY ListSame DEF ConsumeUnqueue
  <1>3. OneOwner'
    <2>1. \A u \in Threads : Winner(u)' = Winner(u) /\ target'[u] = target[u]
      BY DEF ConsumeUnqueue, Winner
    <2>2. \A s \in Slots : (Unqueuing(s) <=> s = running) /\ ~Unqueuing(s)'
      BY <1>0 DEF Unqueuing
    <2>3. \A s \in Slots : queued'[s] <=> (queued[s] /\ s # running)
      BY <1>0 DEF ListInv, TypeOK, ConsumeUnqueue, Unqueue
    <2> QED BY <1>0, <1>2, <2>1, <2>2, <2>3 DEF ListInv, OneOwner
  <1>4. Drain' /\ Posting' /\ Stored'
    BY <1>0, <1>2 DEF ListInv, Drain, Posting, Stored, ConsumeUnqueue
  <1> QED BY <1>1, <1>2, <1>3, <1>4 DEF ListInv

\* A step that changes neither the list nor who owns a slot.
LEMMA QuietKeeps ==
    ASSUME ListInv, ConsumeRun \/ RunReturns \/ \E s \in Slots : DropOwner(s)
    PROVE  ListInv'
  <1> USE DEF listVars, postVars, drainVars, ownerVars, ghosts
  <1>1. TypeOK'
    <2>1. CASE ConsumeRun
      BY <2>1 DEF ListInv, TypeOK, ConsumeRun
    <2>2. CASE RunReturns
      BY <2>2 DEF ListInv, TypeOK, RunReturns
    <2>3. CASE \E s \in Slots : DropOwner(s)
      BY <2>3 DEF ListInv, TypeOK, DropOwner
    <2> QED BY <2>1, <2>2, <2>3
  <1>2. UNCHANGED <<head, next, queued, keepAlive, pc, target, top, posted, first, waiting, taken, left>>
    BY DEF ConsumeRun, RunReturns, DropOwner
  <1>3. Linked' /\ Distinct' /\ \A x \in Slots : Queued(x)' = Queued(x) /\ Taken(x)' = Taken(x)
    BY <1>2, ListSame
  <1>4. \A s \in Slots : Unqueuing(s)' <=> Unqueuing(s)
    BY DEF ConsumeRun, RunReturns, DropOwner, MainIn, Unqueuing
  <1>5. OneOwner'
    BY <1>2, <1>3, <1>4 DEF ListInv, OneOwner, Winner
  <1>6. Drain'
    BY DEF ListInv, Drain, ConsumeRun, RunReturns, DropOwner, MainIn
  <1>7. Posting' /\ Stored'
    BY <1>2, <1>3 DEF ListInv, Posting, Stored
  <1> QED BY <1>1, <1>3, <1>5, <1>6, <1>7 DEF ListInv

LEMMA ListNext == ListInv /\ [Next]_vars => ListInv'
  <1> SUFFICES ASSUME ListInv, [Next]_vars PROVE ListInv'
    OBVIOUS
  <1>1. CASE UNCHANGED vars
    BY <1>1 DEF vars, listVars, postVars, drainVars, ownerVars, ghosts, ListInv, TypeOK, Linked, OneOwner,
       Distinct, Drain, Posting, Stored, Queued, Taken, Unqueuing, Winner
  <1>2. CASE \E t \in Threads, s \in Slots : Record(t, s)
    BY <1>2, RecordKeeps
  <1>3. CASE \E t \in Threads : PostStep(t)
    BY <1>3, ExchangeKeeps, KeepKeeps, LinkKeeps, CasWinsKeeps, CasFailsKeeps DEF PostStep
  <1>4. CASE DrainStep
    BY <1>4, TakeListKeeps, ReverseKeeps, ConsumeTakeKeeps, ConsumeUnqueueKeeps, QuietKeeps DEF DrainStep
  <1>5. CASE \E s \in Slots : DropOwner(s)
    BY <1>5, QuietKeeps
  <1> QED BY <1>1, <1>2, <1>3, <1>4, <1>5 DEF Next

\* The inductive invariant holds.
THEOREM ListInvariant == Spec => []ListInv
  BY ListInit, ListNext, PTL DEF Spec

\* The list, the slots' fields and the program counters of post and drain are well
\* typed, with every link and operand a slot or null (MainThreadSlot).
THEOREM SlotTypeCorrect == Spec => []TypeOK
  BY ListInvariant, PTL DEF ListInv

\* However pushes, failed pushes and drains interleave, the links are the order
\* of posts (post, MainThreadSlotBatch).
THEOREM LinksAreTheOrder == Spec => []Linked
  BY ListInvariant, PTL DEF ListInv

\* The plain fields of a slot have one owner at a time (queued_ in post, consume).
THEOREM FieldsHaveOneOwner == Spec => []OneOwner
  BY ListInvariant, PTL DEF ListInv

LEMMA InvKeepsStorage == ListInv => StorageAlive
  <1> SUFFICES ASSUME ListInv, NEW s \in Slots, Freed(s)
               PROVE  ~Queued(s) /\ ~Taken(s) /\ running # s /\ \A t \in Threads : target[t] # s
    BY DEF StorageAlive
  <1>1. s \notin keepAlive /\ held # s /\ \A t \in Threads : target[t] = s => pc[t] \notin {"exchange", "keep"}
    BY DEF Freed, Held
  <1>2. ~Queued(s) /\ ~Taken(s) /\ running # s
    BY <1>1 DEF ListInv, Stored, Drain
  <1>3. ASSUME NEW t \in Threads, target[t] = s PROVE FALSE
    <2>1. pc[t] \in {"link", "cas"}
      BY <1>1, <1>3, SlotConstants DEF ListInv, TypeOK, Posting
    <2> QED BY <1>1, <1>3, <2>1 DEF ListInv, Posting
  <1> QED BY <1>2, <1>3

\* No pointer to a slot outlives its storage, whenever owners go (keepAlive_).
THEOREM StorageStaysAlive == Spec => []StorageAlive
  BY ListInvariant, InvKeepsStorage, PTL

\* The three together: whatever posters and the drain interleave, the list's
\* links, the owners of its plain fields and its storage are sound.
THEOREM ListStaysSound == Spec => []ListIsSound
  BY LinksAreTheOrder, FieldsHaveOneOwner, StorageStaysAlive, PTL DEF ListIsSound

-----------------------------------------------------------------------------
(* Which slots a step moves from one list to another.                      *)

LEMMA CasWinsQueues ==
    ASSUME ListInv, NEW t \in Threads, NEW s \in Slots, s = target[t], CasWins(t)
    PROVE  Queued(s)' /\ \A x \in Slots : Queued(x) => Queued(x)'
  <1>1. waiting \in Seq(Slots) /\ waiting' = Append(waiting, s) /\ Len(waiting) \in Nat
    BY LenProperties DEF ListInv, TypeOK, CasWins
  <1>2. /\ Len(waiting') = Len(waiting) + 1 /\ waiting'[Len(waiting) + 1] = s
        /\ \A i \in 1 .. Len(waiting) : waiting'[i] = waiting[i]
    BY <1>1, AppendProperties
  <1>3. Len(waiting) + 1 \in 1 .. Len(waiting') /\ \A i \in 1 .. Len(waiting) : i \in 1 .. Len(waiting')
    BY <1>1, <1>2
  <1> QED BY <1>2, <1>3 DEF Queued

LEMMA TakeListMoves ==
    ASSUME ListInv, NEW d \in Modes, TakeList(d)
    PROVE  taken = <<>> /\ running = Null /\ \A x \in Slots : (Queued(x) => Taken(x)') /\ ~Taken(x)
  <1>1. taken = <<>> /\ running = Null /\ taken' = waiting
    BY DEF ListInv, Drain, TakeList, MainIn
  <1>2. Len(taken) = 0
    BY <1>1
  <1> QED BY <1>1, <1>2 DEF Queued, Taken

LEMMA ConsumeTakeMoves ==
    ASSUME ListInv, ConsumeTake, first # Null
    PROVE  /\ taken # <<>> /\ running = Null
           /\ running' = Head(taken) /\ taken' = Tail(taken)
           /\ \A x \in Slots : Taken(x) => Taken(x)' \/ running' = x
  <1>0. left = 0 /\ running = Null /\ taken \in Seq(Slots) /\ Len(taken) \in Nat
    BY LenProperties DEF ListInv, TypeOK, Drain, ConsumeTake, MainIn
  <1>1. Len(taken) # 0 /\ first = taken[0 + 1]
    BY <1>0 DEF ListInv, Linked
  <1>2. taken # <<>> /\ first = Head(taken)
    BY <1>0, <1>1
  <1>3. taken' = Tail(taken) /\ running' = Head(taken)
    BY <1>0, <1>2, TailIsSubSeq DEF ConsumeTake
  <1>4. Len(taken') = Len(taken) - 1 /\ \A i \in 1 .. Len(taken') : taken'[i] = taken[i + 1]
    BY <1>0, <1>2, <1>3, HeadTailProperties
  <1>5. ASSUME NEW x \in Slots, Taken(x), running' # x PROVE Taken(x)'
    <2>1. PICK i \in 1 .. Len(taken) : taken[i] = x
      BY <1>5 DEF Taken
    <2>2. i # 1
      BY <1>1, <1>2, <1>3, <1>5, <2>1
    <2>3. i - 1 \in 1 .. Len(taken') /\ (i - 1) + 1 = i
      BY <1>0, <1>4, <2>2
    <2> QED BY <1>4, <2>1, <2>3 DEF Taken
  <1> QED BY <1>0, <1>2, <1>3, <1>5

LEMMA ListsSame ==
    ASSUME UNCHANGED <<waiting, taken>>
    PROVE  \A x \in Slots : Queued(x)' = Queued(x) /\ Taken(x)' = Taken(x)
  BY DEF Queued, Taken

-----------------------------------------------------------------------------
(* Nothing recorded is left behind when batches are delivered.             *)

Delivering == deliver = TRUE /\ NothingLeftBehind

\* How one slot's mail stays on its way to main.
OnItsWay(s) ==
    \/ Queued(s) \/ Taken(s)
    \/ mpc \in {"unqueue", "run"} /\ running = s
    \/ \E t \in Threads : target[t] = s

LEMMA PostStepDelivers ==
    ASSUME ListInv, NEW t \in Threads, PostStep(t), NEW s \in Slots, OnItsWay(s)
    PROVE  OnItsWay(s)'
  <1>0. UNCHANGED <<taken, mpc, running>>
    BY DEF PostStep, Exchange, Keep, Link, CasWins, CasFails, drainVars, ghosts
  <1>1. CASE target'[t] = target[t]
    <2>1. target' = target
      BY <1>1 DEF ListInv, TypeOK, PostStep, Exchange, Keep, Link, CasWins, CasFails
    <2>2. Queued(s) => Queued(s)'
      <3>1. CASE CasWins(t)
        <4>1. PICK x \in Slots : x = target[t]
          BY <3>1 DEF ListInv, TypeOK, Posting, CasWins
        <4> QED BY <3>1, <4>1, CasWinsQueues
      <3>2. CASE ~CasWins(t)
        BY <3>2, ListsSame DEF PostStep, Exchange, Keep, Link, CasFails, ghosts
      <3> QED BY <3>1, <3>2
    <2> QED BY <1>0, <2>1, <2>2 DEF OnItsWay, Taken
  <1>2. CASE target'[t] # target[t]
    <2>1. \A u \in Threads \ {t} : target'[u] = target[u]
      BY DEF ListInv, TypeOK, PostStep, Exchange, Keep, Link, CasWins, CasFails
    <2>2. CASE CasWins(t)
      <3>1. PICK x \in Slots : x = target[t]
        BY <2>2 DEF ListInv, TypeOK, Posting, CasWins
      <3>2. Queued(x)' /\ \A y \in Slots : Queued(y) => Queued(y)'
        BY <2>2, <3>1, CasWinsQueues
      <3> QED BY <1>0, <2>1, <3>1, <3>2 DEF OnItsWay, Taken
    <2>3. CASE Exchange(t)
      <3>1. PICK x \in Slots : x = target[t]
        BY <2>3 DEF ListInv, TypeOK, Posting, Exchange
      <3>2. queued[x] /\ ~Winner(t)
        BY <1>2, <2>3, <3>1 DEF Exchange, AlreadyQueued, Winner
      <3>3. Queued(x) \/ Taken(x) \/ Unqueuing(x) \/ \E u \in Threads \ {t} : target[u] = x
        BY <3>2 DEF ListInv, OneOwner
      <3>4. \A y \in Slots : Queued(y)' = Queued(y) /\ Taken(y)' = Taken(y)
        BY <2>3, ListsSame DEF Exchange, ghosts
      <3> QED BY <1>0, <2>1, <3>1, <3>3, <3>4 DEF OnItsWay, Unqueuing
    <2> QED BY <1>2, <2>2, <2>3 DEF PostStep, Keep, Link, CasFails
  <1> QED BY <1>1, <1>2

LEMMA DeliveringNext ==
    ASSUME Modes = {TRUE}, ListInv, Delivering, [Next]_vars
    PROVE  Delivering'
  <1>1. deliver' = TRUE
    <2>1. deliver' = deliver \/ \E d \in Modes : deliver' = d
      BY DEF Next, Record, PostStep, Exchange, Keep, Link, CasWins, CasFails, DrainStep, TakeList,
         Reverse, ConsumeTake, ConsumeUnqueue, ConsumeRun, RunReturns, DropOwner, vars, drainVars
    <2> QED BY <2>1 DEF Delivering
  <1> SUFFICES ASSUME NEW s \in Slots, s \in mail' PROVE OnItsWay(s)'
    <2>1. TypeOK'
      BY ListNext DEF ListInv
    <2> QED BY <1>1, <2>1 DEF Delivering, NothingLeftBehind, OnItsWay, TypeOK
  <1>2. s \in mail => OnItsWay(s)
    BY DEF Delivering, NothingLeftBehind, OnItsWay
  <1>3. CASE UNCHANGED vars
    BY <1>2, <1>3 DEF vars, listVars, postVars, drainVars, ownerVars, ghosts, OnItsWay, Queued, Taken
  <1>4. ASSUME NEW t \in Threads, NEW x \in Slots, Record(t, x) PROVE OnItsWay(s)'
    <2>1. UNCHANGED <<waiting, taken, mpc, running>> /\ target' = [target EXCEPT ![t] = x] /\ mail' = mail \cup {x}
      BY <1>4 DEF Record, drainVars, ghosts
    <2>2. target[t] = Null /\ target'[t] = x /\ \A u \in Threads \ {t} : target'[u] = target[u]
      BY <1>4, <2>1 DEF ListInv, TypeOK, Posting, Record
    <2>3. \A y \in Slots : Queued(y)' = Queued(y) /\ Taken(y)' = Taken(y)
      BY <2>1, ListsSame
    <2> QED BY <1>2, <2>1, <2>2, <2>3, SlotConstants DEF OnItsWay
  <1>5. ASSUME NEW t \in Threads, PostStep(t) PROVE OnItsWay(s)'
    <2>1. mail' = mail
      BY <1>5 DEF PostStep, Exchange, Keep, Link, CasWins, CasFails, ownerVars
    <2> QED BY <1>2, <1>5, <2>1, PostStepDelivers
  <1>6. CASE DrainStep
    <2>1. target' = target
      BY <1>6 DEF DrainStep, TakeList, Reverse, ConsumeTake, ConsumeUnqueue, ConsumeRun, RunReturns, postVars
    <2>2. ASSUME NEW d \in Modes, TakeList(d) PROVE OnItsWay(s)'
      <3>1. mail' = mail /\ mpc = "idle"
        BY <2>2 DEF TakeList, ownerVars, MainIn
      <3> QED BY <1>2, <2>1, <2>2, <3>1, TakeListMoves DEF OnItsWay
    <2>3. CASE ConsumeTake /\ first # Null
      <3>1. mail' = mail /\ mpc = "consume" /\ mpc' = "unqueue" /\ waiting' = waiting
        BY <2>3 DEF ConsumeTake, ownerVars, MainIn
      <3>2. \A x \in Slots : Taken(x) => Taken(x)' \/ running' = x
        BY <2>3, ConsumeTakeMoves
      <3>3. Queued(s)' = Queued(s)
        BY <3>1 DEF Queued
      <3> QED BY <1>2, <2>1, <3>1, <3>2, <3>3 DEF OnItsWay
    <2>4. CASE Reverse \/ (ConsumeTake /\ first = Null) \/ ConsumeUnqueue \/ RunReturns
      <3>1. mail' = mail /\ UNCHANGED <<waiting, taken>>
        BY <2>4 DEF Reverse, ConsumeTake, ConsumeUnqueue, RunReturns, ownerVars, ghosts
      <3>2. mpc \in {"unqueue", "run"} => mpc' = "run" /\ running' = running
        BY <2>4 DEF Reverse, ConsumeTake, ConsumeUnqueue, RunReturns, MainIn
      <3> QED BY <1>2, <2>1, <3>1, <3>2, ListsSame DEF OnItsWay
    <2>5. CASE ConsumeRun
      <3>1. mail' = mail \ {running} /\ UNCHANGED <<waiting, taken, running>>
        BY <2>5 DEF ConsumeRun, Delivering, ghosts
      <3> QED BY <1>2, <2>1, <3>1, ListsSame DEF OnItsWay
    <2> QED BY <1>6, <2>2, <2>3, <2>4, <2>5 DEF DrainStep
  <1>7. CASE \E x \in Slots : DropOwner(x)
    BY <1>2, <1>7 DEF DropOwner, listVars, postVars, drainVars, ghosts, OnItsWay, Queued, Taken
  <1> QED BY <1>3, <1>4, <1>5, <1>6, <1>7 DEF Next

\* When batches are delivered (the main queue never discards one), whatever an
\* owner records before it posts is seen by a run: a post that finds the slot
\* queued loses nothing (post, consume).
THEOREM NothingIsLeftBehind ==
    ASSUME Modes = {TRUE}
    PROVE  Spec => []NothingLeftBehind
  <1>1. Init => Delivering
    BY DEF Init, Delivering, NothingLeftBehind
  <1>2. ListInv /\ Delivering /\ [Next]_vars => Delivering'
    BY DeliveringNext
  <1>3. Delivering => NothingLeftBehind
    BY DEF Delivering
  <1> QED BY <1>1, <1>2, <1>3, ListInvariant, PTL DEF Spec

-----------------------------------------------------------------------------
(* The simulation: the compare-and-swap that wins posts, the exchange of   *)
(* the head begins a turn.                                                 *)

LEMMA SlotStepSimulates ==
    ASSUME ListInv, [Next]_vars
    PROVE  [Queue!QNext]_<<waiting, taken, running>>
  <1>1. ASSUME NEW t \in Threads, CasWins(t) PROVE Queue!QNext
    <2>1. PICK s \in Slots : s = target[t]
      BY <1>1 DEF ListInv, TypeOK, Posting, CasWins
    <2>2. ~Queued(s) /\ ~Taken(s)
      BY <1>1, <2>1 DEF ListInv, OneOwner, CasWins, Winner
    <2>3. Queue!Post(s)
      BY <1>1, <2>1, <2>2 DEF Queue!Post, Queue!Queued, Queue!Taken, Queued, Taken, CasWins, drainVars
    <2> QED BY <2>3 DEF Queue!QNext
  <1>2. ASSUME NEW d \in Modes, TakeList(d) PROVE Queue!QNext
    <2>1. Queue!Turn
      BY <1>2, TakeListMoves DEF Queue!Turn, TakeList
    <2> QED BY <2>1 DEF Queue!QNext
  <1>3. CASE ConsumeTake /\ first # Null
    <2>1. Queue!Run
      BY <1>3, ConsumeTakeMoves DEF Queue!Run, ConsumeTake
    <2> QED BY <2>1 DEF Queue!QNext
  <1>4. CASE RunReturns
    <2>1. Queue!Return
      BY <1>4 DEF Queue!Return, RunReturns, MainIn, ListInv, Drain, ghosts
    <2> QED BY <2>1 DEF Queue!QNext
  <1>5. CASE /\ ~ \E t \in Threads : CasWins(t)
             /\ ~ \E d \in Modes : TakeList(d)
             /\ ~ (ConsumeTake /\ first # Null)
             /\ ~ RunReturns
    BY <1>5 DEF Next, Record, PostStep, Exchange, Keep, Link, CasFails, DrainStep, Reverse, ConsumeTake,
       ConsumeUnqueue, ConsumeRun, DropOwner, vars, drainVars, ghosts
  <1> QED BY <1>1, <1>2, <1>3, <1>4, <1>5

LEMMA SlotInitSimulates == Init => Queue!QInit
  BY DEF Init, Queue!QInit

\* The lock-free list implements the queue: slots run oldest first, once per
\* post, and a turn runs only what was posted before it began.
THEOREM SlotsRunInOrder == Spec => RunsInOrder
  <1>1. ListInv /\ [Next]_vars => [Queue!QNext]_(Queue!qvars)
    BY SlotStepSimulates DEF Queue!qvars
  <1> QED BY <1>1, SlotInitSimulates, ListInvariant, PTL DEF Spec, RunsInOrder, Queue!QSpec
=============================================================================
