------------------------- MODULE ResourceLoadProofs -------------------------
(***************************************************************************)
(* Theorems about ResourceLoad, for any loads, handles, workers and limits. *)
(*                                                                         *)
(* Three inductive invariants, each resting on the ones before it:         *)
(*   - Accounting: the types, the shape of a host call in progress (Shape) *)
(*     and the three properties about counters; on it rests the request    *)
(*     limit;                                                              *)
(*   - References: what is referred to was begun; with it every step is a  *)
(*     step of AsyncLoad, or none;                                         *)
(*   - Custody: in whose hands every load is; from it follow the soundness *)
(*     of results, the account of bytes, what cancellation and exit leave  *)
(*     behind and who writes a payload.                                    *)
(***************************************************************************)
EXTENDS ResourceLoad, Sums, SequenceTheorems

\* What main's and the workers' program counters say of their operands.
Shape ==
    /\ mstep \in {"cancel", "spawn"} => mload \in Loads
    /\ mstep \in {"admit", "settle"} => mnew \in Loads
    /\ \A w \in Workers : HoldsSlot(w) => job[w] \in Loads
    /\ requestCredit \subseteq begun
    /\ mnew \in Loads => mnew \in begun \ requestCredit

Accounting == TypeOK /\ Shape /\ SlotsHeld /\ RequestsBalance /\ QueuedWaitsForASlot

-----------------------------------------------------------------------------
\* Unlinking a queue entry leaves a queue of loads.
LEMMA RemoveAtType ==
    ASSUME NEW S, NEW s \in Seq(S), NEW i \in DOMAIN s
    PROVE  RemoveAt(s, i) \in Seq(S)
  <1>1. i \in 1 .. Len(s) /\ Len(s) \in Nat
    BY LenProperties
  <1>2. \A k \in 1 .. Len(s) : s[k] \in S
    BY ElementOfSeq
  <1>3. SubSeq(s, 1, i - 1) \in Seq(S) /\ SubSeq(s, i + 1, Len(s)) \in Seq(S)
    <2>1. \A k \in 1 .. i - 1 : s[k] \in S
      BY <1>1, <1>2
    <2>2. \A k \in i + 1 .. Len(s) : s[k] \in S
      BY <1>1, <1>2
    <2>3. 1 \in Int /\ i - 1 \in Int /\ i + 1 \in Int /\ Len(s) \in Int
      BY <1>1
    <2> QED BY <2>1, <2>2, <2>3, SubSeqProperties
  <1> QED BY <1>3, ConcatProperties DEF RemoveAt

LEMMA UnlinkType ==
    ASSUME NEW l, TypeOK, Unlink(l)
    PROVE  pending' \in Seq(Loads) /\ (pending = <<>> => pending' = <<>>)
  <1>1. pending \in Seq(Loads)
    BY DEF TypeOK
  <1>2. CASE \E i \in DOMAIN pending : pending[i] = l
    <2> DEFINE i == CHOOSE i \in DOMAIN pending : pending[i] = l
    <2>1. i \in DOMAIN pending
      BY <1>2
    <2>2. pending' = RemoveAt(pending, i)
      BY <1>2 DEF Unlink
    <2>3. pending' \in Seq(Loads)
      BY <1>1, <2>1, <2>2, RemoveAtType
    <2>4. pending # <<>>
      BY <1>2
    <2> QED BY <2>3, <2>4
  <1>3. CASE ~ \E i \in DOMAIN pending : pending[i] = l
    BY <1>1, <1>3 DEF Unlink
  <1> QED BY <1>2, <1>3

LEMMA HoldingFinite == IsFiniteSet(Holding) /\ Cardinality(Holding) \in Nat
  <1>1. Holding \subseteq Workers /\ IsFiniteSet(Workers)
    BY LoadConstants DEF Holding
  <1> QED BY <1>1, FS_Subset, FS_CardinalityType

LEMMA CreditsFinite ==
    ASSUME TypeOK
    PROVE  IsFiniteSet(requestCredit) /\ Cardinality(requestCredit) \in Nat
  <1>1. requestCredit \subseteq Loads /\ IsFiniteSet(Loads)
    BY LoadConstants DEF TypeOK
  <1> QED BY <1>1, FS_Subset, FS_CardinalityType

\* Releasing a load's credits keeps the counters typed and balanced.
LEMMA ReleaseBalances ==
    ASSUME NEW l \in Loads, TypeOK, RequestsBalance, ReleaseCredits(l)
    PROVE  /\ retained' \in Int /\ outstanding' \in Nat
           /\ credits' \in [Loads -> Nat] /\ requestCredit' \subseteq requestCredit
           /\ outstanding' = Cardinality(requestCredit')
  <1>1. Cardinality(requestCredit \ {l}) =
            IF l \in requestCredit THEN Cardinality(requestCredit) - 1 ELSE Cardinality(requestCredit)
    BY CreditsFinite, FS_RemoveElement
  <1>2. IsFiniteSet(requestCredit \ {l})
    BY CreditsFinite, FS_RemoveElement
  <1>3. Cardinality(requestCredit \ {l}) \in Nat
    BY <1>2, FS_CardinalityType
  <1>4. outstanding' = Cardinality(requestCredit') /\ requestCredit' = requestCredit \ {l}
    BY <1>1 DEF ReleaseCredits, RequestsBalance
  <1>5. retained' \in Int /\ credits' \in [Loads -> Nat]
    BY DEF ReleaseCredits, TypeOK
  <1> QED BY <1>3, <1>4, <1>5

LEMMA SettleBalances ==
    ASSUME NEW l \in Loads, TypeOK, RequestsBalance, Settle(l)
    PROVE  /\ retained' \in Int /\ outstanding' \in Nat
           /\ credits' \in [Loads -> Nat] /\ requestCredit' \subseteq requestCredit
           /\ outstanding' = Cardinality(requestCredit')
           /\ completed' \subseteq Loads /\ failed' \subseteq Loads /\ payload' \in [Loads -> Nat]
  <1>1. completed' \subseteq Loads /\ failed' \subseteq Loads /\ payload' \in [Loads -> Nat]
    <2>1. completed' \subseteq Loads
      BY DEF Settle, TypeOK
    <2>2. failed' \in {failed, failed \cup {l}}
      BY DEF Settle
    <2>3. payload' = payload \/ payload' = [payload EXCEPT ![l] = 0]
      BY DEF Settle, DiscardPayload
    <2> payload \in [Loads -> Nat]
      BY DEF TypeOK
    <2>4. payload' \in [Loads -> Nat]
      BY <2>3
    <2>5. failed' \subseteq Loads
      BY <2>2 DEF TypeOK
    <2> QED BY <2>1, <2>4, <2>5
  <1>2. CASE Refused(l)
    BY <1>1, <1>2, ReleaseBalances DEF Settle
  <1>3. CASE ~Refused(l)
    <2>1. retained' = retained + payload[l] /\ credits' = [credits EXCEPT ![l] = payload[l]]
          /\ outstanding' = outstanding /\ requestCredit' = requestCredit
      BY <1>3 DEF Settle
    <2>2. retained \in Int /\ credits \in [Loads -> Nat] /\ payload[l] \in Nat
      BY DEF TypeOK
    <2>3. outstanding \in Nat /\ outstanding = Cardinality(requestCredit)
      BY DEF TypeOK, RequestsBalance
    <2>4. retained' \in Int /\ credits' \in [Loads -> Nat]
      BY <2>1, <2>2
    <2> QED BY <1>1, <2>1, <2>3, <2>4
  <1> QED BY <1>2, <1>3

-----------------------------------------------------------------------------
\* Slots: a step changes the set of slot holders by at most one worker.
LEMMA HoldingAdds ==
    ASSUME NEW w \in Workers, ~HoldsSlot(w),
           \A x \in Workers : HoldsSlot(x)' <=> (HoldsSlot(x) \/ x = w)
    PROVE  Cardinality(Holding') = Cardinality(Holding) + 1
  <1>1. Holding' = Holding \cup {w} /\ w \notin Holding
    BY DEF Holding
  <1> QED BY <1>1, HoldingFinite, FS_AddElement

LEMMA HoldingRemoves ==
    ASSUME NEW w \in Workers, HoldsSlot(w),
           \A x \in Workers : HoldsSlot(x)' <=> (HoldsSlot(x) /\ x # w)
    PROVE  /\ Cardinality(Holding') = Cardinality(Holding) - 1
           /\ Cardinality(Holding) > 0 /\ Cardinality(Holding') \in Nat
  <1>1. Holding' = Holding \ {w} /\ w \in Holding
    BY DEF Holding
  <1>2. Cardinality(Holding') \in Nat
    BY <1>1, HoldingFinite, FS_RemoveElement, FS_CardinalityType
  <1> QED BY <1>1, <1>2, HoldingFinite, FS_RemoveElement

LEMMA HoldingSame ==
    ASSUME \A x \in Workers : HoldsSlot(x)' <=> HoldsSlot(x)
    PROVE  Holding' = Holding
  BY DEF Holding
-----------------------------------------------------------------------------
\* One step at a time.
LEMMA BeginStep ==
    ASSUME Accounting, NEW h \in Handles, NEW l \in Loads, Begin(h, l)
    PROVE  Accounting'
  <1>1. TypeOK'
    BY DEF Accounting, TypeOK, CallSteps, Begin, MarkCancelled, workerVars, hostVars, historyVars
  <1>2. Shape'
    BY DEF Accounting, TypeOK, Shape, HoldsSlot, Begin, AppCode, Idle, workerVars
  <1>3. SlotsHeld' /\ RequestsBalance' /\ QueuedWaitsForASlot'
    BY DEF Accounting, SlotsHeld, Holding, HoldsSlot, RequestsBalance, QueuedWaitsForASlot,
           Begin, AppCode, Idle, hostVars, workerVars, historyVars
  <1> QED BY <1>1, <1>2, <1>3 DEF Accounting

LEMMA CancelHandleStep ==
    ASSUME Accounting, NEW h \in Handles, CancelHandle(h)
    PROVE  Accounting'
  <1>1. TypeOK'
    BY DEF Accounting, TypeOK, CallSteps, CancelHandle, MarkCancelled, workerVars, hostVars, historyVars
  <1>2. Shape'
    BY DEF Accounting, TypeOK, Shape, HoldsSlot, CancelHandle, AppCode, Idle, workerVars
  <1>3. SlotsHeld' /\ RequestsBalance' /\ QueuedWaitsForASlot'
    BY DEF Accounting, SlotsHeld, Holding, HoldsSlot, RequestsBalance, QueuedWaitsForASlot,
           CancelHandle, AppCode, Idle, hostVars, workerVars, historyVars
  <1> QED BY <1>1, <1>2, <1>3 DEF Accounting

LEMMA CancelLockedStep ==
    ASSUME Accounting, CancelLocked
    PROVE  Accounting'
  <1>1. mload \in Loads
    BY DEF Accounting, Shape, CancelLocked
  <1>2. ReleaseCredits(mload) /\ Unlink(mload)
    BY DEF CancelLocked
  <1>3. retained' \in Int /\ outstanding' \in Nat /\ credits' \in [Loads -> Nat]
        /\ requestCredit' \subseteq requestCredit /\ outstanding' = Cardinality(requestCredit')
    BY <1>1, <1>2, ReleaseBalances DEF Accounting
  <1>4. pending' \in Seq(Loads) /\ (pending = <<>> => pending' = <<>>)
    BY <1>2, UnlinkType DEF Accounting
  <1>5. payload' \in [Loads -> Nat]
    <2>1. payload \in [Loads -> Nat]
      BY DEF Accounting, TypeOK
    <2>2. payload' = payload \/ payload' = [payload EXCEPT ![mload] = 0]
      BY DEF CancelLocked, DiscardPayload
    <2> QED BY <2>1, <2>2
  <1>6. TypeOK'
    BY <1>3, <1>4, <1>5 DEF Accounting, TypeOK, CallSteps, CancelLocked, workerVars, historyVars
  <1>7. Shape'
    BY <1>3 DEF Accounting, TypeOK, Shape, HoldsSlot, CancelLocked, workerVars
  <1>8. SlotsHeld' /\ QueuedWaitsForASlot'
    BY <1>4 DEF Accounting, SlotsHeld, Holding, HoldsSlot, QueuedWaitsForASlot,
           CancelLocked, workerVars, historyVars
  <1> QED BY <1>3, <1>6, <1>7, <1>8 DEF Accounting, RequestsBalance

LEMMA AdmitStep ==
    ASSUME Accounting, Admit
    PROVE  Accounting'
  <1>1. mnew \in Loads /\ mnew \in begun \ requestCredit
    BY DEF Accounting, Shape, Admit
  <1>2. IsFiniteSet(requestCredit)
    BY CreditsFinite DEF Accounting
  <1>3. Cardinality(requestCredit \cup {mnew}) = Cardinality(requestCredit) + 1
    BY <1>1, <1>2, FS_AddElement
  <1>4. pending' \in Seq(Loads) /\ outstanding' \in Nat /\ requestCredit' \subseteq Loads
        /\ failed' \subseteq Loads
    <2>1. pending \in Seq(Loads) /\ outstanding \in Nat /\ requestCredit \subseteq Loads
          /\ failed \subseteq Loads
      BY DEF Accounting, TypeOK
    <2>2. pending' \in {pending, Append(pending, mnew)} /\ outstanding' \in {outstanding, outstanding + 1}
          /\ requestCredit' \in {requestCredit, requestCredit \cup {mnew}}
          /\ failed' \in {failed, failed \cup {mnew}}
      BY DEF Admit
    <2>3. Append(pending, mnew) \in Seq(Loads)
      BY <1>1, <2>1, AppendProperties
    <2> QED BY <1>1, <2>1, <2>2, <2>3
  <1>5. TypeOK'
    BY <1>4 DEF Accounting, TypeOK, CallSteps, Admit, workerVars, historyVars
  <1>6. Shape'
    BY <1>1, LoadConstants DEF Accounting, TypeOK, Shape, HoldsSlot, Admit, workerVars
  <1>7. SlotsHeld'
    BY DEF Accounting, SlotsHeld, Holding, HoldsSlot, Admit, workerVars, historyVars
  <1>8. RequestsBalance'
    BY <1>3 DEF Accounting, RequestsBalance, Admit
  <1>9. QueuedWaitsForASlot'
    BY DEF Accounting, QueuedWaitsForASlot, Admit, historyVars
  <1> QED BY <1>5, <1>6, <1>7, <1>8, <1>9 DEF Accounting

LEMMA CompleteAtOnceStep ==
    ASSUME Accounting, CompleteAtOnce
    PROVE  Accounting'
  <1>0. mnew \in Loads
    BY DEF Accounting, Shape, CompleteAtOnce
  <1>a. failed' \subseteq Loads
    BY <1>0 DEF Accounting, TypeOK, CompleteAtOnce
  <1>1. TypeOK'
    BY <1>a DEF Accounting, TypeOK, CallSteps, CompleteAtOnce, workerVars, hostVars, historyVars
  <1>2. Shape'
    BY <1>0 DEF Accounting, Shape, HoldsSlot, CompleteAtOnce, workerVars
  <1>3. SlotsHeld' /\ RequestsBalance' /\ QueuedWaitsForASlot'
    BY DEF Accounting, SlotsHeld, Holding, HoldsSlot, RequestsBalance, QueuedWaitsForASlot,
           CompleteAtOnce, hostVars, workerVars, historyVars
  <1> QED BY <1>1, <1>2, <1>3 DEF Accounting

LEMMA CompleteOnMainStep ==
    ASSUME Accounting, CompleteOnMain
    PROVE  Accounting'
  <1>1. mnew \in Loads /\ Settle(mnew)
    BY DEF Accounting, Shape, CompleteOnMain
  <1>2. /\ retained' \in Int /\ outstanding' \in Nat /\ credits' \in [Loads -> Nat]
        /\ requestCredit' \subseteq requestCredit /\ outstanding' = Cardinality(requestCredit')
        /\ completed' \subseteq Loads /\ failed' \subseteq Loads /\ payload' \in [Loads -> Nat]
    BY <1>1, SettleBalances DEF Accounting
  <1>3. mailbox' \in Seq(Loads)
    BY <1>1 DEF Accounting, TypeOK, CompleteOnMain
  <1>4. TypeOK'
    BY <1>2, <1>3 DEF Accounting, TypeOK, CallSteps, CompleteOnMain, workerVars, historyVars
  <1>5. Shape'
    BY <1>2, LoadConstants DEF Accounting, TypeOK, Shape, HoldsSlot, CompleteOnMain, workerVars
  <1>6. SlotsHeld' /\ QueuedWaitsForASlot'
    BY DEF Accounting, SlotsHeld, Holding, HoldsSlot, QueuedWaitsForASlot, CompleteOnMain,
           workerVars, historyVars
  <1> QED BY <1>2, <1>4, <1>5, <1>6 DEF Accounting, RequestsBalance

LEMMA SetConcurrencyStep ==
    ASSUME Accounting, NEW n \in Concurrency, SetConcurrency(n)
    PROVE  Accounting'
  <1>1. TypeOK'
    BY LoadConstants DEF Accounting, TypeOK, CallSteps, SetConcurrency, workerVars, loadVars, historyVars
  <1>2. Shape'
    BY DEF Accounting, Shape, HoldsSlot, SetConcurrency, AppCode, Idle, workerVars, loadVars
  <1>3. SlotsHeld' /\ RequestsBalance' /\ QueuedWaitsForASlot'
    BY DEF Accounting, SlotsHeld, Holding, HoldsSlot, RequestsBalance, QueuedWaitsForASlot,
           SetConcurrency, AppCode, Idle, workerVars, loadVars, historyVars
  <1> QED BY <1>1, <1>2, <1>3 DEF Accounting

LEMMA PumpStep ==
    ASSUME Accounting, Pump
    PROVE  Accounting'
  <1>1. pending' \in Seq(Loads) /\ mload' \in Loads \cup {NoLoad} /\ (mstep' = "spawn" => mload' \in Loads)
    <2>1. pending \in Seq(Loads) /\ mload \in Loads \cup {NoLoad}
      BY DEF Accounting, TypeOK
    <2>2. pending # <<>> => Head(pending) \in Loads /\ Tail(pending) \in Seq(Loads)
      BY <2>1, HeadTailProperties
    <2> QED BY <2>1, <2>2 DEF Pump, PumpStops
  <1>a. active' \in Nat /\ mstep' \in CallSteps
    BY DEF Accounting, TypeOK, CallSteps, Pump, PumpStops
  <1>2. TypeOK'
    BY <1>1, <1>a DEF Accounting, TypeOK, Pump, PumpStops, workerVars, loadVars, historyVars
  <1>3. Shape'
    BY <1>1 DEF Accounting, Shape, HoldsSlot, Pump, PumpStops, workerVars, loadVars
  <1>4. SlotsHeld'
    BY HoldingFinite DEF Accounting, TypeOK, SlotsHeld, Holding, HoldsSlot, Pump, PumpStops, workerVars, historyVars
  <1>5. RequestsBalance' /\ QueuedWaitsForASlot'
    BY DEF Accounting, RequestsBalance, QueuedWaitsForASlot, Pump, PumpStops, loadVars, historyVars
  <1> QED BY <1>2, <1>3, <1>4, <1>5 DEF Accounting

LEMMA SpawnStep ==
    ASSUME Accounting, NEW w \in Workers, Spawn(w)
    PROVE  Accounting'
  <1>1. mload \in Loads
    BY DEF Accounting, Shape, Spawn
  <1>2. wpc \in [Workers -> WorkerLabels] /\ job \in [Workers -> Loads \cup {NoLoad}]
    BY DEF Accounting, TypeOK
  <1>3. wpc' = [wpc EXCEPT ![w] = "check"] /\ wpc[w] = "none" /\ job' = [job EXCEPT ![w] = mload]
    BY DEF Spawn
  <1>4. TypeOK'
    BY <1>1, <1>2, <1>3 DEF Accounting, TypeOK, WorkerLabels, CallSteps, Spawn, loadVars, hostVars, historyVars
  <1>5. Shape'
    BY <1>1, <1>2, <1>3 DEF Accounting, Shape, HoldsSlot, Spawn, loadVars
  <1>6. ~HoldsSlot(w) /\ \A x \in Workers : HoldsSlot(x)' <=> (HoldsSlot(x) \/ x = w)
    BY <1>2, <1>3 DEF HoldsSlot
  <1>7. Cardinality(Holding') = Cardinality(Holding) + 1
    BY <1>6, HoldingAdds
  <1>8. SlotsHeld'
    BY <1>7, HoldingFinite DEF Accounting, TypeOK, SlotsHeld, Spawn, hostVars, historyVars
  <1>9. RequestsBalance' /\ QueuedWaitsForASlot'
    BY DEF Accounting, RequestsBalance, QueuedWaitsForASlot, Spawn, hostVars, loadVars, historyVars
  <1> QED BY <1>4, <1>5, <1>8, <1>9 DEF Accounting

LEMMA SpawnFailsStep ==
    ASSUME Accounting, SpawnFails
    PROVE  Accounting'
  <1>1. TypeOK'
    BY LoadConstants DEF Accounting, TypeOK, CallSteps, SpawnFails, workerVars, hostVars, loadVars
  <1>2. Shape'
    BY LoadConstants DEF Accounting, TypeOK, Shape, HoldsSlot, SpawnFails, workerVars, loadVars
  <1>3. SlotsHeld'
    BY HoldingFinite DEF Accounting, TypeOK, SlotsHeld, Holding, HoldsSlot, SpawnFails, workerVars, hostVars
  <1>4. RequestsBalance' /\ QueuedWaitsForASlot'
    BY DEF Accounting, TypeOK, RequestsBalance, QueuedWaitsForASlot, SpawnFails, hostVars, loadVars
  <1> QED BY <1>1, <1>2, <1>3, <1>4 DEF Accounting

\* Worker steps that change neither the queue, the credits nor who holds a slot.
LEMMA WorkerMoves ==
    ASSUME Accounting, NEW w \in Workers, NEW label \in WorkerLabels \ {"none", "finish", "done"},
           Goto(w, label), HoldsSlot(w), failed' \subseteq Loads, payload' \in [Loads -> Nat],
           UNCHANGED <<pending, active, activeLimit, begun, liveRun, cancelled, slot, job,
                       mainVars, historyVars>>,
           mailbox' \in Seq(Loads), lockedBy' \in Workers \cup {NoWorker}, completed' \subseteq Loads,
           retained' \in Int, outstanding' \in Nat, credits' \in [Loads -> Nat],
           requestCredit' \subseteq requestCredit, outstanding' = Cardinality(requestCredit')
    PROVE  Accounting'
  <1>1. wpc \in [Workers -> WorkerLabels] /\ wpc' = [wpc EXCEPT ![w] = label]
    BY DEF Goto, Accounting, TypeOK
  <1>2. wpc' \in [Workers -> WorkerLabels]
    BY <1>1
  <1>3. \A x \in Workers : HoldsSlot(x)' <=> HoldsSlot(x)
    BY <1>1 DEF HoldsSlot
  <1>4. TypeOK'
    BY <1>2 DEF Accounting, TypeOK, mainVars, historyVars
  <1>5. Shape'
    BY <1>3 DEF Accounting, Shape, mainVars
  <1>6. SlotsHeld'
    BY <1>3, HoldingSame DEF Accounting, SlotsHeld, mainVars, historyVars
  <1>7. RequestsBalance' /\ QueuedWaitsForASlot'
    BY DEF Accounting, RequestsBalance, QueuedWaitsForASlot, mainVars, historyVars
  <1> QED BY <1>4, <1>5, <1>6, <1>7 DEF Accounting

LEMMA WorkerJob ==
    ASSUME Accounting, NEW w \in Workers, HoldsSlot(w)
    PROVE  job[w] \in Loads
  BY DEF Accounting, Shape

LEMMA WorkerCheckStep ==
    ASSUME Accounting, NEW w \in Workers, WorkerCheck(w)
    PROVE  Accounting'
  <1>1. HoldsSlot(w) /\ job[w] \in Loads
    BY WorkerJob DEF WorkerCheck, HoldsSlot
  <1>2. failed' \subseteq Loads
    BY <1>1 DEF Accounting, TypeOK, WorkerCheck
  <1>3. Goto(w, "decide") /\ "decide" \in WorkerLabels \ {"none", "finish", "done"}
    BY DEF WorkerCheck, WorkerLabels
  <1> QED BY <1>1, <1>2, <1>3, WorkerMoves
          DEF WorkerCheck, hostVars, Accounting, TypeOK, RequestsBalance

LEMMA WorkerDecideStep ==
    ASSUME Accounting, NEW w \in Workers, WorkerDecide(w)
    PROVE  Accounting'
  <1>1. HoldsSlot(w)
    BY DEF WorkerDecide, HoldsSlot
  <1>2. PICK label \in WorkerLabels \ {"none", "finish", "done"} : Goto(w, label)
    BY DEF WorkerDecide, WorkerLabels
  <1> QED BY <1>1, <1>2, WorkerMoves
          DEF WorkerDecide, hostVars, loadVars, Accounting, TypeOK, RequestsBalance

LEMMA WorkerPrepareStep ==
    ASSUME Accounting, NEW w \in Workers, WorkerPrepare(w)
    PROVE  Accounting'
  <1>1. HoldsSlot(w) /\ job[w] \in Loads
    BY WorkerJob DEF WorkerPrepare, HoldsSlot
  <1>2. PICK label \in WorkerLabels \ {"none", "finish", "done"} : Goto(w, label)
    BY DEF WorkerPrepare, WorkerLabels
  <1>3. payload \in [Loads -> Nat]
    BY DEF Accounting, TypeOK
  <1>4. payload' \in [Loads -> Nat]
    BY <1>1, <1>3, LoadConstants DEF WorkerPrepare
  <1> QED BY <1>1, <1>2, <1>4, WorkerMoves
          DEF WorkerPrepare, hostVars, Accounting, TypeOK, RequestsBalance

LEMMA WorkerPreparedStep ==
    ASSUME Accounting, NEW w \in Workers, WorkerPrepared(w)
    PROVE  Accounting'
  <1>1. HoldsSlot(w) /\ job[w] \in Loads
    BY WorkerJob DEF WorkerPrepared, HoldsSlot
  <1>2. PICK label \in WorkerLabels \ {"none", "finish", "done"} : Goto(w, label)
    BY DEF WorkerPrepared, WorkerLabels
  <1>3. failed' \subseteq Loads
    BY <1>1 DEF WorkerPrepared, Accounting, TypeOK
  <1> QED BY <1>1, <1>2, <1>3, WorkerMoves
          DEF WorkerPrepared, hostVars, Accounting, TypeOK, RequestsBalance

LEMMA WorkerThrowsStep ==
    ASSUME Accounting, NEW w \in Workers, WorkerThrows(w)
    PROVE  Accounting'
  <1>1. HoldsSlot(w) /\ job[w] \in Loads
    BY WorkerJob DEF WorkerThrows, HoldsSlot
  <1>2. Goto(w, "complete") /\ "complete" \in WorkerLabels \ {"none", "finish", "done"}
    BY DEF WorkerThrows, WorkerLabels
  <1>3. failed \subseteq Loads /\ payload \in [Loads -> Nat]
    BY DEF Accounting, TypeOK
  <1>4. failed' \subseteq Loads /\ payload' \in [Loads -> Nat]
    BY <1>1, <1>3 DEF WorkerThrows, DiscardPayload
  <1> QED BY <1>1, <1>2, <1>4, WorkerMoves
          DEF WorkerThrows, hostVars, Accounting, TypeOK, RequestsBalance

LEMMA WorkerCompleteStep ==
    ASSUME Accounting, NEW w \in Workers, WorkerComplete(w)
    PROVE  Accounting'
  <1>1. HoldsSlot(w) /\ job[w] \in Loads
    BY WorkerJob DEF WorkerComplete, HoldsSlot
  <1>2. PICK label \in WorkerLabels \ {"none", "finish", "done"} : Goto(w, label)
    BY DEF WorkerComplete, WorkerLabels
  <1>3. CASE job[w] \in completed
    BY <1>1, <1>2, <1>3, WorkerMoves
       DEF WorkerComplete, Settled, creditVars, Accounting, TypeOK, RequestsBalance
  <1>4. CASE job[w] \notin completed
    <2>1. Settle(job[w]) /\ lockedBy' = w
      BY <1>4 DEF WorkerComplete, Settled
    <2>2. /\ retained' \in Int /\ outstanding' \in Nat /\ credits' \in [Loads -> Nat]
          /\ requestCredit' \subseteq requestCredit /\ outstanding' = Cardinality(requestCredit')
          /\ completed' \subseteq Loads /\ failed' \subseteq Loads /\ payload' \in [Loads -> Nat]
      BY <1>1, <2>1, SettleBalances DEF Accounting
    <2> QED BY <1>1, <1>2, <2>1, <2>2, WorkerMoves DEF WorkerComplete, Accounting, TypeOK
  <1> QED BY <1>3, <1>4

LEMMA WorkerPublishStep ==
    ASSUME Accounting, NEW w \in Workers, WorkerPublish(w)
    PROVE  Accounting'
  <1>1. HoldsSlot(w) /\ job[w] \in Loads
    BY WorkerJob DEF WorkerPublish, HoldsSlot
  <1>2. PICK label \in WorkerLabels \ {"none", "finish", "done"} : Goto(w, label)
    BY DEF WorkerPublish, WorkerLabels
  <1>3. mailbox' \in Seq(Loads)
    BY <1>1 DEF Accounting, TypeOK, WorkerPublish
  <1> QED BY <1>1, <1>2, <1>3, WorkerMoves
          DEF WorkerPublish, loadVars, Accounting, TypeOK, RequestsBalance

LEMMA WorkerNextStepKeeps ==
    ASSUME Accounting, NEW w \in Workers, WorkerNext(w)
    PROVE  Accounting'
  <1>1. HoldsSlot(w) /\ wpc[w] = "next" /\ wpc \in [Workers -> WorkerLabels]
        /\ job \in [Workers -> Loads \cup {NoLoad}] /\ pending \in Seq(Loads) /\ active \in Nat
        /\ activeLimit \in Nat /\ spawnFailures \in Nat
    BY LoadConstants DEF WorkerNext, HoldsSlot, Accounting, TypeOK
  <1>2. UNCHANGED <<activeLimit, outstanding, retained, mailbox, lockedBy, loadVars, slot, mainVars, historyVars>>
    BY DEF WorkerNext
  <1>3. CASE pending = <<>> \/ active > activeLimit
    <2>1. active' = active - 1 /\ job' = [job EXCEPT ![w] = NoLoad] /\ pending' = pending
          /\ wpc' = [wpc EXCEPT ![w] = "finish"]
      BY <1>3 DEF WorkerNext, Goto, Retires, GiveSlotBack
    <2>2. \A x \in Workers : HoldsSlot(x)' <=> (HoldsSlot(x) /\ x # w)
      BY <1>1, <2>1 DEF HoldsSlot
    <2>3. /\ Cardinality(Holding') = Cardinality(Holding) - 1
          /\ Cardinality(Holding') \in Nat
      BY <1>1, <2>2, HoldingRemoves
    <2>a. UNCHANGED <<mstep, spawnFailures>>
      BY <1>2 DEF mainVars, historyVars
    <2>b. PICK launching \in {0, 1} : launching = IF mstep = "spawn" THEN 1 ELSE 0
      OBVIOUS
    <2>c. active = Cardinality(Holding) + launching + spawnFailures
      BY <2>b DEF Accounting, SlotsHeld
    <2>d. active' = Cardinality(Holding') + launching + spawnFailures
      BY <1>1, <2>1, <2>3, <2>c, HoldingFinite
    <2>4. SlotsHeld' /\ active' \in Nat
      BY <1>1, <2>3, <2>a, <2>b, <2>d DEF SlotsHeld
    <2>5. wpc' \in [Workers -> WorkerLabels] /\ job' \in [Workers -> Loads \cup {NoLoad}]
      BY <1>1, <2>1 DEF WorkerLabels
    <2>6. TypeOK'
      BY <1>2, <2>1, <2>4, <2>5 DEF Accounting, TypeOK, loadVars, mainVars, historyVars
    <2>7. Shape'
      BY <1>1, <1>2, <2>1, <2>2 DEF Accounting, Shape, loadVars, mainVars
    <2>8. RequestsBalance' /\ QueuedWaitsForASlot'
      BY <1>1, <1>2, <1>3, <2>1
         DEF Accounting, RequestsBalance, QueuedWaitsForASlot, loadVars, mainVars, historyVars
    <2> QED BY <2>4, <2>6, <2>7, <2>8 DEF Accounting
  <1>4. CASE ~(pending = <<>> \/ active > activeLimit)
    <2>1. active' = active /\ job' = [job EXCEPT ![w] = Head(pending)] /\ pending' = Tail(pending)
          /\ wpc' = [wpc EXCEPT ![w] = "check"]
      BY <1>4 DEF WorkerNext, Goto, Retires
    <2>2. Head(pending) \in Loads /\ pending' \in Seq(Loads)
      BY <1>1, <1>4, <2>1, HeadTailProperties
    <2>3. \A x \in Workers : HoldsSlot(x)' <=> HoldsSlot(x)
      BY <1>1, <2>1 DEF HoldsSlot
    <2>4. wpc' \in [Workers -> WorkerLabels] /\ job' \in [Workers -> Loads \cup {NoLoad}]
      BY <1>1, <2>1, <2>2 DEF WorkerLabels
    <2>5. TypeOK'
      BY <1>2, <2>1, <2>2, <2>4 DEF Accounting, TypeOK, loadVars, mainVars, historyVars
    <2>6. Shape'
      BY <1>1, <1>2, <2>1, <2>2, <2>3 DEF Accounting, Shape, loadVars, mainVars
    <2>7. SlotsHeld'
      BY <1>2, <2>1, <2>3, HoldingSame DEF Accounting, SlotsHeld, mainVars, historyVars
    <2>8. RequestsBalance' /\ QueuedWaitsForASlot'
      BY <1>1, <1>2, <1>4, <2>1
         DEF Accounting, RequestsBalance, QueuedWaitsForASlot, loadVars, mainVars, historyVars
    <2> QED BY <2>5, <2>6, <2>7, <2>8 DEF Accounting
  <1> QED BY <1>3, <1>4

\* Finishing and reaping move a worker between labels that hold no slot.
LEMMA WorkerLeaves ==
    ASSUME Accounting, NEW w \in Workers, NEW label \in {"none", "done"}, Goto(w, label), ~HoldsSlot(w),
           UNCHANGED <<hostVars, loadVars, slot, job, mainVars, historyVars>>
    PROVE  Accounting'
  <1>1. wpc \in [Workers -> WorkerLabels] /\ wpc' = [wpc EXCEPT ![w] = label]
    BY DEF Goto, Accounting, TypeOK
  <1>2. wpc' \in [Workers -> WorkerLabels]
    BY <1>1 DEF WorkerLabels
  <1>3. \A x \in Workers : HoldsSlot(x)' <=> HoldsSlot(x)
    BY <1>1 DEF HoldsSlot
  <1>4. TypeOK'
    BY <1>2 DEF Accounting, TypeOK, hostVars, loadVars, mainVars, historyVars
  <1>5. Shape'
    BY <1>3 DEF Accounting, Shape, loadVars, mainVars
  <1>6. SlotsHeld'
    BY <1>3, HoldingSame DEF Accounting, SlotsHeld, hostVars, mainVars, historyVars
  <1>7. RequestsBalance' /\ QueuedWaitsForASlot'
    BY DEF Accounting, RequestsBalance, QueuedWaitsForASlot, hostVars, loadVars, mainVars, historyVars
  <1> QED BY <1>4, <1>5, <1>6, <1>7 DEF Accounting

LEMMA WorkerFinishStep ==
    ASSUME Accounting, NEW w \in Workers, WorkerFinish(w) \/ Reap(w)
    PROVE  Accounting'
  BY WorkerLeaves DEF WorkerFinish, Reap, HoldsSlot

-----------------------------------------------------------------------------
\* Main's turn and exit change neither counters nor workers.
LEMMA TurnKeeps ==
    ASSUME Accounting, mstep' = mstep \/ (mstep = "idle" /\ mstep' = "cancel" /\ mload' \in Loads),
           mload' = mload \/ mload' \in Loads, mstep' = mstep => mload' = mload,
           UNCHANGED <<pending, active, activeLimit, outstanding, retained, lockedBy, begun, completed,
                       failed, payload, credits, requestCredit, workerVars, mnew, spawnFailures>>,
           mailbox' \in Seq(Loads), batch' \in Seq(Loads), liveRun' \subseteq Loads,
           cancelled' \subseteq Loads, delivered' \subseteq Loads, runs' \in Nat, where' \in Places,
           slot' \in [Handles -> Loads \cup {NoLoad}]
    PROVE  Accounting'
  <1>1. TypeOK'
    BY DEF Accounting, TypeOK, CallSteps, workerVars
  <1>2. Shape'
    BY DEF Accounting, Shape, HoldsSlot, workerVars
  <1>3. SlotsHeld' /\ RequestsBalance' /\ QueuedWaitsForASlot'
    BY DEF Accounting, SlotsHeld, Holding, HoldsSlot, RequestsBalance, QueuedWaitsForASlot, workerVars
  <1> QED BY <1>1, <1>2, <1>3 DEF Accounting

LEMMA TurnStep ==
    ASSUME Accounting, TurnNext
    PROVE  Accounting'
  <1>1. CASE TakeBatch
    BY <1>1, TurnKeeps, EmptySeq
       DEF TakeBatch, Accounting, TypeOK, Places, loadVars, historyVars
  <1>2. CASE Deliver
    <2>1. batch # <<>> /\ batch \in Seq(Loads)
      BY <1>2 DEF Deliver, Accounting, TypeOK
    <2>2. Head(batch) \in Loads /\ Tail(batch) \in Seq(Loads)
      BY <2>1, HeadTailProperties
    <2>3. slot' \in [Handles -> Loads \cup {NoLoad}]
      BY <1>2 DEF Deliver, Accounting, TypeOK
    <2>4. delivered' \subseteq Loads /\ cancelled' \subseteq Loads
      BY <1>2, <2>2 DEF Deliver, MarkCancelled, Accounting, TypeOK
    <2>5. where' \in Places /\ mstep = "idle" /\ mstep' = "cancel" /\ mload' \in Loads /\ batch' \in Seq(Loads)
      BY <1>2, <2>2 DEF Deliver, Idle, Accounting, TypeOK, Places
    <2>6. mailbox' \in Seq(Loads) /\ runs' \in Nat /\ liveRun' \subseteq Loads
      BY <1>2 DEF Deliver, hostVars, Accounting, TypeOK
    <2> QED BY <1>2, <2>3, <2>4, <2>5, <2>6, TurnKeeps DEF Deliver, hostVars
  <1>3. CASE ListenerReturns \/ EndBatch
    BY <1>3, TurnKeeps
       DEF ListenerReturns, EndBatch, Accounting, TypeOK, Places, hostVars, loadVars, historyVars
  <1> QED BY <1>1, <1>2, <1>3 DEF TurnNext

LEMMA ExitStep ==
    ASSUME Accounting, ShutdownRuntime \/ AtExit \/ BeginRuntimeRun \/ ExitNext
    PROVE  Accounting'
  <1>1. CASE ShutdownRuntime \/ AtExit
    BY <1>1, TurnKeeps
       DEF ShutdownRuntime, AtExit, Accounting, TypeOK, Places, hostVars, historyVars
  <1>2. CASE BeginRuntimeRun
    BY <1>2, TurnKeeps DEF BeginRuntimeRun, Accounting, TypeOK, Places, hostVars, loadVars
  <1>3. ASSUME NEW l \in Loads, CancelBackend(l) PROVE Accounting'
    BY <1>3, TurnKeeps DEF CancelBackend, MarkCancelled, Idle, Accounting, TypeOK, hostVars, historyVars
  <1>4. CASE LauncherCleanup \/ EnterDrain
    BY <1>4, TurnKeeps
       DEF LauncherCleanup, EnterDrain, Accounting, TypeOK, Places, hostVars, loadVars, historyVars
  <1>5. CASE FinishDrain \/ FinishAtExit
    BY <1>5, TurnKeeps, EmptySeq
       DEF FinishDrain, FinishAtExit, Accounting, TypeOK, Places, loadVars, historyVars
  <1> QED BY <1>1, <1>2, <1>3, <1>4, <1>5 DEF ExitNext

-----------------------------------------------------------------------------
LEMMA AccountingInit == Init => Accounting
  <1> SUFFICES ASSUME Init PROVE Accounting
    OBVIOUS
  <1>1. TypeOK
    BY LoadConstants, EmptySeq DEF Init, TypeOK, WorkerLabels, Places, CallSteps
  <1>2. Shape
    BY LoadConstants DEF Init, Shape, HoldsSlot
  <1>3. Holding = {}
    BY DEF Init, Holding, HoldsSlot
  <1>4. SlotsHeld /\ RequestsBalance /\ QueuedWaitsForASlot
    BY <1>3, FS_EmptySet DEF Init, SlotsHeld, RequestsBalance, QueuedWaitsForASlot
  <1> QED BY <1>1, <1>2, <1>4 DEF Accounting

LEMMA AccountingNext == Accounting /\ [Next]_vars => Accounting'
  <1> SUFFICES ASSUME Accounting, [Next]_vars PROVE Accounting'
    OBVIOUS
  <1>1. CASE AppNext
    BY <1>1, BeginStep, CancelHandleStep, SetConcurrencyStep, ExitStep DEF AppNext
  <1>2. CASE HostCall
    BY <1>2, CancelLockedStep, AdmitStep, CompleteAtOnceStep, CompleteOnMainStep, PumpStep,
       SpawnStep, SpawnFailsStep DEF HostCall
  <1>3. CASE TurnNext
    BY <1>3, TurnStep
  <1>4. CASE ExitNext
    BY <1>4, ExitStep
  <1>5. ASSUME NEW w \in Workers, WorkerNextStep(w) \/ Reap(w) PROVE Accounting'
    BY <1>5, WorkerCheckStep, WorkerDecideStep, WorkerPrepareStep, WorkerPreparedStep, WorkerThrowsStep,
       WorkerCompleteStep, WorkerPublishStep, WorkerNextStepKeeps, WorkerFinishStep DEF WorkerNextStep
  <1>6. CASE Gone \/ UNCHANGED vars
    <2>1. UNCHANGED vars
      BY <1>6 DEF Gone
    <2> QED BY <2>1, TurnKeeps
            DEF vars, hostVars, loadVars, mainVars, workerVars, historyVars, Accounting, TypeOK
  <1> QED BY <1>1, <1>2, <1>3, <1>4, <1>5, <1>6 DEF Next

\* The accounting invariant holds in every reachable state, whatever the loads,
\* handles, threads and limits of tcResourceLoad.cpp.
THEOREM AccountingInvariant == Spec => []Accounting
  BY AccountingInit, AccountingNext, PTL DEF Spec

\* The host's and the loads' state is well typed (LoadHost, ResourceLoadState).
THEOREM TypeCorrect == Spec => []TypeOK
  BY AccountingInvariant, PTL DEF Accounting

\* host.active is exactly the slots that workers hold, plus the launch in
\* progress and the launches that failed.
THEOREM SlotsAreHeld == Spec => []SlotsHeld
  BY AccountingInvariant, PTL DEF Accounting

\* host.outstanding is exactly the number of loads that hold a request credit.
THEOREM RequestsAreBalanced == Spec => []RequestsBalance
  BY AccountingInvariant, PTL DEF Accounting

\* Both counters that admit work are exact, so that neither underflows and no
\* credit or slot is lost (but for those of failed launches, which SlotsHeld
\* counts).
THEOREM CountersAreBalanced == Spec => []CountersBalance
  BY SlotsAreHeld, RequestsAreBalanced, PTL DEF CountersBalance

\* No load is left in the queue while a preparation slot is free.
THEOREM NoStrandedLoad == Spec => []QueuedWaitsForASlot
  BY AccountingInvariant, PTL DEF Accounting

-----------------------------------------------------------------------------
(* The request limit.  Only an admission adds a credit, and it counts them *)
(* all (RequestsBalance).                                                  *)

\* Every step but an admission keeps the credits or gives some back.
LEMMA CreditsOnlyReleased ==
    ASSUME Accounting, [Next]_vars, ~Admit
    PROVE  requestCredit' \subseteq requestCredit
  <1>1. ASSUME NEW l, ReleaseCredits(l) PROVE requestCredit' \subseteq requestCredit
    BY <1>1 DEF ReleaseCredits
  <1>2. ASSUME NEW l, Settle(l) PROVE requestCredit' \subseteq requestCredit
    BY <1>1, <1>2 DEF Settle
  <1>3. CASE AppNext
    BY <1>3 DEF AppNext, Begin, CancelHandle, SetConcurrency, ShutdownRuntime, AtExit, BeginRuntimeRun, loadVars
  <1>4. CASE HostCall
    BY <1>1, <1>2, <1>4 DEF HostCall, CancelLocked, CompleteAtOnce, CompleteOnMain, Pump, Spawn, SpawnFails, loadVars
  <1>5. CASE TurnNext
    BY <1>5 DEF TurnNext, TakeBatch, Deliver, ListenerReturns, EndBatch, loadVars
  <1>6. CASE ExitNext
    BY <1>6 DEF ExitNext, CancelBackend, LauncherCleanup, EnterDrain, FinishDrain, FinishAtExit, loadVars
  <1>7. ASSUME NEW w \in Workers, WorkerNextStep(w) \/ Reap(w) PROVE requestCredit' \subseteq requestCredit
    <2>1. CASE WorkerComplete(w)
      BY <1>2, <2>1 DEF WorkerComplete, creditVars
    <2>2. CASE ~WorkerComplete(w)
      BY <1>7, <2>2 DEF WorkerNextStep, Reap, WorkerCheck, WorkerDecide, WorkerPrepare, WorkerPrepared,
         WorkerThrows, WorkerPublish, WorkerNext, WorkerFinish, loadVars
    <2> QED BY <2>1, <2>2
  <1>8. CASE Gone \/ UNCHANGED vars
    BY <1>8 DEF Gone, vars, loadVars
  <1> QED BY <1>3, <1>4, <1>5, <1>6, <1>7, <1>8 DEF Next

LEMMA NetworkRequestsInit == Init => NetworkRequestsBounded
  <1> SUFFICES ASSUME Init PROVE NetworkRequestsBounded
    OBVIOUS
  <1>1. requestCredit \ LocalLoads = {}
    BY DEF Init
  <1> QED BY <1>1, FS_EmptySet, LoadConstants DEF NetworkRequestsBounded

LEMMA NetworkRequestsNext ==
    Accounting /\ NetworkRequestsBounded /\ [Next]_vars => NetworkRequestsBounded'
  <1> SUFFICES ASSUME Accounting, NetworkRequestsBounded, [Next]_vars PROVE NetworkRequestsBounded'
    OBVIOUS
  <1>1. IsFiniteSet(requestCredit) /\ IsFiniteSet(requestCredit \ LocalLoads)
    <2>1. IsFiniteSet(requestCredit)
      BY CreditsFinite DEF Accounting
    <2> QED BY <2>1, FS_Subset
  <1>2. CASE ~Admit
    <2>1. requestCredit' \ LocalLoads \subseteq requestCredit \ LocalLoads
      BY <1>2, CreditsOnlyReleased
    <2>2. Cardinality(requestCredit' \ LocalLoads) <= Cardinality(requestCredit \ LocalLoads)
      BY <1>1, <2>1, FS_Subset
    <2>3. Cardinality(requestCredit' \ LocalLoads) \in Nat /\ Cardinality(requestCredit \ LocalLoads) \in Nat
      BY <1>1, <2>1, FS_Subset, FS_CardinalityType
    <2> QED BY <2>2, <2>3, LoadConstants DEF NetworkRequestsBounded
  <1>3. CASE Admit /\ (mnew \in LocalLoads \/ ~Accepts(mnew))
    <2>1. requestCredit' \ LocalLoads = requestCredit \ LocalLoads
      BY <1>3 DEF Admit
    <2> QED BY <2>1 DEF NetworkRequestsBounded
  <1>4. CASE Admit /\ mnew \notin LocalLoads /\ Accepts(mnew)
    <2>1. outstanding < RequestLimit /\ requestCredit' = requestCredit \cup {mnew}
      BY <1>4 DEF Admit, Accepts
    <2>2. mnew \notin requestCredit
      BY <1>4 DEF Admit, Accounting, Shape
    <2>3. Cardinality(requestCredit') = outstanding + 1 /\ IsFiniteSet(requestCredit')
      BY <1>1, <2>1, <2>2, FS_AddElement DEF Accounting, RequestsBalance
    <2>4. requestCredit' \ LocalLoads \in SUBSET requestCredit'
      OBVIOUS
    <2>5. /\ Cardinality(requestCredit' \ LocalLoads) <= Cardinality(requestCredit')
          /\ Cardinality(requestCredit' \ LocalLoads) \in Nat
      BY <2>3, <2>4, FS_Subset, FS_CardinalityType
    <2> QED BY <2>1, <2>3, <2>5, LoadConstants DEF NetworkRequestsBounded, Accounting, TypeOK
  <1> QED BY <1>2, <1>3, <1>4

\* Network loads never hold more than RequestLimit credits, whatever local
\* files do to host.outstanding (startExternalResourceLoad).
THEOREM NetworkRequestsAreBounded == Spec => []NetworkRequestsBounded
  BY AccountingInvariant, NetworkRequestsInit, NetworkRequestsNext, PTL DEF Spec

\* The counters that admission rests on are exact and within their limit.
THEOREM AdmissionIsAccounted == Spec => []AdmissionAccounted
  BY CountersAreBalanced, NetworkRequestsAreBounded, PTL DEF AdmissionAccounted

-----------------------------------------------------------------------------
(* The promise.  Every load that anything refers to was begun, a load is   *)
(* the current load of one handle at most, and delivery cancels.           *)

Referred ==
    /\ delivered \subseteq cancelled /\ cancelled \subseteq begun /\ begun \subseteq Loads
    /\ pending \in Seq(begun) /\ mailbox \in Seq(begun) /\ batch \in Seq(begun)
    /\ mload \in begun \cup {NoLoad} /\ mnew \in begun \cup {NoLoad}
Jobs == \A w \in Workers : HoldsSlot(w) => job[w] \in begun
Slots ==
    /\ slot \in [Handles -> begun \cup {NoLoad}]
    /\ \A h1, h2 \in Handles : slot[h1] = slot[h2] /\ slot[h1] # NoLoad => h1 = h2

References == Referred /\ Jobs /\ Slots

LEMMA ReferencesInit == Init => References
  <1> SUFFICES ASSUME Init PROVE References
    OBVIOUS
  <1>1. Referred
    BY DEF Init, Referred
  <1>2. Jobs
    BY DEF Init, Jobs, HoldsSlot
  <1>3. Slots
    BY DEF Init, Slots
  <1> QED BY <1>1, <1>2, <1>3 DEF References

LEMMA UnlinkKeeps ==
    ASSUME NEW S, NEW l, pending \in Seq(S), Unlink(l)
    PROVE  pending' \in Seq(S)
  <1>1. CASE \E i \in DOMAIN pending : pending[i] = l
    <2> DEFINE i == CHOOSE i \in DOMAIN pending : pending[i] = l
    <2>1. i \in DOMAIN pending
      BY <1>1
    <2>2. pending' = RemoveAt(pending, i)
      BY <1>1 DEF Unlink
    <2> QED BY <2>1, <2>2, RemoveAtType
  <1>2. CASE ~ \E i \in DOMAIN pending : pending[i] = l
    BY <1>2 DEF Unlink
  <1> QED BY <1>1, <1>2

\* A new load: everything that referred to begun loads still does.
LEMMA BeginRefers ==
    ASSUME References, NEW h \in Handles, NEW l \in Loads, Begin(h, l)
    PROVE  References'
  <1>1. l \notin begun /\ begun' = begun \cup {l} /\ begun \subseteq begun'
    BY DEF Begin
  <1>2. slot[h] \in begun \cup {NoLoad}
    BY DEF References, Slots
  <1>3. pending' \in Seq(begun') /\ mailbox' \in Seq(begun') /\ batch' \in Seq(begun')
    BY <1>1, SeqMonotonic DEF References, Referred, Begin, hostVars
  <1>4. cancelled' \subseteq begun' /\ delivered' \subseteq cancelled'
    BY <1>1, <1>2 DEF References, Referred, Begin, MarkCancelled, historyVars
  <1>5. mload' \in begun' \cup {NoLoad} /\ mnew' \in begun' \cup {NoLoad} /\ begun' \subseteq Loads
    BY <1>1, <1>2 DEF References, Referred, Begin
  <1>6. Jobs'
    BY <1>1 DEF References, Jobs, HoldsSlot, Begin, workerVars
  <1>7. Slots'
    <2>1. slot \in [Handles -> begun \cup {NoLoad}] /\ slot' = [slot EXCEPT ![h] = l]
      BY DEF References, Slots, Begin
    <2>2. \A g \in Handles : slot[g] # l
      BY <1>1, <2>1, LoadConstants
    <2>3. slot' \in [Handles -> begun' \cup {NoLoad}]
      BY <1>1, <2>1
    <2>4. ASSUME NEW h1 \in Handles, NEW h2 \in Handles, slot'[h1] = slot'[h2], slot'[h1] # NoLoad
          PROVE  h1 = h2
      BY <2>1, <2>2, <2>4 DEF References, Slots
    <2> QED BY <2>3, <2>4 DEF Slots
  <1> QED BY <1>3, <1>4, <1>5, <1>6, <1>7 DEF References, Referred

\* A load that stops being awaited.
LEMMA SlotEmptied ==
    ASSUME Slots, begun' = begun, NEW T \in SUBSET Handles,
           slot' = [h \in Handles |-> IF h \in T THEN NoLoad ELSE slot[h]]
    PROVE  Slots'
  <1>1. slot' \in [Handles -> begun' \cup {NoLoad}]
    BY DEF Slots
  <1>2. ASSUME NEW h1 \in Handles, NEW h2 \in Handles, slot'[h1] = slot'[h2], slot'[h1] # NoLoad
        PROVE  h1 = h2
    BY <1>2 DEF Slots
  <1> QED BY <1>1, <1>2 DEF Slots

LEMMA AppRefers ==
    ASSUME Accounting, References, AppNext
    PROVE  References'
  <1>1. ASSUME NEW h \in Handles, CancelHandle(h) PROVE References'
    <2>1. slot[h] \in begun
      BY <1>1 DEF References, Slots, CancelHandle
    <2>2. Referred'
      BY <1>1, <2>1 DEF References, Referred, CancelHandle, MarkCancelled, hostVars, historyVars
    <2>3. Jobs'
      BY <1>1 DEF References, Jobs, HoldsSlot, CancelHandle, workerVars
    <2>4. slot' = [g \in Handles |-> IF g \in {h} THEN NoLoad ELSE slot[g]] /\ begun' = begun
      BY <1>1 DEF References, Slots, CancelHandle
    <2>5. Slots'
      BY <2>4, SlotEmptied DEF References
    <2> QED BY <2>2, <2>3, <2>5 DEF References
  <1>2. ASSUME ShutdownRuntime \/ AtExit \/ BeginRuntimeRun \/ \E n \in Concurrency : SetConcurrency(n)
        PROVE  References'
    <2>1. UNCHANGED <<begun, cancelled, delivered, pending, mailbox, batch, mload, mnew, wpc, job, slot>>
      BY <1>2 DEF ShutdownRuntime, AtExit, BeginRuntimeRun, SetConcurrency,
         hostVars, loadVars, workerVars, historyVars
    <2> QED BY <2>1 DEF References, Referred, Jobs, Slots, HoldsSlot
  <1> QED BY <1>1, <1>2, BeginRefers DEF AppNext

LEMMA HostRefers ==
    ASSUME Accounting, References, HostCall
    PROVE  References'
  <1>1. \A l \in Loads : l # NoLoad
    BY LoadConstants
  <1>2. (mstep \in {"cancel", "spawn"} => mload \in begun) /\ (mstep \in {"admit", "settle"} => mnew \in begun)
    BY <1>1 DEF Accounting, Shape, References, Referred
  <1>3. UNCHANGED <<begun, cancelled, delivered, batch, slot>>
    BY DEF HostCall, CancelLocked, Admit, CompleteAtOnce, CompleteOnMain, Pump, Spawn, SpawnFails,
       loadVars, historyVars
  <1>4. pending' \in Seq(begun)
    <2>1. pending \in Seq(begun)
      BY DEF References, Referred
    <2>2. CASE CancelLocked
      BY <2>1, <2>2, UnlinkKeeps DEF CancelLocked
    <2>3. CASE Admit
      BY <1>2, <2>1, <2>3, AppendProperties DEF Admit
    <2>4. CASE Pump
      BY <2>1, <2>4, HeadTailProperties DEF Pump, PumpStops
    <2>5. CASE CompleteAtOnce \/ CompleteOnMain \/ (\E w \in Workers : Spawn(w)) \/ SpawnFails
      BY <2>1, <2>5 DEF CompleteAtOnce, CompleteOnMain, Spawn, SpawnFails, hostVars
    <2> QED BY <2>2, <2>3, <2>4, <2>5 DEF HostCall
  <1>5. mailbox' \in Seq(begun)
    <2>1. mailbox \in Seq(begun)
      BY DEF References, Referred
    <2>2. CASE CompleteOnMain
      BY <1>2, <2>1, <2>2, AppendProperties DEF CompleteOnMain
    <2>3. CASE ~CompleteOnMain
      BY <2>1, <2>3 DEF HostCall, CancelLocked, Admit, CompleteAtOnce, Pump, Spawn, SpawnFails, hostVars
    <2> QED BY <2>2, <2>3
  <1>6. mload' \in begun \cup {NoLoad} /\ mnew' \in begun \cup {NoLoad}
    <2>1. pending # <<>> => Head(pending) \in begun
      BY HeadTailProperties DEF References, Referred
    <2>2. mload \in begun \cup {NoLoad} /\ mnew \in begun \cup {NoLoad}
      BY DEF References, Referred
    <2>3. mload' \in {mload, NoLoad} \/ (pending # <<>> /\ mload' = Head(pending))
      BY DEF HostCall, CancelLocked, Admit, CompleteAtOnce, CompleteOnMain, Pump, PumpStops, Spawn, SpawnFails
    <2>4. mnew' \in {mnew, NoLoad}
      BY DEF HostCall, CancelLocked, Admit, CompleteAtOnce, CompleteOnMain, Pump, Spawn, SpawnFails
    <2> QED BY <2>1, <2>2, <2>3, <2>4
  <1>7. Jobs'
    <2>1. ASSUME NEW w \in Workers, Spawn(w) PROVE Jobs'
      <3>1. mload \in begun
        BY <1>2, <2>1 DEF Spawn
      <3>2. wpc \in [Workers -> WorkerLabels] /\ job \in [Workers -> Loads \cup {NoLoad}]
        BY DEF Accounting, TypeOK
      <3>3. wpc' = [wpc EXCEPT ![w] = "check"] /\ job' = [job EXCEPT ![w] = mload]
        BY <2>1 DEF Spawn
      <3> QED BY <1>3, <3>1, <3>2, <3>3 DEF References, Jobs, HoldsSlot
    <2>2. CASE ~ \E w \in Workers : Spawn(w)
      BY <1>3, <2>2 DEF HostCall, CancelLocked, Admit, CompleteAtOnce, CompleteOnMain, Pump, SpawnFails,
         workerVars, References, Jobs, HoldsSlot
    <2> QED BY <2>1, <2>2
  <1>8. Slots'
    BY <1>3 DEF References, Slots
  <1>9. Referred'
    BY <1>3, <1>4, <1>5, <1>6 DEF References, Referred
  <1> QED BY <1>7, <1>8, <1>9 DEF References

LEMMA TurnRefers ==
    ASSUME Accounting, References, TurnNext \/ ExitNext
    PROVE  References'
  <1>1. UNCHANGED <<begun, wpc, job, pending, mnew>>
    BY DEF TurnNext, TakeBatch, Deliver, ListenerReturns, EndBatch, ExitNext, CancelBackend,
       LauncherCleanup, EnterDrain, FinishDrain, FinishAtExit, hostVars, loadVars, workerVars
  <1>2. Jobs'
    BY <1>1 DEF References, Jobs, HoldsSlot
  <1>3. batch # <<>> => Head(batch) \in begun /\ Tail(batch) \in Seq(begun)
    BY HeadTailProperties DEF References, Referred
  <1>4. mailbox' \in Seq(begun) /\ batch' \in Seq(begun) /\ mload' \in begun \cup {NoLoad}
    <2>1. mailbox \in Seq(begun) /\ batch \in Seq(begun) /\ mload \in begun \cup {NoLoad}
      BY DEF References, Referred
    <2>2. mailbox' \in {mailbox, <<>>}
      BY DEF TurnNext, TakeBatch, Deliver, ListenerReturns, EndBatch, ExitNext, CancelBackend,
         LauncherCleanup, EnterDrain, FinishDrain, FinishAtExit, hostVars
    <2>3. batch' \in {batch, mailbox} \/ (batch # <<>> /\ batch' = Tail(batch))
      BY DEF TurnNext, TakeBatch, Deliver, ListenerReturns, EndBatch, ExitNext, CancelBackend,
         LauncherCleanup, EnterDrain, FinishDrain, FinishAtExit
    <2>4. mload' = mload \/ (batch # <<>> /\ mload' = Head(batch)) \/ mload' \in begun
      BY DEF TurnNext, TakeBatch, Deliver, ListenerReturns, EndBatch, ExitNext, CancelBackend,
         LauncherCleanup, EnterDrain, FinishDrain, FinishAtExit
    <2>5. <<>> \in Seq(begun)
      BY EmptySeq
    <2>6. mailbox' \in Seq(begun)
      BY <2>1, <2>2, <2>5
    <2>7. batch' \in Seq(begun)
      BY <1>3, <2>1, <2>3
    <2> QED BY <1>3, <2>1, <2>4, <2>6, <2>7
  <1>5. cancelled \subseteq cancelled' /\ cancelled' \subseteq begun /\ delivered' \subseteq cancelled'
    <2>1. CASE Deliver
      BY <1>3, <2>1 DEF Deliver, MarkCancelled, References, Referred
    <2>2. CASE \E l \in Loads : CancelBackend(l)
      BY <2>2 DEF CancelBackend, MarkCancelled, References, Referred, historyVars
    <2>3. CASE ~Deliver /\ ~ \E l \in Loads : CancelBackend(l)
      BY <2>3 DEF TurnNext, TakeBatch, ListenerReturns, EndBatch, ExitNext, LauncherCleanup,
         EnterDrain, FinishDrain, FinishAtExit, loadVars, historyVars, References, Referred
    <2> QED BY <2>1, <2>2, <2>3
  <1>6. Referred'
    BY <1>1, <1>4, <1>5 DEF References, Referred
  <1>7. Slots'
    <2>1. CASE Deliver /\ slot' # slot
      <3> DEFINE T == {h \in Handles : slot[h] = Head(batch)}
      <3>1. slot' = [h \in Handles |-> IF h \in T THEN NoLoad ELSE slot[h]]
        BY <2>1 DEF Deliver
      <3>2. T \in SUBSET Handles
        OBVIOUS
      <3> HIDE DEF T
      <3> QED BY <1>1, <3>1, <3>2, SlotEmptied DEF References
    <2>2. CASE slot' = slot
      BY <1>1, <2>2 DEF References, Slots
    <2>3. Deliver \/ slot' = slot
      BY DEF TurnNext, TakeBatch, ListenerReturns, EndBatch, ExitNext, CancelBackend,
         LauncherCleanup, EnterDrain, FinishDrain, FinishAtExit
    <2> QED BY <2>1, <2>2, <2>3
  <1> QED BY <1>2, <1>6, <1>7 DEF References

LEMMA WorkerRefers ==
    ASSUME Accounting, References, NEW w \in Workers, WorkerNextStep(w) \/ Reap(w)
    PROVE  References' /\ UNCHANGED <<begun, cancelled, delivered, slot>>
  <1>1. UNCHANGED <<begun, cancelled, delivered, slot, batch, mload, mnew>>
    BY DEF WorkerNextStep, Reap, WorkerCheck, WorkerDecide, WorkerPrepare, WorkerPrepared, WorkerThrows,
       WorkerComplete, WorkerPublish, WorkerNext, WorkerFinish, loadVars, mainVars, historyVars
  <1>2. HoldsSlot(w) => job[w] \in begun
    BY DEF References, Jobs
  <1>3. wpc \in [Workers -> WorkerLabels] /\ job \in [Workers -> Loads \cup {NoLoad}]
    BY DEF Accounting, TypeOK
  <1>4. pending \in Seq(begun) /\ (pending # <<>> => Head(pending) \in begun /\ Tail(pending) \in Seq(begun))
    BY HeadTailProperties DEF References, Referred
  <1>5. pending' \in Seq(begun)
    <2>1. pending' = pending \/ (pending # <<>> /\ pending' = Tail(pending))
      BY DEF WorkerNextStep, Reap, WorkerCheck, WorkerDecide, WorkerPrepare, WorkerPrepared, WorkerThrows,
         WorkerComplete, WorkerPublish, WorkerNext, Retires, WorkerFinish, hostVars
    <2> QED BY <1>4, <2>1
  <1>6. mailbox' \in Seq(begun)
    <2>1. mailbox \in Seq(begun)
      BY DEF References, Referred
    <2>2. CASE WorkerPublish(w)
      <3>1. job[w] \in begun
        BY <1>2, <2>2 DEF WorkerPublish, HoldsSlot
      <3> QED BY <2>1, <2>2, <3>1, AppendProperties DEF WorkerPublish
    <2>3. CASE ~WorkerPublish(w)
      BY <2>1, <2>3 DEF WorkerNextStep, Reap, WorkerCheck, WorkerDecide, WorkerPrepare, WorkerPrepared,
         WorkerThrows, WorkerComplete, WorkerNext, WorkerFinish, hostVars
    <2> QED BY <2>2, <2>3
  <1>7. Jobs'
    <2>1. CASE WorkerNext(w) /\ ~Retires
      <3>1. Head(pending) \in begun
        BY <1>4, <2>1 DEF Retires
      <3>2. job' = [job EXCEPT ![w] = Head(pending)] /\ wpc' = [wpc EXCEPT ![w] = "check"]
        BY <2>1 DEF WorkerNext, Goto
      <3> QED BY <1>1, <1>3, <3>1, <3>2 DEF References, Jobs, HoldsSlot
    <2>2. CASE WorkerNext(w) /\ Retires
      <3>1. job' = [job EXCEPT ![w] = NoLoad] /\ wpc' = [wpc EXCEPT ![w] = "finish"]
        BY <2>2 DEF WorkerNext, Goto
      <3> QED BY <1>1, <1>3, <3>1 DEF References, Jobs, HoldsSlot
    <2>3. CASE ~WorkerNext(w)
      <3>1. job' = job /\ \A x \in Workers \ {w} : wpc'[x] = wpc[x]
        BY <1>3, <2>3 DEF WorkerNextStep, Reap, WorkerCheck, WorkerDecide, WorkerPrepare, WorkerPrepared,
           WorkerThrows, WorkerComplete, WorkerPublish, WorkerFinish, Goto
      <3>2. HoldsSlot(w)' => HoldsSlot(w)
        BY <1>3, <2>3 DEF WorkerNextStep, Reap, WorkerCheck, WorkerDecide, WorkerPrepare, WorkerPrepared,
           WorkerThrows, WorkerComplete, WorkerPublish, WorkerFinish, Goto, HoldsSlot
      <3> QED BY <1>1, <3>1, <3>2 DEF References, Jobs, HoldsSlot
    <2> QED BY <2>1, <2>2, <2>3
  <1>8. Referred' /\ Slots'
    BY <1>1, <1>5, <1>6 DEF References, Referred, Slots
  <1> QED BY <1>1, <1>7, <1>8 DEF References

LEMMA ReferencesNext == Accounting /\ References /\ [Next]_vars => References'
  <1> SUFFICES ASSUME Accounting, References, [Next]_vars PROVE References'
    OBVIOUS
  <1>1. CASE Gone \/ UNCHANGED vars
    <2>1. UNCHANGED vars
      BY <1>1 DEF Gone
    <2> QED BY <2>1 DEF References, Referred, Jobs, Slots, HoldsSlot,
         vars, hostVars, loadVars, workerVars, mainVars, historyVars
  <1>2. CASE AppNext
    BY <1>2, AppRefers
  <1>3. CASE HostCall
    BY <1>3, HostRefers
  <1>4. CASE TurnNext \/ ExitNext
    BY <1>4, TurnRefers
  <1>5. CASE \E w \in Workers : WorkerNextStep(w) \/ Reap(w)
    BY <1>5, WorkerRefers
  <1> QED BY <1>1, <1>2, <1>3, <1>4, <1>5 DEF Next

-----------------------------------------------------------------------------
(* The simulation.  Only starting, cancelling and delivering a load change  *)
(* its status or a handle's current load.                                  *)

AbstractStatus == [l \in Loads |-> Status(l)]

LEMMA Stutters ==
    ASSUME UNCHANGED <<begun, cancelled, delivered, slot>>
    PROVE  UNCHANGED <<AbstractStatus, slot>>
  BY DEF AbstractStatus, Status

LEMMA BeginStarts ==
    ASSUME References, NEW h \in Handles, NEW l \in Loads, Begin(h, l)
    PROVE  Promise!Start(h, l)
  <1>1. l \notin begun /\ begun' = begun \cup {l} /\ delivered' = delivered /\ slot' = [slot EXCEPT ![h] = l]
    BY DEF Begin, historyVars
  <1>2. delivered \subseteq cancelled /\ cancelled \subseteq begun
    BY DEF References, Referred
  <1>3. slot[h] \in begun \cup {NoLoad} /\ NoLoad \notin Loads
    BY LoadConstants DEF References, Slots
  <1>4. cancelled' = IF slot[h] = NoLoad THEN cancelled ELSE cancelled \cup {slot[h]}
    BY DEF Begin, MarkCancelled
  <1>5. Status(l) = "new" /\ Status(l)' = "loading"
    BY <1>1, <1>2, <1>3, <1>4 DEF Status
  <1>6. ASSUME NEW k \in Loads, k # l, k = slot[h]
        PROVE  Status(k)' = IF Status(k) = "loading" THEN "cancelled" ELSE Status(k)
    BY <1>1, <1>2, <1>3, <1>4, <1>6 DEF Status
  <1>7. ASSUME NEW k \in Loads, k # l, k # slot[h]
        PROVE  Status(k)' = Status(k)
    BY <1>1, <1>4, <1>7 DEF Status
  <1> QED BY <1>1, <1>5, <1>6, <1>7 DEF Promise!Start, Promise!Dropped

LEMMA CancelHandleCancels ==
    ASSUME References, NEW h \in Handles, CancelHandle(h)
    PROVE  Promise!Cancel(h)
  <1>1. PICK l \in begun : l = slot[h]
    BY DEF References, Slots, CancelHandle
  <1>2. l \in Loads /\ l # NoLoad
    BY LoadConstants DEF References, Referred
  <1>3. begun' = begun /\ delivered' = delivered /\ slot' = [slot EXCEPT ![h] = NoLoad]
        /\ cancelled' = cancelled \cup {l}
    BY <1>1 DEF CancelHandle, MarkCancelled, historyVars
  <1>4. Status(l)' = IF Status(l) = "loading" THEN "cancelled" ELSE Status(l)
    BY <1>3 DEF Status
  <1>5. ASSUME NEW k \in Loads \ {l} PROVE Status(k)' = Status(k)
    BY <1>3 DEF Status
  <1>6. AbstractStatus' = [AbstractStatus EXCEPT ![l] = Promise!Dropped(l)]
    BY <1>2, <1>4, <1>5 DEF AbstractStatus, Promise!Dropped
  <1> QED BY <1>1, <1>2, <1>3, <1>6 DEF Promise!Cancel, AbstractStatus

\* Marking a load cancelled abandons it, or is a stutter if it had ended.
LEMMA MarkAbandons ==
    ASSUME References, NEW l \in begun, cancelled' = cancelled \cup {l},
           UNCHANGED <<begun, delivered, slot>>
    PROVE  Promise!Abandon(l) \/ UNCHANGED <<AbstractStatus, slot>>
  <1>1. l \in Loads /\ delivered \subseteq cancelled
    BY DEF References, Referred
  <1>2. \A k \in Loads \ {l} : Status(k)' = Status(k)
    BY DEF Status
  <1>3. CASE l \in cancelled
    BY <1>3, Stutters
  <1>4. CASE l \notin cancelled
    <2>1. Status(l) = "loading" /\ Status(l)' = "cancelled"
      BY <1>1, <1>4 DEF Status
    <2> QED BY <1>1, <1>2, <2>1 DEF Promise!Abandon
  <1> QED BY <1>3, <1>4

LEMMA DeliverDelivers ==
    ASSUME References, Deliver
    PROVE  \/ \E h \in Handles : Promise!DeliverTo(h)
           \/ \E l \in Loads : Promise!Abandon(l)
           \/ UNCHANGED <<AbstractStatus, slot>>
  <1>0. PICK l \in begun : l = Head(batch)
    BY HeadTailProperties DEF References, Referred, Deliver
  <1>1. begun \subseteq Loads /\ delivered \subseteq cancelled
    BY DEF References, Referred
  <1>2. cancelled' = cancelled \cup {l} /\ begun' = begun
    BY <1>0 DEF Deliver, MarkCancelled
  <1>3. CASE Alive(l) /\ \E h \in Handles : slot[h] = l
    <2>1. PICK h \in Handles : slot[h] = l
      BY <1>3
    <2>2. delivered' = delivered \cup {l} /\ l \notin cancelled
      BY <1>0, <1>3 DEF Deliver, Alive
    <2>3. slot' = [g \in Handles |-> IF slot[g] = l THEN NoLoad ELSE slot[g]]
      BY <1>0, <1>3 DEF Deliver
    <2>4. l # NoLoad
      BY <1>1, LoadConstants
    <2>5. slot' = [slot EXCEPT ![h] = NoLoad]
      BY <2>1, <2>3, <2>4 DEF References, Slots
    <2>6. Status(l) = "loading" /\ Status(l)' = "delivered"
      BY <1>1, <1>2, <2>2 DEF Status
    <2>7. ASSUME NEW k \in Loads \ {l} PROVE Status(k)' = Status(k)
      <3>1. (k \in cancelled' <=> k \in cancelled) /\ (k \in begun' <=> k \in begun)
            /\ (k \in delivered' <=> k \in delivered)
        BY <1>2, <2>2
      <3> QED BY <3>1 DEF Status
    <2>8. AbstractStatus' = [k \in Loads |-> IF k = l THEN "delivered" ELSE Status(k)]
      BY <2>6, <2>7 DEF AbstractStatus
    <2>9. AbstractStatus' = [AbstractStatus EXCEPT ![l] = "delivered"]
      BY <2>8 DEF AbstractStatus
    <2>a. Promise!DeliverTo(h)
      BY <1>1, <2>1, <2>4, <2>5, <2>6, <2>9 DEF Promise!DeliverTo, AbstractStatus
    <2> QED BY <2>a
  <1>4. CASE ~(Alive(l) /\ \E h \in Handles : slot[h] = l)
    <2>1. UNCHANGED <<delivered, slot>>
      BY <1>0, <1>4 DEF Deliver
    <2> QED BY <1>1, <1>2, <2>1, MarkAbandons
  <1> QED BY <1>3, <1>4

LEMMA StepSimulates ==
    ASSUME Accounting, References, [Next]_vars
    PROVE  [Promise!ANext]_<<AbstractStatus, slot>>
  <1>1. CASE \E h \in Handles, l \in Loads : Begin(h, l)
    BY <1>1, BeginStarts DEF Promise!ANext
  <1>2. CASE \E h \in Handles : CancelHandle(h)
    BY <1>2, CancelHandleCancels DEF Promise!ANext
  <1>3. CASE Deliver
    BY <1>3, DeliverDelivers DEF Promise!ANext
  <1>4. ASSUME NEW l \in Loads, CancelBackend(l) PROVE [Promise!ANext]_<<AbstractStatus, slot>>
    <2>1. l \in begun /\ cancelled' = cancelled \cup {l} /\ UNCHANGED <<begun, delivered, slot>>
      BY <1>4 DEF CancelBackend, MarkCancelled, historyVars
    <2> QED BY <2>1, MarkAbandons DEF Promise!ANext
  <1>5. CASE \E w \in Workers : WorkerNextStep(w) \/ Reap(w)
    BY <1>5, WorkerRefers, Stutters
  <1>6. CASE /\ ~ \E h \in Handles, l \in Loads : Begin(h, l)
             /\ ~ \E h \in Handles : CancelHandle(h)
             /\ ~ Deliver
             /\ ~ \E l \in Loads : CancelBackend(l)
             /\ ~ \E w \in Workers : WorkerNextStep(w) \/ Reap(w)
    <2>1. UNCHANGED <<begun, cancelled, delivered, slot>>
      <3>1. CASE HostCall
        BY <3>1 DEF HostCall, CancelLocked, Admit, CompleteAtOnce, CompleteOnMain, Pump, Spawn, SpawnFails,
           loadVars, historyVars
      <3>2. CASE AppNext
        BY <1>6, <3>2 DEF AppNext, SetConcurrency, ShutdownRuntime, AtExit, BeginRuntimeRun,
           loadVars, historyVars
      <3>3. CASE TurnNext \/ ExitNext
        BY <1>6, <3>3 DEF TurnNext, TakeBatch, ListenerReturns, EndBatch, ExitNext, LauncherCleanup,
           EnterDrain, FinishDrain, FinishAtExit, loadVars, historyVars
      <3>4. CASE Gone \/ UNCHANGED vars
        BY <3>4 DEF Gone, vars, loadVars, historyVars
      <3> QED BY <1>6, <3>1, <3>2, <3>3, <3>4 DEF Next
    <2> QED BY <2>1, Stutters
  <1> QED BY <1>1, <1>2, <1>3, <1>4, <1>5, <1>6

LEMMA InitSimulates == Init => Promise!AInit
  BY DEF Init, Promise!AInit, Status

\* The host keeps the promise of loadAsync for any number of handles, loads and
\* threads: one load in progress per handle, delivered once, to its handle, and
\* never after a cancellation (ResourceLoadSlot, deliver).
THEOREM PromiseIsKept == Spec => KeepsPromise
  <1>1. References /\ Accounting /\ [Next]_vars => [Promise!ANext]_<<AbstractStatus, slot>>
    BY StepSimulates
  <1>2. References /\ Accounting /\ [Next]_vars => [Promise!ANext]_(Promise!avars)
    BY <1>1 DEF Promise!avars, AbstractStatus
  <1> QED BY <1>2, InitSimulates, ReferencesInit, ReferencesNext, AccountingInvariant,
          PTL DEF Spec, KeepsPromise, Promise!ASpec

-----------------------------------------------------------------------------
(* Custody.  Until it completes a load is in one pair of hands: main's, the *)
(* queue's or a worker's; from then on in the mailbox, in a batch or in     *)
(* nobody's.  The parts of the invariant need each other: a payload is      *)
(* charged once because a load completes once, it completes once because no *)
(* two workers have it, and a cancelled load owns nothing because the queue *)
(* holds it at most once.                                                   *)

\* What an idle host call, a worker without a slot and a turn's batch hold: nothing.
\* The mutex is held between the two reads of completeResourceLoad, and only there.
AtRest ==
    /\ mstep \in {"idle", "pump", "spawn"} => mnew = NoLoad
    /\ mstep \in {"idle", "pump", "admit", "settle"} => mload = NoLoad
    /\ \A w \in Workers : ~HoldsSlot(w) => job[w] = NoLoad
    /\ \A w \in Workers : wpc[w] \in {"publish", "publishInside"} <=> lockedBy = w
    /\ where \in {"frame", "cancel", "cleanup", "drain", "ended"} => batch = <<>>

\* The loads that main is about to admit, to settle or to launch.
Hand == {l \in Loads : l = mnew \/ (mstep = "spawn" /\ l = mload)}
Waiting == Elements(pending)

Early == {"check", "decide", "prepare", "prepared", "completeInside"}

\* A load waits in one place, and in none once it has completed.
OnePlace ==
    /\ IsInjective(pending)
    /\ Waiting \cap (completed \cup Hand) = {}
    /\ Hand \cap completed = {}
    /\ \A w \in Workers : HoldsSlot(w) => job[w] \notin Waiting \cup Hand
    /\ \A v, w \in Workers : HoldsSlot(v) /\ HoldsSlot(w) /\ job[v] = job[w] => v = w
    /\ \A w \in Workers : wpc[w] \in Early => job[w] \notin completed

\* A result is published once, and after its load has completed.
OnceOut ==
    /\ completed \subseteq begun
    /\ IsInjective(mailbox) /\ IsInjective(batch)
    /\ Elements(mailbox) \cap Elements(batch) = {}
    /\ Elements(mailbox) \cup Elements(batch) \subseteq completed
    /\ \A w \in Workers : wpc[w] \in {"publish", "publishInside"} =>
           job[w] \in completed /\ job[w] \notin Elements(mailbox) \cup Elements(batch)

\* A load is charged for what it owns, from its completion on, until it is
\* cancelled; somebody waits for every load that is not.
Charged ==
    /\ \A l \in Loads : credits[l] # 0 => l \in completed
    /\ \A l \in completed \ cancelled : (l \in failed => payload[l] = 0) /\ credits[l] = payload[l]
    /\ BytesBalance
    /\ NetworkBytesBounded

Wanted ==
    /\ \A l \in begun \ cancelled : \E h \in Handles : slot[h] = l
    /\ mnew \notin cancelled

\* When main's waits are over nothing can start again before the next run.
Ended ==
    where \in {"ended", "gone"} =>
        /\ Idle /\ WorkersEmpty /\ pending = <<>> /\ mailbox = <<>>
        /\ requestCredit = {} /\ \A l \in Loads : credits[l] = 0
        /\ begun \subseteq cancelled

Custody == AtRest /\ OnePlace /\ OnceOut /\ Charged /\ Wanted /\ CancelledOwnsNothing /\ Ended

\* What every step may use.
Known == Accounting /\ References /\ Custody

-----------------------------------------------------------------------------
(* Sequences of loads, as what they hold.                                  *)

LEMMA ElementsIn ==
    ASSUME NEW S, NEW s \in Seq(S)
    PROVE  /\ Elements(s) = {s[i] : i \in 1 .. Len(s)} /\ Elements(s) \subseteq S
           /\ DOMAIN s = 1 .. Len(s) /\ Len(s) \in Nat
           /\ s = <<>> => Elements(s) = {}
  <1>1. DOMAIN s = 1 .. Len(s) /\ Len(s) \in Nat
    BY LenProperties
  <1>2. \A i \in 1 .. Len(s) : s[i] \in S
    BY ElementOfSeq
  <1>3. s = <<>> => Len(s) = 0
    BY EmptySeq
  <1> QED BY <1>1, <1>2, <1>3 DEF Elements

LEMMA ElementsAppend ==
    ASSUME NEW S, NEW s \in Seq(S), NEW x \in S, IsInjective(s), x \notin Elements(s)
    PROVE  Elements(Append(s, x)) = Elements(s) \cup {x} /\ IsInjective(Append(s, x))
  <1> DEFINE a == Append(s, x)
  <1>1. a \in Seq(S) /\ Len(a) = Len(s) + 1 /\ a[Len(a)] = x /\ \A i \in 1 .. Len(s) : a[i] = s[i]
    BY AppendProperties
  <1>2. Elements(s) = {s[i] : i \in 1 .. Len(s)} /\ DOMAIN s = 1 .. Len(s) /\ Len(s) \in Nat
    BY ElementsIn
  <1>3. Elements(a) = {a[i] : i \in 1 .. Len(a)} /\ DOMAIN a = 1 .. Len(a)
    BY <1>1, ElementsIn
  <1> HIDE DEF a
  <1>4. \A i \in 1 .. Len(a) : i \in 1 .. Len(s) \/ i = Len(a)
    BY <1>1, <1>2
  <1>5. Len(a) \in 1 .. Len(a) /\ \A i \in 1 .. Len(s) : i \in 1 .. Len(a)
    BY <1>1, <1>2
  <1>6. Elements(a) = Elements(s) \cup {x}
    BY <1>1, <1>2, <1>3, <1>4, <1>5
  <1>7. IsInjective(a)
    BY <1>1, <1>2, <1>3, <1>4 DEF IsInjective
  <1> QED BY <1>6, <1>7 DEF a

LEMMA ElementsTail ==
    ASSUME NEW S, NEW s \in Seq(S), IsInjective(s), s # <<>>
    PROVE  /\ Head(s) \in Elements(s) /\ Elements(Tail(s)) = Elements(s) \ {Head(s)}
           /\ IsInjective(Tail(s)) /\ Tail(s) \in Seq(S)
  <1> DEFINE t == Tail(s)
  <1>1. t \in Seq(S) /\ Len(t) = Len(s) - 1 /\ Head(s) = s[1] /\ \A i \in 1 .. Len(t) : t[i] = s[i + 1]
    BY HeadTailProperties
  <1>2. Elements(s) = {s[i] : i \in 1 .. Len(s)} /\ DOMAIN s = 1 .. Len(s) /\ Len(s) \in Nat
    BY ElementsIn
  <1>3. Elements(t) = {t[i] : i \in 1 .. Len(t)} /\ DOMAIN t = 1 .. Len(t)
    BY <1>1, ElementsIn
  <1>4. Len(s) # 0
    BY <1>2, EmptySeq
  <1> HIDE DEF t
  <1>5. \A i \in 1 .. Len(t) : i + 1 \in 1 .. Len(s) /\ i + 1 # 1
    BY <1>1, <1>2
  <1>6. \A i \in 1 .. Len(s) : i = 1 \/ (i - 1 \in 1 .. Len(t) /\ (i - 1) + 1 = i)
    BY <1>1, <1>2
  <1>7. 1 \in 1 .. Len(s)
    BY <1>2, <1>4
  <1>8. ASSUME NEW i \in 1 .. Len(t) PROVE t[i] \in Elements(s) \ {s[1]}
    BY <1>1, <1>2, <1>5, <1>7, <1>8 DEF IsInjective
  <1>9. ASSUME NEW x \in Elements(s) \ {s[1]} PROVE x \in Elements(t)
    <2>1. PICK i \in 1 .. Len(s) : x = s[i]
      BY <1>2
    <2>2. i - 1 \in 1 .. Len(t) /\ t[i - 1] = x
      BY <1>1, <1>6, <1>9, <2>1
    <2> QED BY <1>3, <2>2
  <1>10. IsInjective(t)
    <2> SUFFICES ASSUME NEW i \in 1 .. Len(t), NEW j \in 1 .. Len(t), t[i] = t[j] PROVE i = j
      BY <1>3 DEF IsInjective
    <2>1. i + 1 = j + 1
      BY <1>1, <1>2, <1>5 DEF IsInjective
    <2> QED BY <2>1
  <1>11. Elements(t) = Elements(s) \ {s[1]}
    BY <1>3, <1>8, <1>9
  <1> QED BY <1>1, <1>2, <1>7, <1>10, <1>11 DEF t

\* Unlinking takes a load out of a queue that holds it once, and only that load.
LEMMA UnlinkTakes ==
    ASSUME NEW S, pending \in Seq(S), IsInjective(pending), NEW l, Unlink(l)
    PROVE  IsInjective(pending') /\ Elements(pending') = Elements(pending) \ {l}
  <1>1. Elements(pending) = {pending[k] : k \in 1 .. Len(pending)} /\ DOMAIN pending = 1 .. Len(pending)
        /\ Len(pending) \in Nat
    BY ElementsIn
  <1>2. CASE ~ \E i \in DOMAIN pending : pending[i] = l
    <2>1. pending' = pending /\ l \notin Elements(pending)
      BY <1>1, <1>2 DEF Unlink
    <2> QED BY <2>1
  <1>3. CASE \E i \in DOMAIN pending : pending[i] = l
    <2> DEFINE i == CHOOSE i \in DOMAIN pending : pending[i] = l
               n == Len(pending)
    <2>1. i \in 1 .. n /\ pending[i] = l
      BY <1>1, <1>3
    <2>2. pending' = SubSeq(pending, 1, i - 1) \o SubSeq(pending, i + 1, n)
      BY <1>3 DEF Unlink, RemoveAt
    <2> HIDE DEF i
    <2>3. /\ pending' \in Seq(S) /\ Len(pending') = n - 1
          /\ \A k \in 1 .. n - 1 : pending'[k] = IF k < i THEN pending[k] ELSE pending[k + 1]
      <3>0. \A k \in 1 .. n : pending[k] \in S
        BY ElementOfSeq
      <3>1. /\ SubSeq(pending, 1, i - 1) \in Seq(S) /\ Len(SubSeq(pending, 1, i - 1)) = i - 1
            /\ \A k \in 1 .. i - 1 : SubSeq(pending, 1, i - 1)[k] = pending[k]
        <4>1. \A k \in 1 .. i - 1 : pending[k] \in S
          BY <1>1, <2>1, <3>0
        <4>2. 1 \in Int /\ i - 1 \in Int /\ i - 1 >= 0
          BY <1>1, <2>1
        <4> QED BY <1>1, <2>1, <4>1, <4>2, SubSeqProperties
      <3>2. /\ SubSeq(pending, i + 1, n) \in Seq(S) /\ Len(SubSeq(pending, i + 1, n)) = n - i
            /\ \A k \in 1 .. n - i : SubSeq(pending, i + 1, n)[k] = pending[i + k]
        <4>1. \A k \in i + 1 .. n : pending[k] \in S
          BY <1>1, <2>1, <3>0
        <4> DEFINE b == SubSeq(pending, i + 1, n)
        <4>2. i + 1 \in Int /\ n \in Int /\ i + 1 <= n + 1
          BY <1>1, <2>1
        <4>3. /\ b \in Seq(S) /\ Len(b) = IF i + 1 <= n THEN n - (i + 1) + 1 ELSE 0
              /\ \A k \in 1 .. n - (i + 1) + 1 : b[k] = pending[i + 1 + k - 1]
          BY ONLY <4>1, <4>2, SubSeqProperties
        <4> HIDE DEF b
        <4>4. n \in Nat /\ i \in Nat /\ i <= n
          BY <1>1, <2>1
        <4>5. Len(b) = n - i
          BY ONLY <4>3, <4>4
        <4>6. ASSUME NEW k \in 1 .. n - i PROVE b[k] = pending[i + k]
          <5>1. k \in 1 .. n - (i + 1) + 1 /\ i + 1 + k - 1 = i + k
            BY ONLY <4>4, k \in 1 .. n - i
          <5>2. b[k] = pending[i + 1 + k - 1]
            BY <4>3, <5>1
          <5> QED BY <5>1, <5>2
        <4> QED BY <4>3, <4>5, <4>6 DEF b
      <3> DEFINE a == SubSeq(pending, 1, i - 1)
                 b == SubSeq(pending, i + 1, n)
      <3>3. pending' \in Seq(S) /\ Len(pending') = Len(a) + Len(b)
            /\ \A k \in 1 .. Len(a) + Len(b) : pending'[k] = IF k <= Len(a) THEN a[k] ELSE b[k - Len(a)]
        BY <2>2, <3>1, <3>2, ConcatProperties
      <3> HIDE DEF a, b
      <3>4. /\ Len(a) = i - 1 /\ \A k \in 1 .. i - 1 : a[k] = pending[k]
            /\ Len(b) = n - i /\ \A k \in 1 .. n - i : b[k] = pending[i + k]
        BY <3>1, <3>2 DEF a, b
      <3>5. ASSUME NEW k \in 1 .. n - 1 PROVE pending'[k] = IF k < i THEN pending[k] ELSE pending[k + 1]
        <4>1. k \in 1 .. Len(a) + Len(b)
          BY <1>1, <2>1, <3>4
        <4>2. CASE k < i
          BY <1>1, <2>1, <3>3, <3>4, <4>1, <4>2
        <4>3. CASE ~(k < i)
          <5>1. k - (i - 1) \in 1 .. n - i /\ i + (k - (i - 1)) = k + 1 /\ ~(k <= i - 1)
            BY <1>1, <2>1, <4>3
          <5> QED BY <3>3, <3>4, <4>1, <4>3, <5>1
        <4> QED BY <4>2, <4>3
      <3>6. Len(pending') = n - 1
        BY <1>1, <2>1, <3>3, <3>4
      <3> QED BY <3>3, <3>5, <3>6
    <2>4. Elements(pending') = {pending'[k] : k \in 1 .. n - 1} /\ DOMAIN pending' = 1 .. n - 1
      BY <2>3, ElementsIn
    <2>5. ASSUME NEW k \in 1 .. n - 1 PROVE \E j \in 1 .. n : j # i /\ pending'[k] = pending[j]
                                                             /\ j = IF k < i THEN k ELSE k + 1
      BY <1>1, <2>1, <2>3
    <2>6. IsInjective(pending')
      <3> SUFFICES ASSUME NEW j \in 1 .. n - 1, NEW k \in 1 .. n - 1, pending'[j] = pending'[k] PROVE j = k
        BY <2>4 DEF IsInjective
      <3>1. (IF j < i THEN j ELSE j + 1) = (IF k < i THEN k ELSE k + 1)
        BY <1>1, <2>5 DEF IsInjective
      <3> QED BY <2>1, <3>1
    <2>7. Elements(pending') \subseteq Elements(pending) \ {l}
      BY <1>1, <2>1, <2>4, <2>5 DEF IsInjective
    <2>8. ASSUME NEW x \in Elements(pending) \ {l} PROVE x \in Elements(pending')
      <3>1. PICK j \in 1 .. n : x = pending[j]
        BY <1>1
      <3>2. j # i
        BY <2>1, <2>8, <3>1
      <3>3. CASE j < i
        <4>1. j \in 1 .. n - 1 /\ pending'[j] = x
          BY <1>1, <2>1, <2>3, <3>1, <3>3
        <4> QED BY <2>4, <4>1
      <3>4. CASE j > i
        <4>1. j - 1 \in 1 .. n - 1 /\ pending'[j - 1] = x
          <5>1. j - 1 \in 1 .. n - 1 /\ ~(j - 1 < i) /\ (j - 1) + 1 = j
            BY <1>1, <2>1, <3>4
          <5> QED BY <2>3, <3>1, <5>1
        <4> QED BY <2>4, <4>1
      <3> QED BY <1>1, <2>1, <3>2, <3>3, <3>4
    <2> QED BY <2>6, <2>7, <2>8
  <1> QED BY <1>2, <1>3

\* Two sequences that repeat nothing and share nothing, one behind the other.
LEMMA JoinInjective ==
    ASSUME NEW S, NEW a \in Seq(S), NEW b \in Seq(S), IsInjective(a), IsInjective(b),
           Elements(a) \cap Elements(b) = {}
    PROVE  IsInjective(a \o b)
  <1> DEFINE c == a \o b
  <1>1. c \in Seq(S) /\ Len(c) = Len(a) + Len(b)
        /\ \A i \in 1 .. Len(a) + Len(b) : c[i] = IF i <= Len(a) THEN a[i] ELSE b[i - Len(a)]
    BY ConcatProperties
  <1>2. /\ Elements(a) = {a[i] : i \in 1 .. Len(a)} /\ DOMAIN a = 1 .. Len(a) /\ Len(a) \in Nat
        /\ Elements(b) = {b[i] : i \in 1 .. Len(b)} /\ DOMAIN b = 1 .. Len(b) /\ Len(b) \in Nat
    BY ElementsIn
  <1>3. DOMAIN c = 1 .. Len(a) + Len(b)
    BY <1>1, ElementsIn
  <1> HIDE DEF c
  <1> SUFFICES ASSUME NEW i \in 1 .. Len(a) + Len(b), NEW j \in 1 .. Len(a) + Len(b), c[i] = c[j]
               PROVE  i = j
    BY <1>3 DEF IsInjective, c
  <1>4. \A k \in 1 .. Len(a) + Len(b) :
            IF k <= Len(a) THEN k \in 1 .. Len(a) /\ c[k] = a[k]
            ELSE k - Len(a) \in 1 .. Len(b) /\ c[k] = b[k - Len(a)]
    BY <1>1, <1>2
  <1>5. CASE i <= Len(a) /\ j <= Len(a)
    BY <1>2, <1>4, <1>5 DEF IsInjective
  <1>6. CASE ~(i <= Len(a)) /\ ~(j <= Len(a))
    <2>1. i - Len(a) = j - Len(a)
      BY <1>2, <1>4, <1>6 DEF IsInjective
    <2> QED BY <1>2, <2>1
  <1>7. CASE i <= Len(a) <=> ~(j <= Len(a))
    BY <1>2, <1>4, <1>7
  <1> QED BY <1>5, <1>6, <1>7

-----------------------------------------------------------------------------
(* Bytes: what releasing and settling do to the account.                   *)

NetworkLoads == Loads \ LocalLoads

LEMMA SumsFinite ==
    ASSUME TypeOK
    PROVE  /\ IsFiniteSet(Loads) /\ IsFiniteSet(NetworkLoads) /\ NetworkLoads \in SUBSET Loads
           /\ credits \in [Loads -> Int] /\ payload \in [Loads -> Nat]
           /\ SumCredits(Loads) \in Nat /\ SumCredits(NetworkLoads) \in Nat
           /\ SumCredits(NetworkLoads) <= SumCredits(Loads)
  <1>1. IsFiniteSet(Loads) /\ IsFiniteSet(NetworkLoads) /\ NetworkLoads \in SUBSET Loads
    BY LoadConstants, FS_Subset DEF NetworkLoads
  <1>2. credits \in [Loads -> Nat] /\ payload \in [Loads -> Nat]
    BY DEF TypeOK
  <1>3. /\ credits \in [Loads -> Int] /\ \A l \in Loads : credits[l] \in Nat
        /\ \A l \in NetworkLoads : credits[l] \in Nat
    BY <1>1, <1>2
  <1>4. SumFunctionOnSet(credits, Loads) \in Nat /\ SumFunctionOnSet(credits, NetworkLoads) \in Nat
    BY ONLY <1>1, <1>3, SumNat
  <1>5. SumFunctionOnSet(credits, NetworkLoads) <= SumFunctionOnSet(credits, Loads)
    BY ONLY <1>1, <1>3, SumPart
  <1> QED BY <1>1, <1>2, <1>3, <1>4, <1>5 DEF SumCredits

\* One load's charge changes the sums it is part of by the difference.
LEMMA ChargeMovesIn ==
    ASSUME TypeOK, NEW l \in Loads, NEW v \in Nat, credits' = [credits EXCEPT ![l] = v],
           NEW S \in SUBSET Loads
    PROVE  SumCredits(S)' = SumCredits(S) + (IF l \in S THEN v - credits[l] ELSE 0)
  <1>1. IsFiniteSet(S) /\ credits \in [Loads -> Int]
    BY SumsFinite, FS_Subset
  <1>2. credits'[l] = v /\ credits'[l] \in Int /\ (\A k \in S : credits[k] \in Int)
        /\ \A k \in S \ {l} : credits'[k] = credits[k]
    BY <1>1
  <1>3. /\ l \in S => SumFunctionOnSet(credits', S) = SumFunctionOnSet(credits, S) + (credits'[l] - credits[l])
        /\ l \notin S => SumFunctionOnSet(credits', S) = SumFunctionOnSet(credits, S)
        /\ SumFunctionOnSet(credits, S) \in Int
    BY ONLY <1>1, <1>2, SumExcept
  <1> QED BY <1>2, <1>3 DEF SumCredits

LEMMA ChargeMoves ==
    ASSUME TypeOK, NEW l \in Loads, NEW v \in Nat, credits' = [credits EXCEPT ![l] = v]
    PROVE  /\ SumCredits(Loads)' = SumCredits(Loads) + (v - credits[l])
           /\ SumCredits(NetworkLoads)' =
                  SumCredits(NetworkLoads) + (IF l \in NetworkLoads THEN v - credits[l] ELSE 0)
  <1>1. Loads \in SUBSET Loads /\ NetworkLoads \in SUBSET Loads /\ NetworkLoads' = NetworkLoads
    BY DEF NetworkLoads
  <1>2. SumCredits(Loads)' = SumCredits(Loads) + (v - credits[l])
    BY <1>1, ChargeMovesIn
  <1>3. SumFunctionOnSet(credits', NetworkLoads) =
            SumCredits(NetworkLoads) + (IF l \in NetworkLoads THEN v - credits[l] ELSE 0)
    BY <1>1, ChargeMovesIn DEF SumCredits
  <1> QED BY <1>1, <1>2, <1>3 DEF SumCredits

LEMMA ReleaseCharges ==
    ASSUME TypeOK, BytesBalance, NetworkBytesBounded, NEW l \in Loads, ReleaseCredits(l)
    PROVE  BytesBalance' /\ NetworkBytesBounded' /\ credits' = [credits EXCEPT ![l] = 0]
  <1>1. retained' = retained - credits[l] /\ credits' = [credits EXCEPT ![l] = 0]
    BY DEF ReleaseCredits
  <1>2. credits[l] \in Nat /\ retained \in Int
    BY DEF TypeOK
  <1>3. /\ SumCredits(Loads)' = SumCredits(Loads) + (0 - credits[l])
        /\ SumCredits(NetworkLoads)' =
               SumCredits(NetworkLoads) + (IF l \in NetworkLoads THEN 0 - credits[l] ELSE 0)
    BY <1>1, ChargeMoves
  <1>4. SumCredits(Loads) \in Nat /\ SumCredits(NetworkLoads) \in Nat
    BY SumsFinite
  <1>5. BytesBalance'
    BY <1>1, <1>2, <1>3, <1>4 DEF BytesBalance
  <1>6. NetworkBytesBounded'
    <2>1. SumCredits(NetworkLoads) <= ByteLimit
      BY DEF NetworkBytesBounded, NetworkLoads
    <2>2. SumCredits(NetworkLoads)' <= ByteLimit
      BY <1>2, <1>3, <1>4, <2>1, LoadConstants
    <2> QED BY <2>2 DEF NetworkBytesBounded, NetworkLoads
  <1> QED BY <1>1, <1>5, <1>6

\* A load that completes is charged for its payload, or has none.
LEMMA SettleCharges ==
    ASSUME TypeOK, Charged, NEW l \in Loads, l \notin completed, Settle(l)
    PROVE  /\ BytesBalance' /\ NetworkBytesBounded' /\ completed' = completed \cup {l}
           /\ \A k \in Loads \ {l} : credits'[k] = credits[k] /\ payload'[k] = payload[k]
                                     /\ (k \in failed' <=> k \in failed)
           /\ credits'[l] = payload'[l] /\ (l \in failed' => payload'[l] = 0)
           /\ l \in cancelled => payload'[l] = 0
  <1>0. /\ credits \in [Loads -> Int] /\ payload \in [Loads -> Nat] /\ retained \in Int
        /\ completed' = completed \cup {l}
    BY SumsFinite DEF TypeOK, Settle
  <1>1. CASE Refused(l)
    <2>1. /\ failed' \in {failed, failed \cup {l}} /\ payload' = [payload EXCEPT ![l] = 0]
          /\ ReleaseCredits(l)
      BY <1>1 DEF Settle, DiscardPayload
    <2>2. BytesBalance' /\ NetworkBytesBounded' /\ credits' = [credits EXCEPT ![l] = 0]
      BY <2>1, ReleaseCharges DEF Charged
    <2>3. credits'[l] = 0 /\ payload'[l] = 0
      BY <1>0, <2>1, <2>2
    <2>4. \A k \in Loads \ {l} : credits'[k] = credits[k] /\ payload'[k] = payload[k]
      BY <1>0, <2>1, <2>2
    <2>5. \A k \in Loads \ {l} : k \in failed' <=> k \in failed
      BY <2>1
    <2> QED BY <1>0, <2>2, <2>3, <2>4, <2>5
  <1>2. CASE ~Refused(l)
    <2>1. /\ retained' = retained + payload[l] /\ credits' = [credits EXCEPT ![l] = payload[l]]
          /\ failed' = failed /\ payload' = payload
      BY <1>2 DEF Settle
    <2>2. l \notin cancelled /\ l \notin failed /\ (l \in NetworkLoads => retained + payload[l] <= ByteLimit)
      <3>1. payload[l] \in Nat
        BY <1>0
      <3> QED BY <1>0, <1>2, <3>1, LoadConstants DEF Refused, OverBudget, NetworkLoads
    <2>3. credits[l] = 0 /\ payload[l] \in Nat
      BY <1>0 DEF Charged
    <2>4. /\ SumCredits(Loads)' = SumCredits(Loads) + (payload[l] - credits[l])
          /\ SumCredits(NetworkLoads)' =
                 SumCredits(NetworkLoads) + (IF l \in NetworkLoads THEN payload[l] - credits[l] ELSE 0)
      BY <2>1, <2>3, ChargeMoves
    <2>5. /\ SumCredits(Loads) \in Nat /\ SumCredits(NetworkLoads) \in Nat
          /\ SumCredits(NetworkLoads) <= SumCredits(Loads)
      BY SumsFinite
    <2>6. retained = SumCredits(Loads) /\ SumCredits(NetworkLoads) <= ByteLimit
      BY DEF Charged, BytesBalance, NetworkBytesBounded, NetworkLoads
    <2>7. retained' = SumCredits(Loads)'
      BY <1>0, <2>1, <2>3, <2>4, <2>5, <2>6
    <2>8. SumCredits(NetworkLoads)' <= ByteLimit
      <3>1. CASE l \in NetworkLoads
        BY <2>2, <2>3, <2>4, <2>5, <2>6, <3>1, LoadConstants
      <3>2. CASE l \notin NetworkLoads
        BY <2>4, <2>5, <2>6, <3>2
      <3> QED BY <3>1, <3>2
    <2>9. \A k \in Loads \ {l} : credits'[k] = credits[k]
      BY <1>0, <2>1
    <2>10. credits'[l] = payload[l]
      BY <1>0, <2>1
    <2> QED BY <1>0, <2>1, <2>2, <2>7, <2>8, <2>9, <2>10
            DEF BytesBalance, NetworkBytesBounded, NetworkLoads
  <1> QED BY <1>1, <1>2

-----------------------------------------------------------------------------
(* Who holds what between calls: AtRest.                                   *)

LEMMA AtRestMain ==
    ASSUME Known, AppNext \/ HostCall
    PROVE  AtRest'
  <1> USE DEF hostVars, loadVars, workerVars, historyVars
  <1>0. AtRest /\ TypeOK
    BY DEF Known, Accounting, Custody
  <1>1. ASSUME NEW h \in Handles, NEW l \in Loads, Begin(h, l) PROVE AtRest'
    BY <1>0, <1>1 DEF AtRest, Begin, HoldsSlot
  <1>2. ASSUME NEW h \in Handles, CancelHandle(h) PROVE AtRest'
    BY <1>0, <1>2 DEF AtRest, CancelHandle, HoldsSlot
  <1>3. ASSUME NEW n \in Concurrency, SetConcurrency(n) PROVE AtRest'
    BY <1>0, <1>3 DEF AtRest, SetConcurrency, AppCode, Idle, HoldsSlot
  <1>4. CASE ShutdownRuntime \/ AtExit
    BY <1>0, <1>4 DEF AtRest, ShutdownRuntime, AtExit, HoldsSlot
  <1>5. CASE BeginRuntimeRun
    BY <1>0, <1>5 DEF AtRest, BeginRuntimeRun, HoldsSlot
  <1>6. CASE CancelLocked \/ Admit \/ CompleteAtOnce \/ CompleteOnMain
    BY <1>0, <1>6 DEF AtRest, CancelLocked, Admit, CompleteAtOnce, CompleteOnMain, HoldsSlot
  <1>7. CASE Pump \/ SpawnFails
    BY <1>0, <1>7 DEF AtRest, Pump, SpawnFails, HoldsSlot
  <1>8. ASSUME NEW w \in Workers, Spawn(w) PROVE AtRest'
    <2>1. wpc \in [Workers -> WorkerLabels] /\ job \in [Workers -> Loads \cup {NoLoad}]
      BY <1>0 DEF TypeOK
    <2> QED BY <1>0, <1>8, <2>1 DEF AtRest, Spawn, LockFree, HoldsSlot
  <1> QED BY <1>1, <1>2, <1>3, <1>4, <1>5, <1>6, <1>7, <1>8 DEF AppNext, HostCall

LEMMA AtRestOther ==
    ASSUME Known, TurnNext \/ ExitNext \/ (\E w \in Workers : WorkerNextStep(w) \/ Reap(w))
    PROVE  AtRest'
  <1> USE DEF hostVars, loadVars, workerVars, mainVars, historyVars, creditVars
  <1>0. /\ AtRest /\ TypeOK /\ \A w \in Workers : w # NoWorker
        /\ wpc \in [Workers -> WorkerLabels] /\ job \in [Workers -> Loads \cup {NoLoad}]
    BY LoadConstants DEF Known, Accounting, Custody, TypeOK
  <1>1. CASE TakeBatch \/ ListenerReturns \/ EndBatch
    BY <1>0, <1>1 DEF AtRest, TakeBatch, ListenerReturns, EndBatch, HoldsSlot
  <1>2. CASE Deliver
    BY <1>0, <1>2 DEF AtRest, Deliver, Idle, HoldsSlot
  <1>3. ASSUME NEW l \in Loads, CancelBackend(l) PROVE AtRest'
    BY <1>0, <1>3 DEF AtRest, CancelBackend, Idle, HoldsSlot
  <1>4. CASE LauncherCleanup \/ EnterDrain \/ FinishDrain \/ FinishAtExit
    BY <1>0, <1>4 DEF AtRest, LauncherCleanup, EnterDrain, FinishDrain, FinishAtExit, HoldsSlot
  <1>5. ASSUME NEW w \in Workers, WorkerNextStep(w) \/ Reap(w) PROVE AtRest'
    <2>0. UNCHANGED <<mstep, mnew, mload, where, batch>>
      BY <1>5 DEF WorkerNextStep, WorkerCheck, WorkerDecide, WorkerPrepare, WorkerPrepared,
         WorkerThrows, WorkerComplete, WorkerPublish, WorkerNext, WorkerFinish, Reap
    <2>1. CASE WorkerComplete(w)
      <3>1. job' = job
        BY <2>1 DEF WorkerComplete
      <3>2. CASE Settled(job[w])
        <4>1. lockedBy' = lockedBy /\ wpc' = [wpc EXCEPT ![w] = IF wpc[w] = "complete" THEN "next" ELSE "complete"]
              /\ wpc[w] \in {"completeInside", "complete"}
          BY <2>1, <3>2 DEF WorkerComplete, Goto
        <4> QED BY <1>0, <2>0, <3>1, <4>1 DEF AtRest, HoldsSlot
      <3>3. CASE ~Settled(job[w])
        <4>1. /\ lockedBy' = w /\ lockedBy = NoWorker
              /\ wpc' = [wpc EXCEPT ![w] = IF wpc[w] = "complete" THEN "publish" ELSE "publishInside"]
              /\ wpc[w] \in {"completeInside", "complete"}
          BY <2>1, <3>3 DEF WorkerComplete, Goto, LockFree
        <4> QED BY <1>0, <2>0, <3>1, <4>1 DEF AtRest, HoldsSlot
      <3> QED BY <3>2, <3>3
    <2>2. CASE WorkerPublish(w)
      BY <1>0, <2>0, <2>2 DEF AtRest, WorkerPublish, Goto, HoldsSlot
    <2>3. CASE WorkerNext(w)
      BY <1>0, <2>0, <2>3 DEF AtRest, WorkerNext, Goto, HoldsSlot
    <2>4. CASE WorkerFinish(w) \/ Reap(w)
      BY <1>0, <2>0, <2>4 DEF AtRest, WorkerFinish, Reap, Goto, HoldsSlot
    <2>5. CASE WorkerCheck(w) \/ WorkerDecide(w) \/ WorkerPrepare(w) \/ WorkerPrepared(w) \/ WorkerThrows(w)
      <3>1. \E x \in {"decide", "complete", "prepare", "prepared", "completeInside"} : wpc' = [wpc EXCEPT ![w] = x]
        BY <2>5 DEF WorkerCheck, WorkerDecide, WorkerPrepare, WorkerPrepared, WorkerThrows, Goto
      <3>2. wpc[w] \in {"check", "decide", "prepare", "prepared"} /\ job' = job /\ lockedBy' = lockedBy
        BY <2>5 DEF WorkerCheck, WorkerDecide, WorkerPrepare, WorkerPrepared, WorkerThrows
      <3> QED BY <1>0, <2>0, <3>1, <3>2 DEF AtRest, HoldsSlot
    <2> QED BY <1>5, <2>1, <2>2, <2>3, <2>4, <2>5 DEF WorkerNextStep
  <1> QED BY <1>1, <1>2, <1>3, <1>4, <1>5 DEF TurnNext, ExitNext

-----------------------------------------------------------------------------
(* A load is in one place: OnePlace.                                       *)

\* What the parts of Known say of the places, in one fact.
Sound ==
    /\ AtRest /\ OnePlace /\ OnceOut /\ TypeOK /\ Shape
    /\ pending \in Seq(Loads) /\ mailbox \in Seq(Loads) /\ batch \in Seq(Loads)
    /\ wpc \in [Workers -> WorkerLabels] /\ job \in [Workers -> Loads \cup {NoLoad}]
    /\ Waiting \subseteq begun /\ mnew \in begun \cup {NoLoad} /\ begun \subseteq Loads
    /\ NoLoad \notin Loads /\ NoWorker \notin Workers
    /\ \A w \in Workers : HoldsSlot(w) => job[w] \in begun

LEMMA KnownSound == Known => Sound
  <1> SUFFICES ASSUME Known PROVE Sound
    OBVIOUS
  <1>1. pending \in Seq(begun) /\ mnew \in begun \cup {NoLoad} /\ begun \subseteq Loads /\ Jobs
    BY DEF Known, References, Referred
  <1>2. Waiting \subseteq begun
    BY <1>1, ElementsIn DEF Waiting
  <1> QED BY <1>1, <1>2, LoadConstants DEF Sound, Known, Custody, Accounting, TypeOK, Jobs

\* Nothing moves, or main lets go of something it had in hand.
LEMMA PlacesStay ==
    ASSUME OnePlace, UNCHANGED <<pending, completed, job>>, Hand' \subseteq Hand,
           \A w \in Workers : (HoldsSlot(w)' => HoldsSlot(w)) /\ (wpc'[w] \in Early => wpc[w] \in Early)
    PROVE  OnePlace'
  <1>1. Waiting' = Waiting /\ IsInjective(pending')
    BY DEF Waiting, Elements, OnePlace
  <1> QED BY <1>1 DEF OnePlace

LEMMA BeginPlaces ==
    ASSUME Known, NEW h \in Handles, NEW l \in Loads, Begin(h, l)
    PROVE  OnePlace'
  <1>0. Sound
    BY KnownSound
  <1>1. /\ l \notin begun /\ UNCHANGED <<pending, completed, wpc, job>> /\ mnew' = l /\ mstep' # "spawn"
    BY DEF Begin, hostVars, workerVars
  <1>2. Hand' = {l} /\ Waiting' = Waiting /\ IsInjective(pending')
    BY <1>0, <1>1 DEF Hand, Waiting, Elements, Sound, OnePlace
  <1>3. l \notin completed /\ l \notin Waiting /\ \A w \in Workers : HoldsSlot(w) => job[w] # l
    BY <1>0, <1>1 DEF Sound, OnceOut
  <1>4. \A w \in Workers : HoldsSlot(w)' = HoldsSlot(w)
    BY <1>1 DEF HoldsSlot
  <1> QED BY <1>0, <1>1, <1>2, <1>3, <1>4 DEF Sound, OnePlace

LEMMA CancelLockedPlaces ==
    ASSUME Known, CancelLocked
    PROVE  OnePlace'
  <1>0. Sound
    BY KnownSound
  <1>1. Unlink(mload) /\ UNCHANGED <<completed, wpc, job, mnew>> /\ mstep' # "spawn"
    BY DEF CancelLocked, workerVars
  <1>2. IsInjective(pending') /\ Waiting' = Waiting \ {mload}
    BY <1>0, <1>1, UnlinkTakes DEF Waiting, Sound, OnePlace
  <1>3. Hand' \subseteq Hand /\ \A w \in Workers : HoldsSlot(w)' = HoldsSlot(w)
    BY <1>1 DEF Hand, HoldsSlot
  <1> QED BY <1>0, <1>1, <1>2, <1>3 DEF Sound, OnePlace

LEMMA AdmitPlaces ==
    ASSUME Known, Admit
    PROVE  OnePlace'
  <1>0. Sound /\ mnew \in Loads /\ mnew \in Hand
    BY KnownSound DEF Admit, Known, Accounting, Shape, Hand
  <1>1. UNCHANGED <<completed, wpc, job, mload>> /\ mstep' # "spawn" /\ \A w \in Workers : HoldsSlot(w)' = HoldsSlot(w)
    BY DEF Admit, workerVars, HoldsSlot
  <1>2. CASE Accepts(mnew)
    <2>1. pending' = Append(pending, mnew) /\ mnew' = NoLoad
      BY <1>2 DEF Admit
    <2>2. mnew \notin Waiting
      BY <1>0 DEF Sound, OnePlace
    <2>3. Waiting' = Waiting \cup {mnew} /\ IsInjective(pending')
      BY <1>0, <2>1, <2>2, ElementsAppend DEF Sound, OnePlace, Waiting
    <2>4. Hand' = {}
      BY <1>0, <1>1, <2>1 DEF Hand, Sound
    <2> QED BY <1>0, <1>1, <2>3, <2>4 DEF Sound, OnePlace
  <1>3. CASE ~Accepts(mnew)
    <2>1. pending' = pending /\ mnew' = mnew
      BY <1>3 DEF Admit
    <2>2. Hand' \subseteq Hand
      BY <1>1, <2>1 DEF Hand
    <2> QED BY <1>0, <1>1, <2>1, <2>2, PlacesStay DEF Sound
  <1> QED BY <1>2, <1>3

LEMMA CompleteOnMainPlaces ==
    ASSUME Known, CompleteOnMain
    PROVE  OnePlace'
  <1>0. Sound /\ mnew \in Loads /\ mnew \in Hand
    BY KnownSound DEF CompleteOnMain, Known, Accounting, Shape, Hand
  <1>1. /\ UNCHANGED <<pending, wpc, job, mload>> /\ mstep' # "spawn" /\ completed' = completed \cup {mnew}
        /\ mnew' = NoLoad /\ \A w \in Workers : HoldsSlot(w)' = HoldsSlot(w)
    BY DEF CompleteOnMain, Settle, workerVars, HoldsSlot
  <1>2. Hand' = {} /\ Waiting' = Waiting /\ IsInjective(pending')
    BY <1>0, <1>1 DEF Hand, Waiting, Elements, Sound, OnePlace
  <1>3. \A w \in Workers : wpc[w] \in Early => HoldsSlot(w)
    BY DEF Early, HoldsSlot
  <1> QED BY <1>0, <1>1, <1>2, <1>3 DEF Sound, OnePlace

LEMMA PumpPlaces ==
    ASSUME Known, Pump
    PROVE  OnePlace'
  <1>0. Sound /\ Hand = {}
    BY KnownSound DEF Pump, Sound, Hand, AtRest
  <1>1. UNCHANGED <<completed, wpc, job, mnew>> /\ \A w \in Workers : HoldsSlot(w)' = HoldsSlot(w)
    BY DEF Pump, loadVars, workerVars, HoldsSlot
  <1>2. CASE PumpStops
    <2>1. pending' = pending /\ mload' = mload /\ mstep' # "spawn"
      BY <1>2 DEF Pump
    <2>2. Hand' \subseteq Hand
      BY <1>1, <2>1 DEF Hand
    <2> QED BY <1>0, <1>1, <2>1, <2>2, PlacesStay DEF Sound
  <1>3. CASE ~PumpStops
    <2>1. pending # <<>> /\ mload' = Head(pending) /\ pending' = Tail(pending) /\ mnew' = NoLoad
      BY <1>0, <1>3 DEF Pump, PumpStops, Sound, AtRest
    <2>2. mload' \in Waiting /\ Waiting' = Waiting \ {mload'} /\ IsInjective(pending')
      BY <1>0, <2>1, ElementsTail DEF Sound, OnePlace, Waiting
    <2>3. Hand' \subseteq {mload'}
      BY <1>0, <2>1 DEF Hand, Sound
    <2> QED BY <1>0, <1>1, <2>2, <2>3 DEF Sound, OnePlace
  <1> QED BY <1>2, <1>3

LEMMA SpawnPlaces ==
    ASSUME Known, NEW w \in Workers, Spawn(w)
    PROVE  OnePlace'
  <1>0. Sound /\ mload \in Loads /\ mload \in Hand
    BY KnownSound DEF Spawn, Known, Accounting, Shape, Hand
  <1>1. /\ UNCHANGED <<pending, completed, mnew>> /\ mstep' # "spawn" /\ mnew = NoLoad
        /\ job' = [job EXCEPT ![w] = mload] /\ wpc' = [wpc EXCEPT ![w] = "check"] /\ wpc[w] = "none"
    BY <1>0 DEF Spawn, hostVars, loadVars, Sound, AtRest
  <1>2. Hand' = {} /\ Waiting' = Waiting /\ IsInjective(pending')
    BY <1>0, <1>1 DEF Hand, Waiting, Elements, Sound, OnePlace
  <1>3. /\ job'[w] = mload /\ wpc'[w] = "check"
        /\ \A v \in Workers \ {w} : job'[v] = job[v] /\ wpc'[v] = wpc[v]
    BY <1>0, <1>1 DEF Sound
  <1>4. /\ HoldsSlot(w)' /\ \A v \in Workers \ {w} : HoldsSlot(v)' = HoldsSlot(v)
    BY <1>3 DEF HoldsSlot
  <1>5. \A v \in Workers : HoldsSlot(v) => job[v] # mload
    BY <1>0 DEF Sound, OnePlace
  <1>6. \A v, u \in Workers : HoldsSlot(v)' /\ HoldsSlot(u)' /\ job'[v] = job'[u] => v = u
    BY <1>0, <1>3, <1>4, <1>5 DEF Sound, OnePlace
  <1>7. \A v \in Workers : HoldsSlot(v)' => job'[v] \notin Waiting' \cup Hand'
    BY <1>0, <1>2, <1>3, <1>4 DEF Sound, OnePlace
  <1>8. \A v \in Workers : wpc'[v] \in Early => job'[v] \notin completed'
    BY <1>0, <1>1, <1>3 DEF Sound, OnePlace
  <1> QED BY <1>0, <1>1, <1>2, <1>6, <1>7, <1>8 DEF Sound, OnePlace

\* The steps of a worker that neither complete a load nor take or drop a job.
Minor(w) ==
    WorkerCheck(w) \/ WorkerDecide(w) \/ WorkerPrepare(w) \/ WorkerPrepared(w) \/ WorkerThrows(w)
        \/ WorkerPublish(w) \/ WorkerFinish(w) \/ Reap(w)

LEMMA MinorPlaces ==
    ASSUME Known, NEW w \in Workers, Minor(w)
    PROVE  OnePlace'
  <1> USE DEF hostVars, loadVars, mainVars
  <1>0. Sound
    BY KnownSound
  <1>1. UNCHANGED <<pending, completed, job, mnew, mload, mstep>>
    BY DEF Minor, WorkerCheck, WorkerDecide, WorkerPrepare, WorkerPrepared, WorkerThrows, WorkerPublish,
       WorkerFinish, Reap
  <1>2. /\ \A v \in Workers \ {w} : wpc'[v] = wpc[v]
        /\ \/ wpc[w] \in {"check", "decide", "prepare", "prepared"} /\ HoldsSlot(w)
           \/ wpc'[w] \notin Early /\ (HoldsSlot(w)' => HoldsSlot(w))
    <2>1. CASE WorkerCheck(w) \/ WorkerDecide(w) \/ WorkerPrepare(w) \/ WorkerPrepared(w) \/ WorkerThrows(w)
      <3>1. \E x \in {"decide", "complete", "prepare", "prepared", "completeInside"} : wpc' = [wpc EXCEPT ![w] = x]
        BY <2>1 DEF WorkerCheck, WorkerDecide, WorkerPrepare, WorkerPrepared, WorkerThrows, Goto
      <3>2. wpc[w] \in {"check", "decide", "prepare", "prepared"}
        BY <2>1 DEF WorkerCheck, WorkerDecide, WorkerPrepare, WorkerPrepared, WorkerThrows
      <3> QED BY <1>0, <3>1, <3>2 DEF Sound, HoldsSlot
    <2>2. CASE WorkerPublish(w) \/ WorkerFinish(w) \/ Reap(w)
      <3>1. \E x \in {"next", "complete", "done", "none"} : wpc' = [wpc EXCEPT ![w] = x]
                /\ (x \in {"next", "complete"} => wpc[w] \in {"publish", "publishInside"})
        BY <2>2 DEF WorkerPublish, WorkerFinish, Reap, Goto
      <3> QED BY <1>0, <3>1 DEF Sound, HoldsSlot, Early
    <2> QED BY <2>1, <2>2 DEF Minor
  <1>3. \A v \in Workers : (HoldsSlot(v)' => HoldsSlot(v)) /\ (wpc'[v] \in Early => wpc[v] \in Early)
    <2> SUFFICES ASSUME NEW v \in Workers
                 PROVE  (HoldsSlot(v)' => HoldsSlot(v)) /\ (wpc'[v] \in Early => wpc[v] \in Early)
      OBVIOUS
    <2>1. CASE v = w
      BY <1>2, <2>1 DEF Early
    <2>2. CASE v # w
      BY <1>2, <2>2 DEF HoldsSlot
    <2> QED BY <2>1, <2>2
  <1>4. Hand' \subseteq Hand
    BY <1>1 DEF Hand
  <1> QED BY <1>0, <1>1, <1>3, <1>4, PlacesStay DEF Sound

LEMMA WorkerCompletePlaces ==
    ASSUME Known, NEW w \in Workers, WorkerComplete(w)
    PROVE  OnePlace' /\ (~Settled(job[w]) => job[w] \in begun \ completed)
  <1>0. Sound /\ wpc[w] \in {"complete", "completeInside"} /\ HoldsSlot(w)
    BY KnownSound DEF WorkerComplete, HoldsSlot
  <1>1. UNCHANGED <<pending, job, mnew, mload, mstep>> /\ completed' \subseteq completed \cup {job[w]}
    BY DEF WorkerComplete, Settle, mainVars
  <1>2. \E x \in {"next", "complete", "publish", "publishInside"} : wpc' = [wpc EXCEPT ![w] = x]
    BY DEF WorkerComplete, Goto
  <1>3. /\ wpc'[w] \notin Early /\ \A v \in Workers \ {w} : wpc'[v] = wpc[v]
        /\ \A v \in Workers : HoldsSlot(v)' = HoldsSlot(v)
    BY <1>0, <1>2 DEF Sound, HoldsSlot, Early
  <1>4. Hand' = Hand /\ Waiting' = Waiting /\ IsInjective(pending')
    BY <1>0, <1>1 DEF Hand, Waiting, Elements, Sound, OnePlace
  <1>5. \A v \in Workers : wpc[v] \in Early => HoldsSlot(v)
    BY DEF Early, HoldsSlot
  <1>6. \A v \in Workers : wpc'[v] \in Early => job'[v] \notin completed'
    BY <1>0, <1>1, <1>3, <1>5 DEF Sound, OnePlace
  <1>7. OnePlace'
    BY <1>0, <1>1, <1>3, <1>4, <1>6 DEF Sound, OnePlace
  <1> QED BY <1>0, <1>7 DEF Sound, Settled

LEMMA WorkerNextPlaces ==
    ASSUME Known, NEW w \in Workers, WorkerNext(w)
    PROVE  OnePlace'
  <1>0. Sound /\ wpc[w] = "next" /\ HoldsSlot(w)
    BY KnownSound DEF WorkerNext, HoldsSlot
  <1>1. UNCHANGED <<completed, mnew, mload, mstep>> /\ Hand' = Hand
    BY DEF WorkerNext, mainVars, loadVars, Hand
  <1>2. CASE Retires
    <2>1. pending' = pending /\ job' = [job EXCEPT ![w] = NoLoad] /\ wpc' = [wpc EXCEPT ![w] = "finish"]
      BY <1>2 DEF WorkerNext, Goto
    <2>2. /\ ~HoldsSlot(w)' /\ wpc'[w] \notin Early
          /\ \A v \in Workers \ {w} : job'[v] = job[v] /\ wpc'[v] = wpc[v] /\ HoldsSlot(v)' = HoldsSlot(v)
      BY <1>0, <2>1 DEF Sound, HoldsSlot, Early
    <2>3. Waiting' = Waiting /\ IsInjective(pending')
      BY <1>0, <2>1 DEF Waiting, Elements, Sound, OnePlace
    <2> QED BY <1>0, <1>1, <2>2, <2>3 DEF Sound, OnePlace
  <1>3. CASE ~Retires
    <2>1. /\ pending # <<>> /\ pending' = Tail(pending) /\ job' = [job EXCEPT ![w] = Head(pending)]
          /\ wpc' = [wpc EXCEPT ![w] = "check"]
      BY <1>3 DEF WorkerNext, Goto, Retires
    <2> DEFINE l == Head(pending)
    <2>2. l \in Waiting /\ Waiting' = Waiting \ {l} /\ IsInjective(pending')
      BY <1>0, <2>1, ElementsTail DEF Sound, OnePlace, Waiting
    <2>3. l \in Loads
      BY <1>0, <2>2 DEF Sound
    <2> HIDE DEF l
    <2>4. job' = [job EXCEPT ![w] = l]
      BY <2>1 DEF l
    <2>5. /\ job'[w] = l /\ HoldsSlot(w)'
          /\ \A v \in Workers \ {w} : job'[v] = job[v] /\ wpc'[v] = wpc[v] /\ HoldsSlot(v)' = HoldsSlot(v)
      BY <1>0, <2>1, <2>4 DEF Sound, HoldsSlot
    <2>6. \A v \in Workers : HoldsSlot(v) => job[v] # l
      BY <1>0, <2>2 DEF Sound, OnePlace
    <2>7. \A v, u \in Workers : HoldsSlot(v)' /\ HoldsSlot(u)' /\ job'[v] = job'[u] => v = u
      BY <1>0, <2>5, <2>6 DEF Sound, OnePlace
    <2>8. \A v \in Workers : HoldsSlot(v)' => job'[v] \notin Waiting' \cup Hand'
      BY <1>0, <1>1, <2>2, <2>5 DEF Sound, OnePlace
    <2>9. \A v \in Workers : wpc'[v] \in Early => job'[v] \notin completed'
      BY <1>0, <1>1, <2>2, <2>5 DEF Sound, OnePlace
    <2> QED BY <1>0, <1>1, <2>2, <2>7, <2>8, <2>9 DEF Sound, OnePlace
  <1> QED BY <1>2, <1>3

LEMMA OnePlaceNext ==
    ASSUME Known, [Next]_vars
    PROVE  OnePlace'
  <1> USE DEF hostVars, loadVars, workerVars
  <1>0. Sound
    BY KnownSound
  <1>1. ASSUME UNCHANGED <<pending, completed, job, wpc, mnew>>,
               UNCHANGED <<mstep, mload>> \/ mstep' # "spawn"
        PROVE  OnePlace'
    <2>1. Hand' \subseteq Hand /\ \A w \in Workers : HoldsSlot(w)' = HoldsSlot(w)
      BY <1>1 DEF Hand, HoldsSlot
    <2> QED BY <1>0, <1>1, <2>1, PlacesStay DEF Sound
  <1>2. ASSUME NEW h \in Handles, CancelHandle(h) PROVE OnePlace'
    BY <1>1, <1>2 DEF CancelHandle
  <1>3. ASSUME NEW n \in Concurrency, SetConcurrency(n) PROVE OnePlace'
    BY <1>1, <1>3 DEF SetConcurrency
  <1>4. CASE ShutdownRuntime \/ AtExit \/ BeginRuntimeRun
    BY <1>1, <1>4 DEF ShutdownRuntime, AtExit, BeginRuntimeRun
  <1>5. CASE CompleteAtOnce \/ SpawnFails
    BY <1>1, <1>5 DEF CompleteAtOnce, SpawnFails
  <1>6. CASE TurnNext
    BY <1>1, <1>6 DEF TurnNext, TakeBatch, Deliver, ListenerReturns, EndBatch
  <1>7. CASE ExitNext
    BY <1>1, <1>7 DEF ExitNext, CancelBackend, LauncherCleanup, EnterDrain, FinishDrain, FinishAtExit
  <1>8. ASSUME NEW w \in Workers, WorkerNextStep(w) \/ Reap(w) PROVE OnePlace'
    BY <1>8, MinorPlaces, WorkerCompletePlaces, WorkerNextPlaces DEF WorkerNextStep, Minor
  <1>9. CASE Gone \/ UNCHANGED vars
    BY <1>1, <1>9 DEF Gone, vars, mainVars
  <1>10. CASE AppNext
    BY <1>2, <1>3, <1>4, <1>10, BeginPlaces DEF AppNext
  <1>11. CASE HostCall
    BY <1>5, <1>11, CancelLockedPlaces, AdmitPlaces, CompleteOnMainPlaces, PumpPlaces, SpawnPlaces DEF HostCall
  <1> QED BY <1>6, <1>7, <1>8, <1>9, <1>10, <1>11 DEF Next

-----------------------------------------------------------------------------
(* A load is published once: OnceOut.                                      *)

Publishing(w) == wpc[w] \in {"publish", "publishInside"}
Out == Elements(mailbox) \cup Elements(batch)

LEMMA OutIs ==
    ASSUME Sound
    PROVE  /\ Elements(mailbox) \subseteq Loads /\ Elements(batch) \subseteq Loads
           /\ Elements(<<>>) = {} /\ IsInjective(<<>>)
           /\ \A v, w \in Workers : Publishing(v) /\ Publishing(w) => v = w
  <1>1. Elements(mailbox) \subseteq Loads /\ Elements(batch) \subseteq Loads
    BY ElementsIn DEF Sound
  <1>2. Elements(<<>>) = {} /\ IsInjective(<<>>)
    <2>1. <<>> \in Seq(Loads) /\ Len(<<>>) = 0
      BY EmptySeq
    <2>2. Elements(<<>>) = {} /\ DOMAIN <<>> = 1 .. 0
      BY <2>1, ElementsIn
    <2> QED BY <2>2 DEF IsInjective
  <1>3. \A v, w \in Workers : Publishing(v) /\ Publishing(w) => v = w
    BY DEF Sound, AtRest, Publishing
  <1> QED BY <1>1, <1>2, <1>3

\* No result moves and nobody starts to publish.
LEMMA OutStays ==
    ASSUME OnceOut, UNCHANGED <<mailbox, batch, completed>>, begun \subseteq begun',
           \A w \in Workers : Publishing(w)' => Publishing(w) /\ job'[w] = job[w]
    PROVE  OnceOut'
  <1>1. Elements(mailbox)' = Elements(mailbox) /\ Elements(batch)' = Elements(batch)
    BY DEF Elements
  <1>2. IsInjective(mailbox') /\ IsInjective(batch')
    BY DEF OnceOut
  <1> QED BY <1>1, <1>2 DEF OnceOut, Publishing

LEMMA CompleteOnMainOut ==
    ASSUME Known, CompleteOnMain
    PROVE  OnceOut'
  <1>0. Sound /\ mnew \in Loads /\ mnew \in Hand /\ mnew \in begun
    BY KnownSound DEF CompleteOnMain, Known, Accounting, Shape, Hand
  <1>1. UNCHANGED <<batch, wpc, job, begun>> /\ completed' = completed \cup {mnew}
    BY DEF CompleteOnMain, Settle, workerVars
  <1>2. mnew \notin completed /\ mnew \notin Elements(mailbox) /\ mnew \notin Elements(batch)
    BY <1>0 DEF Sound, OnePlace, OnceOut
  <1>3. mailbox' = mailbox \/ mailbox' = Append(mailbox, mnew)
    BY DEF CompleteOnMain
  <1>4. IsInjective(mailbox') /\ Elements(mailbox') \subseteq Elements(mailbox) \cup {mnew}
    <2>1. mailbox \in Seq(Loads) /\ IsInjective(mailbox)
      BY <1>0 DEF Sound, OnceOut
    <2>2. IsInjective(Append(mailbox, mnew))
          /\ Elements(Append(mailbox, mnew)) = Elements(mailbox) \cup {mnew}
      BY <1>0, <1>2, <2>1, ElementsAppend
    <2> QED BY <1>2, <1>3, <2>1, <2>2
  <1>5. Elements(mailbox)' = Elements(mailbox') /\ Elements(batch)' = Elements(batch) /\ IsInjective(batch')
    BY <1>0, <1>1 DEF Elements, Sound, OnceOut
  <1>6. \A w \in Workers : Publishing(w) => job[w] # mnew
    BY <1>0, <1>2 DEF Sound, OnceOut, Publishing
  <1> QED BY <1>0, <1>1, <1>2, <1>4, <1>5, <1>6 DEF Sound, OnceOut, Publishing

LEMMA WorkerCompleteOut ==
    ASSUME Known, NEW w \in Workers, WorkerComplete(w)
    PROVE  OnceOut'
  <1>0. Sound /\ wpc[w] \in {"complete", "completeInside"} /\ HoldsSlot(w) /\ job[w] \in begun
    <2>1. Sound /\ wpc[w] \in {"complete", "completeInside"} /\ HoldsSlot(w)
      BY KnownSound DEF WorkerComplete, HoldsSlot
    <2> QED BY <2>1 DEF Sound
  <1>1. UNCHANGED <<mailbox, batch, job, begun>>
    BY DEF WorkerComplete, mainVars
  <1>2. CASE Settled(job[w])
    <2>1. completed' = completed /\ \E x \in {"next", "complete"} : wpc' = [wpc EXCEPT ![w] = x]
      BY <1>2 DEF WorkerComplete, Goto
    <2>2. \A v \in Workers : Publishing(v)' => Publishing(v)
      BY <1>0, <2>1 DEF Sound, Publishing
    <2> QED BY <1>0, <1>1, <2>1, <2>2, OutStays DEF Sound
  <1>3. CASE ~Settled(job[w])
    <2>1. completed' = completed \cup {job[w]} /\ job[w] \notin completed
      BY <1>3 DEF WorkerComplete, Settle, Settled
    <2>2. \A v \in Workers \ {w} : wpc'[v] = wpc[v]
      BY <1>0 DEF WorkerComplete, Goto, Sound
    <2>3. Elements(mailbox)' = Elements(mailbox) /\ Elements(batch)' = Elements(batch)
          /\ IsInjective(mailbox') /\ IsInjective(batch')
      BY <1>0, <1>1 DEF Elements, Sound, OnceOut
    <2>4. job[w] \notin Elements(mailbox) /\ job[w] \notin Elements(batch)
      BY <1>0, <2>1 DEF Sound, OnceOut
    <2>5. \A v \in Workers : Publishing(v)' => job'[v] \in completed' /\ job'[v] \notin Elements(mailbox) \cup Elements(batch)
      BY <1>0, <1>1, <2>1, <2>2, <2>4 DEF Sound, OnceOut, Publishing
    <2> QED BY <1>0, <1>1, <2>1, <2>3, <2>5 DEF Sound, OnceOut, Publishing
  <1> QED BY <1>2, <1>3

LEMMA WorkerPublishOut ==
    ASSUME Known, NEW w \in Workers, WorkerPublish(w)
    PROVE  OnceOut'
  <1>0. Sound /\ Publishing(w) /\ HoldsSlot(w) /\ job[w] \in Loads
    <2>1. Sound /\ Publishing(w) /\ HoldsSlot(w)
      BY KnownSound DEF WorkerPublish, HoldsSlot, Publishing
    <2> QED BY <2>1 DEF Sound
  <1>1. UNCHANGED <<batch, job, completed, begun>>
    BY DEF WorkerPublish, mainVars, loadVars
  <1>2. mailbox' = mailbox \/ mailbox' = Append(mailbox, job[w])
    BY DEF WorkerPublish
  <1>3. job[w] \in completed /\ job[w] \notin Elements(mailbox) /\ job[w] \notin Elements(batch)
    BY <1>0 DEF Sound, OnceOut, Publishing
  <1>4. IsInjective(mailbox') /\ Elements(mailbox') \subseteq Elements(mailbox) \cup {job[w]}
    <2>1. mailbox \in Seq(Loads) /\ IsInjective(mailbox)
      BY <1>0 DEF Sound, OnceOut
    <2>2. IsInjective(Append(mailbox, job[w]))
          /\ Elements(Append(mailbox, job[w])) = Elements(mailbox) \cup {job[w]}
      BY <1>0, <1>3, <2>1, ElementsAppend
    <2> QED BY <1>2, <1>3, <2>1, <2>2
  <1>5. Elements(mailbox)' = Elements(mailbox') /\ Elements(batch)' = Elements(batch) /\ IsInjective(batch')
    BY <1>0, <1>1 DEF Elements, Sound, OnceOut
  <1>6. \A v \in Workers : ~Publishing(v)'
    <2>1. ~Publishing(w)' /\ \A v \in Workers \ {w} : wpc'[v] = wpc[v]
      BY <1>0 DEF WorkerPublish, Goto, Sound, Publishing
    <2>2. \A v \in Workers \ {w} : ~Publishing(v)
      BY <1>0, OutIs
    <2> QED BY <2>1, <2>2 DEF Publishing
  <1> QED BY <1>0, <1>1, <1>3, <1>4, <1>5, <1>6 DEF Sound, OnceOut, Publishing

LEMMA TurnOut ==
    ASSUME Known, TurnNext
    PROVE  OnceOut'
  <1> USE DEF loadVars, workerVars
  <1>0. Sound /\ OnceOut
    BY KnownSound DEF Sound
  <1>1. UNCHANGED <<completed, begun, wpc, job>>
    BY DEF TurnNext, TakeBatch, Deliver, ListenerReturns, EndBatch
  <1>2. CASE TakeBatch
    <2>1. batch' = mailbox /\ mailbox' = <<>>
      BY <1>2 DEF TakeBatch
    <2>2. Elements(batch)' = Elements(mailbox) /\ Elements(mailbox)' = {} /\ IsInjective(batch') /\ IsInjective(mailbox')
      BY <1>0, <2>1, OutIs DEF Elements, OnceOut
    <2> QED BY <1>0, <1>1, <2>2 DEF OnceOut
  <1>3. CASE Deliver
    <2>1. batch # <<>> /\ batch' = Tail(batch) /\ mailbox' = mailbox
      BY <1>3 DEF Deliver, hostVars
    <2>2. Elements(batch') \subseteq Elements(batch) /\ IsInjective(batch')
      BY <1>0, <2>1, ElementsTail DEF Sound, OnceOut
    <2>3. Elements(batch)' = Elements(batch') /\ Elements(mailbox)' = Elements(mailbox) /\ IsInjective(mailbox')
      BY <1>0, <2>1 DEF Elements, OnceOut
    <2> QED BY <1>0, <1>1, <2>2, <2>3 DEF OnceOut
  <1>4. CASE ListenerReturns \/ EndBatch
    <2>1. UNCHANGED <<mailbox, batch>>
      BY <1>4 DEF ListenerReturns, EndBatch, hostVars
    <2> QED BY <1>0, <1>1, <2>1, OutStays DEF Publishing
  <1> QED BY <1>2, <1>3, <1>4 DEF TurnNext

LEMMA ExitOut ==
    ASSUME Known, ExitNext
    PROVE  OnceOut'
  <1> USE DEF loadVars, workerVars
  <1>0. Sound /\ OnceOut
    BY KnownSound DEF Sound
  <1>1. UNCHANGED <<completed, begun, wpc, job, batch>>
    BY DEF ExitNext, CancelBackend, LauncherCleanup, EnterDrain, FinishDrain, FinishAtExit
  <1>2. CASE mailbox' = mailbox
    BY <1>0, <1>1, <1>2, OutStays DEF Publishing
  <1>3. CASE mailbox' = <<>>
    <2>1. Elements(mailbox)' = {} /\ IsInjective(mailbox')
      BY <1>0, <1>3, OutIs DEF Elements
    <2>2. Elements(batch)' = Elements(batch) /\ IsInjective(batch')
      BY <1>0, <1>1 DEF Elements, OnceOut
    <2> QED BY <1>0, <1>1, <2>1, <2>2 DEF OnceOut
  <1> QED BY <1>2, <1>3 DEF ExitNext, CancelBackend, LauncherCleanup, EnterDrain, FinishDrain, FinishAtExit, hostVars

LEMMA OnceOutNext ==
    ASSUME Known, [Next]_vars
    PROVE  OnceOut'
  <1> USE DEF hostVars, loadVars, workerVars, mainVars
  <1>0. Sound /\ OnceOut
    BY KnownSound DEF Sound
  <1>1. ASSUME UNCHANGED <<mailbox, batch, completed, wpc, job>>, begun \subseteq begun'
        PROVE  OnceOut'
    BY <1>0, <1>1, OutStays DEF Publishing
  <1>2. CASE AppNext
    <2>1. UNCHANGED <<mailbox, batch, completed, wpc, job>> /\ begun \subseteq begun'
      BY <1>2 DEF AppNext, Begin, CancelHandle, SetConcurrency, ShutdownRuntime, AtExit, BeginRuntimeRun
    <2> QED BY <1>1, <2>1
  <1>3. CASE CancelLocked \/ Admit \/ CompleteAtOnce \/ Pump \/ SpawnFails
    <2>1. UNCHANGED <<mailbox, batch, completed, wpc, job>> /\ begun \subseteq begun'
      BY <1>3 DEF CancelLocked, Admit, CompleteAtOnce, Pump, SpawnFails
    <2> QED BY <1>1, <2>1
  <1>4. ASSUME NEW w \in Workers, Spawn(w) PROVE OnceOut'
    <2>1. UNCHANGED <<mailbox, batch, completed, begun>> /\ wpc' = [wpc EXCEPT ![w] = "check"]
          /\ job' = [job EXCEPT ![w] = mload]
      BY <1>4 DEF Spawn
    <2>2. \A v \in Workers : Publishing(v)' => Publishing(v) /\ job'[v] = job[v]
      BY <1>0, <2>1 DEF Publishing, Sound
    <2> QED BY <1>0, <2>1, <2>2, OutStays
  <1>5. ASSUME NEW w \in Workers, WorkerNext(w) PROVE OnceOut'
    <2>1. /\ UNCHANGED <<mailbox, batch, completed, begun>>
          /\ \E x \in {"finish", "check"} : wpc' = [wpc EXCEPT ![w] = x]
          /\ \E l : job' = [job EXCEPT ![w] = l]
      BY <1>5 DEF WorkerNext, Goto
    <2>2. \A v \in Workers : Publishing(v)' => Publishing(v) /\ job'[v] = job[v]
      BY <1>0, <2>1 DEF Publishing, Sound
    <2> QED BY <1>0, <2>1, <2>2, OutStays
  <1>6. ASSUME NEW w \in Workers, Minor(w), ~WorkerPublish(w) PROVE OnceOut'
    <2>1. /\ UNCHANGED <<mailbox, batch, completed, begun, job>>
          /\ \E x \in {"decide", "prepare", "prepared", "complete", "completeInside", "done", "none"} :
                 wpc' = [wpc EXCEPT ![w] = x]
      BY <1>6 DEF Minor, WorkerCheck, WorkerDecide, WorkerPrepare, WorkerPrepared, WorkerThrows,
         WorkerFinish, Reap, Goto
    <2>2. \A v \in Workers : Publishing(v)' => Publishing(v) /\ job'[v] = job[v]
      BY <1>0, <2>1 DEF Publishing, Sound
    <2> QED BY <1>0, <2>1, <2>2, OutStays
  <1>7. CASE HostCall
    BY <1>3, <1>4, <1>7, CompleteOnMainOut DEF HostCall
  <1>8. ASSUME NEW w \in Workers, WorkerNextStep(w) \/ Reap(w) PROVE OnceOut'
    BY <1>5, <1>6, <1>8, WorkerCompleteOut, WorkerPublishOut DEF WorkerNextStep, Minor
  <1>9. CASE Gone \/ UNCHANGED vars
    BY <1>1, <1>9 DEF Gone, vars
  <1> QED BY <1>2, <1>7, <1>8, <1>9, TurnOut, ExitOut DEF Next

-----------------------------------------------------------------------------
(* What a load owns: Charged, and who may touch its payload.               *)

\* The sums as long as no charge changes.
LEMMA ChargesStay ==
    ASSUME Charged, UNCHANGED <<credits, retained, completed>>, cancelled \subseteq cancelled',
           \A l \in completed : payload'[l] = payload[l] /\ (l \in failed' => l \in failed)
    PROVE  Charged'
  <1>1. BytesBalance' /\ NetworkBytesBounded'
    BY DEF Charged, BytesBalance, NetworkBytesBounded, SumCredits
  <1> QED BY <1>1 DEF Charged

\* Cancelling and settling are the only steps that touch a completed load's data.
Accounts == CancelLocked \/ CompleteOnMain \/ \E w \in Workers : WorkerComplete(w)

LEMMA UncompletedOnly ==
    ASSUME Known, [Next]_vars, ~Accounts
    PROVE  /\ UNCHANGED <<credits, retained, completed>> /\ cancelled \subseteq cancelled'
           /\ \A l \in completed : payload'[l] = payload[l] /\ (l \in failed' <=> l \in failed)
           /\ wpc' = wpc => payload' = payload
           /\ \A l \in Loads : payload'[l] # payload[l] => l \notin completed
  <1> USE DEF hostVars, loadVars, workerVars, mainVars
  <1>0. Sound /\ payload \in [Loads -> Nat]
    BY KnownSound DEF Sound, TypeOK
  <1>1. ASSUME UNCHANGED <<credits, retained, completed, payload, failed>>, cancelled \subseteq cancelled'
        PROVE  /\ UNCHANGED <<credits, retained, completed>> /\ cancelled \subseteq cancelled'
               /\ \A l \in completed : payload'[l] = payload[l] /\ (l \in failed' <=> l \in failed)
               /\ wpc' = wpc => payload' = payload
               /\ \A l \in Loads : payload'[l] # payload[l] => l \notin completed
    BY <1>1
  <1>2. CASE AppNext
    <2>1. UNCHANGED <<credits, retained, completed, payload, failed>> /\ cancelled \subseteq cancelled'
      BY <1>2 DEF AppNext, Begin, CancelHandle, SetConcurrency, ShutdownRuntime, AtExit, BeginRuntimeRun, MarkCancelled
    <2> QED BY <1>1, <2>1
  <1>3. CASE TurnNext \/ ExitNext
    <2>1. UNCHANGED <<credits, retained, completed, payload, failed>> /\ cancelled \subseteq cancelled'
      BY <1>3 DEF TurnNext, TakeBatch, Deliver, ListenerReturns, EndBatch, ExitNext, CancelBackend, LauncherCleanup,
         EnterDrain, FinishDrain, FinishAtExit, MarkCancelled
    <2> QED BY <1>1, <2>1
  <1>4. CASE Pump \/ SpawnFails \/ \E w \in Workers : Spawn(w)
    <2>1. UNCHANGED <<credits, retained, completed, payload, failed, cancelled>>
      BY <1>4 DEF Pump, SpawnFails, Spawn
    <2> QED BY <1>1, <2>1
  <1>5. CASE Admit \/ CompleteAtOnce
    <2>1. mnew \in Hand
      BY <1>5 DEF Admit, CompleteAtOnce, Hand, Known, Accounting, Shape
    <2>2. mnew \notin completed
      BY <1>0, <2>1 DEF Sound, OnePlace
    <2>3. UNCHANGED <<credits, retained, completed, payload, cancelled>> /\ failed' \in {failed, failed \cup {mnew}}
      BY <1>5 DEF Admit, CompleteAtOnce
    <2> QED BY <2>2, <2>3
  <1>6. ASSUME NEW w \in Workers, WorkerNext(w) \/ WorkerPublish(w) \/ WorkerDecide(w) \/ WorkerFinish(w) \/ Reap(w)
        PROVE  UNCHANGED <<credits, retained, completed, payload, failed, cancelled>>
    BY <1>6 DEF WorkerNext, WorkerPublish, WorkerDecide, WorkerFinish, Reap
  <1>7. ASSUME NEW w \in Workers, WorkerCheck(w) \/ WorkerPrepare(w) \/ WorkerPrepared(w) \/ WorkerThrows(w)
        PROVE  /\ UNCHANGED <<credits, retained, completed, cancelled>> /\ wpc' # wpc /\ job[w] \notin completed
               /\ failed' \in {failed, failed \cup {job[w]}}
               /\ \A l \in Loads \ {job[w]} : payload'[l] = payload[l]
    <2>1. wpc[w] \in {"check", "prepare", "prepared"}
          /\ \E x \in {"decide", "complete", "completeInside", "prepared"} : x # wpc[w] /\ wpc' = [wpc EXCEPT ![w] = x]
      BY <1>7 DEF WorkerCheck, WorkerPrepare, WorkerPrepared, WorkerThrows, Goto
    <2>2. wpc' # wpc /\ job[w] \notin completed
      BY <1>0, <2>1 DEF Sound, OnePlace, Early
    <2>3. UNCHANGED <<credits, retained, completed, cancelled>> /\ failed' \in {failed, failed \cup {job[w]}}
      BY <1>7 DEF WorkerCheck, WorkerPrepare, WorkerPrepared, WorkerThrows
    <2>4. \A l \in Loads \ {job[w]} : payload'[l] = payload[l]
      BY <1>0, <1>7 DEF WorkerCheck, WorkerPrepare, WorkerPrepared, WorkerThrows, DiscardPayload
    <2> QED BY <2>2, <2>3, <2>4
  <1>8. ASSUME NEW w \in Workers, WorkerNextStep(w) \/ Reap(w)
        PROVE  /\ UNCHANGED <<credits, retained, completed>> /\ cancelled \subseteq cancelled'
               /\ \A l \in completed : payload'[l] = payload[l] /\ (l \in failed' <=> l \in failed)
               /\ wpc' = wpc => payload' = payload
               /\ \A l \in Loads : payload'[l] # payload[l] => l \notin completed
    <2>1. CASE WorkerNext(w) \/ WorkerPublish(w) \/ WorkerDecide(w) \/ WorkerFinish(w) \/ Reap(w)
      BY <1>1, <1>6, <2>1
    <2>2. CASE WorkerCheck(w) \/ WorkerPrepare(w) \/ WorkerPrepared(w) \/ WorkerThrows(w)
      <3>1. completed \subseteq Loads
        BY <1>0 DEF Sound, TypeOK
      <3> QED BY <1>7, <2>2, <3>1
    <2> QED BY <1>8, <2>1, <2>2 DEF WorkerNextStep, Accounts
  <1>9. CASE Gone \/ UNCHANGED vars
    <2>1. UNCHANGED <<credits, retained, completed, payload, failed, cancelled>>
      BY <1>9 DEF Gone, vars
    <2> QED BY <1>1, <2>1
  <1>10. CASE HostCall
    BY <1>4, <1>5, <1>10 DEF HostCall, Accounts
  <1> QED BY <1>2, <1>3, <1>8, <1>9, <1>10 DEF Next

\* What the three do to the load they are about.
LEMMA CancelLockedAccounts ==
    ASSUME Known, CancelLocked
    PROVE  /\ UNCHANGED <<completed, cancelled, failed, wpc>> /\ mload \in Loads
           /\ credits' = [credits EXCEPT ![mload] = 0] /\ requestCredit' = requestCredit \ {mload}
           /\ BytesBalance' /\ NetworkBytesBounded'
           /\ \A l \in Loads \ {mload} : payload'[l] = payload[l]
           /\ IF mload \in completed THEN payload'[mload] = 0 ELSE payload' = payload
  <1>1. mload \in Loads /\ ReleaseCredits(mload) /\ TypeOK /\ Charged
    BY DEF CancelLocked, Known, Accounting, Shape, Custody
  <1>2. BytesBalance' /\ NetworkBytesBounded' /\ credits' = [credits EXCEPT ![mload] = 0]
    BY <1>1, ReleaseCharges DEF Charged
  <1>3. payload' = IF mload \in completed THEN [payload EXCEPT ![mload] = 0] ELSE payload
    BY DEF CancelLocked, MayDiscard, DiscardPayload
  <1>4. payload \in [Loads -> Nat]
    BY <1>1 DEF TypeOK
  <1> QED BY <1>1, <1>2, <1>3, <1>4 DEF CancelLocked, ReleaseCredits, workerVars

\* A load is settled when it leaves main's or a worker's hands, or was before.
LEMMA SettlesOnce ==
    ASSUME Known, CompleteOnMain \/ \E w \in Workers : WorkerComplete(w)
    PROVE  \/ UNCHANGED <<credits, requestCredit, retained, completed, cancelled, payload, failed>>
           \/ \E l \in begun \ completed :
                  /\ Settle(l) /\ cancelled' = cancelled
                  /\ wpc' = wpc => \A w \in Workers : job[w] # l
  <1>0. Sound
    BY KnownSound
  <1>1. CASE CompleteOnMain
    <2>1. mnew \in Hand /\ mnew \in begun /\ Settle(mnew) /\ cancelled' = cancelled
      BY <1>0, <1>1 DEF CompleteOnMain, Hand, Known, Accounting, Shape, Sound
    <2>2. mnew \notin completed
      BY <1>0, <2>1 DEF Sound, OnePlace
    <2>3. \A w \in Workers : job[w] # mnew
      <3> SUFFICES ASSUME NEW w \in Workers PROVE job[w] # mnew
        OBVIOUS
      <3>1. mnew \in Loads
        BY <2>1 DEF Hand
      <3>2. CASE HoldsSlot(w)
        BY <1>0, <2>1, <3>2 DEF Sound, OnePlace
      <3>3. CASE ~HoldsSlot(w)
        BY <1>0, <3>1, <3>3 DEF Sound, AtRest
      <3> QED BY <3>2, <3>3
    <2> QED BY <2>1, <2>2, <2>3
  <1>2. ASSUME NEW w \in Workers, WorkerComplete(w)
        PROVE  \/ UNCHANGED <<credits, requestCredit, retained, completed, cancelled, payload, failed>>
               \/ \E l \in begun \ completed :
                      /\ Settle(l) /\ cancelled' = cancelled
                      /\ wpc' = wpc => \A v \in Workers : job[v] # l
    <2>1. CASE Settled(job[w])
      BY <1>2, <2>1 DEF WorkerComplete, creditVars
    <2>2. CASE ~Settled(job[w])
      <3>1. Settle(job[w]) /\ cancelled' = cancelled /\ job[w] \in begun \ completed
        BY <1>2, <2>2, WorkerCompletePlaces DEF WorkerComplete
      <3>2. wpc' # wpc
        <4>1. wpc[w] \in {"completeInside", "complete"}
              /\ \E x \in {"publish", "publishInside"} : wpc' = [wpc EXCEPT ![w] = x]
          BY <1>2, <2>2 DEF WorkerComplete, Goto
        <4> QED BY <1>0, <4>1 DEF Sound
      <3> QED BY <3>1, <3>2
    <2> QED BY <2>1, <2>2
  <1> QED BY <1>1, <1>2

LEMMA ChargedNext ==
    ASSUME Known, [Next]_vars
    PROVE  Charged'
  <1>0. Charged /\ TypeOK /\ Sound /\ credits \in [Loads -> Nat] /\ completed \subseteq Loads
    BY KnownSound DEF Known, Custody, Accounting, TypeOK
  <1>1. CASE ~Accounts
    BY <1>0, <1>1, UncompletedOnly, ChargesStay
  <1>2. CASE CancelLocked
    <2>1. /\ UNCHANGED <<completed, cancelled, failed>> /\ BytesBalance' /\ NetworkBytesBounded'
          /\ \A l \in Loads \ {mload} : payload'[l] = payload[l] /\ credits'[l] = credits[l]
          /\ credits'[mload] = 0 /\ (mload \in completed => payload'[mload] = 0) /\ mload \in Loads
      BY <1>0, <1>2, CancelLockedAccounts
    <2> QED BY <1>0, <2>1 DEF Charged
  <1>3. CASE CompleteOnMain \/ \E w \in Workers : WorkerComplete(w)
    <2>1. CASE UNCHANGED <<credits, retained, completed, cancelled, payload, failed>>
      BY <1>0, <2>1, ChargesStay
    <2>2. ASSUME NEW l \in begun \ completed, Settle(l), cancelled' = cancelled PROVE Charged'
      <3>1. l \in Loads /\ l \notin completed
        BY <1>0, <2>2 DEF Sound
      <3>2. /\ BytesBalance' /\ NetworkBytesBounded' /\ completed' = completed \cup {l}
            /\ \A k \in Loads \ {l} : credits'[k] = credits[k] /\ payload'[k] = payload[k]
                                      /\ (k \in failed' <=> k \in failed)
            /\ credits'[l] = payload'[l] /\ (l \in failed' => payload'[l] = 0)
        BY <1>0, <2>2, <3>1, SettleCharges
      <3> QED BY <1>0, <2>2, <3>1, <3>2 DEF Charged
    <2> QED BY <1>3, <2>1, <2>2, SettlesOnce
  <1> QED BY <1>1, <1>2, <1>3 DEF Accounts

\* No step touches the payload of a load that another thread is responsible for.
Handed ==
    \A l \in Loads : payload'[l] # payload[l] =>
        IF wpc' = wpc THEN l \in completed \/ \A w \in Workers : job[w] # l
        ELSE l \notin completed

LEMMA HandedNext ==
    ASSUME Known, [Next]_vars
    PROVE  Handed
  <1>0. Charged /\ TypeOK /\ Sound
    BY KnownSound DEF Known, Custody, Accounting
  <1>1. CASE ~Accounts
    BY <1>1, UncompletedOnly DEF Handed
  <1>2. CASE CancelLocked
    BY <1>2, CancelLockedAccounts DEF Handed
  <1>3. CASE CompleteOnMain \/ \E w \in Workers : WorkerComplete(w)
    <2>1. CASE payload' = payload
      BY <2>1 DEF Handed
    <2>2. ASSUME NEW l \in begun \ completed, Settle(l), wpc' = wpc => \A w \in Workers : job[w] # l
          PROVE  Handed
      <3>1. l \in Loads /\ l \notin completed
        BY <1>0, <2>2 DEF Sound
      <3>2. \A k \in Loads \ {l} : payload'[k] = payload[k]
        BY <1>0, <2>2, <3>1, SettleCharges
      <3> QED BY <2>2, <3>1, <3>2 DEF Handed
    <2> QED BY <1>3, <2>1, <2>2, SettlesOnce
  <1> QED BY <1>1, <1>2, <1>3 DEF Accounts

-----------------------------------------------------------------------------
(* The rest of Custody.                                                    *)

LEMMA AtRestNext ==
    ASSUME Known, [Next]_vars
    PROVE  AtRest'
  <1>1. CASE Gone \/ UNCHANGED vars
    <2>1. AtRest /\ UNCHANGED vars
      BY <1>1 DEF Gone, Known, Custody
    <2> QED BY <2>1 DEF AtRest, HoldsSlot, vars, hostVars, workerVars, mainVars
  <1> QED BY <1>1, AtRestMain, AtRestOther DEF Next

\* Main's steps that cancel a load: the store outside the mutex.
Marking ==
    \/ \E h \in Handles, l \in Loads : Begin(h, l)
    \/ \E h \in Handles : CancelHandle(h)
    \/ Deliver
    \/ \E l \in Loads : CancelBackend(l)

\* What the others leave alone.
LEMMA NothingMarked ==
    ASSUME Known, [Next]_vars, ~Marking
    PROVE  /\ UNCHANGED <<begun, slot, cancelled>> /\ mnew' \in {mnew, NoLoad}
           /\ ~CancelLocked => (mstep = "cancel" => UNCHANGED <<mstep, mload>>)
  <1> USE DEF hostVars, loadVars, workerVars, mainVars
  <1>0. mstep # "idle" => ~Idle
    BY DEF Idle
  <1>1. CASE AppNext
    BY <1>0, <1>1 DEF AppNext, Marking, SetConcurrency, ShutdownRuntime, AtExit, BeginRuntimeRun, AppCode
  <1>2. CASE HostCall
    BY <1>2 DEF HostCall, CancelLocked, Admit, CompleteAtOnce, CompleteOnMain, Pump, Spawn, SpawnFails
  <1>3. CASE TurnNext \/ ExitNext
    BY <1>3 DEF TurnNext, TakeBatch, ListenerReturns, EndBatch, ExitNext, LauncherCleanup,
       EnterDrain, FinishDrain, FinishAtExit, Marking
  <1>4. ASSUME NEW w \in Workers, WorkerNextStep(w) \/ Reap(w)
        PROVE  UNCHANGED <<begun, slot, cancelled, mnew, mstep, mload>>
    BY <1>4 DEF WorkerNextStep, WorkerCheck, WorkerDecide, WorkerPrepare, WorkerPrepared, WorkerThrows,
       WorkerComplete, WorkerPublish, WorkerNext, WorkerFinish, Reap
  <1>5. CASE Gone \/ UNCHANGED vars
    BY <1>5 DEF Gone, vars
  <1> QED BY <1>1, <1>2, <1>3, <1>4, <1>5 DEF Next

\* Main marks one load at most, at rest, and is then inside cancel() for it.
LEMMA MarksOne ==
    ASSUME Known, Marking
    PROVE  /\ mstep = "idle" /\ mnew = NoLoad
           /\ UNCHANGED <<pending, completed, payload, credits, requestCredit>>
           /\ \/ cancelled' = cancelled
              \/ mstep' = "cancel" /\ cancelled' = cancelled \cup {mload'}
  <1> USE DEF hostVars
  <1>0. AtRest
    BY DEF Known, Custody
  <1>1. mstep = "idle" /\ UNCHANGED <<pending, completed, payload, credits, requestCredit>>
    BY DEF Marking, Begin, CancelHandle, Deliver, CancelBackend, AppCode, Idle
  <1>2. \/ cancelled' = cancelled
        \/ mstep' = "cancel" /\ cancelled' = cancelled \cup {mload'}
    BY DEF Marking, Begin, CancelHandle, Deliver, CancelBackend, MarkCancelled
  <1> QED BY <1>0, <1>1, <1>2 DEF AtRest

LEMMA WantedNext ==
    ASSUME Known, [Next]_vars
    PROVE  Wanted'
  <1>0. /\ Wanted /\ slot \in [Handles -> begun \cup {NoLoad}]
        /\ cancelled \subseteq begun /\ begun \subseteq Loads /\ NoLoad \notin begun
    BY LoadConstants DEF Known, Custody, References, Referred, Slots
  <1>1. CASE ~Marking
    <2>1. UNCHANGED <<begun, slot, cancelled>> /\ mnew' \in {mnew, NoLoad}
      BY <1>1, NothingMarked
    <2> QED BY <1>0, <2>1 DEF Wanted
  <1>2. CASE Marking
    <2>1. mnew = NoLoad
      BY <1>2, MarksOne
    <2>2. ASSUME NEW h \in Handles, NEW l \in Loads, Begin(h, l) PROVE Wanted'
      <3>1. /\ l \notin begun /\ begun' = begun \cup {l} /\ slot' = [slot EXCEPT ![h] = l] /\ mnew' = l
            /\ cancelled' = IF slot[h] = NoLoad THEN cancelled ELSE cancelled \cup {slot[h]}
        BY <2>2 DEF Begin, MarkCancelled
      <3>2. mnew' \notin cancelled'
        BY <1>0, <3>1
      <3>3. ASSUME NEW k \in begun' \ cancelled' PROVE \E g \in Handles : slot'[g] = k
        <4>1. CASE k = l
          BY <1>0, <3>1, <4>1
        <4>2. CASE k # l
          <5>1. k \in begun \ cancelled /\ k # slot[h]
            BY <1>0, <3>1, <3>3, <4>2
          <5>2. PICK g \in Handles : slot[g] = k
            BY <1>0, <5>1 DEF Wanted
          <5> QED BY <1>0, <3>1, <5>1, <5>2
        <4> QED BY <4>1, <4>2
      <3> QED BY <3>2, <3>3 DEF Wanted
    <2>3. ASSUME NEW h \in Handles, CancelHandle(h) PROVE Wanted'
      <3>1. /\ begun' = begun /\ slot' = [slot EXCEPT ![h] = NoLoad] /\ mnew' = mnew
            /\ cancelled' = cancelled \cup {slot[h]} /\ slot[h] # NoLoad
        BY <2>3 DEF CancelHandle, MarkCancelled
      <3>2. mnew' \notin cancelled'
        BY <1>0, <2>1, <3>1
      <3>3. ASSUME NEW k \in begun' \ cancelled' PROVE \E g \in Handles : slot'[g] = k
        <4>1. k \in begun \ cancelled /\ k # slot[h]
          BY <3>1, <3>3
        <4>2. PICK g \in Handles : slot[g] = k
          BY <1>0, <4>1 DEF Wanted
        <4> QED BY <1>0, <3>1, <4>1, <4>2
      <3> QED BY <3>2, <3>3 DEF Wanted
    <2>4. CASE Deliver
      <3> DEFINE l == Head(batch)
      <3>1. /\ begun' = begun /\ mnew' = mnew /\ cancelled' = cancelled \cup {l}
            /\ slot' \in {slot, [h \in Handles |-> IF slot[h] = l THEN NoLoad ELSE slot[h]]}
        BY <2>4 DEF Deliver, MarkCancelled
      <3>2. l # NoLoad
        <4>1. batch \in Seq(begun) /\ batch # <<>>
          BY <2>4 DEF Deliver, Known, References, Referred
        <4> QED BY <1>0, <4>1, HeadTailProperties
      <3> HIDE DEF l
      <3>3. mnew' \notin cancelled'
        BY <1>0, <2>1, <3>1, <3>2
      <3>4. ASSUME NEW k \in begun' \ cancelled' PROVE \E g \in Handles : slot'[g] = k
        <4>1. k \in begun \ cancelled /\ k # l
          BY <3>1, <3>4
        <4>2. PICK g \in Handles : slot[g] = k
          BY <1>0, <4>1 DEF Wanted
        <4> QED BY <1>0, <3>1, <4>1, <4>2
      <3> QED BY <3>3, <3>4 DEF Wanted
    <2>5. ASSUME NEW l \in Loads, CancelBackend(l) PROVE Wanted'
      <3>1. UNCHANGED <<begun, slot, mnew>> /\ cancelled' = cancelled \cup {l}
        BY <2>5 DEF CancelBackend, MarkCancelled
      <3> QED BY <1>0, <2>1, <3>1, LoadConstants DEF Wanted
    <2> QED BY <1>2, <2>2, <2>3, <2>4, <2>5 DEF Marking
  <1> QED BY <1>1, <1>2

\* l owns nothing in the host and nothing to apply.
Free(l) ==
    /\ l \notin Waiting /\ l \notin requestCredit /\ credits[l] = 0
    /\ l \in completed => payload[l] = 0

LEMMA FreeStays ==
    ASSUME CancelledOwnsNothing, cancelled' = cancelled, mstep = "cancel" => UNCHANGED <<mstep, mload>>,
           \A l \in cancelled : Free(l) => Free(l)'
    PROVE  CancelledOwnsNothing'
  BY DEF CancelledOwnsNothing, Free, Waiting

\* A load enters the queue only as it is begun, when it is not cancelled yet.
LEMMA QueueTakes ==
    ASSUME Known, [Next]_vars, ~Marking
    PROVE  /\ Waiting' \subseteq Waiting \cup (Hand \ cancelled)
           /\ ~Accounts => requestCredit' \subseteq requestCredit \cup (Hand \ cancelled)
  <1> USE DEF hostVars, loadVars, workerVars, mainVars
  <1>0. Sound /\ Wanted
    BY KnownSound DEF Known, Custody
  <1>1. pending' = pending => Waiting' = Waiting
    BY DEF Waiting, Elements
  <1>2. CASE CancelLocked
    <2>1. Elements(pending') = Elements(pending) \ {mload}
      BY <1>0, <1>2, UnlinkTakes DEF CancelLocked, Sound, OnePlace
    <2> QED BY <1>2, <2>1 DEF Waiting, Elements, Accounts
  <1>3. CASE Admit
    <2>1. mnew \in Hand \ cancelled
      BY <1>0, <1>3 DEF Admit, Hand, Known, Accounting, Shape, Wanted
    <2>2. CASE ~Accepts(mnew)
      BY <1>1, <1>3, <2>2 DEF Admit
    <2>3. CASE Accepts(mnew)
      <3>1. pending' = Append(pending, mnew) /\ requestCredit' = requestCredit \cup {mnew}
        BY <1>3, <2>3 DEF Admit
      <3>2. mnew \in Loads /\ mnew \notin Elements(pending)
        BY <1>0, <2>1 DEF Sound, OnePlace, Hand, Waiting
      <3>3. Elements(Append(pending, mnew)) = Elements(pending) \cup {mnew}
        BY <1>0, <3>2, ElementsAppend DEF Sound, OnePlace
      <3>4. Waiting' = Waiting \cup {mnew}
        BY <3>1, <3>3 DEF Waiting, Elements
      <3> QED BY <2>1, <3>1, <3>4
    <2> QED BY <2>2, <2>3
  <1>4. CASE Pump \/ \E w \in Workers : WorkerNext(w)
    <2>1. requestCredit' = requestCredit /\ (pending' = pending \/ (pending # <<>> /\ pending' = Tail(pending)))
      BY <1>4 DEF Pump, WorkerNext, PumpStops, Retires
    <2>2. pending # <<>> => Elements(Tail(pending)) \subseteq Elements(pending)
      BY <1>0, ElementsTail DEF Sound, OnePlace
    <2>3. pending' = Tail(pending) => Waiting' = Elements(Tail(pending))
      BY DEF Waiting, Elements
    <2> QED BY <1>1, <2>1, <2>2, <2>3 DEF Waiting
  <1>5. CASE CompleteOnMain
    BY <1>1, <1>5 DEF CompleteOnMain, Accounts
  <1>6. CASE CompleteAtOnce \/ SpawnFails \/ \E w \in Workers : Spawn(w)
    BY <1>1, <1>6 DEF CompleteAtOnce, SpawnFails, Spawn
  <1>7. CASE AppNext
    BY <1>1, <1>7 DEF AppNext, Marking, SetConcurrency, ShutdownRuntime, AtExit, BeginRuntimeRun
  <1>8. CASE TurnNext \/ ExitNext
    BY <1>1, <1>8 DEF TurnNext, TakeBatch, ListenerReturns, EndBatch, ExitNext, LauncherCleanup,
       EnterDrain, FinishDrain, FinishAtExit, Marking
  <1>9. ASSUME NEW w \in Workers, WorkerNextStep(w) \/ Reap(w), ~WorkerNext(w)
        PROVE  pending' = pending /\ (~WorkerComplete(w) => requestCredit' = requestCredit)
    BY <1>9 DEF WorkerNextStep, WorkerCheck, WorkerDecide, WorkerPrepare, WorkerPrepared, WorkerThrows,
       WorkerComplete, WorkerPublish, WorkerFinish, Reap
  <1>10. CASE Gone \/ UNCHANGED vars
    BY <1>1, <1>10 DEF Gone, vars
  <1>11. CASE HostCall
    BY <1>2, <1>3, <1>4, <1>5, <1>6, <1>11 DEF HostCall
  <1> QED BY <1>1, <1>4, <1>7, <1>8, <1>9, <1>10, <1>11 DEF Next, Accounts

LEMMA CancelledNext ==
    ASSUME Known, [Next]_vars
    PROVE  CancelledOwnsNothing'
  <1>0. /\ CancelledOwnsNothing /\ Sound /\ cancelled \subseteq Loads /\ completed \subseteq Loads
        /\ credits \in [Loads -> Nat] /\ payload \in [Loads -> Nat] /\ TypeOK /\ Charged
    BY KnownSound DEF Known, Custody, Accounting, TypeOK
  <1>1. CASE Marking
    <2>1. /\ mstep = "idle" /\ UNCHANGED <<pending, completed, payload, credits, requestCredit>>
          /\ \/ cancelled' = cancelled
             \/ mstep' = "cancel" /\ cancelled' = cancelled \cup {mload'}
      BY <1>1, MarksOne
    <2>2. Elements(pending)' = Elements(pending)
      BY <2>1 DEF Elements
    <2>3. \A l \in cancelled : /\ l \notin Elements(pending) /\ l \notin requestCredit /\ credits[l] = 0
                               /\ l \in completed => payload[l] = 0
      BY <1>0, <2>1 DEF CancelledOwnsNothing
    <2> QED BY <2>1, <2>2, <2>3 DEF CancelledOwnsNothing
  <1>2. CASE CancelLocked
    <2>1. /\ UNCHANGED <<completed, cancelled>> /\ mload \in Loads
          /\ credits' = [credits EXCEPT ![mload] = 0] /\ requestCredit' = requestCredit \ {mload}
          /\ \A l \in Loads \ {mload} : payload'[l] = payload[l]
          /\ mload \in completed => payload'[mload] = 0
      BY <1>2, CancelLockedAccounts
    <2>2. Elements(pending') = Elements(pending) \ {mload}
      BY <1>0, <1>2, UnlinkTakes DEF CancelLocked, Sound, OnePlace
    <2>3. Elements(pending)' = Elements(pending')
      BY DEF Elements
    <2>4. ASSUME NEW l \in cancelled
          PROVE  /\ l \notin Elements(pending') /\ l \notin requestCredit' /\ credits'[l] = 0
                 /\ l \in completed' => payload'[l] = 0
      <3>1. CASE l = mload
        BY <1>0, <2>1, <2>2, <3>1
      <3>2. CASE l # mload
        <4>1. /\ l \notin Elements(pending) /\ l \notin requestCredit /\ credits[l] = 0
              /\ l \in completed => payload[l] = 0
          BY <1>0, <3>2 DEF CancelledOwnsNothing
        <4> QED BY <1>0, <2>1, <2>2, <3>2, <4>1
      <3> QED BY <3>1, <3>2
    <2> QED BY <2>1, <2>3, <2>4 DEF CancelledOwnsNothing
  <1>3. CASE ~Marking /\ ~CancelLocked
    <2>1. cancelled' = cancelled /\ (mstep = "cancel" => UNCHANGED <<mstep, mload>>)
      BY <1>3, NothingMarked
    <2>2. Waiting' \cap cancelled \subseteq Waiting
      BY <1>3, QueueTakes
    <2>3. CASE ~Accounts
      <3>1. requestCredit' \cap cancelled \subseteq requestCredit
        BY <1>3, <2>3, QueueTakes
      <3>2. UNCHANGED <<credits, completed>> /\ \A l \in completed : payload'[l] = payload[l]
        BY <2>3, UncompletedOnly
      <3>3. \A l \in cancelled : Free(l) => Free(l)'
        BY <2>2, <3>1, <3>2 DEF Free
      <3> QED BY <1>0, <2>1, <3>3, FreeStays
    <2>4. CASE CompleteOnMain \/ \E w \in Workers : WorkerComplete(w)
      <3>1. CASE UNCHANGED <<credits, requestCredit, completed, payload>>
        <4>1. \A l \in cancelled : Free(l) => Free(l)'
          BY <2>2, <3>1 DEF Free
        <4> QED BY <1>0, <2>1, <4>1, FreeStays
      <3>2. ASSUME NEW k \in begun \ completed, Settle(k) PROVE CancelledOwnsNothing'
        <4>1. k \in Loads /\ k \notin completed
          BY <1>0 DEF Sound
        <4>2. /\ completed' = completed \cup {k}
              /\ \A l \in Loads \ {k} : credits'[l] = credits[l] /\ payload'[l] = payload[l]
              /\ credits'[k] = payload'[k] /\ (k \in cancelled => payload'[k] = 0)
          BY <1>0, <3>2, <4>1, SettleCharges
        <4>3. requestCredit' \subseteq requestCredit
          BY <3>2 DEF Settle, ReleaseCredits
        <4>4. ASSUME NEW l \in cancelled, Free(l) PROVE Free(l)'
          <5>1. CASE l = k
            BY <2>2, <4>2, <4>3, <4>4, <5>1 DEF Free
          <5>2. CASE l # k
            BY <1>0, <2>2, <4>2, <4>3, <4>4, <5>2 DEF Free
          <5> QED BY <5>1, <5>2
        <4> QED BY <1>0, <2>1, <4>4, FreeStays
      <3> QED BY <2>4, <3>1, <3>2, SettlesOnce
    <2> QED BY <1>3, <2>3, <2>4 DEF Accounts
  <1> QED BY <1>1, <1>2, <1>3

\* Where main's waits are over.
Over == where \in {"ended", "gone"}

LEMMA EndedNext ==
    ASSUME Known, [Next]_vars
    PROVE  Ended'
  <1> USE DEF hostVars, loadVars, workerVars, mainVars, historyVars
  <1>0. Ended /\ CancelledOwnsNothing /\ Sound /\ Shape /\ requestCredit \subseteq begun /\ Charged
    BY KnownSound DEF Known, Custody, Accounting, Shape
  <1>1. CASE FinishDrain \/ FinishAtExit
    <2>1. /\ Idle /\ WorkersEmpty /\ begun \subseteq cancelled /\ mailbox' = <<>>
          /\ UNCHANGED <<mstep, wpc, pending, requestCredit, credits, begun, cancelled>>
      BY <1>1 DEF FinishDrain, FinishAtExit
    <2>2. \A l \in begun : l \notin Waiting /\ l \notin requestCredit /\ credits[l] = 0
      BY <2>1 , <1>0 DEF CancelledOwnsNothing, Idle, Waiting
    <2>3. pending = <<>>
      <3>1. Waiting = {}
        BY <1>0, <2>2 DEF Sound
      <3>2. pending \in Seq(Loads) /\ pending # <<>> => Head(pending) \in Waiting
        BY <1>0, ElementsTail DEF Sound, OnePlace, Waiting
      <3> QED BY <1>0, <3>1, <3>2 DEF Sound
    <2>4. requestCredit = {}
      BY <1>0, <2>2
    <2>5. \A l \in Loads : credits[l] = 0
      BY <1>0, <2>2 DEF Charged, Sound, OnceOut
    <2> QED BY <2>1, <2>3, <2>4, <2>5 DEF Ended, Idle, WorkersEmpty
  <1>2. CASE ~Over /\ ~FinishDrain /\ ~FinishAtExit
    <2>1. ~Over'
      <3>1. CASE AppNext
        BY <1>2, <3>1 DEF Over, AppNext, Begin, CancelHandle, SetConcurrency, ShutdownRuntime, AtExit, BeginRuntimeRun
      <3>2. CASE HostCall
        BY <1>2, <3>2 DEF Over, HostCall, CancelLocked, Admit, CompleteAtOnce, CompleteOnMain, Pump, Spawn, SpawnFails
      <3>3. CASE TurnNext \/ ExitNext
        BY <1>2, <3>3 DEF Over, TurnNext, TakeBatch, Deliver, ListenerReturns, EndBatch, ExitNext, CancelBackend,
           LauncherCleanup, EnterDrain
      <3>4. ASSUME NEW w \in Workers, WorkerNextStep(w) \/ Reap(w) PROVE where' = where
        BY <3>4 DEF WorkerNextStep, WorkerCheck, WorkerDecide, WorkerPrepare, WorkerPrepared, WorkerThrows,
           WorkerComplete, WorkerPublish, WorkerNext, WorkerFinish, Reap
      <3>5. CASE Gone \/ UNCHANGED vars
        BY <1>2, <3>5 DEF Gone, vars, Over
      <3> QED BY <1>2, <3>1, <3>2, <3>3, <3>4, <3>5 DEF Next, Over
    <2> QED BY <2>1 DEF Over, Ended
  <1>3. CASE Over
    <2>1. mstep = "idle" /\ \A w \in Workers : wpc[w] = "none"
      BY <1>0, <1>3 DEF Over, Ended, Idle, WorkersEmpty
    <2>2. ~HostCall /\ \A w \in Workers : ~WorkerNextStep(w) /\ ~Reap(w)
      BY <2>1 DEF HostCall, CancelLocked, Admit, CompleteAtOnce, CompleteOnMain, Pump, Spawn, SpawnFails,
         WorkerNextStep, WorkerCheck, WorkerDecide, WorkerPrepare, WorkerPrepared, WorkerThrows,
         WorkerComplete, WorkerPublish, WorkerNext, WorkerFinish, Reap
    <2>3. ~TurnNext /\ ~ExitNext
      BY <1>3 DEF Over, TurnNext, TakeBatch, Deliver, ListenerReturns, EndBatch, ExitNext, CancelBackend,
         LauncherCleanup, EnterDrain, FinishDrain, FinishAtExit
    <2>4. CASE AppNext
      <3>1. BeginRuntimeRun \/ AtExit
        BY <1>3, <2>4 DEF Over, AppNext, Begin, CancelHandle, SetConcurrency, AppCode, ShutdownRuntime
      <3>2. where' \notin {"ended", "gone"}
        BY <3>1 DEF BeginRuntimeRun, AtExit
      <3> QED BY <3>2 DEF Ended
    <2>5. CASE Gone \/ UNCHANGED vars
      <3>1. UNCHANGED vars
        BY <2>5 DEF Gone
      <3> QED BY <1>0, <3>1 DEF Ended, vars, Idle, WorkersEmpty
    <2> QED BY <2>2, <2>3, <2>4, <2>5 DEF Next
  <1> QED BY <1>1, <1>2, <1>3

LEMMA CustodyInit == Init => Custody
  <1> SUFFICES ASSUME Init PROVE Custody
    OBVIOUS
  <1>1. Elements(<<>>) = {} /\ IsInjective(<<>>)
    <2>1. <<>> \in Seq(Loads) /\ Len(<<>>) = 0
      BY EmptySeq
    <2>2. Elements(<<>>) = {} /\ DOMAIN <<>> = 1 .. 0
      BY <2>1, ElementsIn
    <2> QED BY <2>2 DEF IsInjective
  <1>2. AtRest
    BY LoadConstants DEF Init, AtRest, HoldsSlot
  <1>3. Waiting = {} /\ Hand = {}
    BY <1>1, LoadConstants DEF Init, Waiting, Hand
  <1>4. OnePlace
    BY <1>1, <1>3 DEF Init, OnePlace, HoldsSlot, Early
  <1>5. OnceOut
    BY <1>1 DEF Init, OnceOut
  <1>6. Charged
    <2>1. IsFiniteSet(Loads) /\ IsFiniteSet(Loads \ LocalLoads)
      BY LoadConstants, FS_Subset
    <2>2. \A l \in Loads : credits[l] = 0
      BY DEF Init
    <2>3. SumFunctionOnSet(credits, Loads) = 0
      BY ONLY <2>1, <2>2, SumZero
    <2>4. SumFunctionOnSet(credits, Loads \ LocalLoads) = 0
      <3> DEFINE N == Loads \ LocalLoads
      <3>1. IsFiniteSet(N) /\ \A l \in N : credits[l] = 0
        BY <2>1, <2>2
      <3> HIDE DEF N
      <3>2. SumFunctionOnSet(credits, N) = 0
        BY ONLY <3>1, SumZero
      <3> QED BY <3>2 DEF N
    <2>5. BytesBalance /\ NetworkBytesBounded
      BY <2>3, <2>4, LoadConstants DEF Init, BytesBalance, NetworkBytesBounded, SumCredits
    <2> QED BY <2>2, <2>5 DEF Init, Charged
  <1>7. Wanted /\ CancelledOwnsNothing /\ Ended
    BY DEF Init, Wanted, CancelledOwnsNothing, Ended
  <1> QED BY <1>2, <1>4, <1>5, <1>6, <1>7 DEF Custody

LEMMA KnownInit == Init => Known
  BY AccountingInit, ReferencesInit, CustodyInit DEF Known

LEMMA KnownNext == Known /\ [Next]_vars => Known'
  <1> SUFFICES ASSUME Known, [Next]_vars PROVE Known'
    OBVIOUS
  <1>1. Accounting' /\ References'
    BY AccountingNext, ReferencesNext DEF Known
  <1>2. AtRest' /\ OnePlace' /\ OnceOut' /\ Charged'
    BY AtRestNext, OnePlaceNext, OnceOutNext, ChargedNext
  <1>3. Wanted' /\ CancelledOwnsNothing' /\ Ended'
    BY WantedNext, CancelledNext, EndedNext
  <1> QED BY <1>1, <1>2, <1>3 DEF Known, Custody

-----------------------------------------------------------------------------
(* What follows from custody.                                              *)

\* Accounting, References and Custody hold together in every reachable state,
\* whatever main, the workers and the reaper of tcResourceLoad.cpp do and in
\* whichever order.
THEOREM CustodyInvariant == Spec => []Known
  BY KnownInit, KnownNext, PTL DEF Spec

LEMMA KnownResults == Known => ResultsAreSound
  <1> SUFFICES ASSUME Known PROVE ResultsAreSound
    OBVIOUS
  <1>0. /\ Sound /\ Charged /\ Wanted /\ completed \subseteq begun
        /\ IsInjective(mailbox) /\ IsInjective(batch) /\ Elements(mailbox) \cap Elements(batch) = {}
        /\ Elements(mailbox) \cup Elements(batch) \subseteq completed
    BY KnownSound DEF Known, Custody, OnceOut
  <1>1. IsInjective(batch \o mailbox)
    <2>1. batch \in Seq(Loads) /\ mailbox \in Seq(Loads) /\ Elements(batch) \cap Elements(mailbox) = {}
      BY <1>0 DEF Sound
    <2> QED BY ONLY <1>0, <2>1, JoinInjective
  <1>2. \A v, w \in Workers : job[v] = job[w] /\ HoldsSlot(v) /\ HoldsSlot(w) => v = w
    BY <1>0 DEF Sound, OnePlace
  <1>3. \A l \in completed : Preparing(l) = {} /\ l \notin Elements(pending)
    BY <1>0 DEF Sound, OnePlace, Early, Preparing, Waiting
  <1>4. OneStageAtATime
    BY <1>0, <1>1, <1>2, <1>3 DEF OneStageAtATime, Sound, OnePlace
  <1>5. ResultIntact
    BY <1>0 DEF ResultIntact, Charged, Wanted
  <1> QED BY <1>4, <1>5 DEF ResultsAreSound

\* A load is queued, prepared and published once, by one thread at a time, and
\* what waits for delivery is whole: runExternalJob, completeResourceLoad and
\* deliver never meet a load in two hands, nor a result without its payload.
THEOREM ResultsAreAlwaysSound == Spec => []ResultsAreSound
  BY CustodyInvariant, KnownResults, PTL

LEMMA KnownBytes == Known => BytesAccounted
  BY DEF Known, Custody, Charged, BytesAccounted

\* host.retained is the sum of what the loads are charged for, and network
\* results stay within the byte limit whatever local files, which are exempt,
\* add to it (completeResourceLoad, releaseCredits).
THEOREM BytesAreAccounted == Spec => []BytesAccounted
  BY CustodyInvariant, KnownBytes, PTL

LEMMA KnownCancelled == Known => CancelledOwnsNothing
  BY DEF Known, Custody

\* When main has left ResourceLoadState::cancel the load owns nothing, although
\* a worker that read `cancelled` before may still complete or publish it.
THEOREM CancelledLoadsOwnNothing == Spec => []CancelledOwnsNothing
  BY CustodyInvariant, KnownCancelled, PTL

LEMMA KnownExit ==
    ASSUME Known, spawnFailures = 0
    PROVE  ExitIsClean
  <1> SUFFICES ASSUME where \in {"ended", "gone"} PROVE ExitIsClean
    BY DEF ExitIsClean
  <1>1. /\ Idle /\ WorkersEmpty /\ pending = <<>> /\ mailbox = <<>> /\ requestCredit = {}
        /\ (\A l \in Loads : credits[l] = 0) /\ begun \subseteq cancelled
        /\ BytesBalance /\ SlotsHeld /\ RequestsBalance
    BY DEF Known, Custody, Ended, Charged, Accounting
  <1>2. Holding = {}
    BY <1>1 DEF WorkersEmpty, Holding, HoldsSlot
  <1>3. active = 0
    BY <1>1, <1>2, FS_EmptySet DEF SlotsHeld, Idle
  <1>4. outstanding = 0
    BY <1>1, FS_EmptySet DEF RequestsBalance
  <1>5. retained = 0
    <2>1. IsFiniteSet(Loads) /\ \A l \in Loads : credits[l] = 0
      BY <1>1, LoadConstants
    <2>2. SumFunctionOnSet(credits, Loads) = 0
      BY ONLY <2>1, SumZero
    <2> QED BY <1>1, <2>2 DEF BytesBalance, SumCredits
  <1> QED BY <1>1, <1>3, <1>4, <1>5 DEF ExitIsClean, WorkersEmpty

\* As long as every thread launch has succeeded, the waits at the end of a run and
\* of the process leave the host as a new process finds it: no thread, no queued
\* or published load, and all slots, credits and bytes given back, so that the
\* next run starts from zero (waitForResourceLoadsAtAppExit,
\* finishResourceLoadsAtExit).  A failed launch keeps its slot: SlotsHeld counts it.
THEOREM LaunchedMeansNothingKept == Spec => [](spawnFailures = 0 => NothingIsKept)
  <1>1. Known => (spawnFailures = 0 => NothingIsKept)
    BY KnownExit, KnownCancelled DEF NothingIsKept
  <1> QED BY <1>1, CustodyInvariant, PTL

\* The same for a system whose launches never fail, which the runs check.
COROLLARY NothingIsEverKept ==
    ASSUME MaxSpawnFailures = 0
    PROVE  Spec => []NothingIsKept
  <1>1. TypeOK => spawnFailures = 0
    BY DEF TypeOK
  <1> QED BY <1>1, LaunchedMeansNothingKept, TypeCorrect, PTL

\* A load's payload is written by the worker that prepares it until the load
\* completes, and by main only afterwards: the unlocked writes of a preparation
\* never race with cancel(), delivery or batch destruction.
THEOREM PayloadIsHandedOver == Spec => PayloadHandedOver
  <1>1. Known /\ [Next]_vars => [Handed]_vars
    BY HandedNext
  <1>2. Known /\ [Next]_vars => [\A l \in Loads : payload'[l] # payload[l] =>
           IF wpc' = wpc THEN l \in completed \/ \A w \in Workers : job[w] # l
           ELSE l \notin completed]_vars
    BY <1>1 DEF Handed
  <1> QED BY <1>2, CustodyInvariant, PTL DEF Spec, PayloadHandedOver
=============================================================================
