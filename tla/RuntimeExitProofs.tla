------------------------- MODULE RuntimeExitProofs --------------------------
(***************************************************************************)
(* Theorems about AppOwner and RuntimeExit, for any threads and callbacks. *)
(*                                                                         *)
(* OwnerInv is the inductive invariant of an App's owner.  A callback that *)
(* was handed out is in one of three places: waiting in the list past the  *)
(* index, taken by main, or cancelled (Accounted, Waiting).  One that is   *)
(* being registered is in none of them and in the hands of one thread      *)
(* (Fresh).  From the moment the token is revoked for good nothing enters  *)
(* the list, so the list that the retirement found exhausted stays so      *)
(* (Revoked).                                                              *)
(*                                                                         *)
(* A step of the run is a step of the App's owner or leaves it alone, so   *)
(* its theorems carry over.  ExitInv is the inductive invariant of the     *)
(* loop: what stands behind an end (Behind), what stands behind a question *)
(* (Heard), and what the watchdog saw (Watched).                           *)
(***************************************************************************)
EXTENDS RuntimeExit, TLAPS

\* The list holds no callback twice, and only callbacks that were handed out.
Listed ==
    /\ \A i \in 1..Len(listed) : listed[i] \in offered
    /\ \A i, j \in 1..Len(listed) : listed[i] = listed[j] => i = j

\* What main has yet to run was not run.
Waiting ==
    /\ \A i \in 1..Len(listed) : i > next => cancelled[listed[i]] = 0 /\ listed[i] # taken
    /\ phase = "invoke" <=> taken # NoCallback
    /\ taken # NoCallback => taken \in offered /\ cancelled[taken] = 0

Accounted ==
    \A c \in offered :
        \/ cancelled[c] = 1
        \/ c = taken
        \/ \E i \in 1..Len(listed) : i > next /\ listed[i] = c

\* What is being registered is in the hands of one thread.
Fresh ==
    /\ \A t \in Threads : adding[t] \notin offered
    /\ \A t, u \in Threads : adding[t] = adding[u] /\ adding[t] # NoCallback => t = u
    /\ \A t \in refused : adding[t] # NoCallback
    /\ \A c \in Callbacks : c \notin offered => cancelled[c] = 0

AtMostOnce == \A c \in Callbacks : cancelled[c] <= 1 /\ (cancelled[c] = 1 => c \notin held)

\* Once revoked for good, the token admits nothing.
Revoked ==
    /\ phase \in {"extract", "invoke", "retired", "none"} => ~token
    /\ phase \in {"retired", "none"} => listed = <<>> /\ next = 0

OwnerInv == OwnerTypeOK /\ Listed /\ Waiting /\ Accounted /\ Fresh /\ AtMostOnce /\ Revoked

LEMMA Initially == OwnerInit => OwnerInv
  <1> SUFFICES ASSUME OwnerInit PROVE OwnerInv
    OBVIOUS
  <1>0. <<>> \in Seq(Callbacks) /\ Len(<<>>) = 0 /\ 0 \in 0..0
    OBVIOUS
  <1>1. OwnerTypeOK
    BY <1>0, Zenon DEF OwnerInit, OwnerTypeOK, Phases
  <1>2. Listed /\ Waiting /\ Accounted /\ AtMostOnce /\ Revoked
    BY DEF OwnerInit, Listed, Waiting, Accounted, AtMostOnce, Revoked
  <1>3. Fresh
    BY DEF OwnerInit, Fresh
  <1> QED BY <1>1, <1>2, <1>3 DEF OwnerInv

-----------------------------------------------------------------------------
(* Steps that leave the ledger and the registrations alone.                *)

LEMMA Elsewhere ==
    ASSUME OwnerInv, UNCHANGED <<ledger, adding, refused>>
    PROVE  Listed' /\ Accounted' /\ Fresh' /\ AtMostOnce'
  BY DEF OwnerInv, ledger, Listed, Accounted, Fresh, AtMostOnce

LEMMA WorkersKeep ==
    ASSUME OwnerInv, NEW t \in Workers,
           (\E c \in Callbacks : Enter(t, c)) \/ Admit(t) \/ Return(t)
    PROVE  OwnerInv'
  <1>1. UNCHANGED <<flags, ledger, phase, adding, refused>>
    BY DEF Enter, Admit, Return
  <1>2. OwnerTypeOK'
    <2>1. UNCHANGED <<token, retiring, ended, closing, listed, next, held, offered, taken,
                      cancelled, phase, adding, refused>>
      BY <1>1 DEF flags, ledger
    <2>2. at' \in [Workers -> {"out", "entered", "in"}]
      BY DEF Enter, Admit, Return, OwnerInv, OwnerTypeOK
    <2>3. with' \in [Workers -> Callbacks \cup {NoCallback}]
      BY DEF Enter, Admit, Return, OwnerInv, OwnerTypeOK
    <2> QED BY <2>1, <2>2, <2>3 DEF OwnerInv, OwnerTypeOK
  <1>3. Waiting' /\ Revoked'
    BY <1>1 DEF flags, ledger, OwnerInv, Waiting, Revoked
  <1> QED BY <1>1, <1>2, <1>3, Elsewhere DEF OwnerInv

\* main moves on, and sets flags: all but the first and the retirement's steps.
LEMMA MainKeeps ==
    ASSUME OwnerInv,
           Attach \/ EndAttachment \/ DropToken \/ CloseCallbacks \/ Retire \/ RevokeToken
             \/ Destroy
    PROVE  OwnerInv'
  <1>1. UNCHANGED <<ledger, calls>>
    BY DEF Attach, EndAttachment, DropToken, CloseCallbacks, Retire, RevokeToken, Destroy,
       flags
  <1>2. OwnerTypeOK'
    <2>1. UNCHANGED <<listed, next, held, offered, taken, cancelled, at, with, adding, refused>>
      BY <1>1 DEF ledger, calls
    <2>2. token' \in BOOLEAN /\ retiring' \in BOOLEAN /\ ended' \in BOOLEAN
            /\ closing' \in BOOLEAN /\ phase' \in Phases
      BY DEF Attach, EndAttachment, DropToken, CloseCallbacks, Retire, RevokeToken, Destroy,
         MainGoes, flags, Phases, OwnerInv, OwnerTypeOK
    <2> QED BY <2>1, <2>2 DEF OwnerInv, OwnerTypeOK
  <1>3. Waiting'
    BY <1>1 DEF ledger, OwnerInv, Waiting, Attach, EndAttachment, DropToken, CloseCallbacks,
       Retire, RevokeToken, Destroy, MainGoes
  <1>4. Revoked'
    BY <1>1 DEF ledger, OwnerInv, Revoked, Attach, EndAttachment, DropToken, CloseCallbacks,
       Retire, RevokeToken, Destroy, MainGoes, flags
  <1> QED BY <1>1, <1>2, <1>3, <1>4, Elsewhere DEF OwnerInv, calls

-----------------------------------------------------------------------------
(* A new App, and the retirement.                                          *)

LEMMA ConstructKeeps == ASSUME OwnerInv, Construct PROVE OwnerInv'
  <1>1. \A t \in Threads : adding[t] = NoCallback
    BY DEF Construct, Outside
  <1>2. refused = {}
    BY <1>1 DEF OwnerInv, OwnerTypeOK, Fresh
  <1>3. taken = NoCallback
    BY DEF OwnerInv, Waiting, Construct
  <1>0. <<>> \in Seq(Callbacks) /\ Len(<<>>) = 0 /\ 0 \in 0..0
    OBVIOUS
  <1>4. OwnerTypeOK'
    BY <1>0, Zenon DEF Construct, calls, OwnerInv, OwnerTypeOK, Phases
  <1>5. Listed' /\ Waiting' /\ Accounted'
    BY <1>3 DEF Construct, Listed, Waiting, Accounted
  <1>6. Fresh'
    BY <1>1, <1>2 DEF Construct, calls, Fresh
  <1>7. AtMostOnce' /\ Revoked'
    BY DEF Construct, AtMostOnce, Revoked
  <1> QED BY <1>4, <1>5, <1>6, <1>7 DEF OwnerInv

LEMMA ExtractKeeps == ASSUME OwnerInv, Extract PROVE OwnerInv'
  <1> USE DEF Extract, MainGoes, calls, flags
  <1>1. next \in 0..Len(listed) /\ next + 1 \in 1..Len(listed) /\ listed \in Seq(Callbacks)
    BY DEF OwnerInv, OwnerTypeOK
  <1>2. listed[next + 1] \in Callbacks
    BY <1>1
  <1>3. OwnerTypeOK'
    BY <1>1, <1>2 DEF OwnerInv, OwnerTypeOK, Phases
  <1>4. Listed' /\ Fresh' /\ AtMostOnce' /\ Revoked'
    BY DEF OwnerInv, Listed, Fresh, AtMostOnce, Revoked
  <1>5. Waiting'
    <2>1. taken' # NoCallback
      BY <1>2, OwnerConstants
    <2>2. cancelled[listed[next + 1]] = 0 /\ listed[next + 1] \in offered
      BY <1>1 DEF OwnerInv, Waiting, Listed
    <2>3. \A i \in 1..Len(listed) : i > next + 1 =>
             cancelled[listed[i]] = 0 /\ listed[i] # listed[next + 1]
      BY <1>1 DEF OwnerInv, Waiting, Listed
    <2> QED BY <2>1, <2>2, <2>3 DEF Waiting
  <1>6. Accounted'
    <2> SUFFICES ASSUME NEW c \in offered, cancelled[c] # 1, c # taken'
                 PROVE  \E i \in 1..Len(listed) : i > next + 1 /\ listed[i] = c
      BY DEF Accounted
    <2>1. c # taken
      BY OwnerConstants DEF OwnerInv, OwnerTypeOK, Waiting
    <2>2. PICK i \in 1..Len(listed) : i > next /\ listed[i] = c
      BY <2>1 DEF OwnerInv, Accounted
    <2> QED BY <2>2, <1>1
  <1> QED BY <1>3, <1>4, <1>5, <1>6 DEF OwnerInv

LEMMA InvokeKeeps == ASSUME OwnerInv, Invoke PROVE OwnerInv'
  <1> USE DEF Invoke, Cancel, MainGoes, calls, flags
  <1>1. taken \in Callbacks /\ taken \in offered /\ cancelled[taken] = 0
    BY DEF OwnerInv, OwnerTypeOK, Waiting
  <1>2. /\ cancelled' = [cancelled EXCEPT ![taken] = 1] /\ cancelled' \in [Callbacks -> Nat]
        /\ cancelled'[taken] = 1
        /\ \A c \in Callbacks : c # taken => cancelled'[c] = cancelled[c]
    BY <1>1 DEF OwnerInv, OwnerTypeOK
  <1>3. OwnerTypeOK'
    BY <1>2 DEF OwnerInv, OwnerTypeOK, Phases
  <1>4. Listed' /\ Revoked'
    BY DEF OwnerInv, Listed, Revoked
  <1>5. Waiting'
    <2>1. \A i \in 1..Len(listed) : listed[i] \in Callbacks
      BY DEF OwnerInv, OwnerTypeOK
    <2>2. \A i \in 1..Len(listed) : listed[i] # NoCallback
      BY <2>1, OwnerConstants
    <2>3. \A i \in 1..Len(listed) : i > next => cancelled'[listed[i]] = 0
      BY <1>2, <2>1 DEF OwnerInv, Waiting
    <2> QED BY <2>2, <2>3 DEF Waiting, OwnerInv
  <1>6. Accounted'
    BY <1>1, <1>2 DEF OwnerInv, OwnerTypeOK, Accounted
  <1>7. Fresh'
    BY <1>1, <1>2 DEF OwnerInv, Fresh
  <1>8. AtMostOnce'
    BY <1>1, <1>2 DEF OwnerInv, AtMostOnce
  <1> QED BY <1>3, <1>4, <1>5, <1>6, <1>7, <1>8 DEF OwnerInv

LEMMA ExhaustedKeeps == ASSUME OwnerInv, Exhausted PROVE OwnerInv'
  <1> USE DEF Exhausted, MainGoes, calls, flags
  <1>1. taken = NoCallback
    BY DEF OwnerInv, Waiting
  <1>2. OwnerTypeOK'
    BY DEF OwnerInv, OwnerTypeOK, Phases
  <1>3. Accounted'
    BY <1>1 DEF OwnerInv, OwnerTypeOK, Accounted
  <1> QED
    BY <1>1, <1>2, <1>3 DEF OwnerInv, Listed, Waiting, Fresh, AtMostOnce, Revoked

-----------------------------------------------------------------------------
(* Registrations.                                                          *)

LEMMA RegisterKeeps ==
    ASSUME OwnerInv, NEW t \in Threads, NEW c \in Callbacks, Register(t, c)
    PROVE  OwnerInv'
  <1> USE DEF Register, flags
  <1>1. OwnerTypeOK'
    BY DEF OwnerInv, OwnerTypeOK
  <1>2. Listed' /\ Accounted' /\ Revoked'
    BY DEF OwnerInv, Listed, Accounted, Revoked
  <1>3. Waiting'
    BY DEF OwnerInv, Waiting
  <1>4. adding'[t] = c /\ \A u \in Threads : u # t => adding'[u] = adding[u]
    BY DEF OwnerInv, OwnerTypeOK
  <1>5. Fresh'
    BY <1>4, OwnerConstants DEF OwnerInv, OwnerTypeOK, Fresh
  <1>6. AtMostOnce'
    BY DEF OwnerInv, Fresh, AtMostOnce
  <1> QED BY <1>1, <1>2, <1>3, <1>5, <1>6 DEF OwnerInv

LEMMA AddKeeps == ASSUME OwnerInv, NEW t \in Threads, Add(t) PROVE OwnerInv'
  <1> USE DEF Add, flags
  <1>0. adding[t] \in Callbacks /\ adding[t] \notin offered /\ cancelled[adding[t]] = 0
    BY DEF OwnerInv, OwnerTypeOK, Fresh
  <1>1. CASE Accepts
    <2>1. /\ listed' = Append(listed, adding[t]) /\ offered' = offered \cup {adding[t]}
          /\ adding' = [adding EXCEPT ![t] = NoCallback] /\ refused' = refused
          /\ UNCHANGED <<token, retiring, ended, closing, phase, next, held, taken, cancelled,
                         at, with>>
      BY <1>1
    <2>2. /\ listed \in Seq(Callbacks) /\ Len(listed') = Len(listed) + 1
          /\ listed' \in Seq(Callbacks) /\ listed'[Len(listed) + 1] = adding[t]
          /\ \A i \in 1..Len(listed) : listed'[i] = listed[i]
      BY <2>1, <1>0 DEF OwnerInv, OwnerTypeOK
    <2>3. next \in 0..Len(listed)
      BY DEF OwnerInv, OwnerTypeOK
    <2>4. OwnerTypeOK'
      BY <2>1, <2>2, <2>3, <1>0 DEF OwnerInv, OwnerTypeOK
    <2>5. Listed'
      BY <2>1, <2>2, <1>0 DEF OwnerInv, Listed
    <2>6. Waiting'
      <3>1. taken # adding[t]
        BY <1>0, OwnerConstants DEF OwnerInv, Waiting
      <3> QED BY <2>1, <2>2, <3>1, <1>0 DEF OwnerInv, Waiting
    <2>7. Accounted'
      <3> SUFFICES ASSUME NEW c \in offered', cancelled[c] # 1, c # taken
                   PROVE  \E i \in 1..Len(listed') : i > next /\ listed'[i] = c
        BY <2>1 DEF Accounted
      <3>1. CASE c = adding[t]
        BY <3>1, <2>2, <2>3
      <3>2. CASE c \in offered
        <4>1. PICK i \in 1..Len(listed) : i > next /\ listed[i] = c
          BY <3>2 DEF OwnerInv, Accounted
        <4> QED BY <4>1, <2>2
      <3> QED BY <3>1, <3>2, <2>1
    <2>8. Fresh'
      <3>1. adding'[t] = NoCallback /\ \A u \in Threads : u # t => adding'[u] = adding[u]
        BY <2>1 DEF OwnerInv, OwnerTypeOK
      <3>2. NoCallback \notin offered'
        BY <2>4, OwnerConstants DEF OwnerTypeOK
      <3>3. \A u \in Threads : u # t => adding[u] # adding[t]
        BY <1>0, OwnerConstants DEF OwnerInv, Fresh
      <3> QED BY <2>1, <3>1, <3>2, <3>3 DEF OwnerInv, Fresh
    <2>9. AtMostOnce'
      BY <2>1 DEF OwnerInv, AtMostOnce
    <2>10. Revoked'
      BY <1>1, <2>1 DEF OwnerInv, Revoked, Accepts
    <2> QED BY <2>4, <2>5, <2>6, <2>7, <2>8, <2>9, <2>10 DEF OwnerInv
  <1>2. CASE ~Accepts
    <2>1. /\ refused' = refused \cup {t}
          /\ UNCHANGED <<token, retiring, ended, closing, phase, listed, next, held, offered,
                         adding, taken, cancelled, at, with>>
      BY <1>2
    <2> QED
      BY <2>1 DEF OwnerInv, OwnerTypeOK, Listed, Waiting, Accounted, Fresh, AtMostOnce, Revoked
  <1> QED BY <1>1, <1>2

LEMMA CancelNowKeeps == ASSUME OwnerInv, NEW t \in Threads, CancelNow(t) PROVE OwnerInv'
  <1> USE DEF CancelNow, Cancel, flags
  <1>0. /\ adding[t] # NoCallback /\ adding[t] \in Callbacks /\ adding[t] \notin offered
        /\ cancelled[adding[t]] = 0
    BY DEF OwnerInv, OwnerTypeOK, Fresh
  <1>1. /\ cancelled' = [cancelled EXCEPT ![adding[t]] = 1]
        /\ cancelled' \in [Callbacks -> Nat] /\ cancelled'[adding[t]] = 1
        /\ \A c \in Callbacks : c # adding[t] => cancelled'[c] = cancelled[c]
    BY <1>0 DEF OwnerInv, OwnerTypeOK
  <1>2. OwnerTypeOK'
    BY <1>0, <1>1 DEF OwnerInv, OwnerTypeOK
  <1>3. Listed' /\ Revoked'
    BY DEF OwnerInv, Listed, Revoked
  <1>4. Waiting'
    <2>1. \A i \in 1..Len(listed) : listed[i] \in Callbacks /\ listed[i] # adding[t]
      BY <1>0 DEF OwnerInv, OwnerTypeOK, Listed
    <2>2. taken # NoCallback => taken \in Callbacks /\ taken # adding[t]
      BY <1>0 DEF OwnerInv, OwnerTypeOK, Waiting
    <2> QED BY <1>1, <2>1, <2>2 DEF OwnerInv, Waiting
  <1>5. Accounted'
    BY <1>0, <1>1 DEF OwnerInv, OwnerTypeOK, Accounted
  <1>6. Fresh'
    <2>1. adding'[t] = NoCallback /\ \A u \in Threads : u # t => adding'[u] = adding[u]
      BY DEF OwnerInv, OwnerTypeOK
    <2>2. NoCallback \notin offered'
      BY <1>2, OwnerConstants DEF OwnerTypeOK
    <2>3. \A u \in Threads : u # t => adding[u] # adding[t]
      BY <1>0 DEF OwnerInv, Fresh
    <2>4. \A u \in refused' : u # t /\ u \in Threads
      BY DEF OwnerInv, OwnerTypeOK
    <2> QED BY <1>1, <2>1, <2>2, <2>3, <2>4 DEF OwnerInv, Fresh
  <1>7. AtMostOnce'
    BY <1>0, <1>1 DEF OwnerInv, AtMostOnce
  <1> QED BY <1>2, <1>3, <1>4, <1>5, <1>6, <1>7 DEF OwnerInv

-----------------------------------------------------------------------------
(* The theorems.                                                           *)

LEMMA OwnerStep == OwnerInv /\ [OwnerNext]_ownervars => OwnerInv'
  <1> SUFFICES ASSUME OwnerInv, [OwnerNext]_ownervars PROVE OwnerInv'
    OBVIOUS
  <1>1. ASSUME NEW t \in Threads, Registers(t) PROVE OwnerInv'
    BY <1>1, RegisterKeeps, AddKeeps, CancelNowKeeps DEF Registers
  <1>2. CASE MainSteps
    BY <1>2, ConstructKeeps, MainKeeps, ExtractKeeps, InvokeKeeps, ExhaustedKeeps DEF MainSteps
  <1>3. ASSUME NEW t \in Workers, WorkerSteps(t) PROVE OwnerInv'
    BY <1>1, <1>3, WorkersKeep DEF WorkerSteps, Workers
  <1>4. CASE UNCHANGED ownervars
    <2>1. UNCHANGED <<ledger, calls, flags, phase>>
      BY <1>4 DEF ownervars
    <2>2. Waiting' /\ Revoked' /\ OwnerTypeOK'
      BY <2>1 DEF flags, ledger, calls, OwnerInv, Waiting, Revoked, OwnerTypeOK
    <2> QED BY <2>1, <2>2, Elsewhere DEF OwnerInv, calls
  <1> QED BY <1>1, <1>2, <1>3, <1>4, OwnerConstants DEF OwnerNext

THEOREM OwnerInvariant == OwnerSpec => []OwnerInv
  BY Initially, OwnerStep, PTL DEF OwnerSpec

\* Whatever threads register, and however late, each cancellation runs once.
THEOREM CancellationsRunOnce == OwnerSpec => []CancelledOnce
  <1>1. OwnerInv => CancelledOnce
    <2> SUFFICES ASSUME OwnerInv, phase \in {"retired", "none"}, NEW c \in offered
                 PROVE  cancelled[c] = 1
      BY DEF OwnerInv, AtMostOnce, CancelledOnce
    <2>1. listed = <<>> /\ taken = NoCallback /\ c # NoCallback
      BY OwnerConstants DEF OwnerInv, OwnerTypeOK, Waiting, Revoked
    <2> QED BY <2>1 DEF OwnerInv, Accounted
  <1> QED BY <1>1, OwnerInvariant, PTL

-----------------------------------------------------------------------------
(* The run.                                                                *)

LEMMA StepOfOwner == [Next]_vars => [OwnerNext]_ownervars
  <1> SUFFICES ASSUME [Next]_vars PROVE [OwnerNext]_ownervars
    OBVIOUS
  <1>1. CASE LoopSteps \/ Terminate \/ FrameEnds
    <2>1. CASE NoPendingQuit \/ Queues \/ Terminate \/ Answered \/ EndOrdered
                 \/ NothingDeferred \/ Maintain \/ FrameEnds
      BY <2>1 DEF NoPendingQuit, Queues, Terminate, Answered, EndOrdered, NothingDeferred,
         Maintain, FrameEnds
    <2>2. CASE ProcessPendingQuit("turn", "turn") \/ Accept \/ Veto \/ Vetoed \/ Commit \/ Armed
                 \/ CancelWatchdog \/ Joined
      BY <2>2 DEF ProcessPendingQuit, Accept, Veto, Vetoed, Commit, Armed, CancelWatchdog, Joined
    <2> QED BY <1>1, <2>1, <2>2 DEF LoopSteps
  <1>2. CASE InFrame \/ InWorker \/ InShutdown
    BY <1>2 DEF InFrame, InWorker, InShutdown, OwnerNext
  <1>3. CASE ExitApp \/ CloseWindow \/ ProcessPendingQuit("frame", "setup") \/ SessionAsks
               \/ PowerOff \/ AppsEnded \/ Leave
    BY <1>3 DEF ExitApp, CloseWindow, ProcessPendingQuit, SessionAsks, PowerOff, AppsEnded, Leave
  <1>4. CASE DogLooks \/ DogSleeps \/ DogTimesOut \/ Tick
               \/ Signal \/ \E t \in Workers : WorkerAsks(t)
    BY <1>4 DEF DogLooks, DogSleeps, DogTimesOut, Tick, Signal, WorkerAsks
  <1>5. CASE UNCHANGED vars
    BY <1>5 DEF vars
  <1> QED BY <1>1, <1>2, <1>3, <1>4, <1>5 DEF Next

\* What the run does to its Apps is what AppOwner describes.
THEOREM RunUsesOwner == Spec => OwnerSpec
  <1>1. Init => OwnerInit
    BY DEF Init
  <1> QED BY <1>1, StepOfOwner, PTL DEF Spec, OwnerSpec

\* So the cancellations of an App that ends with the run are run once.
THEOREM RunCancelsOnce == Spec => []CancelledOnce
  BY RunUsesOwner, CancellationsRunOnce, PTL

-----------------------------------------------------------------------------
(* The typing.                                                             *)

Places ==
    /\ m \in {"turn", "queues", "frame", "deferred", "maintain", "asking", "vetoing", "answered",
              "committing", "arming", "stopping", "cancelling", "joining", "leaving"}
    /\ origin \in {"none", "turn", "setup", "close", "native", "session"}
    /\ deadline \in {"idle", "armed", "cancelled"}
    /\ dog \in {"looking", "decided", "asleep", "timed", "left"}
    /\ process \in {"up", "exited", "signal", "watchdog"}

Flags ==
    /\ live \in BOOLEAN /\ quitPending \in BOOLEAN /\ stopping \in BOOLEAN
    /\ requested \in BOOLEAN /\ ordered \in BOOLEAN /\ signal \in BOOLEAN
    /\ delivered \in BOOLEAN /\ mail \in BOOLEAN /\ committed \in BOOLEAN
    /\ stop \in BOOLEAN /\ passed \in BOOLEAN /\ asked \in BOOLEAN /\ consent \in BOOLEAN

LEMMA PlacesStep == ASSUME Places, [Next]_vars PROVE Places'
  <1> USE DEF Places, At, Goes, Ask, loopvars, sigvars, dogvars, history
  <1>1. CASE NoPendingQuit \/ FrameEnds \/ NothingDeferred
    BY <1>1 DEF NoPendingQuit, FrameEnds, NothingDeferred
  <1>2. CASE Queues \/ ExitApp
    BY <1>2 DEF Queues, ExitApp, RequestQuit
  <1>3. CASE Maintain
    BY <1>3 DEF Maintain
  <1>4. CASE EndOrdered \/ Terminate
    BY <1>4 DEF EndOrdered, Terminate
  <1>5. CASE Answered
    BY <1>5 DEF Answered
  <1>6. CASE CloseWindow \/ SessionAsks \/ PowerOff
    BY <1>6 DEF CloseWindow, SessionAsks, PowerOff
  <1>7. CASE ProcessPendingQuit("turn", "turn") \/ ProcessPendingQuit("frame", "setup")
    BY <1>7 DEF ProcessPendingQuit
  <1>8. CASE Accept
    BY <1>8 DEF Accept
  <1>9. CASE Veto \/ Vetoed
    BY <1>9 DEF Veto, Vetoed, DeliveryForgotten
  <1>10. CASE Commit \/ AppsEnded \/ Leave
    BY <1>10 DEF Commit, AppsEnded, Leave
  <1>11. CASE Armed \/ CancelWatchdog \/ Joined
    BY <1>11 DEF Armed, CancelWatchdog, Joined, WakeDog
  <1>12. CASE InFrame \/ InWorker \/ InShutdown \/ UNCHANGED vars
    BY <1>12 DEF InFrame, InWorker, InShutdown, vars
  <1>13. CASE DogLooks \/ DogSleeps \/ DogTimesOut
    BY <1>13 DEF DogLooks, DogSleeps, DogTimesOut
  <1>14. CASE Tick \/ Signal \/ \E t \in Workers : WorkerAsks(t)
    BY <1>14 DEF Tick, Signal, WorkerAsks
  <1> QED
    BY <1>1, <1>2, <1>3, <1>4, <1>5, <1>6, <1>7, <1>8, <1>9, <1>10, <1>11, <1>12, <1>13, <1>14
    DEF Next, LoopSteps

LEMMA FlagsStep == ASSUME Flags, [Next]_vars PROVE Flags'
  <1> USE DEF Flags, At, Goes, Ask, loopvars, sigvars, dogvars, history
  <1>1. CASE NoPendingQuit \/ FrameEnds \/ NothingDeferred
    BY <1>1 DEF NoPendingQuit, FrameEnds, NothingDeferred
  <1>2. CASE Queues
    BY <1>2 DEF Queues, RequestQuit
  <1>3. CASE ExitApp
    BY <1>3 DEF ExitApp, RequestQuit
  <1>4. CASE Maintain
    BY <1>4 DEF Maintain
  <1>5. CASE EndOrdered
    BY <1>5 DEF EndOrdered
  <1>6. CASE Terminate
    BY <1>6 DEF Terminate
  <1>7. CASE Answered
    BY <1>7 DEF Answered
  <1>8. CASE CloseWindow \/ SessionAsks \/ PowerOff
    BY <1>8 DEF CloseWindow, SessionAsks, PowerOff
  <1>9. CASE \E from, by \in {"turn", "frame", "setup"} : ProcessPendingQuit(from, by)
    BY <1>9 DEF ProcessPendingQuit
  <1>10. CASE Accept
    BY <1>10 DEF Accept
  <1>11. CASE Veto
    BY <1>11 DEF Veto
  <1>12. CASE Vetoed
    BY <1>12 DEF Vetoed, DeliveryForgotten
  <1>13. CASE Commit
    BY <1>13 DEF Commit
  <1>14. CASE AppsEnded
    BY <1>14 DEF AppsEnded
  <1>15. CASE Armed
    BY <1>15 DEF Armed
  <1>16. CASE CancelWatchdog
    BY <1>16 DEF CancelWatchdog
  <1>17. CASE InFrame \/ InWorker \/ InShutdown \/ UNCHANGED vars
    BY <1>17 DEF InFrame, InWorker, InShutdown, vars
  <1>18. CASE DogLooks \/ DogSleeps \/ DogTimesOut
    BY <1>18 DEF DogLooks, DogSleeps, DogTimesOut
  <1>19. CASE Tick
    BY <1>19 DEF Tick
  <1>20. CASE Signal
    BY <1>20 DEF Signal
  <1>21. CASE \E t \in Workers : WorkerAsks(t)
    BY <1>21 DEF WorkerAsks
  <1>22. CASE Joined \/ Leave
    BY <1>22 DEF Joined, Leave
  <1> QED
    BY <1>1, <1>2, <1>3, <1>4, <1>5, <1>6, <1>7, <1>8, <1>9, <1>10,
       <1>11, <1>12, <1>13, <1>14, <1>15, <1>16, <1>17, <1>18, <1>19, <1>20, <1>21, <1>22
    DEF Next, LoopSteps

LEMMA LoopTyping == Spec => [](Places /\ Flags)
  <1>1. Init => Places /\ Flags
    BY DEF Init, Places, Flags
  <1> QED BY <1>1, PlacesStep, FlagsStep, PTL DEF Spec

\* Every variable of the run has its type.
THEOREM RunTypeCorrect == Spec => []TypeOK
  <1>1. OwnerInv /\ Places /\ Flags => TypeOK
    BY DEF OwnerInv, Places, Flags, TypeOK
  <1> QED BY <1>1, RunUsesOwner, OwnerInvariant, LoopTyping, PTL

-----------------------------------------------------------------------------
(* Why the process ends.                                                   *)

\* What stands behind an end: consent, or the session.
Behind ==
    /\ ordered => consent
    /\ stopping /\ ~committed => consent
    /\ m = "arming" => committed
    /\ deadline = "armed" => committed

\* What stands behind a question: a request that nobody vetoed.  While a veto of
\* one is under way, the request is still there and asked is not.
Heard ==
    /\ quitPending => asked
    /\ signal => asked
    /\ requested => asked \/ (m = "vetoing" /\ origin \in Requests)
    /\ m = "asking" /\ origin \in Requests => asked /\ ~quitPending
    /\ m = "answered" /\ requested => consent

Watched == process = "watchdog" => committed /\ deadline = "armed" /\ passed

ExitInv == Behind /\ Heard /\ Watched
LEMMA BehindStep == ASSUME Behind, Heard, [Next]_vars PROVE Behind'
  <1> USE DEF Behind, At, Goes, Ask, Requests, loopvars, sigvars, dogvars, history
  <1>1. CASE NoPendingQuit \/ FrameEnds \/ NothingDeferred
    BY <1>1 DEF NoPendingQuit, FrameEnds, NothingDeferred
  <1>2. CASE Queues
    BY <1>2 DEF Queues, RequestQuit
  <1>3. CASE ExitApp
    BY <1>3 DEF ExitApp, RequestQuit
  <1>4. CASE Maintain
    BY <1>4 DEF Maintain
  <1>5. CASE EndOrdered
    BY <1>5 DEF EndOrdered
  <1>6. CASE Terminate
    BY <1>6 DEF Terminate
  <1>7. CASE Answered
    BY <1>7 DEF Answered, Heard
  <1>8. CASE CloseWindow \/ SessionAsks \/ PowerOff
    BY <1>8 DEF CloseWindow, SessionAsks, PowerOff
  <1>9. CASE \E from, by \in {"turn", "frame", "setup"} : ProcessPendingQuit(from, by)
    BY <1>9 DEF ProcessPendingQuit
  <1>10. CASE Accept
    BY <1>10 DEF Accept
  <1>11. CASE Veto
    BY <1>11 DEF Veto
  <1>12. CASE Vetoed
    BY <1>12 DEF Vetoed, DeliveryForgotten, CancelsRequest
  <1>13. CASE Commit
    BY <1>13 DEF Commit
  <1>14. CASE AppsEnded
    BY <1>14 DEF AppsEnded
  <1>15. CASE Armed
    BY <1>15 DEF Armed
  <1>16. CASE CancelWatchdog
    BY <1>16 DEF CancelWatchdog
  <1>17. CASE Joined \/ Leave
    BY <1>17 DEF Joined, Leave
  <1>18. CASE InFrame \/ InWorker \/ InShutdown \/ UNCHANGED vars
    BY <1>18 DEF InFrame, InWorker, InShutdown, vars
  <1>19. CASE DogLooks \/ DogSleeps \/ DogTimesOut \/ Tick
    BY <1>19 DEF DogLooks, DogSleeps, DogTimesOut, Tick
  <1>20. CASE Signal
    BY <1>20 DEF Signal
  <1>21. CASE \E t \in Workers : WorkerAsks(t)
    BY <1>21 DEF WorkerAsks
  <1> QED
    BY <1>1, <1>2, <1>3, <1>4, <1>5, <1>6, <1>7, <1>8, <1>9, <1>10,
       <1>11, <1>12, <1>13, <1>14, <1>15, <1>16, <1>17, <1>18, <1>19, <1>20,
       <1>21
    DEF Next, LoopSteps

LEMMA HeardStep == ASSUME Heard, [Next]_vars PROVE Heard'
  <1> USE DEF Heard, At, Goes, Ask, Requests, loopvars, sigvars, dogvars, history
  <1>1. CASE NoPendingQuit \/ FrameEnds \/ NothingDeferred
    BY <1>1 DEF NoPendingQuit, FrameEnds, NothingDeferred
  <1>2. CASE Queues
    BY <1>2 DEF Queues, RequestQuit
  <1>3. CASE ExitApp
    BY <1>3 DEF ExitApp, RequestQuit
  <1>4. CASE Maintain
    BY <1>4 DEF Maintain
  <1>5. CASE EndOrdered
    BY <1>5 DEF EndOrdered
  <1>6. CASE Terminate
    BY <1>6 DEF Terminate
  <1>7. CASE Answered
    BY <1>7 DEF Answered
  <1>8. CASE CloseWindow \/ SessionAsks \/ PowerOff
    BY <1>8 DEF CloseWindow, SessionAsks, PowerOff
  <1>9. CASE \E from, by \in {"turn", "frame", "setup"} : ProcessPendingQuit(from, by)
    BY <1>9 DEF ProcessPendingQuit
  <1>10. CASE Accept
    BY <1>10 DEF Accept
  <1>11. CASE Veto
    BY <1>11 DEF Veto
  <1>12. CASE Vetoed
    BY <1>12 DEF Vetoed, DeliveryForgotten, CancelsRequest
  <1>13. CASE Commit
    BY <1>13 DEF Commit
  <1>14. CASE AppsEnded
    BY <1>14 DEF AppsEnded
  <1>15. CASE Armed
    BY <1>15 DEF Armed
  <1>16. CASE CancelWatchdog
    BY <1>16 DEF CancelWatchdog
  <1>17. CASE Joined \/ Leave
    BY <1>17 DEF Joined, Leave
  <1>18. CASE InFrame \/ InWorker \/ InShutdown \/ UNCHANGED vars
    BY <1>18 DEF InFrame, InWorker, InShutdown, vars
  <1>19. CASE DogLooks \/ DogSleeps \/ DogTimesOut \/ Tick
    BY <1>19 DEF DogLooks, DogSleeps, DogTimesOut, Tick
  <1>20. CASE Signal
    BY <1>20 DEF Signal
  <1>21. CASE \E t \in Workers : WorkerAsks(t)
    BY <1>21 DEF WorkerAsks
  <1> QED
    BY <1>1, <1>2, <1>3, <1>4, <1>5, <1>6, <1>7, <1>8, <1>9, <1>10,
       <1>11, <1>12, <1>13, <1>14, <1>15, <1>16, <1>17, <1>18, <1>19, <1>20,
       <1>21
    DEF Next, LoopSteps

LEMMA WatchedStep == ASSUME Behind, Watched, [Next]_vars PROVE Watched'
  <1> USE DEF Watched, Behind, At, Goes, Ask, Requests, loopvars, sigvars, dogvars, history
  <1>1. CASE NoPendingQuit \/ FrameEnds \/ NothingDeferred
    BY <1>1 DEF NoPendingQuit, FrameEnds, NothingDeferred
  <1>2. CASE Queues
    BY <1>2 DEF Queues, RequestQuit
  <1>3. CASE ExitApp
    BY <1>3 DEF ExitApp, RequestQuit
  <1>4. CASE Maintain
    BY <1>4 DEF Maintain
  <1>5. CASE EndOrdered
    BY <1>5 DEF EndOrdered
  <1>6. CASE Terminate
    BY <1>6 DEF Terminate
  <1>7. CASE Answered
    BY <1>7 DEF Answered
  <1>8. CASE CloseWindow \/ SessionAsks \/ PowerOff
    BY <1>8 DEF CloseWindow, SessionAsks, PowerOff
  <1>9. CASE \E from, by \in {"turn", "frame", "setup"} : ProcessPendingQuit(from, by)
    BY <1>9 DEF ProcessPendingQuit
  <1>10. CASE Accept
    BY <1>10 DEF Accept
  <1>11. CASE Veto
    BY <1>11 DEF Veto
  <1>12. CASE Vetoed
    BY <1>12 DEF Vetoed, DeliveryForgotten, CancelsRequest
  <1>13. CASE Commit
    BY <1>13 DEF Commit
  <1>14. CASE AppsEnded
    BY <1>14 DEF AppsEnded
  <1>15. CASE Armed
    BY <1>15 DEF Armed
  <1>16. CASE CancelWatchdog
    BY <1>16 DEF CancelWatchdog
  <1>17. CASE Joined \/ Leave
    BY <1>17 DEF Joined, Leave
  <1>18. CASE InFrame \/ InWorker \/ InShutdown \/ UNCHANGED vars
    BY <1>18 DEF InFrame, InWorker, InShutdown, vars
  <1>19. CASE DogLooks \/ DogSleeps \/ DogTimesOut \/ Tick
    BY <1>19 DEF DogLooks, DogSleeps, DogTimesOut, Tick
  <1>20. CASE Signal
    BY <1>20 DEF Signal
  <1>21. CASE \E t \in Workers : WorkerAsks(t)
    BY <1>21 DEF WorkerAsks
  <1> QED
    BY <1>1, <1>2, <1>3, <1>4, <1>5, <1>6, <1>7, <1>8, <1>9, <1>10,
       <1>11, <1>12, <1>13, <1>14, <1>15, <1>16, <1>17, <1>18, <1>19, <1>20,
       <1>21
    DEF Next, LoopSteps

\* The process ends for a reason, whatever the threads and signals do.
THEOREM RunEndsForCause == Spec => []EndsForCause
  <1>1. Init => ExitInv
    BY DEF Init, ExitInv, Behind, Heard, Watched
  <1>2. ExitInv /\ [Next]_vars => ExitInv'
    BY BehindStep, HeardStep, WatchedStep DEF ExitInv
  <1>3. ExitInv => EndsForCause
    BY DEF ExitInv, Behind, Heard, Watched, EndsForCause
  <1> QED BY <1>1, <1>2, <1>3, PTL DEF Spec
=============================================================================
