---------------------------- MODULE RuntimeExit -----------------------------
(***************************************************************************)
(* The end of a windowed run on macOS (tcWindowRuntime.cpp, tcExit.cpp and *)
(* the main loop of sokol_app_tc.h): quits asked for by the App, by        *)
(* workers and by signals, listeners that veto them, the OS session that   *)
(* ends whatever they say, the watchdog that bounds such an ending, and    *)
(* the Apps that end with the run, whose owners AppOwner describes.        *)
(*                                                                         *)
(* A turn of the loop is: the pending quit, the queues, a frame, the work  *)
(* the frame deferred (where native messages find main idle) and the       *)
(* maintenance.  A signal handler runs at any point, in one atomic step.   *)
(* The run begins with its first frame, which installs the handlers.  The  *)
(* logout timeout is finite.                                               *)
(***************************************************************************)
EXTENDS AppOwner

VARIABLES
    m,         \* where main is in its loop
    origin,    \* what asks the listeners of exitRequested
    live,      \* the run's token
    quitPending, stopping,   \* of Runtime
    requested, ordered,      \* sokol's quit_requested and quit_ordered
    signal, delivered,       \* pendingSignal and deliveredSignal: whether there is one
    mail,      \* a request that a worker sent is in the queue of main
    committed,     \* sessionCommitted
    deadline, stop, dog,     \* LogoutDeadline, LogoutWorker::stop and the worker
    passed,    \* the time is past the deadline
    process,   \* "up", or how the process ended
    \* history: a quit was asked for since the last one vetoed, and listeners
    \* have agreed to one
    asked, consent
loopvars == <<m, origin, live, quitPending, stopping, requested, ordered>>
sigvars == <<signal, delivered>>
dogvars == <<deadline, stop, dog, passed>>
history == <<asked, consent>>
vars == <<ownervars, loopvars, sigvars, mail, committed, dogvars, process, history>>

Init ==
    /\ OwnerInit
    /\ m = "frame" /\ origin = "none" /\ live = TRUE
    /\ quitPending = FALSE /\ stopping = FALSE /\ requested = FALSE /\ ordered = FALSE
    /\ signal = FALSE /\ delivered = FALSE
    /\ mail = FALSE
    /\ committed = FALSE
    /\ deadline = "idle" /\ stop = FALSE /\ dog = "looking" /\ passed = FALSE
    /\ process = "up" /\ asked = FALSE /\ consent = FALSE

Requests == {"native", "turn", "setup"}   \* what asks about a request

At(from) == process = "up" /\ m = from
Goes(from, to) == At(from) /\ m' = to

\* main is in the host's code, and no App is being built or ended.
Settled == Outside(Main) /\ phase \in {"none", "attached"}

-----------------------------------------------------------------------------
(* The watchdog (LogoutWorker).  From its look at the deadline to its wait  *)
(* it holds the mutex.                                                     *)

DogMutexFree == dog # "decided"

DogLooks ==
    /\ process = "up" /\ dog = "looking"
    /\ IF ~stop /\ deadline = "armed" /\ passed
       THEN process' = "watchdog" /\ UNCHANGED dog
       ELSE /\ dog' = IF stop THEN "left" ELSE IF deadline = "armed" THEN "timed" ELSE "decided"
            /\ UNCHANGED process
    /\ UNCHANGED <<ownervars, loopvars, sigvars, mail, committed, deadline, stop, passed, history>>

DogSleeps ==
    /\ process = "up" /\ dog = "decided"
    /\ dog' = "asleep"
    /\ UNCHANGED <<ownervars, loopvars, sigvars, mail, committed, deadline, stop, passed,
                   process, history>>

\* wait_until reaches the deadline.
DogTimesOut ==
    /\ process = "up" /\ dog = "timed" /\ passed
    /\ dog' = "looking"
    /\ UNCHANGED <<ownervars, loopvars, sigvars, mail, committed, deadline, stop, passed,
                   process, history>>

Tick ==
    /\ process = "up" /\ deadline = "armed" /\ ~passed
    /\ passed' = TRUE
    /\ UNCHANGED <<ownervars, loopvars, sigvars, mail, committed, deadline, stop, dog,
                   process, history>>

WakeDog == dog' = IF dog \in {"asleep", "timed"} THEN "looking" ELSE dog

-----------------------------------------------------------------------------
(* Signals and workers.                                                    *)

\* onExitSignal
Signal ==
    /\ process = "up"
    /\ IF signal
       THEN process' = "signal" /\ UNCHANGED <<signal, asked>>
       ELSE signal' = TRUE /\ asked' = TRUE /\ UNCHANGED process
    /\ UNCHANGED <<ownervars, loopvars, delivered, mail, committed, dogvars, consent>>

\* requestNormalQuit on a worker, which read the run's token.
WorkerAsks(t) ==
    /\ process = "up" /\ live
    /\ mail' = TRUE
    /\ UNCHANGED <<ownervars, loopvars, sigvars, committed, dogvars, process, history>>

-----------------------------------------------------------------------------
(* Main: a turn.                                                           *)

Ask(from, by) ==
    /\ Goes(from, "asking")
    /\ origin' = by

\* processPendingQuit, at the top of a turn and when the setup of an App is done.
ProcessPendingQuit(from, by) ==
    /\ quitPending
    /\ by = "setup" => phase = "attached"
    /\ Ask(from, by)
    /\ quitPending' = FALSE
    /\ UNCHANGED <<ownervars, live, stopping, requested, ordered, sigvars, mail, committed,
                   dogvars, process, history>>

NoPendingQuit ==
    /\ ~quitPending
    /\ Goes("turn", "queues")
    /\ UNCHANGED <<ownervars, origin, live, quitPending, stopping, requested, ordered, sigvars,
                   mail, committed, dogvars, process, history>>

\* requestNormalQuit on main: the turns and the native loop both hear of it.
RequestQuit == quitPending' = TRUE /\ requested' = TRUE /\ asked' = TRUE

Queues ==
    /\ Goes("queues", "frame")
    /\ mail' = FALSE
    /\ IF mail THEN RequestQuit ELSE UNCHANGED <<quitPending, requested, asked>>
    /\ UNCHANGED <<ownervars, origin, live, stopping, ordered, sigvars, committed,
                   dogvars, process, consent>>

\* exitApp, in code of an App on main.
ExitApp ==
    /\ At("frame") /\ phase \in {"building", "attached"}
    /\ ~quitPending
    /\ RequestQuit
    /\ UNCHANGED <<ownervars, m, origin, live, stopping, ordered, sigvars, mail, committed,
                   dogvars, process, consent>>

\* codeCloseExitsRuntime, for the last window or one that quits on close.
CloseWindow ==
    /\ phase = "attached" /\ ~ordered
    /\ Ask("frame", "close")
    /\ UNCHANGED <<ownervars, live, quitPending, stopping, requested, ordered, sigvars, mail,
                   committed, dogvars, process, history>>

\* An App is constructed in a frame, and its code runs.  Once attached, it ends
\* with the run.
InFrame ==
    /\ At("frame")
    /\ (MainSteps /\ phase # "attached") \/ Registers(Main)
    /\ UNCHANGED <<loopvars, sigvars, mail, committed, dogvars, process, history>>

InWorker ==
    /\ process = "up"
    /\ \E t \in Workers : WorkerSteps(t)
    /\ UNCHANGED <<loopvars, sigvars, mail, committed, dogvars, process, history>>

FrameEnds ==
    /\ Settled
    /\ Goes("frame", "deferred")
    /\ UNCHANGED <<ownervars, origin, live, quitPending, stopping, requested, ordered, sigvars,
                   mail, committed, dogvars, process, history>>

\* What the frame deferred, or the user's own quit: terminate, which asks unless
\* the quit is ordered.
Terminate ==
    /\ ~ordered
    /\ Ask("deferred", "native")
    /\ requested' = TRUE /\ asked' = (asked \/ ~requested)
    /\ quitPending' = FALSE
    /\ UNCHANGED <<ownervars, live, stopping, ordered, sigvars, mail, committed, dogvars,
                   process, consent>>

\* The listeners have answered; what they did to the request decides.
Answered ==
    /\ Goes("answered", IF requested THEN "stopping" ELSE "deferred")
    /\ ordered' = requested /\ stopping' = requested
    /\ UNCHANGED <<ownervars, origin, live, quitPending, requested, sigvars, mail, committed,
                   dogvars, process, history>>

EndOrdered ==
    /\ ordered
    /\ Goes("deferred", "stopping")
    /\ stopping' = TRUE
    /\ UNCHANGED <<ownervars, origin, live, quitPending, requested, ordered, sigvars, mail,
                   committed, dogvars, process, history>>

NothingDeferred ==
    /\ ~requested /\ ~ordered
    /\ Goes("deferred", "maintain")
    /\ UNCHANGED <<ownervars, origin, live, quitPending, stopping, requested, ordered, sigvars,
                   mail, committed, dogvars, process, history>>

\* processMaintenance: a signal is delivered once.
Maintain ==
    /\ Goes("maintain", "turn")
    /\ delivered' = signal
    /\ requested' = (requested \/ (signal # delivered /\ signal))
    /\ UNCHANGED <<ownervars, origin, live, quitPending, stopping, ordered, signal, mail,
                   committed, dogvars, process, history>>

-----------------------------------------------------------------------------
(* dispatchExitRequested and its callers.                                  *)

Accept ==
    /\ At("asking")
    /\ m' = CASE origin = "close" -> "frame" [] origin = "session" -> "committing"
                 [] origin = "native" -> "answered" [] OTHER -> "stopping"
    /\ stopping' = (m' = "stopping")
    /\ ordered' = (ordered \/ origin \in {"close", "turn", "setup"})
    /\ origin' = "none"
    /\ consent' = TRUE
    /\ UNCHANGED <<ownervars, live, quitPending, requested, sigvars, mail, committed,
                   dogvars, process, asked>>

\* mutant: a veto of sokol's own question does not cancel its request.
CancelsPending(o) == o \in {"turn", "setup"}

\* What asks about a request that sokol holds, and calls sapp_cancel_quit when it
\* is vetoed; the others leave the request alone.
CancelsRequest(o) == o \in Requests

\* mutant: what was delivered is not forgotten.
DeliveryKept == delivered' = delivered

DeliveryForgotten == delivered' = FALSE

\* A veto, up to the first store of cancelWindowExitSignal.
Veto ==
    /\ Goes("asking", "vetoing")
    /\ signal' = FALSE
    /\ asked' = (asked /\ origin \notin Requests)
    /\ UNCHANGED <<ownervars, origin, live, quitPending, stopping, requested, ordered, delivered,
                   mail, committed, dogvars, process, consent>>

Vetoed ==
    /\ At("vetoing")
    /\ DeliveryForgotten
    /\ requested' = (requested /\ ~CancelsRequest(origin))
    /\ m' = CASE origin \in {"close", "setup"} -> "frame" [] origin = "turn" -> "queues"
                 [] origin = "native" -> "answered" [] OTHER -> "deferred"
    /\ origin' = "none"
    /\ UNCHANGED <<ownervars, live, quitPending, stopping, ordered, signal, mail, committed,
                   dogvars, process, history>>

-----------------------------------------------------------------------------
(* The end: of the session, and of the run.                                *)

\* applicationShouldTerminate with a session reason, and power off.
SessionAsks ==
    /\ Ask("deferred", "session")
    /\ UNCHANGED <<ownervars, live, quitPending, stopping, requested, ordered, sigvars, mail,
                   committed, dogvars, process, history>>

PowerOff ==
    /\ Goes("deferred", "committing")
    /\ UNCHANGED <<ownervars, origin, live, quitPending, stopping, requested, ordered, sigvars,
                   mail, committed, dogvars, process, history>>

\* endRuntimeForSession and armLogoutWatchdog, up to its pass through the mutex.
Commit ==
    /\ Goes("committing", "arming")
    /\ committed' = TRUE
    /\ deadline' = "armed"
    /\ UNCHANGED <<ownervars, origin, live, quitPending, stopping, requested, ordered, sigvars,
                   mail, stop, dog, passed, process, history>>

\* mutant: the mutex is not taken before the notification.
NoMutex == TRUE

\* The pass through the mutex.
PassesMutex == DogMutexFree

Armed ==
    /\ PassesMutex
    /\ Goes("arming", "stopping")
    /\ stopping' = TRUE
    /\ WakeDog
    /\ UNCHANGED <<ownervars, origin, live, quitPending, requested, ordered, sigvars, mail,
                   committed, deadline, stop, passed, process, history>>

\* shutdownRuntime ends the Apps; their code may never return.
InShutdown ==
    /\ At("stopping")
    /\ (MainSteps /\ phase # "none") \/ Registers(Main)
    /\ UNCHANGED <<loopvars, sigvars, mail, committed, dogvars, process, history>>

\* All Apps have ended.  An ordinary end cancels the watchdog.
AppsEnded ==
    /\ phase = "none" /\ Outside(Main)
    /\ Goes("stopping", IF committed THEN "leaving" ELSE "cancelling")
    /\ live' = FALSE
    /\ deadline' = IF committed THEN deadline ELSE "cancelled"
    /\ UNCHANGED <<ownervars, origin, quitPending, stopping, requested, ordered, sigvars, mail,
                   committed, stop, dog, passed, process, history>>

CancelWatchdog ==
    /\ DogMutexFree
    /\ Goes("cancelling", "joining")
    /\ stop' = TRUE
    /\ WakeDog
    /\ UNCHANGED <<ownervars, origin, live, quitPending, stopping, requested, ordered, sigvars,
                   mail, committed, deadline, passed, process, history>>

Joined ==
    /\ dog = "left"
    /\ Goes("joining", "leaving")
    /\ UNCHANGED <<ownervars, origin, live, quitPending, stopping, requested, ordered, sigvars,
                   mail, committed, dogvars, process, history>>

\* Services, exit handlers and static destructors: they may never return either.
Leave ==
    /\ At("leaving")
    /\ process' = "exited"
    /\ UNCHANGED <<ownervars, loopvars, sigvars, mail, committed, dogvars, history>>

LoopSteps ==
    \/ ProcessPendingQuit("turn", "turn") \/ NoPendingQuit \/ Queues
    \/ (requested /\ Terminate) \/ Answered \/ EndOrdered \/ NothingDeferred \/ Maintain
    \/ Accept \/ Veto \/ Vetoed \/ Commit \/ Armed \/ CancelWatchdog \/ Joined

Next ==
    \/ LoopSteps \/ Terminate \/ FrameEnds \/ InFrame \/ InWorker \/ InShutdown
    \/ ExitApp \/ CloseWindow \/ ProcessPendingQuit("frame", "setup")
    \/ SessionAsks \/ PowerOff \/ AppsEnded \/ Leave
    \/ DogLooks \/ DogSleeps \/ DogTimesOut \/ Tick
    \/ Signal \/ \E t \in Workers : WorkerAsks(t)

Spec == Init /\ [][Next]_vars

\* What main runs to its end: the loop, the listeners that it asks, and in a
\* frame the code of Apps.  Code that runs in the shutdown may not return.
AppReturns == InFrame /\ MainSteps /\ phase \notin {"none", "attached"}
MainReturns == InFrame /\ (Add(Main) \/ CancelNow(Main))

Fairness ==
    /\ WF_vars(LoopSteps) /\ WF_vars(AppReturns) /\ WF_vars(MainReturns) /\ SF_vars(FrameEnds)
    /\ WF_vars(DogLooks) /\ WF_vars(DogSleeps) /\ WF_vars(DogTimesOut) /\ WF_vars(Tick)

FairSpec == Spec /\ Fairness

-----------------------------------------------------------------------------
(* Properties.                                                             *)

\* Every variable has its type.
TypeOK ==
    /\ OwnerTypeOK
    /\ m \in {"turn", "queues", "frame", "deferred", "maintain", "asking", "vetoing", "answered",
              "committing", "arming", "stopping", "cancelling", "joining", "leaving"}
    /\ origin \in {"none", "turn", "setup", "close", "native", "session"}
    /\ live \in BOOLEAN /\ quitPending \in BOOLEAN /\ stopping \in BOOLEAN
    /\ requested \in BOOLEAN /\ ordered \in BOOLEAN /\ signal \in BOOLEAN
    /\ delivered \in BOOLEAN /\ mail \in BOOLEAN /\ committed \in BOOLEAN
    /\ stop \in BOOLEAN /\ passed \in BOOLEAN /\ asked \in BOOLEAN /\ consent \in BOOLEAN
    /\ deadline \in {"idle", "armed", "cancelled"}
    /\ dog \in {"looking", "decided", "asleep", "timed", "left"}
    /\ process \in {"up", "exited", "signal", "watchdog"}

\* The process ends for a reason: an ordinary end has the listeners' consent,
\* listeners are asked again only about a request made since they last vetoed
\* one, and the watchdog kills only after an idle commit and its deadline.
EndsForCause ==
    /\ stopping /\ ~committed => consent
    /\ m = "asking" /\ origin \in Requests => asked
    /\ process = "watchdog" => committed /\ deadline = "armed" /\ passed

\* A signal and a request are decided: the listeners are asked, or the run ends.
\* A committed session ends in time even when an App does not return, and the
\* watchdog of an ordinary end is joined.
Decided == m \in {"asking", "vetoing", "answered"} \/ stopping \/ process # "up"
EndsAreReached ==
    /\ signal ~> (~signal \/ Decided)
    /\ (mail \/ quitPending \/ requested) ~> Decided
    /\ deadline = "armed" ~> process # "up"
    /\ m = "cancelling" ~> (m = "leaving" \/ process # "up")
=============================================================================
