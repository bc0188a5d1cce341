------------------------------ MODULE AppOwner ------------------------------
(***************************************************************************)
(* The owner of an App (tcAppConstruction.h, tcWindowRuntime.cpp): what    *)
(* the App registers, from main or from a worker that runs one of its      *)
(* callbacks, is cancelled once when main retires the App, and its         *)
(* callbacks turn callers away from then on.                               *)
(*                                                                         *)
(* A callback stands for its registration too: the wrapper that            *)
(* appOwnedCallback returned, the target the wrapper shares with the       *)
(* cancellation, and the cancellation, which empties the target.  One App  *)
(* at a time; the next one is constructed when nobody runs code of the     *)
(* last.                                                                   *)
(***************************************************************************)
EXTENDS Integers, Sequences

CONSTANTS
    Threads, Main,   \* threads, main among them
    Callbacks,       \* what one App may register
    ExitCallbacks,   \* those registered with the exit event of the App's context
    NoCallback       \* none

ASSUME OwnerConstants ==
    /\ Main \in Threads
    /\ ExitCallbacks \subseteq Callbacks /\ NoCallback \notin Callbacks

VARIABLES
    token, retiring, ended, closing,   \* the flags of AppOwner (closing: callbacksClosing)
    listed, next,   \* cancellations, and the index of the retirement
    held,      \* the callbacks whose target still holds them
    offered,   \* the callbacks whose wrapper was returned: anyone may call it
    phase,     \* where main is with the App
    taken,     \* the cancellation that main has moved out of the list
    at, with,  \* where a worker is in a wrapper, and in that of which callback
    adding,    \* what a thread is registering
    refused,   \* threads whose registration came too late
    cancelled  \* history: how often each cancellation ran
Workers == Threads \ {Main}
flags == <<token, retiring, ended, closing>>
ledger == <<listed, next, held, offered, taken, cancelled>>
calls == <<at, with, adding, refused>>
ownervars == <<flags, ledger, phase, calls>>

Phases == {"none", "building", "attached", "ending", "exiting", "closed",
           "retiring", "extract", "invoke", "retired"}

OwnerInit ==
    /\ token = FALSE /\ retiring = FALSE /\ ended = FALSE /\ closing = FALSE
    /\ listed = <<>> /\ next = 0 /\ held = {} /\ offered = {}
    /\ phase = "none" /\ taken = NoCallback
    /\ at = [t \in Workers |-> "out"] /\ with = [t \in Workers |-> NoCallback]
    /\ adding = [t \in Threads |-> NoCallback] /\ refused = {}
    /\ cancelled = [c \in Callbacks |-> 0]

\* No frame of the App is on the thread's stack.  main ends and constructs Apps
\* only then: a request made inside an entry of the App's window waits for it.
Outside(t) == (t \in Workers => at[t] = "out") /\ adding[t] = NoCallback

-----------------------------------------------------------------------------
(* Main: an App begins and ends.                                           *)

\* AppConstructionScope: a new owner, before the constructor of the App.
Construct ==
    /\ phase = "none" /\ \A t \in Threads : Outside(t)
    /\ token' = TRUE /\ retiring' = FALSE /\ ended' = FALSE /\ closing' = FALSE
    /\ listed' = <<>> /\ next' = 0 /\ held' = {} /\ offered' = {}
    /\ cancelled' = [c \in Callbacks |-> 0]
    /\ phase' = "building"
    /\ UNCHANGED <<taken, calls>>

MainGoes(from, to) == phase = from /\ Outside(Main) /\ phase' = to

\* completeAppConstruction, adoptConstructedApp and the attachment.
Attach ==
    /\ MainGoes("building", "attached")
    /\ UNCHANGED <<flags, ledger, calls>>

\* endAppAttachment: ended first, then the token.
EndAttachment ==
    /\ MainGoes("attached", "ending")
    /\ ended' = TRUE
    /\ UNCHANGED <<token, retiring, closing, ledger, calls>>

DropToken ==
    /\ MainGoes("ending", "exiting")
    /\ token' = FALSE
    /\ UNCHANGED <<retiring, ended, closing, ledger, calls>>

\* The exit event was delivered and App::exit() has returned; cleanup follows.
CloseCallbacks ==
    /\ MainGoes("exiting", "closed")
    /\ closing' = TRUE
    /\ UNCHANGED <<token, retiring, ended, ledger, calls>>

\* retireAppOwner, at the end of endAppAttachment or for an App that was never
\* attached: its constructor threw, or it was superseded, dropped or shut down.
Retire ==
    /\ MainGoes("closed", "retiring") \/ MainGoes("building", "retiring")
    /\ retiring' = TRUE
    /\ UNCHANGED <<token, ended, closing, ledger, calls>>

RevokeToken ==
    /\ MainGoes("retiring", "extract")
    /\ token' = FALSE
    /\ UNCHANGED <<retiring, ended, closing, ledger, calls>>

\* One turn of the extraction loop, under the lock.
Extract ==
    /\ next < Len(listed)
    /\ MainGoes("extract", "invoke")
    /\ taken' = listed[next + 1]
    /\ next' = next + 1
    /\ UNCHANGED <<flags, listed, held, offered, cancelled, calls>>

\* mutant: the loop goes on past the end of the list it has cleared.
ExhaustedGoesOn ==
    /\ next = Len(listed)
    /\ MainGoes("extract", "invoke")
    /\ listed' = <<>> /\ next' = next + 1
    /\ UNCHANGED <<flags, held, offered, taken, cancelled, calls>>

Exhausted ==
    /\ next = Len(listed)
    /\ MainGoes("extract", "retired")
    /\ listed' = <<>> /\ next' = 0
    /\ UNCHANGED <<flags, held, offered, taken, cancelled, calls>>

Cancel(c) ==
    /\ held' = held \ {c}
    /\ cancelled' = [cancelled EXCEPT ![c] = @ + 1]

\* The cancellation runs outside the lock.
Invoke ==
    /\ MainGoes("invoke", "extract")
    /\ Cancel(taken)
    /\ taken' = NoCallback
    /\ UNCHANGED <<flags, listed, next, offered, calls>>

\* The last reference to the App goes.
Destroy ==
    /\ MainGoes("retired", "none")
    /\ UNCHANGED <<flags, ledger, calls>>

MainSteps ==
    \/ Construct \/ Attach \/ EndAttachment \/ DropToken \/ CloseCallbacks \/ Retire
    \/ RevokeToken \/ Extract \/ Exhausted \/ Invoke \/ Destroy

-----------------------------------------------------------------------------
(* Any thread registers; workers call.  What main calls is App code too.   *)

\* The thread runs code of the App with the owner selected (AppOwnerScope).
InAppCode(t) ==
    /\ adding[t] = NoCallback
    /\ IF t = Main THEN phase \in {"building", "attached", "exiting", "closed"} ELSE at[t] = "in"

\* appOwnedCallback, up to its call of ownAppCancellation.  Too late, it returns
\* no callback at all.
Register(t, c) ==
    /\ InAppCode(t)
    /\ ~ended /\ ~retiring
    /\ c \notin offered /\ \A u \in Threads : adding[u] # c
    /\ adding' = [adding EXCEPT ![t] = c]
    /\ held' = held \cup {c}
    /\ UNCHANGED <<flags, phase, listed, next, offered, taken, cancelled, at, with, refused>>

\* mutant: the retirement is not looked for again under the lock.
Admits == ~ended

\* What ownAppCancellation tests under the lock.
Accepts == ~retiring /\ ~ended /\ token

\* ownAppCancellation: listed, or left to the caller to run.
Add(t) ==
    /\ adding[t] # NoCallback /\ t \notin refused
    /\ IF Accepts
       THEN /\ listed' = Append(listed, adding[t])
            /\ offered' = offered \cup {adding[t]}
            /\ adding' = [adding EXCEPT ![t] = NoCallback]
            /\ UNCHANGED refused
       ELSE /\ refused' = refused \cup {t}
            /\ UNCHANGED <<listed, offered, adding>>
    /\ UNCHANGED <<flags, phase, next, held, taken, cancelled, at, with>>

CancelNow(t) ==
    /\ t \in refused
    /\ Cancel(adding[t])
    /\ offered' = offered \cup {adding[t]}
    /\ adding' = [adding EXCEPT ![t] = NoCallback]
    /\ refused' = refused \ {t}
    /\ UNCHANGED <<flags, phase, listed, next, taken, at, with>>

\* The wrapper's test of the flags.
MayRun(c) == (token \/ (c \in ExitCallbacks /\ ended)) /\ ~closing

\* A worker calls the wrapper, which loads the target and looks at the flags; it
\* returns at once when either says no.
Enter(t, c) ==
    /\ at[t] = "out"
    /\ c \in offered \cap held
    /\ MayRun(c)
    /\ at' = [at EXCEPT ![t] = "entered"]
    /\ with' = [with EXCEPT ![t] = c]
    /\ UNCHANGED <<flags, ledger, phase, adding, refused>>

\* WorkerAppAdmission
Admitted == token /\ ~closing

\* The admission, and the flags once more, now that the scope is entered.
Admit(t) ==
    /\ at[t] = "entered"
    /\ IF Admitted /\ MayRun(with[t])
       THEN at' = [at EXCEPT ![t] = "in"] /\ UNCHANGED with
       ELSE at' = [at EXCEPT ![t] = "out"] /\ with' = [with EXCEPT ![t] = NoCallback]
    /\ UNCHANGED <<flags, ledger, phase, adding, refused>>

Return(t) ==
    /\ at[t] = "in" /\ adding[t] = NoCallback
    /\ at' = [at EXCEPT ![t] = "out"]
    /\ with' = [with EXCEPT ![t] = NoCallback]
    /\ UNCHANGED <<flags, ledger, phase, adding, refused>>

Registers(t) == (\E c \in Callbacks : Register(t, c)) \/ Add(t) \/ CancelNow(t)

WorkerSteps(t) == Registers(t) \/ (\E c \in Callbacks : Enter(t, c)) \/ Admit(t) \/ Return(t)

OwnerNext == MainSteps \/ Registers(Main) \/ \E t \in Workers : WorkerSteps(t)

OwnerSpec == OwnerInit /\ [][OwnerNext]_ownervars

-----------------------------------------------------------------------------
(* Properties.                                                             *)

OwnerTypeOK ==
    /\ token \in BOOLEAN /\ retiring \in BOOLEAN /\ ended \in BOOLEAN /\ closing \in BOOLEAN
    /\ listed \in Seq(Callbacks) /\ next \in 0..Len(listed)
    /\ held \subseteq Callbacks /\ offered \subseteq Callbacks
    /\ phase \in Phases /\ taken \in Callbacks \cup {NoCallback}
    /\ at \in [Workers -> {"out", "entered", "in"}]
    /\ with \in [Workers -> Callbacks \cup {NoCallback}]
    /\ adding \in [Threads -> Callbacks \cup {NoCallback}] /\ refused \subseteq Threads
    /\ cancelled \in [Callbacks -> Nat]

\* Every cancellation that the App's owner accepted or sent back runs exactly
\* once: once the App has retired, each callback that was handed out has been
\* emptied, whatever thread registered it and however late.
CancelledOnce ==
    /\ \A c \in Callbacks : cancelled[c] <= 1 /\ (cancelled[c] = 1 => c \notin held)
    /\ phase \in {"retired", "none"} => \A c \in offered : cancelled[c] = 1
=============================================================================
