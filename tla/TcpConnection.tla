--------------------------- MODULE TcpConnection ---------------------------
(***************************************************************************)
(* One connection of a TcpClient with threads (tcTcpClient.cpp): senders   *)
(* queue payloads, the writer thread puts them on the socket, the receive  *)
(* thread waits for the peer to close, and disconnect() ends everything,   *)
(* called by a thread of its own or by a listener on one of the workers.   *)
(* A reconnect makes a new State, which is a new instance of this module.  *)
(*                                                                         *)
(* A critical section of the channel's mutex is one action, and so is a    *)
(* system call on the socket, which the code makes under socketMutex_.     *)
(* The atomics connected_, running_, *alive and open are read and written  *)
(* in steps of their own.  Ids are positions in `sends`.                   *)
(***************************************************************************)
EXTENDS Integers, FiniteSets, SequencesExt

CONSTANTS
    Senders,    \* threads that call send and sendAsync
    Requests,   \* what is asked of send (sync) and sendAsync
    Marks,      \* values of setSendAsyncBufferSize; 0 is unlimited
    Timeouts,   \* whether a send timeout is set: a subset of BOOLEAN
    Capacity,   \* bytes the kernel takes before the peer reads
    Main, Receiver, Writer,   \* who may call disconnect
    MaxSends    \* bound: sends asked for

\* The arguments of a send, and the call of a thread that makes none.
Request == [size : Nat, sync : BOOLEAN]
Nothing == [size |-> 0, sync |-> FALSE]

ASSUME ConnectionConstants ==
    /\ Requests \subseteq Request /\ Marks \subseteq Nat /\ Marks # {}
    /\ Timeouts \subseteq BOOLEAN /\ Timeouts # {}
    /\ Capacity \in Nat \ {0} /\ MaxSends \in Nat
    /\ Main # Receiver /\ Main # Writer /\ Receiver # Writer

VARIABLES
    \* the State: its flags, whether sendChannel_ is set and socket_ valid
    connected, running, alive, linked, socket,
    \* the channel: what waits is a sequence of ids
    open, queue, pending, cancelledIds,
    \* sendAsyncBufferSize_
    mark,
    \* senders: where they are, what they ask for, the id they wait for
    pc, req, cur,
    \* every accepted send, and what waiters were told
    sends, answers,
    \* the writer: where it is, the active send, and what is left to report
    wpc, active, written, timeout, outcome, failed, toReport,
    \* the receive thread; disconnect() and who calls it
    rpc, dpc, caller,
    \* the peer: whether it still reads, bytes it has not read, and (history)
    \* the whole stream, a send's id for each of its bytes
    peerUp, unread, stream,
    \* history: completions told to listeners, and how often they heard that
    \* the connection has ended
    reports, ends

stateVars == <<connected, running, alive, linked, socket>>
chanVars == <<open, queue, pending, cancelledIds>>
senderVars == <<pc, req, cur>>
itemVars == <<sends, answers>>
writerVars == <<wpc, active, written, timeout, outcome, failed, toReport>>
endVars == <<rpc, dpc, caller>>
peerVars == <<peerUp, unread, stream>>
told == <<reports, ends>>
vars == <<stateVars, chanVars, mark, senderVars, itemVars, writerVars, endVars,
          peerVars, told>>

-----------------------------------------------------------------------------
(* What the operations are built from.                                     *)

\* A sender that found the queue full holds the mutex until it is asleep.
MutexFree == \A c \in Senders : pc[c] # "full"

\* The predicate of the wait for room.
HasRoom == ~open \/ mark = 0 \/ pending < mark

\* room.notify_all.  mutant: nobody is notified.
NobodyWoken == pc

SendersWoken == [c \in Senders |-> IF pc[c] = "asleep" THEN "enter" ELSE pc[c]]

\* queued.notify_one and notify_all: only the writer waits there.
WriterWoken == IF wpc = "asleep" THEN "check" ELSE wpc

\* finishWaiter for a sequence of completions: sendAsync has no waiter, and a send
\* that disconnect() has told before has returned or is told the same again.
Finished(items) == answers \cup {a \in ToSet(items) : \E c \in Senders : cur[c] = a.id}

\* The bytes of the sends in a queue, which holds no id twice.  mutant: the active
\* send's too.
BytesWithActive(q) ==
    SumFunctionOnSet([i \in DOMAIN sends |-> sends[i].size], ToSet(q) \cup ({active} \ {0}))

Bytes(q) == SumFunctionOnSet([i \in DOMAIN sends |-> sends[i].size], ToSet(q))

\* Completions of a queue that will not be written.
Cut(q) == [i \in DOMAIN q |-> [id |-> q[i], error |-> "Disconnected"]]

\* The completion of the active send: a timeout has closed the stream.
Completion == [id |-> active, error |-> IF outcome = "Timeout" THEN "Disconnected" ELSE outcome]

\* What a drain has to report, over being what the failure of the active send ends
\* with it.  mutant: what disconnect() left goes first.
CancelledFirst(over) == Cut(cancelledIds) \o <<Completion>> \o Cut(over)

Over(over) == <<Completion>> \o Cut(over) \o Cut(cancelledIds)

\* The sends disconnect() takes from the writer.  mutant: the one being written too.
AllUnfinished == IF active = 0 THEN queue ELSE <<active>> \o queue

Unstarted == queue

Blocked == socket /\ peerUp /\ unread = Capacity

\* disconnect() in a listener keeps its thread.
Occupied(thread) == caller = thread /\ dpc \notin {"none", "done"}

-----------------------------------------------------------------------------
\* The connection is up: startSendChannel has run and both threads are started.
Init ==
    /\ connected = TRUE /\ running = TRUE /\ alive = TRUE /\ linked = TRUE /\ socket = TRUE
    /\ open = TRUE /\ queue = <<>> /\ pending = 0 /\ cancelledIds = <<>>
    /\ mark \in Marks
    /\ pc = [c \in Senders |-> "idle"]
    /\ req = [c \in Senders |-> Nothing]
    /\ cur = [c \in Senders |-> 0]
    /\ sends = <<>> /\ answers = {}
    /\ wpc = "check" /\ active = 0 /\ written = 0 /\ timeout = FALSE
    /\ outcome = "None" /\ failed = FALSE /\ toReport = <<>>
    /\ rpc = "loop" /\ dpc = "none" /\ caller = Main
    /\ peerUp = TRUE /\ unread = 0 /\ stream = <<>>
    /\ reports = <<>> /\ ends = 0

-----------------------------------------------------------------------------
(* Senders.                                                                *)

\* Sends accepted and sends on their way: what MaxSends bounds.
Asked == Len(sends) + Cardinality({c \in Senders : pc[c] \in {"enter", "full", "asleep"}})

\* send or sendAsync finds the client connected and takes its channel.
SendStarts(c, r) ==
    /\ pc[c] = "idle" /\ connected /\ linked
    /\ Asked < MaxSends
    /\ pc' = [pc EXCEPT ![c] = "enter"]
    /\ req' = [req EXCEPT ![c] = r]
    /\ UNCHANGED <<stateVars, chanVars, mark, cur, itemVars, writerVars, endVars,
                   peerVars, told>>

\* enqueue, with the mutex: there is room and the channel is open.
Accept(c) ==
    /\ pc[c] = "enter" /\ MutexFree /\ HasRoom /\ open
    /\ sends' = Append(sends, req[c])
    /\ queue' = Append(queue, Len(sends) + 1)
    /\ pending' = pending + req[c].size
    /\ cur' = [cur EXCEPT ![c] = IF req[c].sync THEN Len(sends) + 1 ELSE 0]
    /\ pc' = [pc EXCEPT ![c] = IF req[c].sync THEN "wait" ELSE "idle"]
    /\ req' = [req EXCEPT ![c] = Nothing]
    /\ wpc' = WriterWoken
    /\ UNCHANGED <<stateVars, open, cancelledIds, mark, answers, active, written,
                   timeout, outcome, failed, toReport, endVars, peerVars, told>>

\* The channel has closed, or an asynchronous send finds the queue full.
Refuse(c) ==
    /\ pc[c] = "enter" /\ MutexFree
    /\ ~open \/ (~HasRoom /\ ~req[c].sync)
    /\ pc' = [pc EXCEPT ![c] = "idle"] /\ req' = [req EXCEPT ![c] = Nothing]
    /\ UNCHANGED <<stateVars, chanVars, mark, cur, itemVars, writerVars, endVars,
                   peerVars, told>>

\* A synchronous send finds the queue full: until it is asleep it holds the mutex,
\* which keeps out all but setSendAsyncBufferSize.
FindFull(c) ==
    /\ pc[c] = "enter" /\ MutexFree
    /\ ~HasRoom /\ req[c].sync
    /\ pc' = [pc EXCEPT ![c] = "full"]
    /\ UNCHANGED <<stateVars, chanVars, mark, req, cur, itemVars, writerVars, endVars,
                   peerVars, told>>

FallAsleep(c) ==
    /\ pc[c] = "full"
    /\ pc' = [pc EXCEPT ![c] = "asleep"]
    /\ UNCHANGED <<stateVars, chanVars, mark, req, cur, itemVars, writerVars, endVars,
                   peerVars, told>>

\* send returns what its waiter was told.
SendReturns(c) ==
    /\ pc[c] = "wait"
    /\ \E a \in answers : a.id = cur[c] /\ answers' = answers \ {a}
    /\ pc' = [pc EXCEPT ![c] = "idle"] /\ cur' = [cur EXCEPT ![c] = 0]
    /\ UNCHANGED <<stateVars, chanVars, mark, req, sends, writerVars, endVars,
                   peerVars, told>>

\* setSendAsyncBufferSize holds no mutex: a sender about to sleep misses it.  Once
\* the channel has closed it makes no difference.
Resize(m) ==
    /\ open /\ m # mark
    /\ mark' = m
    /\ pc' = SendersWoken
    /\ UNCHANGED <<stateVars, chanVars, req, cur, itemVars, writerVars, endVars, peerVars, told>>

-----------------------------------------------------------------------------
(* The writer: writerThreadFunc and drainSendChannel.                      *)

\* The writer goes on within a drain.
WriterMoves(from, to) ==
    /\ wpc = from /\ wpc' = to
    /\ UNCHANGED <<stateVars, chanVars, mark, senderVars, itemVars, active, timeout,
                   failed, toReport, endVars, told>>

\* The loop: sleep, or leave for good.  It looks in one critical section and takes in
\* the next; nothing depends on what comes in between, so both are one action here.
WriterChecks ==
    /\ MutexFree /\ queue = <<>>
    /\ \/ open /\ WriterMoves("check", "asleep")
       \/ ~open /\ cancelledIds = <<>> /\ WriterMoves("check", "gone")
    /\ UNCHANGED <<written, outcome, peerVars>>

\* The next send becomes the active one.
WriterTakes ==
    /\ wpc = "check" /\ MutexFree
    /\ queue # <<>>
    /\ active' = Head(queue) /\ queue' = Tail(queue)
    /\ timeout' \in (IF alive THEN Timeouts ELSE {FALSE})
    /\ wpc' = "write"
    /\ UNCHANGED <<stateVars, open, pending, cancelledIds, mark, senderVars, itemVars, written,
                   outcome, failed, toReport, endVars, peerVars, told>>

\* Nothing is queued but ids that disconnect() left.
WriterTakesCancelled ==
    /\ wpc = "check" /\ MutexFree
    /\ queue = <<>> /\ cancelledIds # <<>>
    /\ toReport' = Cut(cancelledIds) /\ cancelledIds' = <<>>
    /\ wpc' = "report"
    /\ UNCHANGED <<stateVars, open, queue, pending, mark, senderVars, itemVars, active, written,
                   timeout, outcome, failed, endVars, peerVars, told>>

\* The head of the write loop.
WriterLooks ==
    /\ wpc = "write"
    /\ LET whole == written = sends[active].size
           cut == ~whole /\ ~(open /\ alive)
       IN  /\ WriterMoves("write", IF whole \/ cut THEN "judge" ELSE "step")
           /\ outcome' = IF cut THEN "Disconnected" ELSE outcome
    /\ UNCHANGED <<written, peerVars>>

\* writeSendStep: the kernel takes what fits.
WriterWrites ==
    /\ WriterMoves("step", "write")
    /\ socket /\ unread < Capacity
    /\ LET left == sends[active].size - written
           n == IF left < Capacity - unread THEN left ELSE Capacity - unread
       IN  /\ written' = written + n
           /\ unread' = unread + n
           /\ stream' = stream \o [i \in 1..n |-> active]
    /\ UNCHANGED <<outcome, peerUp>>

\* The socket has been closed here, or by the peer.
WriterFails ==
    /\ WriterMoves("step", "judge")
    /\ ~socket \/ ~peerUp
    /\ outcome' = "Disconnected"
    /\ UNCHANGED <<written, peerVars>>

\* The kernel takes nothing: the slices of the wait are one, which ends when
\* something has changed or the timeout has passed.
WriterParks ==
    /\ Blocked /\ WriterMoves("step", "parked")
    /\ UNCHANGED <<written, outcome, peerVars>>

WriterResumes ==
    /\ ~Blocked \/ ~open \/ ~alive
    /\ WriterMoves("parked", "write")
    /\ UNCHANGED <<written, outcome, peerVars>>

WriterTimesOut ==
    /\ timeout /\ Blocked /\ open /\ alive
    /\ WriterMoves("parked", "judge")
    /\ outcome' = "Timeout"
    /\ UNCHANGED <<written, peerVars>>

\* mutant: a close after the last byte fails the send.
CloseFails == ~open /\ outcome = "None"

\* The channel has closed, and not only after the last byte was written.
ClosedTooEarly ==
    ~open /\ outcome = "None" /\ (written < sends[active].size \/ sends[active].size = 0)

\* The send's failure ends the connection.  mutant: even when it has been closed.
AnyFailure(e) == e # "None"

Breaks(e) == e # "None" /\ open

\* The write loop is over, and with it the use of the timeout.
WriterJudges ==
    /\ wpc = "judge" /\ wpc' = "settle" /\ timeout' = FALSE
    /\ outcome' = IF ClosedTooEarly THEN "Disconnected" ELSE outcome
    /\ failed' = Breaks(outcome')
    /\ UNCHANGED <<stateVars, chanVars, mark, senderVars, itemVars, active, written,
                   toReport, endVars, peerVars, told>>

\* The second critical section: the active send is over, and with the connection
\* everything queued.
WriterSettles ==
    /\ wpc = "settle" /\ MutexFree
    /\ LET over == IF failed THEN queue ELSE <<>>
       IN  /\ toReport' = Over(over)
           /\ pending' = pending - sends[active].size - Bytes(over)
           /\ queue' = IF failed THEN <<>> ELSE queue
    /\ cancelledIds' = <<>>
    /\ open' = (open /\ ~failed)
    /\ wpc' = "free"
    /\ UNCHANGED <<stateVars, mark, senderVars, itemVars, active, written, timeout,
                   outcome, failed, endVars, peerVars, told>>

\* A failed send ends the connection, unless the handle has let go of it: the stores to
\* the two flags are one step.  Whoever waited for room or for a send now over is released.
WriterFrees ==
    /\ wpc = "free" /\ wpc' = IF failed THEN "teardown" ELSE "report"
    /\ running' = (running /\ ~(failed /\ alive))
    /\ connected' = (connected /\ ~(failed /\ alive))
    /\ pc' = SendersWoken
    /\ answers' = Finished(toReport)
    /\ UNCHANGED <<alive, linked, socket, chanVars, mark, req, cur, sends, active, written,
                   timeout, outcome, failed, toReport, endVars, peerVars, told>>

\* closeClientSocket and stopSendChannel on the writer, which does not join itself.
WriterTearsDown ==
    /\ wpc = "teardown" /\ MutexFree
    /\ IF alive
       THEN socket' = FALSE /\ linked' = FALSE /\ pc' = SendersWoken /\ wpc' = "ended"
       ELSE wpc' = "report" /\ UNCHANGED <<socket, linked, pc>>
    /\ UNCHANGED <<connected, running, alive, chanVars, mark, req, cur, itemVars, active,
                   written, timeout, outcome, failed, toReport, endVars, peerVars, told>>

\* onError has been told; then onDisconnect, unless its listener has let go.
WriterEnds ==
    /\ wpc = "ended" /\ ~Occupied(Writer)
    /\ IF alive /\ ~connected /\ ~running
       THEN wpc' = "heard" /\ ends' = ends + 1
       ELSE wpc' = "report" /\ UNCHANGED ends
    /\ UNCHANGED <<stateVars, chanVars, mark, senderVars, itemVars, active, written,
                   timeout, outcome, failed, toReport, endVars, peerVars, reports>>

\* onSendComplete for the next completion; what the drain reports is never empty.
WriterReports ==
    /\ wpc = "report" /\ wpc' = "heard"
    /\ reports' = Append(reports, Head(toReport))
    /\ toReport' = Tail(toReport)
    /\ UNCHANGED <<stateVars, chanVars, mark, senderVars, itemVars, active, written,
                   timeout, outcome, failed, endVars, peerVars, ends>>

\* The listener returns, and with the last one the drain.
ListenerReturns ==
    /\ wpc = "heard" /\ ~Occupied(Writer)
    /\ IF toReport # <<>>
       THEN wpc' = "report" /\ UNCHANGED <<active, written, outcome, failed>>
       ELSE /\ wpc' = "check"
            /\ active' = 0 /\ written' = 0
            /\ outcome' = "None" /\ failed' = FALSE
    /\ UNCHANGED <<stateVars, chanVars, mark, senderVars, itemVars, timeout, toReport, endVars,
                   peerVars, told>>

WriterStep ==
    \/ WriterChecks \/ WriterTakes \/ WriterTakesCancelled
    \/ WriterLooks \/ WriterWrites \/ WriterFails
    \/ WriterParks \/ WriterResumes \/ WriterTimesOut \/ WriterJudges \/ WriterSettles
    \/ WriterFrees \/ WriterTearsDown \/ WriterEnds \/ WriterReports
    \/ ListenerReturns

-----------------------------------------------------------------------------
(* The receive thread, as far as it ends the connection: what it receives  *)
(* goes to listeners and changes nothing here.                             *)

\* recv finds the end of the stream, or an error.
ReceiverSeesEnd ==
    /\ rpc = "loop" /\ ~Occupied(Receiver)
    /\ connected /\ running /\ socket /\ ~peerUp
    /\ rpc' = "eof"
    /\ UNCHANGED <<stateVars, chanVars, mark, senderVars, itemVars, writerVars, dpc,
                   caller, peerVars, told>>

\* Only the thread that clears running_ here reports.
ReceiverClaims ==
    /\ rpc = "eof"
    /\ rpc' = IF running THEN "claimed" ELSE "loop"
    /\ running' = FALSE
    /\ UNCHANGED <<connected, alive, linked, socket, chanVars, mark, senderVars, itemVars,
                   writerVars, dpc, caller, peerVars, told>>

ReceiverDisconnects ==
    /\ rpc = "claimed" /\ rpc' = "retire"
    /\ connected' = FALSE
    /\ UNCHANGED <<running, alive, linked, socket, chanVars, mark, senderVars, itemVars,
                   writerVars, dpc, caller, peerVars, told>>

\* processSendQueue retires the writer.
ReceiverRetires ==
    /\ rpc = "retire" /\ MutexFree
    /\ rpc' = "tell"
    /\ IF linked
       THEN open' = FALSE /\ wpc' = WriterWoken /\ pc' = SendersWoken
       ELSE UNCHANGED <<open, wpc, pc>>
    /\ UNCHANGED <<stateVars, queue, pending, cancelledIds, mark, req, cur, itemVars, active,
                   written, timeout, outcome, failed, toReport, dpc, caller, peerVars, told>>

\* onDisconnect; the handle may have let go of this State.
ReceiverTells ==
    /\ rpc = "tell"
    /\ IF alive
       THEN rpc' = "heard" /\ ends' = ends + 1
       ELSE rpc' = "done" /\ UNCHANGED ends
    /\ UNCHANGED <<stateVars, chanVars, mark, senderVars, itemVars, writerVars, dpc,
                   caller, peerVars, reports>>

\* The listener returns and the thread ends.  Out of its loop it ends by itself once
\* running_ is cleared, and does nothing on the way.
ReceiverStops ==
    /\ rpc = "heard" /\ ~Occupied(Receiver)
    /\ rpc' = "done"
    /\ UNCHANGED <<stateVars, chanVars, mark, senderVars, itemVars, writerVars, dpc,
                   caller, peerVars, told>>

ReceiverGone == rpc = "done" \/ (rpc = "loop" /\ ~running)

ReceiverStep ==
    \/ ReceiverSeesEnd \/ ReceiverClaims \/ ReceiverDisconnects \/ ReceiverRetires
    \/ ReceiverTells \/ ReceiverStops

-----------------------------------------------------------------------------
(* disconnect().                                                           *)

\* By a thread of its own at any time, or by a listener: of onReceive or
\* onDisconnect on the receive thread, of any event on the writer.
DisconnectStarts(who) ==
    /\ dpc = "none"
    /\ \/ who = Main
       \/ who = Receiver /\ (rpc = "heard" \/ (rpc = "loop" /\ connected /\ running))
       \/ who = Writer /\ wpc \in {"ended", "heard"}
    /\ dpc' = "cut" /\ caller' = who
    /\ running' = FALSE
    /\ UNCHANGED <<connected, alive, linked, socket, chanVars, mark, senderVars, itemVars,
                   writerVars, rpc, peerVars, told>>

\* stopConnectThread: what is queued is over, and only its completions are left
\* to the writer; the active send is the writer's.
DisconnectCuts ==
    /\ dpc = "cut" /\ MutexFree
    /\ dpc' = "close"
    /\ IF linked
       THEN /\ open' = FALSE /\ queue' = <<>>
            /\ cancelledIds' = cancelledIds \o Unstarted
            /\ pending' = pending - Bytes(queue)
            /\ answers' = Finished(Cut(Unstarted))
            /\ wpc' = WriterWoken /\ pc' = SendersWoken
       ELSE UNCHANGED <<chanVars, answers, wpc, pc>>
    /\ UNCHANGED <<stateVars, mark, req, cur, sends, active, written, timeout, outcome,
                   failed, toReport, rpc, caller, peerVars, told>>

\* closeClientSocket and stopSendChannel; a worker joins nobody.
DisconnectCloses ==
    /\ dpc = "close" /\ dpc' = IF caller = Main THEN "join" ELSE "tell"
    /\ socket' = FALSE /\ linked' = FALSE
    /\ UNCHANGED <<connected, running, alive, chanVars, mark, senderVars, itemVars,
                   writerVars, rpc, caller, peerVars, told>>

DisconnectJoins ==
    /\ dpc = "join" /\ wpc = "gone" /\ ReceiverGone
    /\ dpc' = "tell"
    /\ UNCHANGED <<stateVars, chanVars, mark, senderVars, itemVars, writerVars, rpc,
                   caller, peerVars, told>>

\* onDisconnect, if nobody else has ended the connection.
DisconnectTells ==
    /\ dpc = "tell" /\ dpc' = "retire"
    /\ connected' = FALSE
    /\ ends' = IF connected THEN ends + 1 ELSE ends
    /\ UNCHANGED <<running, alive, linked, socket, chanVars, mark, senderVars, itemVars,
                   writerVars, rpc, caller, peerVars, reports>>

\* freshState lets go of this State.
DisconnectRetires ==
    /\ dpc = "retire" /\ dpc' = "done" /\ caller' = Main
    /\ alive' = FALSE
    /\ UNCHANGED <<connected, running, linked, socket, chanVars, mark, senderVars,
                   itemVars, writerVars, rpc, peerVars, told>>

DisconnectStep ==
    \/ DisconnectCuts \/ DisconnectCloses \/ DisconnectJoins \/ DisconnectTells
    \/ DisconnectRetires

-----------------------------------------------------------------------------
(* The peer, as long as it matters here.                                   *)

PeerReads ==
    /\ socket /\ peerUp /\ unread > 0
    /\ unread' = 0
    /\ UNCHANGED <<stateVars, chanVars, mark, senderVars, itemVars, writerVars, endVars,
                   peerUp, stream, told>>

PeerCloses ==
    /\ socket /\ peerUp
    /\ peerUp' = FALSE
    /\ UNCHANGED <<stateVars, chanVars, mark, senderVars, itemVars, writerVars, endVars,
                   unread, stream, told>>

-----------------------------------------------------------------------------
SenderStep(c) == Accept(c) \/ Refuse(c) \/ FindFull(c) \/ FallAsleep(c) \/ SendReturns(c)

Next ==
    \/ \E c \in Senders : SenderStep(c)
    \/ \E c \in Senders, r \in Requests : SendStarts(c, r)
    \/ \E m \in Marks : Resize(m)
    \/ WriterStep \/ ReceiverStep \/ DisconnectStep
    \/ \E who \in {Main, Receiver, Writer} : DisconnectStarts(who)
    \/ PeerReads \/ PeerCloses

\* Threads run and listeners return.  Whoever needs the mutex gets it in the end,
\* though others take it again and again: strong fairness.
Fairness ==
    /\ \A c \in Senders : WF_vars(SenderStep(c))
    /\ SF_vars(WriterStep) /\ SF_vars(ReceiverStep) /\ SF_vars(DisconnectStep)

Spec == Init /\ [][Next]_vars
FairSpec == Spec /\ Fairness

-----------------------------------------------------------------------------
(* Properties.                                                             *)

Errors == {"None", "Disconnected"}
Completions == [id : 1 .. Len(sends), error : Errors]

\* The connection's state is well typed.
TypeOK ==
    /\ {connected, running, alive, linked, socket, open, peerUp} \subseteq BOOLEAN
    /\ queue \in Seq(1 .. Len(sends)) /\ cancelledIds \in Seq(1 .. Len(sends))
    /\ pending \in Nat /\ mark \in Marks
    /\ pc \in [Senders -> {"idle", "enter", "full", "asleep", "wait"}]
    /\ req \in [Senders -> Request]
    /\ cur \in [Senders -> 0 .. Len(sends)]
    /\ sends \in Seq(Request) /\ answers \subseteq Completions
    /\ wpc \in {"check", "asleep", "write", "step", "parked", "judge", "settle",
                "free", "teardown", "ended", "report", "heard", "gone"}
    /\ active \in 0 .. Len(sends) /\ written \in Nat /\ {timeout, failed} \subseteq BOOLEAN
    /\ outcome \in Errors \cup {"Timeout"} /\ toReport \in Seq(Completions)
    /\ rpc \in {"loop", "eof", "claimed", "retire", "tell", "heard", "done"}
    /\ dpc \in {"none", "cut", "close", "join", "tell", "retire", "done"}
    /\ caller \in {Main, Receiver, Writer}
    /\ unread \in 0 .. Capacity /\ stream \in Seq(1 .. Len(sends))
    /\ reports \in Seq(Completions) /\ ends \in Nat

\* A send completes once, in the order of acceptance, and none succeeds after one
\* that failed: the connection implements SendQueue.
Sends == INSTANCE SendQueue WITH accepted <- Len(sends), completed <- reports
KeepsOrder == Sends!SQSpec

\* The bytes of send i that have reached the kernel.
BytesOut(i) == Cardinality({k \in DOMAIN stream : stream[k] = i})

\* What the peer gets is the payloads in order, of which only the last may be cut
\* short, and both completions and return values tell which arrived whole.
WireIsSound ==
    /\ \A k \in 1 .. Len(stream) - 1 :
          \/ stream[k] = stream[k + 1]
          \/ stream[k] < stream[k + 1] /\ BytesOut(stream[k]) = sends[stream[k]].size
    /\ \A r \in ToSet(reports) \cup answers :
          IF r.error = "None" THEN BytesOut(r.id) = sends[r.id].size
          ELSE BytesOut(r.id) < sends[r.id].size \/ sends[r.id].size = 0

\* send lends its bytes: as long as the writer may read them the caller is blocked.
BorrowedBytesHeld ==
    \A i \in ToSet(queue) \cup (IF wpc \in {"write", "step", "parked"} THEN {active} ELSE {}) :
        sends[i].sync => \E c \in Senders : /\ cur[c] = i /\ pc[c] = "wait"
                                            /\ \A a \in answers : a.id # i

\* From the caller's buffer to the peer: bytes are read only while they are lent,
\* arrive in order and are reported as they arrived.
PayloadsAreSound == WireIsSound /\ BorrowedBytesHeld

\* Closing the socket here is never taken for a failed send, which would report the
\* end of the connection a second time: the writer gives up only on its peer.
CloseIsNoFailure == failed => outcome = "Timeout" \/ ~peerUp

\* Nobody waits for good, unless for a peer that neither reads nor closes while no
\* timeout is set: senders return, every accepted send completes, disconnect ends.
PeerStalls == wpc = "parked" /\ Blocked /\ open /\ ~timeout

Quiet ==
    /\ \A c \in Senders : pc[c] = "idle"
    /\ Len(reports) = Len(sends)
    /\ dpc \in {"none", "done"}

NobodyHangs == []<>(Quiet \/ PeerStalls)

\* tcTcpClient.cpp:935: an end is reported only by the thread that ends the connection,
\* so as long as nobody disconnects listeners hear of one end at most.
EndsOnce == dpc = "none" => ends <= 1

=============================================================================
