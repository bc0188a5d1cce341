# TrussC: models, checks and proofs

TrussC is a C++20 framework for creative coding: an App draws a frame per turn of a main
thread, and files, network, audio, serial ports and timers work on threads of their own and
report back. This directory models the parts of the core where those threads meet. Source
paths below are relative to `src/core/include/tc/` unless they begin with `src/`.

Contents: [the system](#1-the-system), [its components](#2-components),
[modules](#3-modules-and-their-code), [runs](#4-runs-and-bounds), [fairness](#5-fairness),
[proofs](#6-proofs), [findings](#7-findings), [limits](#8-what-is-not-modelled),
[plan](#9-plan).

To repeat the checks: `tlc -config <run>.cfg <module>` for a run of section 4, and
`tlapm <module>.tla` for a module of section 6.

## 1. The system

One thread, *main*, owns the App, the node tree, GPU objects and every handle (`Image`,
`Font`, `Sound`, ...). A *turn* of its loop (`processQueues`, `app/tcWindowRuntime.cpp`) takes
what other threads left for it, in this order: finished resource loads, slots and closures
posted to main, audio diagnostics, console input, MCP requests. Then it updates and draws.
Everything else reaches main through one of three mechanisms:

| mechanism | for | code | model |
|---|---|---|---|
| load mailbox | results of asynchronous loads | `utils/tcResourceLoad.cpp` | `ResourceLoad` |
| slot list, lock-free | threads that may neither allocate nor block (audio, serial) | `utils/tcMainThread.h` | `MainThreadSlots` |
| closure queue under a mutex | `runOnMainThread`, listeners of `Deliver::Main` | `utils/tcMainThread.h`, `events/tcEvent.h` | `EventDispatch` |

In the other direction `Event<T>` calls listeners on whatever thread notifies, the async
scheduler calls timers on its own thread, a `Thread` runs its `threadedFunction()`, and a TCP
connection has a writer and a receive thread; all of them must stop calling an object before the
object goes. Above them stand the owner of the App, which cancels what the App registered, and
the end of the process, which main alone carries out. That is the theme of the project: *work
handed from one thread to another is done once, in order, for an object that still exists, and
ends when its owner or the process ends.*

## 2. Components

`PROJECT.json` lists every component with its status. What follows is the inventory of those
that carry logic of their own: state, operations, what they interact with, what is hard, and
what makes them correct.

**Resource loading** (`utils/tcResourceLoad.*`; used by `Image`, `Font`, `Sound`). State: a
queue of preparations, a count of active slots and its limit, request and byte credits, a
mailbox, a list of worker threads with a reaper that joins them; per load its flags
(`cancelled`, `completed`, credits). Operations: begin and cancel on a handle, admission,
worker loop, completion, delivery in a turn, concurrency changes, App shutdown, process exit.
Hard: workers, main and the reaper interleave; a listener may cancel, restart or destroy the
handle it is called for; a cancel meets a result being charged, published or taken. Correct:
credits balance and bound network loads; no load is stranded; a delivered load belongs to the
handle that still wants it; exit leaves nothing behind.

**Main-thread slots** (`utils/tcMainThread.h`). State: an intrusive list with a
compare-and-swap head; per slot a link, a flag, a self-reference. Operations: post from any
thread, drain on main. Hard: lock-free pushes, reposts while the slot runs, owners that go.
Correct: oldest first, once per post, nothing recorded is missed, no freed slot is touched.

**Events** (`events/tcEvent.h`, `utils/tcExternalDelivery.cpp`). State: a published list,
copied on write; a liveness token per listener; the copies waiting for main and their limit.
Operations: listen, disconnect, clear, notify, drain. Hard: passes walk old lists while
callbacks of that very pass change them; removal races delivery; allocation may fail. Correct:
no registration is lost, order is by priority, what a thread removed it does not call, limits
and overflow episodes recover.

**Async timers** (`utils/tcAsyncScheduler.h`, `tcNode.h`). State: the task list, what is
executing, the sleeping worker. Operations: schedule, cancel by id or owner with a wait for the
callback in flight, the worker's loop, exit. Hard: cancels against a running callback, wakeups
against a worker about to sleep, lateness. Correct: a cancel is a barrier; nothing due is slept
over; repeating timers neither drift nor burst.

**Threads and channels** (`utils/tcThread.h`, `tcThreadChannel.h`). State: three atomic flags, a
`std::thread` and a pointer to a flag on the worker's stack; a queue with a closed flag and its
waiters. Operations: start, stop, wait, destroy; send, receive (blocking, timed, polling), clear,
close. Hard: destruction on the own worker, before it has started or while it is being started;
a restart against a worker on its way out; a notification that one of several receivers gets.
Correct: no thread touches a dead object; the flags say what the worker does; values come out
once and in order, and nobody sleeps while a value waits or the channel is closed.

**TCP** (`network/tcTcpClient.cpp`, `tcTcpServer.cpp`, `tcTcpSendChannel.h`). State: socket,
connection generation, receive and writer threads, per-peer send queue. Operations: connect,
send (waiting or queued), receive, disconnect from either side, reconnect. Hard: a send waits on
a peer that has stopped reading; a disconnect meets the writer at any point; two threads find
the end of one connection; a State retires with its own worker still inside it. Correct: sends
complete in order, exactly once, and say truly what reached the kernel; lent buffers are not
read after the lender was told; everyone is released.

**App lifetime** (`app/internal/tcAppConstruction.h`, `app/tcWindowRuntime.cpp`). State: an
owner per App with its flags and cancellations. Operations: construct, attach, register a
callback, call it, end the attachment, retire. Hard: a callback on a worker registers another
while main retires the App. Correct: each cancellation runs exactly once, by one of the two
threads, and its callback is empty from then on.

**Process exit** (`app/tcWindowRuntime.cpp`, `app/tcExit.*`, the host loop in
`sokol/sokol_app_tc.h`, `utils/tcOnceGate.h`). State: the pending quit, sokol's own quit flags,
the pending and the delivered signal, the logout watchdog. Operations: quit requests by the App,
a worker, a signal, a user or the OS session; listeners that accept or veto; commit; shutdown.
Hard: a veto meets a new signal; the watchdog is armed while its thread goes to sleep; App code
never returns. Correct: a request is decided; listeners are not asked about what they vetoed;
the session's end is bounded; an ordinary end leaves no watchdog behind.

**Serial** (`comm/tcSerialRx.h`): a bounded receive buffer between a reader thread and main.
**Audio engine** (`sound/`): a device thread, device loss and reopening, a barrier for
callbacks in flight. **UDP, MCP and console, hot reload, video**: threads around system calls.
**Scene, graphics, math, animation**: one thread, numeric. **Platform layers, tools, addons,
vendored code**: outside the core's own logic.

## 3. Modules and their code

`PROJECT.json` maps every definition to the lines it stands for. Common conventions: a critical
section of a mutex is one action, unless the code reads shared state outside the mutex in the
middle of it; lock-free code takes one action per atomic access, and runs sequentially
consistently; `\* mutant` operators are broken variants of the operator below them, kept so that
each property can be shown to notice a plausible bug, and used by no specification.
Variables under *history* are read by properties only (the exceptions are the counters that
bound a run).

**`ResourceLoad`** (`utils/tcResourceLoad.cpp`, `.h`) promises **`AsyncLoad`**. The `LoadHost`
is `pending`, `active`/`activeLimit`, `outstanding`, `retained`, `mailbox` and `lockedBy`;
`ResourceLoadState` is the sets and functions over `Loads`; the slot of a handle is `slot[h]`.
A worker is a program counter `wpc[w]` and its `job[w]`. Main is described by `where` (its frame,
a batch, a listener of that batch, the phases of App and process exit) and, inside a host call,
by `mstep`: `Begin` of a superseding load runs `cancel` (mark, then the critical section), then
`Admit`, the pump and `Spawn`, so a worker can be between any two of them. `completeResourceLoad`
reads `cancelled`, which main sets without the mutex, twice inside one critical section:
`WorkerComplete` and `WorkerPublish` are the two halves. `Deliver` applies one result and opens a
listener, in which the application may again do anything with handles. A decoder's result is its
size, a member of `Sizes`, or a failure. The reaper is `Reap(w)`.

**`MainThreadSlots`** (`MainThreadSlot`, `MainThreadSlotBatch`, `drainMainThreadSlots`) promises
**`SlotQueue`**. `post` is `Exchange` (the flag), `Keep` (the self-reference), `Link` (load the
head, set the link) and `CasWins` or `CasFails`; the drain is `TakeList` (exchange of the head),
one `Reverse` per link, then per slot `ConsumeTake`, `ConsumeUnqueue`, `ConsumeRun`,
`RunReturns`. `deliver` tells a turn, which runs its slots, from a teardown, which discards them.
`mail` and `owned` stand for the objects that embed a slot (the serial port's receive state, the
audio engine's diagnostics): what they recorded before posting, and whether they still refer to
themselves. A slot whose run is under way may be posted again, by main too.

**`EventDispatch`** (`Event<T>`, `EventListener`, `ExternalDeliveryStore`, and
`runOnMainThread`/`drainMainThreadQueue` as events use them). A registration is a record
`[id, priority, main, framework]`; its liveness token is `id \in alive`. `stack[t]` has a frame
for each pass, or drained copy, thread t is inside: the rest of the list the pass loaded and
where it is (`check` the token, `call`, `running`, `reserve`, `warn`, `post`), so reading the
token and starting the callback are different steps, and a callback may listen, disconnect,
clear, notify or destroy the event. `removeListener` and `clear` turn tokens off before they
publish; both span actions under the event's mutex (`lock`).

**`AsyncScheduler`** (`utils/tcAsyncScheduler.h`). `listed` is the content of `tasks_`; its sort
is `Earliest`, with equal times in any order, which abstracts the order of the vector. `Fire` is
the critical section that picks the due task, reschedules or erases it and records what executes;
`CallbackReturns` is the section after the callback. Callbacks call `Schedule` and `Cancel`
as the member `Worker`. Time is a counter that `Tick` moves; `asked` in `Schedule` is the clock
reading made before the mutex was taken, up to `MaxLag` ticks old.
**`NodeTimers`** adds the part of `tcNode.h` that schedules for a node and runs
`onCleanupStart` before `cleanup()`.

**`ThreadChannel`** (`utils/tcThreadChannel.h`) promises **`ClosableQueue`**. Values are numbered
in the order they were sent. A receiver `r` is `at[r]`: away, asleep on the condition variable,
woken by a notification, or roused by a timeout or spuriously. `NotifyOne` chooses whom it wakes,
and `Resume` decides again under the mutex, with whoever else arrives first.
**`WorkerThread`** (`utils/tcThread.h`) is an owner (`opc`), a worker (`wpc`) and the atomics they
share, one access per action: `Start`, `SetFlags`, `Spawn` or `SpawnFails`, `Assign`, `Unlock` on
one side, the lambda of `startThread` line by line on the other. The destructor is `DtorMarks`,
`DtorLooks`, `DtorStops`, `DtorJoins`, on either thread; a subclass that waits in its own
destructor, as the header asks, joins first, and one that does not can be met between its
destructor and `~Thread` by the virtual call, which aborts the process (`wpc = "aborted"`).
`threadedFunction()` takes values from the channel, waits for itself, and may destroy the object.

**`TcpConnection`** (`network/tcTcpClient.cpp`, `tcTcpSendChannel.h`) promises **`SendQueue`**.
One `State` of a threaded client: its flags, the channel (`queue` of ids, `pending` bytes,
`cancelledIds`), senders (`pc`), the writer (`wpc`, with the active send and how much of it is
written), the receive thread (`rpc`), `disconnect` (`dpc`, and which thread calls it: a thread of
the application's or a listener on a worker) and the peer, which reads, stalls or closes. The
atomics are accessed in steps of their own, so between the writer's look at `open`, its system
call and its decision that a send has failed anything can happen, and between the receive
thread's claim of the end (`ReceiverClaims`), its store to `connected_` and its closing of the
channel. A listener of `onError` (at `ended`), `onDisconnect` or `onSendComplete` may call
`disconnect`. The kernel takes `Capacity` bytes before the peer reads; a send times out between
two partial writes.

**`AppOwner`** (`tcAppConstruction.h`, `retireAppOwner` and `appOwnedCallback` in
`tcWindowRuntime.cpp`) is the ledger of one App at a time: flags, the list of cancellations, and
for each thread what it is registering. `Register`, `Add` (the look under the lock) and
`CancelNow` (a registration that came too late cancels itself) are separate steps, as are the
test of the flags by the callback's wrapper (`Enter`) and its admission (`Admit`). `phase` is
main's way from the constructor to the last reference.
**`RuntimeExit`** extends it with a windowed run on macOS, the platform with both signals and a
session receiver. `m` is where main is: `turn` (the pending quit), `queues`, `frame`, `deferred`
(what sokol postponed, and native messages), `maintain` (signals), and from there `asking`,
`vetoing`, `answered`, `committing`, `arming`, `stopping`, `cancelling`, `joining`, `leaving`.
`origin` is what asks the listeners of `exitRequested`, since callers differ in what they do with
a veto. A signal is atomic and may come anywhere, between the two stores of
`cancelWindowExitSignal` too. The watchdog thread is `dog`, with the mutex held from its look at
the deadline to its wait.

The modules do not share state in the code either, except for main's turn: results, slots and
closures are taken one after the other on one thread, and what they run belongs to the
application. Each module therefore lets the application do anything it may do at that point,
which stands for the rest of the turn.

## 4. Runs and bounds

| run | instance | shows |
|---|---|---|
| `load_lifecycle` | 2 loads (local, network), 2 handles, 2 workers, limits 0, 1, 2 while running, 2 runs | type; no stranded load; what is delivered is whole; bytes add up; payloads have one owner; cancelled loads and exits keep nothing; `AsyncLoad` |
| `load_limits` | 2 network loads, 1 request credit, 1 queue place, 1 worker, 1 failing launch, fairness | slots and credits add up, network loads stay within their limit, every load settles and exits complete |
| `load_failed_launch` | 2 loads, 1 slot, 1 failing launch, fairness | *violation*: section 7 |
| `slots_delivery` | 2 slots, 2 threads and main, 4 posts, fairness | type; links, ownership of fields and storage; `SlotQueue`; nothing recorded is left behind, it reaches main |
| `events_removal` | a worker and main, 2 registrations of 3 kinds, nesting 2, 2 copies, failures, destruction | no lost update and order; a thread's own removals are final and framework listeners survive `clear` |
| `events_overflow` | 2 workers and main, limits 0, 1, 2 changing at run time, failures, destruction, fairness | places are given back and overflow episodes end; copies are served |
| `timers_scheduler` | 2 timers, 2 owners, 1 outside thread and callbacks, clock 0..3, lag 1, fairness | type; cancel is a barrier; no late alarm and no lost notification; no drift, no burst; due tasks run; cancels and exit end |
| `timers_cleanup` | 2 timers, 2 nodes | *violation*: section 7 |
| `tcp_sends` | 2 senders, 2 sends of 2 bytes (lent) or none (owned), a kernel of 1 byte, limits 0 and 1, with and without a timeout, fairness | type; results say what the kernel took and lent bytes stay lent; a local close is no failure; `SendQueue`; nobody hangs |
| `tcp_ends_once` | 1 sender, 1 send | *violation*: section 7 |
| `worker_threads` | an owner, a worker, another receiver, restarts, subclass that waits or not, fairness | type; no lost wakeup; destruction is safe; flags are true; `ClosableQueue`; joins return |
| `runtime_exit` | main, 1 worker, 2 callbacks (1 registered with the exit event), any number of Apps, signals and requests, fairness | type; each cancellation once; ends have a cause; requests are decided, sessions end in time |

Several properties are conjunctions of named parts that one step of the code keeps or breaks
together: `AdmissionAccounted` (`CountersBalance`, `NetworkRequestsBounded`), `ListIsSound`,
`ListsAreSound`, `RemovalIsExact` (`RemovedStayQuiet`, `FrameworkSurvives`), `PayloadsAreSound`
(`WireIsSound`, `BorrowedBytesHeld`), `DestructionIsSafe` (`NoneTouchesTheDead`,
`WaitingIsEnough`). The theorems of section 6 name the parts where they are proved one by one.

Why these are enough. *Loader*: superseding takes two loads; competition for a slot takes two
workers; in `load_limits` one load runs while another finds the credit or the queue's place taken;
in `load_lifecycle` a result of 3 exceeds the byte limit alone and two of 1 fill it. Three loads,
and local loads beside an exhausted request limit, are left to the theorems, which hold for any
number.
*Slots*: two posters and main cover a push between another's load of the head and its swap, the
head that returns to the same slot included, and two slots a list to reverse; four posts let each
be posted again while it runs. Three slots, unbounded posts and teardowns that discard are covered
by the theorems. *Events*: a pass that meets the removal of a later entry takes two registrations;
a callback that changes the list its own pass walks takes two frames. `MaxListeners`, `MaxDepth`
and `MaxBacklog` bound registrations, nesting and queued copies; they bound what applications do,
not what the code refuses. *Timers*: the clock's bound lets the worker fall behind by more than
the longest interval (1). *TCP*: a payload of two bytes and a kernel of one give a half written
send; a second send waits behind it, is refused or is cancelled; an empty one has no byte to be
cut; without a timeout a peer can stall the writer until `disconnect` comes, which `NobodyHangs`
allows only while the channel is open. *Threads*: `MaxStarts` allows a restart, and a second
receiver can take the value a sleeping worker was woken for. *Exit*: the worker can register the
second callback inside the first. `MaxRuns`, `MaxSpawnFailures`, `MaxPosts`, `MaxSends` and
`MaxStarts` count runs of one process, failed launches, posts, sends and threads.

Deadlock is checked in the runs of the loader (whose end state stutters explicitly) and of the
slots. It is not in the others, where the system really stops: registrations are used up and the
event is destroyed; the timers' worker has exited and the clock is at its bound; the connection
is over and its sends are used up; the Thread is destroyed and the channel closed, or the process
has aborted; the process has ended. Liveness properties take over there.

## 5. Fairness

- *Loader.* Weak for what main does inside the framework and for each worker and the reaper:
  threads run and decoders return. Strong for main's application code returning to the framework
  (`AppReturns`): it may call the host again and again before it does, but a frame, a listener
  and a cleanup end. Nothing makes an application start, cancel or exit.
- *Slots.* Strong for the drain, because application code on main may post before it returns to
  the loop; weak for a poster's next step; strong for a compare-and-swap, which is retried with
  the head just read. The list is lock-free and not wait-free: others that post for ever could
  starve one poster, so `slots_delivery` bounds posts.
- *Events.* Weak for the steps of a drain, a pass and a critical section; strong for `Drain`,
  which the host reaches whatever the application does between turns, and for the return of a
  callback at each depth, since callbacks may notify again before they return.
- *Timers.* Weak for the clock, the worker with the mutex, the alarm and the callback's return.
  Strong for `Recheck`: a caller waiting to take the mutex competes with a worker that takes it
  again and again. `std::mutex` promises no such order; without it no wait in this code would end.
- *TCP.* Weak for each sender's steps; strong for the writer, the receive thread and
  `disconnect`, which take mutexes and a socket that others take again and again. Nothing makes
  the peer read or close, or a `disconnect` begin, and a timeout is not forced where none is set.
- *Threads.* Weak for the owner's operation once begun, for the lambda, for a `threadedFunction()`
  that has nothing left to receive, and for a woken receiver. An aborted process does nothing.
- *Exit.* Weak for main's loop and the listeners it asks, for the watchdog and for the clock
  once the watchdog is armed; weak for App code that runs in a frame, strong for the end of the
  frame, since the App may go on registering. App code that runs in the shutdown (`App::exit()`,
  cancellations, destructors) and exit handlers are not assumed to return: that is what the
  watchdog is for.

## 6. Proofs

All theorems hold for every value of the constants that satisfies the named assumption of the
module (`LoadConstants`, `SlotConstants`, `EventConstants`, `SchedulerConstants`,
`ConnectionConstants`, `ChannelConstants`, `WorkerConstants`, `OwnerConstants`): any finite
number of loads, workers and receivers, any slots, threads, ids, owners, callbacks, payloads and
requests, any clock. The instances of section 4 are a first check of the same formulas. Where a
theorem assumes more, its statement says so: `NothingIsLeftBehind`, `NothingIsEverKept`,
`NodesUseScheduler` and `CleanupIsQuiet`.

**`ResourceLoadProofs`** rests on three invariants.
`Accounting` gives `TypeCorrect`, `SlotsAreHeld`, `RequestsAreBalanced`, `NoStrandedLoad` and
`AdmissionIsAccounted`. It takes these properties together with `Shape`, what program counters say
of their operands. They need each other: that `active` never drops below zero follows from
`SlotsHeld`; that `outstanding` does not, from `RequestsBalance`; and `NoStrandedLoad` from the
count of holders, since the only step that frees a slot while work is queued is the one that finds
`active > activeLimit`.
`References` (queues, jobs and slots refer to loads that began, and two handles never to the same
load) gives `PromiseIsKept`: the host implements `AsyncLoad`. A load's abstract status is read off
`begun`, `delivered` and `cancelled`; `Begin` is a start, `Deliver` a delivery to the one handle
that waits, a cancel or the end of a run an abandonment, and every other step a stutter.
`Custody` follows a load from hand to hand, which is what the two unlocked reads of `cancelled` in
`completeResourceLoad` put at risk: `OnePlace` (a load is with main, in the queue or with one
worker, and after its completion nowhere), `OnceOut` (published once, after its completion),
`Charged` (credits are the size of what was produced, until the load is cancelled),
`CancelledOwnsNothing` and `Wanted` (somebody waits for every load that is not cancelled). With it
`CustodyInvariant` is inductive, and gives `ResultsAreAlwaysSound`, `BytesAreAccounted` (a sum
over loads, see `Sums`), `CancelledLoadsOwnNothing`, `PayloadIsHandedOver` (an action property:
worker and main never write a payload in the same period), and `LaunchedMeansNothingKept`: as long
as no launch of a thread has failed, the end of a run gives everything back. `NothingIsEverKept`
is its form for a system whose launches never fail; one that fails keeps its slot (section 7).

**`MainThreadSlotsProofs`**: `SlotTypeCorrect`, `LinksAreTheOrder`, `FieldsHaveOneOwner`,
`StorageStaysAlive` (together `ListStaysSound`), `NothingIsLeftBehind`, `SlotsRunInOrder`.
`ListInv` is `TypeOK`, `Linked` (links against the sequences `waiting` and `taken`), `OneOwner`,
and `Distinct`, `Drain`, `Posting`, `Stored`: no slot is twice in either sequence, and program
counters agree with flags and references. Given it, a winning swap appends to `waiting`, the
exchange of the head moves it to `taken`, and all other steps stutter: the refinement of
`SlotQueue`. `NothingIsLeftBehind` assumes `Modes = {TRUE}`, turns and no teardown, which discards
on purpose.

**`EventDispatchProofs`**: `EventTypeCorrect`, `ListStaysSound`, `RemovalStaysExact`,
`BacklogStaysAccounted`. The invariant `IInv` has four parts. `ListInv` relates the published list
to the tokens and to the update in progress under the mutex; passes leave it alone. `ThreadInv`
says of each frame on a thread's stack what is left of the list it loaded, that it is still in
order, and that nothing the thread removed itself is about to be called. `AccountInv` equates the
backlog counter with the copies queued, in a batch, in the making, and held by frames at any
depth of any thread, a sum over stacks. Copies of a list that leave entries out are the recursive
function `Kept`, which stands where the code filters a vector; the first part of the module
derives from its definition that such a copy holds the entries asked for, in their order.

**`AsyncSchedulerProofs`**: `TypeCorrect`, `CancelIsABarrier`, `SleepersStayRight`
(`WorkerSleepsNoLonger`, `NoLostNotification`), `TimersRepeatInTime` (`TimersKeepTime`,
`TimersDoNotBurst`). `CancelIsFinal` needs `CoversAwaited`: what a waiting call covers is what it
waits for, so when the wait ends none of it runs, and it cannot start since it is no longer
listed. The two action properties follow from `TimersInv`, which relates a timer's due time to its
grid and its last two callbacks. The theorems cover any number of callers; the run keeps to one.
`NodesUseScheduler` shows that nodes take only the scheduler's steps, and `CleanupIsQuiet` bounds
the finding `timers_cleanup`: no callback of a node runs after its `cleanup()` as long as nobody
starts a timer for a node whose teardown has begun, which a callback in flight may do.

**`TcpConnectionProofs`**: `ConnectionTypeCorrect`, `ClosingIsNoFailure`, `PayloadsArrive`
(`WireIsSound`, `BorrowedBytesHeld`), and `ConnectionKeepsOrder`, the refinement of `SendQueue`.
`ConnInv` numbers sends in the order of their acceptance: `InLine` puts every number in one place,
reported, about to be, active, cancelled or queued; `Fates` and `Doomed` say that after the first
failure no later send may succeed, also one that the writer has taken already; `Counted` that the
byte counter is the sum of what is queued or active, so that it never wraps; `Judged` how far the
active send got at each step of the write loop, and `OnWire` what the peer has of each; `Lent` that
bytes are in use only while their owner waits; `Told` that what a waiter was told is decided. `Closing` carries
`CloseIsNoFailure`: whatever closes the socket has closed the channel first, so a writer that
fails on a socket closed by its own side finds `open` false when it decides. `EndsTwiceAtMost`
bounds the finding `tcp_ends_once`: three threads can find the end of a connection, and
`StillToTell` shows that never more than two tell listeners.

**`WorkerThreadProofs`** has two parts. *The channel*: `ChannelTypeCorrect`, `NoWakeupIsLost`,
`ChannelKeepsPromise`. `NobodyOversleeps` counts who was notified: while somebody sleeps, at least
as many are woken as values wait, and nobody sleeps once the channel is closed. With the types it
is inductive; `ChannelInv` adds that the queue holds the values sent last, in order, which makes a
step of the channel a step of `ClosableQueue` or a stutter. *The thread*: `UsesChannel` (a step of
the thread is a step of the channel or leaves it alone, so the channel's theorems carry over),
`ThreadTypeCorrect`, `ThreadDestructionSafe` (`ThreadLifetimeSafe`, `WaitingRulesOutTheRest`),
`FlagsStayTrue`. `ThreadInv` says where the worker can be while the owner is in each operation,
what is left of a destroyed object, where the worker's stack flag lives, and what the atomics say.

**`RuntimeExitProofs`** has two parts. *The owner*: `CancellationsRunOnce`. `OwnerInv` keeps the
ledger: a callback that was handed out waits in the list past the index, or is in main's hands, or
was cancelled once; one that is being registered is none of these and in the hands of one thread;
and from the moment the token is revoked for good nothing enters the list, so that an exhausted
list stays so. *The run*: `RunUsesOwner` (the run implements `OwnerSpec`), hence `RunCancelsOnce`;
`RunTypeCorrect`; `RunEndsForCause`. `ExitInv` says what stands behind an end (consent, or a
committed session) and behind a question (a request that nobody has vetoed since); it needs the
window inside a veto, where sokol's flag is still set and the listeners have already refused.

**`Sums`** has the facts about sums over a finite set that these accounts need: how a sum changes
when one element of the set, or one value, does. The library's induction theorems take an operator
and cannot be cited here; `NatSetInduction` states induction for a set, which can, and follows from
the least element of a nonempty set of naturals.

Every safety property that a passing run checks, action properties and refinements included, is
now the statement of a theorem. Model-checked only are the liveness properties (`LoadsEnd`,
`MailIsDelivered`, `CopiesAreServed`, `DueTasksRun`, `CallersReturn`, `NobodyHangs`,
`JoinsReturn`, `EndsAreReached`), which rest on fairness and so on `ENABLED`, beyond the prover;
and the three violations of section 7, which are about one behaviour each.

## 7. Findings

- `load_failed_launch` (code). `pumpExternalLoads` counts a slot before it launches the thread.
  When the `std::thread` constructor throws, nothing gives the slot back: with every slot lost
  in this way queued loads wait for ever, where `tcResourceLoad.cpp:25` says that queued work
  waits for a slot.
- `timers_cleanup` (code). `cancelOwner` erases the owner's tasks first and then waits for the
  callback in flight. When that callback schedules another timer for its own node meanwhile, the
  new task survives: its callback runs after `onCleanupStart` and after `~Node`, although
  `tcNode.h:1557` and `tcNode.h:158` say they cancel and wait. `CleanupIsQuiet` proves that no
  other step of the model can break that promise.
- `tcp_ends_once` (code). When the peer closes while a send is being written, the writer fails the
  send and notifies `onDisconnect` without asking whether it ends the connection, as the receive
  thread does (`tcTcpClient.cpp:936`): listeners may hear twice, with two reasons, of one end
  (and, by `EndsTwiceAtMost`, never three times).

Met while modelling, and stated here without a run of their own:

- A comment of `tcEvent.h` says that after a listener dies its callback never runs. When another
  thread's `disconnect` returns between the drain's read of the token and the call, it does;
  `tcMainThread.h:253` states the weaker truth. `RemovalIsExact` speaks of a thread's own removals.
- A veto of any request, also one that came from `exitApp`, a close or the session, clears the
  pending signal: a SIGTERM that arrives while listeners are asked about something else is
  forgotten without a question of its own. `docs/EXIT_PROTOCOL.md` says both that the next frame
  requests the exit and that a veto clears the signal; `EndsAreReached` asks for the weaker.
- A `std::thread` constructor that throws in `startThread` leaves `isThreadRunning()` true until
  `stopThread`, and a `startThread` between the last two writes of a finished worker starts
  nothing (`tcThread.h:160`). `tryReceive` with a timeout may return early when it is woken for
  a value that another receiver takes.

## 8. What is not modelled

Within the modelled components: the web build, which has no threads; weaker memory orders than
sequential consistency; logging, texts and the counter of rejected loads; a second `cancel` of
the same load, which finds nothing to do; App ownership of listeners; callbacks that throw inside
a drain; the notification variants used while the process shuts down; `Event<void>`, the same
code as `Event<T>`; scheduler callbacks that throw, which terminate; captured objects whose
destructor runs under the scheduler's mutex; application locks held across a `cancel`, which
may deadlock as with any barrier.

*Threads*: the deprecated move operations, `KeptThreads`, members of a subclass destroyed under a
running `threadedFunction()`, `startThread` on the own worker, several owners at once. *TCP*: the
mode without threads, connecting and reconnecting, destruction of the client, TLS, the server
(one such channel per peer), received data, allocation failures, overflow of `size_t`, several
`disconnect` calls at once. *App owner*: windows, replacing an App, the headless runner's Apps,
owned work on main; an App is constructed when no thread is in a callback of the last one, so that
destroying App objects under a running callback is out of scope. *Exit*: a busy commit (it ends
the process at once), zero and infinite logout timeouts, several windows, device loss, the loops
of other platforms, the order of services after the shutdown, several runs of a process, a commit
during the shutdown; an App that was attached ends with its run.

Of the other components, `PROJECT.json` gives the reason for each: planned (next section),
system calls and platform glue, numeric code, tools, vendored code.

## 9. Plan

In order of importance:

1. *Retired connections* of TCP: a listener that disconnects or reconnects its own client
   from a worker, and the later call that joins what it left (`freshState`, `joinRetired`,
   `tcTcpClient.cpp:1135`); the delivery gate, the server's peers.
2. *Node references* in `NodeTimers`: callbacks that hold the last reference to a node and
   destroy it while the scheduler's mutex is held (`tcAsyncScheduler.h:117`).
3. *App replacement and the headless runner*: the owner of a window's next App while the last
   one retires; several windows, and a run that outlives them.
4. *Serial receive buffer* and *frame timing*: bounded buffer and clock arithmetic against
   reference definitions.

Theorems to come are those of these components; the safety properties checked so far are proved
(section 6). A further module shares a run with the component it belongs to where one instance
can serve both questions, so that the whole set still runs in minutes.
