# Drip VPN: a TLA+ development

Drip VPN is a Flutter front end on an Android service derived from shadowsocks-android. The
service runs in a process of its own, `:bg`, and starts two child processes: `tun2socks`, which
turns the packets of the tunnel into SOCKS connections, and `ss-local`, the SOCKS server. This
directory models that code in TLA+, checks the models with TLC on small instances, and proves
the main safety properties with TLAPS for all instances.

In what follows `core` is `src/android/core/src/main/java/com/drip/vpn/core`, `app` is
`src/android/app/src/main/kotlin/com/drip/vpn/ui` and `badvpn` is
`src/android/core/src/main/jni/badvpn`.

## The parts of the system

| Part | Code | Concurrency | Module |
|---|---|---|---|
| Service life cycle, proxy instance, executables, boot flag | `core/background/BaseService.kt`, `DripVpnService.kt`, `ProxyInstance.kt`, `Executable.kt`, `DripVpnReceiver.kt` | main thread of `:bg`, coroutines; `onRevoke` on a binder thread | `VpnService`, `Lifecycle`, `VpnRefinement` |
| Process pool | `core/background/GuardedProcessPool.kt` | a coroutine and a waiting thread per process | `ProcessPool` |
| Network listener | `core/net/DefaultNetworkListener.kt` | actor, callbacks of the system | `NetworkListener` |
| Traffic monitor | `core/background/TrafficMonitor.kt` | socket thread against main thread | `Traffic` |
| Binder, connection, notification | `BaseService.Binder`, `core/aidl/DripVpnConnection.kt`, `ServiceNotification.kt` | binder threads, two main threads, two processes | `Binding` |
| Activity, bridge, Flutter | `app`, `src/lib` | UI main thread with delays, Dart isolate | `Ui` |
| TCP through the tunnel | `badvpn/tun2socks/tun2socks.c`, `badvpn/lwip/src/core/tcp*.c` | one thread, nested callbacks | `TunClient` |
| SOCKS connections | `badvpn/socksclient`, `badvpn/system/BConnection_unix.c`, `badvpn/flow` | one thread, jobs and epoll results | `SocksClient`, `Reactor` |
| UDP through the tunnel | `badvpn/tun2socks/SocksUdpGwClient.c`, `badvpn/system/BDatagram_unix.c`, `badvpn/flow`, `badvpn/structure/ChunkBuffer2.h` | one thread, jobs and epoll results | `UdpRelay`, `ChunkBuffer2`, `Reactor` |

How they fit together: the user taps, `Ui` sends a command, `VpnService` handles it and owns the
processes that `ProcessPool` guards; `Binding` brings the state back to the app. `NetworkListener`
and `Traffic` serve a session. `TunClient`, `SocksClient` and `UdpRelay` are inside `tun2socks`.
`Lifecycle` is the contract in the middle: `VpnService` is shown to implement it, and `Ui` uses
it in place of the service. `UdpRelay` composes the ring of `ChunkBuffer2` with the reactor, and
`SocksClient` uses the same reactor.

`PROJECT.json` lists every component with its status, the lines each definition translates, and
the hazards of the code at the lines where they bite. A definition whose comment begins
with "Fault" is a deliberate error that some property must notice; no specification uses it.

## The service (Kotlin)

### VpnService, Lifecycle, VpnRefinement

*State.* `state` and `connectingJob` are the fields of `Data`. `field` says which session's
resource each nullable field of `Data` and `DripVpnService` holds, and `live` which resources
exist; the difference is a leak. `job` is the connecting coroutine, `stopper` the coroutines
that `stopRunner` launches, `main` the message queue of the main thread, `listeners` the keys in
`DefaultNetworkListener`, `enabled` the flag of the boot receiver, `orphans` the child processes
of an earlier run of `:bg`: none, alive, or spared by a `killAll` that could not list or kill
them. A session is what one `onStartCommand` starts;
its number exists only in the model and is used again once nothing refers to it, so behaviours
are unbounded although the set of numbers is not.

*Actions.* `OnStart…` are the four ways through the two `onStartCommand` methods. `JobBegins`,
`AclReturns`, `JobContinues`, `SendFd` and `JobUnwinds` are the stretches of the connecting job
between its suspension points; `StartProcesses` may fail after any prefix of `StartOrder`.
`OnClose`, `OnReload`, `OnFatal`, `GuardFails` and `RestartFails` are the reasons to stop.
`StopperCancels`, `StopperCleans` and `StopperFinishes` are the stretches of `stopRunner`'s
coroutine, with `ChildExits` and `ChildJoined` for what it waits for. `Crash` ends the process.

*Two specifications.* `Spec` is the service as long as Android does not call `onRevoke`,
`RevokeSpec` adds `onRevoke` at any moment. **All results about the service, runs and theorems
alike, are about `Spec`, except `service_revoke`**, which shows that they do not all survive
`onRevoke`: `OneStopper`, `Edges` and the refinement do not. `Unrevoked` proves that a behaviour
of `RevokeSpec` in which no stop of `onRevoke` is under way is one of `Spec`.

*Assumed of Kotlin and Android.* The main thread takes messages in FIFO order and runs one
stretch of a coroutine at a time. `Dispatchers.Main.immediate` runs on in the same turn when it
is already on the main thread (`Idle` says so), `Dispatchers.Main` always posts. A cancelled
coroutine resumes with `CancellationException`; one cancelled before it begins does not run at
all, not even its `finally`. A broadcast to a receiver that is not registered is dropped. Child
processes do not die with `:bg`. `onRevoke` arrives on a binder thread.

*Abstractions.* `data.proxy` and `data.udpFallback` are one resource. Profiles, configuration
files and messages have no content. After a failed restart a guard may report twice where the
code reports once.

`Lifecycle` has the four states, the commands on their way (a set: intents and broadcasts have
no common order), whether the stop under way will restart, and whether the close receiver is
registered. `VpnRefinement` maps the queue to the commands in it, the fields to the receiver and
the stop coroutines to whether one restarts; everything else is hidden.

### ProcessPool

Per guard: the process, the waiting thread, the state of the looper's `receive`, the place in
the loop, and flags. `Exit`, `HandOver`, `Resume`, `Timeout`, `CallbackEnds` and `Close` are the
steps of process, thread, main thread, clock and pool. A code that has been handed over but not
yet resumed is lost to a cancellation or a timeout, as coroutines 1.6.4 cancel promptly. The SDK
levels 23, 24 and 26 take the three ways of the kill sequence; `destroy()` is SIGKILL before API
24 and SIGTERM from then on, so that on API 24 and 25 nothing stronger than SIGTERM is sent.

### NetworkListener, Traffic

`NetworkListener` is the actor with its listeners, its network and its pending requests, the
callbacks of `ConnectivityManager` (on the main thread, or before API 26 on their own) and the
service instances. An instance may stop with its own key or with another one, as the service
does. `Traffic` interleaves the socket thread and `requestUpdate` at every field either of them
reads or writes, with restarts of `ss-local` that set its counters back.

### Binding

Callbacks, bandwidth listeners and looper of the Binder, the order of broadcast and write in
`changeState`, posted work, oneway calls that a later call may overtake, and the app's side:
connection, `binderDied`, which may run between `registerCallback` and the mark that it was
called, the bandwidth setter. `:bg` and the app may die at any time; the notices of a death name
the run that died, and each comes when it comes. An app may die while a binder thread of `:bg`
still has its last `startListeningForBandwidth` (`midcall`), which is then posted before or after
the stop of `onCallbackDied` (`Straggle`). What the system had sent before
`unbindService` still comes to the main thread and is dropped there (`Forgotten`). The ghost
`slip` records the orders of events that the code does not handle, and the properties name them
as their exceptions.

### Ui

Four queues between Dart, Kotlin and the service; the delayed coroutines of `switch` and `stop`,
the permission dialog, `stateChanged` with what it hides, the events that `Bridge` keeps until
Flutter listens, and in Dart the status, the clock, the loading dialog and the pages. The
service is `Lifecycle`.

## tun2socks (C)

The C code runs on one thread, in callbacks that call each other. Its functions are operators on
one record of all they touch; `ok` in that record turns false when an `ASSERT` fails or something
freed is used. What calls out of the process return is a record `o` that the action chooses, so
that every failure is tried at every place.

`TunClient` is one `tcp_client` with its pcb: accept, the callbacks of lwIP, the events of the
SOCKS connection that `SYNC_COMMIT` runs inside them, both buffers, and every way to end. Of lwIP
it has the states of an accepted connection, the window, the acknowledgements, the close with
and without memory for the FIN, and the timers. Segments arrive whole and in order; lwIP's own
reordering is not modelled.

`Reactor` has the job list, the descriptors and the interface protocol (none, operation, busy,
done) that the stream and packet interfaces of `badvpn/flow` share. `SocksClient` has
`BSocksClient`, `BConnector`, `BConnection` with both streams and `PacketStreamSender` on top of
it; a step is one turn of `BReactor_Exec`. Bytes are kept as the message they belong to, so that
a byte lost, repeated or read by the wrong state can be seen.

`ChunkBuffer2` is the ring block by block, with the wrap. `UdpRelay` has the connections of
`SocksUdpGwClient` in the part that is built for Android (the list with its eviction, the first
packet kept for a job, the headers, DNS and other traffic), `BDatagram`, `BufferWriter`,
`PacketBuffer` and `SinglePacketBuffer`. The code checks the payload alone against `udp_mtu` and
then puts a header in front of it. Where the two together do not fit, the copy passes the end of
what the writer was given; the model sets `overrun` and takes no further step. The build defines
`NDEBUG` (`src/android/core/src/main/jni/Android.mk:87`), so that assertions are conditions the code relies
on, not checks it makes.

## Runs

| Run | Checks | Distinct states |
|---|---|---|
| `service_safety` | `OneStopper`, `StopAfterConnect`, `NothingLeft`, `NothingLost`, `ConnectedIsWhole`, `NoForeignProcess`, `BootFlag`, `ImplementsLifecycle` | 436 351 |
| `service_liveness` | `ChangesEnd`, `DeadProcessEndsSession` | 206 192 |
| `service_revoke` | `StopWins`: **violated** | |
| `pool` | `NoOrphan`, `NotSilent`, `JoinedOrSpent`, `Restarted` | 2 322 |
| `network` | `ActorLives`, `ListenersCurrent`, `NetworkTrue`, `GetAnswered` | 73 872 |
| `traffic` | `MissedOnlyByReset`, `RatesSettle` | 208 384 |
| `binding` | `ChecksHold`, `ClientCurrent`, `ClientForgotten` | 1 154 033 |
| `ui_safety` | `ShownTrue`, `DialogGone` | 2 039 060 |
| `ui_liveness` | `Executed` | 3 477 |
| `tun` | `NoFault`, `WindowCredit`, `Driven`, `Reclaimed` | 3 329 |
| `socks` | `AssertsHold`, `Watched`, `DataIntact`, `Carries` | 428 960 |
| `udp` | `AssertsHold`, `RingSound`, `Flowing`, `Carried`, `RepliesHome`, `Forwarded` | 231 908 |

What they show:

- *service*, as long as `onRevoke` is not called: there is one stop at a time, it waits for the
  connecting job, it finds everything that was acquired, whatever failed half-way; a session that
  is Connected is whole or about to be stopped; processes of an earlier run of `:bg` meet new ones
  only where `killAll` failed; only a crash leaves the boot flag set; and from outside all this is
  `Lifecycle`. An attempt to connect ends unless the IO thread never returns, and a stop unless
  that or a child process it waits for never ends: `ChangesEnd` has these as its hypotheses.
- *pool*: no process outlives its guard and no guard of an open pool ends silently. A closed
  pool is joined, except in the case below and where a process ignores SIGTERM on API 24 or 25.
- *network*, *traffic*: the actor survives and its listeners are current; it agrees with the
  system once the callbacks are through. Only the late reset of `dirty` can hide a total, and
  the rates settle in spite of it.
- *binding*, *ui*: no check of the Binder or the connection fails; clients, status, clock, label
  and dialog end up true to the service, with the exceptions that the properties name. An app that
  dies is forgotten for good, unless `:bg` crashes on calling back to it, its last start of
  listening is posted behind the stop of `onCallbackDied`, or it had been unregistered before.
- *tun*: the nested callbacks use nothing that is freed and violate no `ASSERT`; the window
  matches the buffer; the client always waits for something that will come. Once a side has
  closed, client and pcb are freed if the app does not withhold its acknowledgements for ever
  (`AppSettles`), but for the pcb in CLOSE_WAIT below.
- *socks*: no `ASSERT` fails, nothing reaches a freed object, no wakeup is lost, the stream is
  intact, and what both ends send is carried.
- *udp*: the same for packets, with two exceptions among the `ASSERT`s: the length of a packet
  (`overrun`) and those of `DebugError` after an error of the socket (both below).

### Bounds

- *service*: two sessions are one that has left something behind and one that meets it. Two stop
  coroutines are one more than there should be. `MaxTries = 1` (5 in the code) gives a first and
  a last try. Two outside messages let a close and a start race with each other and with the
  messages that the service posts itself, which are not bounded. Sessions and stops are
  symmetric, which the safety runs use. The liveness run does not, and has one outside message
  and one value of the boot flag, which nothing reads.
- *pool*: the two processes of a session, one with a callback; two starts give one restart.
- *network*: two instances, two networks, two waiting callbacks: one lost and one that replaces
  it. *traffic*: one byte in each direction; with restarts a total goes up and down before,
  during and after the copy; shutdown broadcasts until the profile has been given two (`MaxCounted`).
- *binding*: one restart of `:bg`, two calls under way. *ui*: two taps, two pieces of news and
  two dialogs for safety; for liveness one tap at a time, no failing sessions, and a stop that
  takes less than the two seconds that `switch` waits (`Prompt`). Without that the start of a
  switch may be swallowed.
- *tun*: a window of two, a send buffer of one that is smaller than the client's buffer, three
  bytes each way: data has to wait on every side. *socks*: one client, messages of two bytes so
  that each can be cut, two calls per turn as in the code, two bytes each way.
- *udp*: two local addresses for one place (`max_connections = 1`), so that each new one evicts;
  a ring for one packet of two blocks, packets of one and two, one that fits only without its
  header and one that is too long, one call per turn, three packets, one reply and one error. Two
  places are beyond TLC's reach here.

### Fairness

- `VpnService`: the main thread takes its messages and runs the stop coroutines, `sendFd`'s timer
  fires, and a listener thread whose socket is closed ends. Nothing is assumed of child processes
  (`ProcessPool` shows a guard that waits for ever), of the IO thread (the wait for a network has
  no timeout), or of starts, closes, failures and crashes.
- `ProcessPool`: a process that gets SIGKILL exits; thread, main thread and clock go on; `sendFd`
  has finitely many tries. That SIGTERM is obeyed on API 24 and 25 is a hypothesis of
  `JoinedOrSpent`.
- `NetworkListener`: the callbacks' thread takes what is posted. `Traffic`: both threads go on
  and `Binder.loop` asks again, as it does while somebody listens.
- `Binding`: the threads of `:bg` go on with what has begun, and what a dead app has left in its
  queues is taken, as no other work overtakes it for ever. Nothing is asked of the app.
- `Ui`: the queues are served, the service ends what it has begun, and the user answers.
- `TunClient`: a pcb that tcp_close has left in FIN_WAIT_2, LAST_ACK or TIME_WAIT times out,
  `tcp_fasttmr` finds memory for a FIN in the end, and a SOCKS connection that connects or sends
  goes on or fails. Of the app nothing is assumed: that it acknowledges, or stops answering, is
  the hypothesis of `Reclaimed`.
- `SocksClient`, `UdpRelay`: the reactor's loop and the kernel go on; in `SocksClient` the server
  also answers and the app takes what it is given.

Fairness is mostly written as `[]<>` of a state formula: an action that disables itself is taken
infinitely often or disabled infinitely often exactly if it is disabled infinitely often. This
says what weak fairness of the action would and is much cheaper for TLC.

Runs with `CHECK_DEADLOCK FALSE` are of systems that may really stop: a closed pool, a stopped
monitor, a dead app, a closed connection, a relay out of packets.

### The violation

`service_revoke`: `onRevoke` writes Stopping from a binder thread, and the coroutine of
`stopRunner` has to be posted. The connecting job may complete in between and write Connected
over Stopping, although the stop is to "ensure stop connecting first". The clients then see a
connected service that is being torn down, and `stopRunner`'s early return lets a second stop in.

### What else was met

The models have these, and the properties name them as exceptions where they matter. Three of
them contradict a line of the repository, which is quoted.

- `DripVpnService.kt:128`: inside `scope.launch`, `DefaultNetworkListener.stop(this)` is given
  the coroutine's scope, `start` was given the service. The listener survives the session.
- `GuardedProcessPool.kt:83`: a guard that is closed after a restart and before its waiting
  thread exists, or that lost the exit code to a cancellation, waits for ever in its last
  `receive`. `JoinedOrSpent` names it (`Spent`). The stop that waits for it never ends.
- `TrafficMonitor.kt:93`: `persisted` is `current` itself, so the check against persisting twice
  compares an object with itself and every shutdown broadcast adds the totals once more.
- `BaseService.kt:96`: `changeState` broadcasts before it writes; a client that registers and
  reads in between keeps the old state until the next change.
- `DripVpnConnection.kt:57` says of `onServiceDisconnected` "this method will be called even when
  you call `detachService`", and `disconnect` (`:138`) does not call it. `binderDied` (`:115`) does
  not look which binder died.
- `BaseService.kt:156`: a start of listening that a binder thread posts after the app has died and
  after the stop of `onCallbackDied` is never undone; one that the main thread takes while the
  service is Connected calls the dead app, and nobody catches the exception.
- `MainActivity.kt:250`: a state read on connecting is not passed on to Flutter.
  `N2FEventChannelHandler.kt:24`: kept events are encoded twice and lost.
- `tcp_in.c:942`: data and FIN on the last segment of the handshake, with a client that fails
  inside accept, leave a pcb in CLOSE_WAIT without callbacks. `Reclaimed` excepts it.
- `tcp.c:1122`: an app with a window of zero that answers the probes is never given up, and
  tun2socks has no timeout of its own.
- `SocksUdpGwClient.c`: `find_connection`'s `!con && …` (`:166`) is never true, so that DNS and
  other traffic of one local port share a connection; replies to DNS are shown as from the
  server asked last (`:150`); a packet that is dropped does not make its connection recent
  (`:626`); a header whose address type is unknown is read as IPv4 (`:121`).
- `SocksUdpGwClient.c:71`: an error of the socket is only logged and the socket used on, while
  `BDatagram.h:53` has it that the object "must be freed from withing the job closure of this
  handler". `DebugError` would enforce that; `NDEBUG` compiles it out.
- `SocksUdpGwClient.c:241`: with its header a payload of nearly `udp_mtu` exceeds what
  `BufferWriter.c:98` asserts, `len <= o->d_mtu`.

## Proofs

All proofs hold for every value of the constants under the named assumptions of the modules.
Those of `VpnServiceProofs` are about `Spec`, and so hold as long as `onRevoke` is not called.

| Theorem | Module | Says |
|---|---|---|
| `TypeCorrect`, `StopsOnce`, `ConnectingEndsFirst`, `StoppedIsClean`, `AllReachable` | `VpnServiceProofs` | types, `OneStopper`, `StopAfterConnect`, `NothingLeft`, `NothingLost` |
| `Unrevoked`, `StateDiagram` | `VpnServiceProofs` | without `onRevoke`, `RevokeSpec` is `Spec`; the state then keeps to its diagram (`Edges`) |
| `SessionIsWhole`, `OneGeneration`, `BootFlagFollows` | `VpnServiceProofs` | `ConnectedIsWhole`, `NoForeignProcess`, `BootFlag` |
| `Refines` | `VpnServiceProofs` | `ImplementsLifecycle` |
| `PoolInvariant`, `PoolNoOrphan`, `PoolNotSilent` | `ProcessPoolProofs` | `PoolInv`, `NoOrphan`, `NotSilent` |
| `ActorSurvives`, `ListenersFollow`, `NetworkFollows` | `NetworkListenerProofs` | `ActorLives`, `ListenersCurrent`, `NetworkTrue` |
| `OnlyResetHides` | `TrafficProofs` | `MissedOnlyByReset` |
| `ChecksFollow`, `ClientFollows` | `BindingProofs` | `ChecksHold`, `ClientCurrent` |
| `DialogsEnd`, `ShownFollows` | `UiProofs` | `DialogGone`, `ShownTrue` |
| `NeverFaults`, `CreditKept`, `AlwaysDriven` | `TunClientProofs` | `NoFault`, `WindowCredit`, `Driven` |
| `InitSound`, `SubmitSound`, `ConsumeSound`, `Capacity` | `ChunkBuffer2Proofs` | the ring is sound for every size and every sequence of packets |

*VpnService.* The properties are not inductive. That a stopped service is clean needs that a stop
has seen everything, that the fields are clear while it waits, that it alone waits, and that no
connecting job comes in between. `IInv` adds `TheJob` (a job that has not ended is the one
`connectingJob` names, and a stop waits for it and, past the cancellation, finds it cancelled and
out of its delay: why `SendFd` cannot write Connected over Stopping), `Stoppers` (only a stop
that cleans up waits, and it has cleared the fields), `Early` (before the pool is made only what
`onStartCommand` acquired is alive) and `Children` (a posted child has ended, is waited for, and
was posted once). `WInv` adds what `killAll` and `preInit` have prepared, and what a job in
`sendFd` has acquired. `BootFlag` is about steps and needs no more than `IInv`.

*Refinement.* Initial states map to the initial state of `Lifecycle`. For steps, three lemmas say
how the commands in the queue change when a message is posted or taken, `StopSeen` that
`stopRunner` is a stop of `Lifecycle` or nothing, and `RestartsKept` when no stop begins or ends.
Then there is one lemma for each group of actions, under `IInv`: that a stop is alone makes
`restart` well defined, and that its clean-up has taken the receiver back makes `Finish` possible.

*ProcessPool.* Every action but `Close` changes one guard's record, so the invariant is proved for
records and lifted to the guards by one lemma.

*NetworkListener.* `IInv` adds that an instance between its start and its stop is listed, which is
why the check in `Get` holds, and that callbacks carry networks. For `NetworkTrue`, `Tracked` says
that the waiting callbacks lead from the actor's network to the system's. `Leads` states that
without induction: there is a course of networks, one for each place in the queue, in which every
callback has its effect; posting and taking a callback lengthens or shortens the course by one.

*Binding.* `check(!callbackRegistered)` holds because of an order: a connection that is made or on
its way to the main thread is of the run that is bound, or its end is told behind it, and between
two of them an end is told (`Hooked`). `ClientCurrent` is a fact about the end of what is under
way. `Current` says what holds before: a connection to a living run of `:bg` is elsewhere, on its
way, begun, or registered (`Away`, `Coming`, `Joining`, `Joined`), and a registered one has the
last broadcast behind it in the inbox (`Heard`) and the last wish for bandwidth behind it in the
queues (`Wanted`). The attempt at this proof found two faults of the model, both of which need two
deaths of `:bg`: a second death replaced the notices of the first that had not been delivered,
and `unbindService` removed messages from the middle of a queue instead of dropping them when
they come to the main thread. Both are corrected.

*Ui.* When nothing is under way Flutter shows the service's state because on the way there the
last news is the state (`Informed`), and the last status announced to Flutter is the state unless
the service is on its way or an announced command will change it (`Announced`). `DialogGone` needs
that there is at most one dialog, open while something is executed (`OneDialog`).

*Traffic.* `MissedOnlyByReset` is about steps, but not from any state: a torn copy hides nothing
only because the flag is up from `requestUpdate`'s look at it to its reset (`FlagUp`).

*ChunkBuffer2.* `Sound` says that the packets tile the used blocks in one piece each, that the
wrap lies where it has to, and that `input_avail` and `output_avail` are what would be computed
anew. `SubmitSound` and `ConsumeSound` first compute every field, then distinguish where the ring
wraps. They are about the operators that `UdpRelay` uses; its run checks `Sound` in place.

*TunClient.* Every handler of the model is a function on a context (the pcb, the client, its SOCKS
connection), so there is a lemma for each function of `tun2socks.c` and of lwIP, and the lemma of
a handler is made of those of the functions it calls, in their order. `IInv` says that between two
actions nobody has been accepted (`Unborn`), or the client and the pcb count on each other
(`Connected`), or the app's side is closed and the pcb calls nobody (`Left`, `Detached`). None of
it holds inside `tcp_input`: after `tcp_process` bytes have left the window that no callback has
taken, and bytes have been acknowledged that no callback has counted. `Connected` therefore takes
these two numbers, and each callback brings one of them to 0. That a callback returns ERR_ABRT
exactly if the pcb was aborted while it ran is `Caught`; it is also why the dead variable that an
aborted client still points to is not written any more (`DeadOk`). That a segment which ends the
handshake fits the window although a client was made meanwhile needs that no call takes any of the
window (`Grown`). The attempt found `CASE`s in the model whose guards overlapped, so that their
meaning depended on the order in which TLC takes them; they are disjoint now, in the order of the
code's conditions. No bound of the run is used: `TCP_WND`, `TCP_SND_BUF` and `RECV_BUF` are any
positive numbers, `MaxUp` and `MaxDown` any numbers. What stays is that `SYNC_COMMIT` runs at most
two events.

Only model-checked: all liveness (TLAPS has no fairness here), so `Reclaimed` of `TunClient` too,
and the properties of `SocksClient` and `UdpRelay`.

## Not modelled

- The started, bound and destroyed life that Android gives the service, and so `stopSelf` without
  a start id (`BaseService.kt:301`) and `Binder.close`. It depends on rules of the platform that
  are not in the repository.
- Profile store, preferences, direct boot copy, access control lists, subscriptions, subnets,
  plugins, options and utilities: single transactions, parsing, formatting and calls into the
  platform, without an order of events that could go wrong. What the service reads of them is an
  input of `VpnService`.
- Flutter's layout, and the back button on the loading dialog.
- Of `tun2socks`: the tunnel device, the parsing of packets, the start-up, several TCP
  connections at once. Of lwIP: lost and reordered segments, IP, memory pools, and connections
  that it opens itself.
- `ss-local`, `redsocks`, `libevent`, `libancillary` and the rest of `badvpn`. They are vendored
  projects. Nearly all of the C code in the tree is of this kind, and most of it is not built
  into the app: the peer-to-peer VPN, the NCD interpreter, tests and examples of `badvpn`,
  redsocks, the back ends of libevent for other systems. About 4 900 lines of C, between one and
  two per cent of the C in the tree, are translated here: those that carry the connections of
  the app.
