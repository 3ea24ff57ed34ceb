# A verification project for the proxy client (src/src/main)

The program is an Android application that runs a Shadowsocks(R) client: an
activity and its helpers in the main process, and a service in the process
":bg" that launches native executables (ss-local, pdnsd, tun2socks, redsocks)
and hands them the traffic of the device, either through a VPN or through NAT
rules. A TCP connection of an application goes through tun2socks (VPN) or
redsocks (NAT) to ss-local, and from there to a Shadowsocks server.

Paths of Scala files below are relative to
`src/src/main/scala/com/github/shadowsocks/`, those of C files to
`src/src/main/jni/`.

## 1. Inventory

| Component | State | Operations | Talks to | What is hard |
|---|---|---|---|---|
| Guard of an executable (`GuardedProcess.scala`) | `guardThread`, `isDestroyed`, `isRestart`, `process`; locals `callback`, `ioException`, `semaphore` | `start`, `destroy`, `restart` | the operating system; the service; `sendFd` as callback | the guard thread, callers and exits of the child interleave; interrupts; a fast exit against a restart |
| Service lifecycle (`BaseService.scala`, `ShadowsocksVpnService.scala`) | `state`, `profile`, `conn`, `vpnThread`, `notification`, four guards, `trafficMonitorThread`, `closeReceiverRegistered` | `use`, `startRunner`, `connect`, `stopRunner`, `killProcesses`, `changeState`, `onRevoke`, CLOSE | guards, Android, clients | `use` on a binder thread, `connect` on a pool thread, stops on any thread, states published through the main looper; no lock but that of `use` |
| Callbacks (`BaseService.scala` 76-120, 255-301, `ServiceBoundContext.scala`, `ShadowsocksNotification.scala`) | `callbacks`, `callbacksCount`, `timer`, `callbackRegistered`, `lockReceiver` | register, unregister, broadcast, death of a client | clients in other processes | counters updated by several threads, clients that die |
| Traffic accounting (`utils/TrafficMonitor.scala`, `utils/TrafficMonitorThread.scala`, `updateTrafficTotal`) | session totals, rates, `dirty`; the totals of the profile | `update`, `updateRate`, `reset`, `updateTrafficTotal` | ss-local, the profile store | reset, late reports and two stops |
| Local socket servers (`ShadowsocksVpnThread.scala`, `TrafficMonitorThread.scala`) | `isRunning`, `serverSocket` | `run`, `stopThread` | tun2socks, ss-local | stop before, during and after the bind |
| NAT service (`ShadowsocksNatService.scala`) | like the VPN service, iptables rules | like the VPN service | root shell | the same interleavings, rules left behind |
| Entry points (tile, shortcut, Tasker, boot, runner) | the binding | toggle, start | the service | a service that is not bound yet, a stale state |
| Main activity (`Shadowsocks.scala`) | `state`, `serviceStarted`, the progress button | `stateChanged`, `updateState`, `serviceLoad` | the service | the state shown against the state of the service after a reconnect |
| Application (`ShadowsocksApplication.scala`) | preferences, `profileId` | `switchProfile`, `crashRecovery`, `copyAssets` | all | a crash of ":bg" |
| Profile store (`database/`) | rows, `userOrder` | create, update, delete, `onUpgrade` | activities, service | lost updates between processes, upgrade steps |
| Subscriptions (`database/SSRSubManager.scala`, `job/SSRSubUpdateJob.scala`) | subscriptions and their profiles | update | network, profile store | deletion and creation that do not happen together |
| Profile list (`ProfileManagerActivity.scala`, `widget/UndoSnackbarManager.scala`) | adapter list, undo list, test thread | remove, undo, move, test | profile store, guards | the test thread against the lifecycle of the activity |
| Per-app list (`AppManager.scala`) | cached applications, selected set | load, toggle | package manager | a cache filled by several threads |
| tun2socks, one TCP connection (`badvpn/tun2socks/tun2socks.c` with BSocksClient, BConnection, BPending and lwIP) | `tcp_client`, the PCB, the socket, the stack of jobs | accept, receive, send, errors and ends of both sides | the application through lwIP; ss-local | jobs that run inside callbacks of lwIP and free what the caller works on; two windows, two buffers, half-closed clients |
| ss-local, one TCP connection (`shadowsocks-libev/src/local.c`, `obfs/tls1.2_ticket.c`, `obfs/http_simple.c`) | `server_t`, `remote_t`, two buffers, four watchers, two timers, the state of the obfuscation | the callbacks of libev | a SOCKS client; a Shadowsocks server | short sends, TCP Fast Open, data that the obfuscation holds back, headers read in parts |
| redsocks, one TCP connection (`redsocks/redsocks.c`, `redsocks/socks5.c`, bufferevents of `libevent`) | `redsocks_client`, two bufferevents, what is shut of them | the callbacks of libevent | an application; ss-local | four halves that are shut in any order, events that are enabled in many places |
| pdnsd | a cache of answers | queries | ss-local | threads; to the services it is a process |

The configuration templates and link parser, the preferences and the Java
helpers are string processing and views. The libraries the native programs
are linked with (mbedtls, pcre, the rest of lwIP, libevent, libev and
badvpn) are third-party code that is used as it is.

### What makes each component correct

| Component | It is correct when |
|---|---|
| Guard | one child at a time; after `destroy()` none is left and none comes; `start()` returns with a child or throws with none; restarts are not crashes, crashes are not restarted for ever |
| Service lifecycle | what is published agrees with what runs as soon as the service rests; nothing that runs is out of reach of a later stop; neither CONNECTING nor STOPPING lasts |
| NAT service | the same, and the rules are set exactly while redsocks is there to serve them |
| Callbacks | nobody who is listed is forgotten by the broadcasts; the timer runs exactly while somebody listens |
| Traffic accounting | every byte of a session is added to its profile once |
| Socket servers | `stopThread()` ends the thread, whenever it comes |
| Clients, main activity | the state shown becomes the state of the service |
| Profile store, subscriptions | no update is lost between processes; an update of a subscription leaves its profiles or the new ones |
| tun2socks, ss-local, redsocks | each direction of a connection is a pipe that keeps the order; an end is passed on only behind all that came before it; nothing is used after it was freed; what was sent is delivered or the connection ends |
| Profile list | the list shown agrees with the store, through undo, move and removal |

## 2. Modules

| Module | Models | Built on |
|---|---|---|
| `ProcessGuard` | what a guard promises to its owner: the abstract specification | |
| `GuardedProcess` | `GuardedProcess.scala`, every thread, and `sendFd` as its callback | shown to implement `ProcessGuard` |
| `GuardedProcessProofs` | proofs about it | `GuardedProcess` |
| `BaseService` | the trait `BaseService`: `use`, `startRunner`, the common part of `connect`, `stopRunner`, `changeState`, CLOSE | takes a guard to be what `ProcessGuard` says |
| `VpnService` | what `ShadowsocksVpnService` adds: `prepare`, `vpnThread`, the tunnel, `onRevoke` | `BaseService` |
| `NatService` | what `ShadowsocksNatService` adds: the root shell, the iptables rules | `BaseService` |
| `BaseServiceProofs` | lemmas about the steps of the trait | `BaseService` |
| `VpnServiceProofs` | proofs about the VPN service, all of its safety properties | `VpnService`, by the lemmas of `BaseServiceProofs` |
| `CallbackRegistry` | `registerCallback`, `unregisterCallback`, the timer, the notification and the screen, clients that die | |
| `CallbackRegistryProofs` | proofs about it: the count and the timer | `CallbackRegistry` |
| `TrafficAccounting` | `TrafficMonitor`, `TrafficMonitorThread`, and what `startRunner`, `stopRunner` and `updateTrafficTotal` do with them | |
| `TrafficAccountingProofs` | proofs about it | `TrafficAccounting` |
| `OrderedPipe` | what one direction of a TCP connection promises: the abstract specification of the three relays | |
| `Tun2SocksClient` | one client of tun2socks between lwIP and ss-local | shown to implement `OrderedPipe` twice |
| `LocalRelay` | one connection of ss-local | shown to implement `OrderedPipe` twice |
| `RedsocksRelay` | one client of redsocks | shown to implement `OrderedPipe` twice |
| `Tun2SocksClientProofs`, `LocalRelayProofs`, `RedsocksRelayProofs` | proofs about them | the module of that name |
| `MC...` | instances for TLC | |

### How they correspond to the code

One action is one access to state that another thread can see, in the order of
the code; reads of a field that nothing can change between them are one step
together. A guard of the code is a conjunct, an exception goes where
the code catches it (`Throw`): `use()` on the binder thread hands it to the
caller, `connect()` is caught by its Future, which stops the service, an
exception inside that stop ends the Future, and one on the main thread or on
the thread of the shell ends the process (`crashed`), after which nothing
happens any more. A crash of the process is the end of a behaviour: its children
and its fields are gone with it, and what the next process does is a behaviour
of its own.

**GuardedProcess.** `guard` is the place of the guard thread, `starter` and
`destroyer` those of the callers, `monitor` the lock of `restart()`. `process`,
`isRestart` and `isDestroyed` are the fields. Children are numbers; the
operating system lets a child end (`ChildExit`) and a signalled one die
(`ChildDies`). The clock is one bit, `young`: less than a second since
`startTime`. `startTime` is taken before the launch, so that a slow launch counts.

**BaseService.** `field[r]` is the field of the service for the executable or
thread `r`, and names the run that owns the object; `live[r]` are the runs whose
`r` is at work, referred to or not. `connect()` is executed by the thread of its
run, `use()` by the binder thread, one call at a time because it is
synchronized; CLOSE, `onRevoke` and the messages of `changeState` by the main
thread; `startRunner` of the NAT service by the thread on which the shell
reports. Every one of them may be in `stopRunner`, whose places are `StopOrder`.
`if (x != null) { x.destroy(); x = null }` is three steps: two stops can both
pass the test. Left out are the configuration files, the arguments of the
executables, `stopSelf` (which changes nothing of this state), and
`updateTrafficTotal`, which is in `TrafficAccounting`.

**NatService.** `open()` of the shell library returns, and its listener is
called on another thread, before or after the field `su` is assigned. A command
given to a shell that is not root does nothing.

**CallbackRegistry.** Calls of clients are `oneway`: `queue` holds those that
the binder thread has not taken. The clients modelled are those of other
processes: `ShadowsocksTileService` runs in ":bg" (`AndroidManifest.xml:198`),
like the service, so that its calls are direct ones on the main thread; they are
left out. The notification calls the same methods on the main thread, on that of
`connect()` and on that of a stop. `callbacksCount += 1` is a read and a write.
`RemoteCallbackList` is external: it is a set, refuses the dead and drops those
who die.

**TrafficAccounting.** The fields have their names; `server[k]` and
`reported[k]` are the thread of session `k` and the reports that wait for its
pool, `path` the owner of the socket file. `starting` and `stopping[t]` are the
places of `startRunner` and of each call of `stopRunner`; the read of the total,
the read of the row, its write and the reset are four steps of the latter. `up`
is what `use()` sees of the state. ss-local counts from its launch (`sslocal`)
and dies with the stop or by itself. The main process reads a row and later
writes all of it (`EditLoad`, `EditStore`), as its preferences do with the
profile of `refreshProfile`. The history says what ought to be in the rows:
`told` is what each `launch` of ss-local in the session has reported in time,
`applied` adds this up for each profile, and neither looks at `txTotal`;
`setBack` is set by a report that leaves out what was told before. Any access to
the database may fail. The interleavings of `connect()` with starts and stops
are those of `BaseService` and not repeated: starts do not overlap here, and
ss-local belongs to the session it is launched in. One direction stands for
both; rates, `dirty` and their broadcast are left out. A field of type Long is
read and written at once.

**The three relays.** They are programs of one thread: one action is one job,
one callback or one event, with all it calls. The kernel and the peers decide
how much `send()` takes and `recv()` gives, which is a choice in the action,
and every call may fail. Bytes are numbered from 1 in each direction, so that
order, loss and repetition are seen; bytes that the programs themselves make
up (handshakes, headers) are 0. Some variables are history that only the
properties read: `short` and `reset` (memory ran out, ss-local broke the
connection), `shortReply`, `early`, and in `ended` who closed.

**Tun2SocksClient.** `jobs` is the stack of `BPendingGroup` and `input` the
place of `tcp_input` in the segment it works on. `client_recv_func` and
`client_sent_func` push a mark and run the jobs above it (`SYNC_COMMIT`): while
a mark is on the stack `input` waits, and `CommitReturns` goes on as the dead
variable says. The PCB has what the client can tell of it: the window
(`rcvWnd`), what is queued and not acknowledged (`queue`), and whether it
lives. The application sends any segment the window allows, resets or
vanishes; ss-local sends, ends or resets at any time. lwIP's retransmissions,
segments out of order and timers are below what `tcp_input` hands up. The
release of all clients at the end of the process (`client_murder`) and UDP are
left out.

**LocalRelay.** The watchers are `recvIo` and `sendIo` of both sides, the timers
two flags. The request may come from a SOCKS client or be that of the tunnel
(`RecvTunnelled`). `Encode` and `Decode` are the obfuscation: plain;
`http_simple` and `http_post`, which put a header before the first data and look
for the header of the server in what is read (two units, so that it can be read
in two parts); or `tls1.2_ticket`, which sends a hello of its own, keeps data
back until the server has answered and then has `remote_recv_cb` end the
handshake (`SendBack`). Encryption keeps one unit for one unit. When data is
read into a buffer that still holds a rest, the code encodes both together, a
second time for the rest; the model ends the connection there (`garbled`), since
no server can make sense of what follows. The protocols of SSR (`auth_*`), UDP,
and the reload of profiles are left out.

**RedsocksRelay.** A bufferevent has its buffers, whether its read and write
events are added, whether writing is enabled and reading suspended, and
`shut`, the `evshut` of redsocks. The server's answers are read one part at a time,
by the watermark. The listener, its back-off and the other relay types are
left out.

## 3. Runs

All runs are exhaustive within their bounds.

| Run | States | Checks | Shows |
|---|---|---|---|
| `guard` | 59,648 | `IInv`, `OneChild`, `DestroyedLeavesNothing`, `FailedStartLeavesNothing`, `NoNullProcess`, `NoCrashLoop`, `RestartIsNoCrash`, `Implements`, `StartReturns`, `DestroyEnds`, `RestartRelaunches` | two `destroy()`, two `restart()`, an exit and interrupts in every order; the refinement of `ProcessGuard`; nobody waits for ever |
| `vpn_runs` | 872,999 | `Consistent`, `NothingLost`, `CrashNeedsTwoStops`, `PublishedOrder` | two `use()` and a CLOSE or revocation, one after the other and overlapping everything, with every failure, a switch of profile and a profile that lacks its password |
| `vpn_live` | 98,589 | `ConnectingEnds`, `StoppingEnds` | two `use()` that overlap everything |
| `nat_runs` | 229,413 | `RulesFollow`, `NothingLost`, `Settles` | three `use()` and two CLOSE one after the other, and two requests that overlap everything, with shells that are refused and commands that fail |
| `nat_bare_stop` | violated | `StoppingEnds` | finding 1 |
| `callbacks_overlap` | 1,393,719 | `IInv`, `NobodyForgotten`, `TimerFollows`, `CountIsExact`, `CrashNeedsOverlap` | three calls of two clients that may die, the notification, one change of the screen, every interleaving |
| `callbacks_battery` | violated | `BatterySaved` | finding 2 |
| `traffic` | 6,329,318 | `CountedOnce`, `EditsSurvive` | two sessions and two stops in every interleaving with late reports, a thread that is stopped before its bind, an end and relaunch of ss-local or an edit of a profile, and every failure of the database |
| `tun2socks` | 82,529 | `AssertionsHold`, `WindowCoversBuffer`, `NoUseAfterFree`, `NothingCutOff`, `Implements`, `Progress` | one connection, with jobs nested in `tcp_input`, short writes, a window and a send buffer that fill, and both ends closing in any order |
| `ss_local` | 83,942 | `WatchersFit`, `NothingCutOff`, `Implements`, `Progress` | one connection, in SOCKS and tunnel mode, with every short send, Fast Open, the handshake or header of the obfuscation, timers and both ends |
| `ss_local_short_reply` | violated | `RestIsWaitedFor` | finding 3 |
| `redsocks` | 77,736 | `HalfClose`, `Implements`, `Progress` | one connection from the accept on, with every order of ends, answers, short writes and full buffers |

The type invariants are `IInv` of the guard and the callbacks, and the first
conjunct of `Consistent`, `RulesFollow`, `CountedOnce`, `AssertionsHold`,
`HalfClose` and the `NothingCutOff` of ss-local.

CHECK_DEADLOCK is off everywhere because these systems may really stop: nobody
has to ask for anything, the bounds on requests and bytes are used up, and a
connection that was closed is over.

### Bounds and constraints

- `guard`: `MaxRestarts` 2 and `MaxExits` 1. A restart flag that is stale when
  the next child exits needs two restarts, or a restart and an exit: both are
  there, and the bug that keeps the flag is found at these bounds. The theorems
  do without them.
- `vpn_runs`: two `use()` and one CLOSE. Requests that do not overlap find the
  service at rest, where `Consistent` says it is as it was at first or CONNECTED:
  from both, each request is there. Where they overlap the second `use()` is a
  stop, a switch, or a start after the CLOSE has stopped the first.
- `CleanStarts`, of `vpn_runs`, leaves out what follows a run that has started
  before the last one was gone, once requests have overlapped. The code allows
  that (hazard at `BaseService.scala:124`), and the properties say nothing of
  it; the constraint only saves the search. A switch of profile that does
  not overlap anything is kept, also while STOPPING and STOPPED of the run before
  are queued. The theorems do without the constraint.
- `nat_runs`: three `use()` and two CLOSE, one after the other, so that what a
  refused shell leaves behind meets every later request; but once a request
  has overlapped another one, no more than two in all (`MaxOverlapping`, in
  `CountOverlap`). In the runs of the VPN service this bound changes nothing.
- Two executables in `vpn_runs` and `nat_runs` and one in `vpn_live`: all four
  are treated alike by `stopRunner`, and one of the two is the one that `udpdns`
  passes over.
- Three calls of clients: one that registers, another one, and one that
  unregisters while the other is still there. Symmetry only between the
  clients, in runs without liveness.
- `traffic`: two sessions, so that a report can be late; two stops, so that they
  can overlap; two reports and two bytes, so that the second report of a session
  includes the first, or comes from an ss-local that was launched again and
  replaces it (two launches in a session); one edit or one end of ss-local. The theorems do without
  these bounds.
- `tun2socks`: a window and a read of three bytes, a send buffer of two, three
  bytes up and four down: the window closes, one read does not fit into the send
  buffer, and a second read follows. `ss_local`: buffers of three units, more
  bytes than that with the header and the handshake. `redsocks`: a half-buffer
  of two, three bytes each way, so that reading stops and goes on.

### Fairness, and why the code justifies it

- `GuardedProcess`: the guard thread and the callers go on (`WF`): no lock but
  the monitor of `restart()` is taken, and it is held over two assignments and a
  signal. `SF` only for leaving `sendFd`, which gives up after a fixed number
  of attempts. A signalled child dies. No child has to exit, no second has to
  pass, nobody has to call `destroy()` or `restart()`.
- The services: every thread goes on (`WF` of `ThreadStep(t)`). `connect()`
  blocks only in lookups and requests with timeouts, in `start()` and
  `destroy()` of a guard, which end by `StartReturns` and `DestroyEnds`, and in
  `sendFd`. The main looper works off its messages. Nobody has to request
  anything, and no executable has to fail.
- The relays: the reactor, libev and libevent run what is ready (`WF` of the
  jobs and callbacks), and the peers take what they are given. In `tun2socks`
  the application acknowledges or lwIP gives it up after its retransmissions,
  and ss-local goes on with its handshake. In `ss_local` a connection is made
  or refused, and a server answers the hello. In `redsocks` a peer that has seen
  the end of one direction ends the other. Nobody has to send or end
  otherwise, and no call has to fail.

## 4. Findings

1. `nat_bare_stop` (`ShadowsocksNatService.scala:279`). `killProcesses()` uses
   `su` without a test for null, in a class that does test it elsewhere. A stop
   that finds no shell, as `use(-1)` on a stopped service or the start of a profile
   without a password, posts STOPPING and is then ended by the exception:
   STOPPED never comes, although `stopRunner` is to "change the state". In the run
   these two are the only requests, and no shell is ever opened.
2. `callbacks_battery` (`BaseService.scala:106`). The count is lowered by
   `unregisterCallback` only, so a client that dies leaves it too high, and so
   does a callback that registers twice: the timer
   then runs with nobody to tell, although `ShadowsocksNotification.scala:66`
   unregisters "to save battery".
3. `ss_local_short_reply` (`shadowsocks-libev/src/local.c:1085`). When `send()`
   takes only a part of the message that ends the handshake of `tls1.2_ticket`,
   "partly sent, move memory, wait for the next time to send" says the
   comment, but no watcher is started. What is left waits until the client
   sends more, and is then encoded a second time with it. A `send()` that takes nothing (EAGAIN) ends
   in the same way, and is the shortest trace. The same short send
   in `server_recv_cb` starts one with `ev_io_server_recv` (line 528).
   `WatchersFit` and `Progress` hold but for this case.

Not stated as a property but met by the models, most of them listed under
"hazards". In the services: a second `use()` while CONNECTING is still in the
queue of the looper starts a second run beside the first; CONNECTED may be
posted by a `connect()` of a service that a stop has just torn down; a stop
beside `startRunner` of the NAT service can end the process; a `start()` that is
interrupted leaves a guard that nobody can destroy. In the accounts of traffic
(the premises `mixed`, `lost`, `raced` and `setBack`, without which
the properties would not hold):

- A report that the pool of an old thread applies after the reset of the next
  start is taken for bytes of the next session, and two stops that overlap add
  the total twice.
- ss-local counts from its launch: when its guard launches it again, its next
  report replaces the total of what the comment at `utils/TrafficMonitor.scala:13` calls
  "Bytes for the current session", and what the launch before had reported is not
  added (`setBack`). So does an older report that is handled later, by the pool
  of a server that was meanwhile closed. `CountedOnce` then only asks that the row
  has no more than was reported. What ss-local has not reported when it is killed
  is never counted.
- The main process writes whole rows, with the total it has read before: an edit
  that is open while a session ends undoes its total, and a stop whose `+=`
  surrounds an edit undoes the edit.
- `stopThread()` between `while (isRunning)` and `serverSocket.accept()`
  (`utils/TrafficMonitorThread.scala:93`) leaves null there, and only
  `IOException` is caught: the process ends. This is not in the model.

In the relays:

- tun2socks returns `ERR_ABRT` from its callbacks after `tcp_close`, which
  `badvpn/lwip/src/include/lwip/tcp.h:59` allows after `tcp_abort` only. The PCB
  is not used again (`NoUseAfterFree`), but where a job has freed the client inside
  the callback the data of the segment is freed by nobody: `client_recv_func`
  returns before its `pbuf_free`, and `tcp_input` forgets `recv_data`.
- A client of redsocks that ends while the relay is still connecting, which is read
  to "handle EOF from client" (`redsocks/redsocks.c:697`), takes the last event
  of the connection with it: nothing ever drops it (`Forgotten`).
- A client of redsocks that has sent more than its watermark before the relay is
  ready has its reading suspended by libevent, and nothing resumes it
  (`suspended`), because the watermarks are written behind the back of libevent.
- The end of the HTTP header of a server is looked for in one read of ss-local
  only (`obfs/http_simple.c:192`), and a read without it is thrown away: a header
  that arrives in two parts is never recognised and everything behind it is lost
  (`HeaderLost`, the exception in `NothingCutOff` and `Progress`).
- What an application sent before an early end may be lost in redsocks (`early`).

## 5. Proofs

TLAPS proves the following for every value of the constants, under no
assumption but those stated in the modules: the free monitor is no restarter
(`CallersAssumption`), the clients are finitely many and the notification is
none of them (`ClientsAssumption`), the bounds are numbers, the sizes of
buffers and windows are positive (`SizesAssumption`), and the VPN service is not
the NAT service (`VpnAssumption`).

**GuardedProcess.** `IInv` is inductive (`SpecIInv`) and implies the six safety
properties of the run `guard`. None is inductive alone. Its parts are proved one
lemma each:

- `LatestChild`: only the latest child is alive, and none while the guard thread
  is between two. `OneChild` follows, and `DestroyedLeavesNothing` from what it
  says of a dead guard thread.
- `ProcessAssigned`: who passes the semaphore finds a process or the exception:
  `NoNullProcess` and `FailedStartLeavesNothing`.
- `LaunchesPaid`: every launch, the one about to come included, is the first, or
  is paid by a restart or by a slow exit, and a flag that is up is a payment
  not yet used: `NoCrashLoop`. It is the counting argument that a stale flag
  cannot excuse two exits.
- `RestartFlagged`: between the signal of `restart()` and the verdict of the
  guard thread the flag is up: `RestartIsNoCrash`.

`SpecImplements` proves the refinement of `ProcessGuard`: `NextRefines` maps
every step, under `IInv`, to a step of the promise or to a stutter. A guard is
closed when one `destroy()` has joined its thread.

**BaseService and VpnService.** `BaseServiceProofs` has one lemma for each step of
the trait, `VpnServiceProofs` adds the steps of the VPN service and concludes. The
orders of the code (`StopOrder`, `LaunchOrder`) are sequences that the constants
select, so that the first lemmas say what is used of them: each element is there,
once (`Orders`).

`SpecNothingLost` rests on `Kept`: as long as no run started before the last one
was gone, `Tracked` holds, however many stops race. One run at a time has a
thread (`OneRun`), every field and everything at work belongs to it (`Owned`),
what it has yet to make is not there (`Unmade`, by `Ahead`, which is what a place
of `connect()` or of `startRunner` still leads to), who releases a resource found
it made and clears its field only when it is not at work any more (`Released`),
and what is at work is in its field or about to be stored (`Found`). `Unmade` is
why a stop that comes early can lose nothing: it finds no field, and then the
state, which `connect()` reads, has changed.

`SpecCrashNeedsTwoStops` rests on `Orderly`: without overlapping stops and
without a run that started too early `Ready` holds, which says that whoever has
tested a field finds it as it was at the next access: the object
(`SeenObject`), the notification and its listener (`SeenNotification`,
`NotificationMade`), the receiver and the flag that guards it (`SeenReceiver`,
`FlagFits`). A place where an exception ends the process then needs two stops at
work. The only thread beside the stop that writes one of these fields is the
`connect()` or the start of the run, and each of them has failed, or has not come
so far, when the stop is at that field (`Calm`).

`SpecConsistent` and `SpecPublishedOrder` rest on two more invariants, which were
checked by TLC on the instance of `vpn_runs`, and on one with all four executables
and requests that do not overlap, before they were proved.

- `Types` is `BaseTypeOK` without the places, which `Shapes` has, and with what
  bounds the number of runs: every run, and a start that is still on its way to
  one, belongs to a `use()` of its own (`UsesCover`). It holds whatever overlaps.
- `Sequential`: as long as no request came before the last one was worked off,
  `OneAtATime` holds. One thread is at work, or none, and the place it is at says
  what there is of the last run. At rest that is nothing or everything
  (`AtRest`); in `startRunner` only the traffic monitor, from its place on
  (`AtStart`); in `connect` what the places before have made, but pdnsd when the
  profile does without it, a guard whose field is not yet assigned and a tunnel
  that `establish` did not deliver (`AtConnect`, `Made`); in `stopRunner` nothing
  of what it has passed in the order of the code (`Pos`), and of the rest what is
  in its field or nothing (`AtStop`). That last stage must hold for every place at
  which `connect()` can fail, which is why it leaves open, resource by resource,
  what was made, and why nothing else than the order of `stopRunner` is needed to
  get from there to `NothingLeft`.

What a place says of the state is said of the state posted last (`Posted`), because
the main thread may be any number of messages behind; that each message follows
the one before it in one of the turns of `PublishedOrder` is the other half
(`InOrder`). At rest no message is left, so that `Posted` is `state`, and a step of
`state` is the handling of a message (`StatePublished`, `HandleTurns`).

**CallbackRegistry.** `SpecIInv`, `SpecNobodyForgotten` and `SpecCountIsExact`.
A step of a call changes the list and the count at different moments, so
the statements hold at rest only, and the invariant says what makes up the
difference: the threads that have listed a callback and not yet counted it
(`Adding`) and the reverse (`Subtracting`). `CountNotLow` bounds the count from
below whatever dies or registers twice, `CountNotHigh` from above if nothing
does. The lemma `Moves` says what one thread does to the two cardinalities.

`SpecTimerFollows` and `SpecCrashNeedsOverlap` follow from a second invariant,
`TimerInv`. It speaks of the behaviours in which no call has overlapped another
one so far: between two calls the timer agrees with the count (`Settled`), and
during a call each place says what it may rely on (`Placed`). That a count is
never taken below zero rests on the first invariant: the call that takes a
callback off the list finds it counted (`CountNotLow`, in `SomebodyCounted`).

**TrafficAccounting.** `SpecEditsSurvive` and `SpecNeverTooMuch`, from one
inductive invariant (`SpecIInv`). For the first, the row that a stop
is about to write must have the last name (`Names`): it was read after the edit
or the edit falls between its halves. For the second, each row, whether in the
table, in the hands of a stop or in those of the main process, leaves `Room` for
the bytes of the session that nobody has added yet (`RowsHaveRoom`); that the sum
of a stop is not more than these needs that no report of the session exceeds
what was carried (`Reported`) and that the stop that adds it is the only one
(`OneAtATime`). The premise `mixed` only ever becomes true, so that the three
lemmas may assume it false.

`SpecCountedOnce` compares the rows with what ss-local has reported. `Counted` says where
the bytes reported in time are: in the row of their profile, except those of the
session, which are the total until a stop has read it and then the sum of that
stop until its row is written; the row in its hands has the total of the table, for
otherwise the main process has written an older one back (`lost`). A report that
comes while a start is between its reset and its end would be counted by
nobody; there is none, because ss-local is silent until the start has ended and
what still waits for the pool is of an earlier session (`Silent`, which needs
no premise). The comparison (`Agrees`) is a bound that becomes an equality while
nothing was set back. A report replaces the total; that the new total is still
within the bound needs that each launch alone has told no more than what the row
lacks, and the equality that the total is what a launch has told as long as no
other one has told anything (`Remembered`).

**Tun2SocksClient.** `SpecWindowCoversBuffer`: the window, the buffer and the part
of the segment under way always add up to `TCP_WND`, so that the branch "no
buffer for data !?!" is dead. The sum alone is not inductive: what a finished
write takes off the buffer is what `tcp_recved` gives back only because the
bytes under way are in the buffer (`ConnOK`); a client that was closed has no
callback left and its PCB is dead, so that nothing is confirmed for it; and the
mark of `SYNC_COMMIT` is the last job, so that when it is on top nothing
that was started inside the callback is left (`JobsOK`, `InputOK`).

`SpecImplements` proves that each direction is an `OrderedPipe`. `PipeInv` lays the
bytes of a stream end to end: up, what ss-local has got, `buf`, and what
`tcp_input` has not handed over (`UpFits`); down, what the application has got,
the queue of lwIP, `rest`, and what was just read (`DownFits`). Each of these is
a `Piece` that begins where the one before it ends. A read fits behind `rest`
only because none is asked for while `rest` is not empty and never two at a time
(`JobsFit`, `RestFits`); a segment fits behind `buf` only because `client_recv_func`
is registered as long as nothing was thrown away. Every way to end a client, or
its connection to ss-local, drops bytes from the end of the line and never from
the middle (`Ending`, `EndingInv`). Given `PipeInv` on both sides of a step it is
enough that one side moves at a time and only forward (`UpMoves`, `DownMoves`).

`SpecNoUseAfterFree` adds that `tcp_input` goes on to its next stage only with a
PCB that is alive and with no job left, and that a client that is freed has no
callback and no operation on its connection to ss-local (`UseInv`).
`SpecAssertionsHold` needs to know when each callback is registered and what is
then in the buffers: `HandlersInv` relates callbacks, the operation under way,
the jobs and the confirmations still to come; `TypeInv` bounds the buffers; and
`HeldInv` joins them. `SpecNothingCutOff` counts on top of that: while nothing broke,
what the server has got and what is in `buf` are together all that was sent
and received (`UpWhole`), what the application has got, the queue of lwIP and
`rest` are all that the server sent before its end (`DownWhole`), and an end
that `tcp_input` has yet to hand over is one the application made (`FinFits`).

**LocalRelay.** `SpecWatchersFit`. A connection is in one of four conditions: it
is closed and has no watcher (`Off`), its request is not complete and only the
client is listened to (`Before`), or it streams, and then the direction of the
client is `Sending`, `Resting` or `Short` (finding 3), independently of the
other (`Receiving`). What makes it inductive is the handshake of `tls1.2_ticket`
(`Greeting`, and the last conjunct of `Sending`): while the hello is not sent
the server cannot have answered it, so `SendBack` never finds a watcher that is
already on.

`SpecNothingCutOff` and `SpecImplements` rest on a second invariant, `FlowInv`, and on
the first. A direction has three places: what the receiver has got, the buffer of
ss-local, and what is behind that, kept back for the handshake or not read yet.
`Line` says that they are stretches of one stream, from the first byte to the last
that was read (up) or sent (down), with messages of the handshake ahead of the bytes
in the buffer and of those behind it. `LineUp` and `LineDown` say how many messages
there are of each: what the far end was told and what is in the buffer make up the
messages of the obfuscation, one of them kept back while the hello waits for its
answer (`Counted`); before that answer the far end has sent nothing, and before the
header is heard the client has got nothing (`Behind`). A header that is read in two
parts leaves the line: `Lost` is the state that it leads to, in which nothing is
recognised any more, and it is all that `HeaderLost` excuses. An end of the far
end is acted on only by a watcher that runs with an empty buffer, and nothing unread,
so that the line has collapsed (`LineEmpty`). The lemmas go from sequences
(`Stretch`, `Span`) to lines, to what a send or a read makes of them (`LineSend`,
`LineRead`, `LineHeard`), to the actions. For the pipe it is then enough that every step
moves one end and only forward (`UpMoves`, `DownMoves`, from what each callback
lets the peers hear: `FarHears`, `ClientHears`).

**RedsocksRelay.** `SpecPaired`: a socket is shut for writing only after the
other one has ended, and a connection that is kept has an open half. This is
why the first of the two calls of `redsocks_shutdown` in `redsocks_event_error`
never drops the client whose buffers the next line reads. Every
operation on the bufferevents gets a lemma on what it shuts.

`SpecHalfClose` and `SpecImplements` rest on a second invariant, `FlowInv`. A
direction has four places: what the receiver has got, the output of its
bufferevent, the input of the other one, and what was not read yet. Laid end to
end they hold the bytes of the sender from the first to the last (`Flows`), but
messages of the handshake lie before those in the output and parts of answers
before those not read. `Lines` says how many there are of each: what redsocks
asked for and did not tell yet (`Asked`), what the server gave and redsocks did not
take yet (`Given`, `Taken`). That a read takes one part and nothing else needs the
watermark of the handshake (`Tended`), and that no byte comes before the last part
needs what the server answers first (`Answered`). An end is seen only when
nothing is left to be read (`ReadEnds`), so that when a half is shut with both
buffers empty the line has collapsed and the receiver has got everything
(`WriteEnds`). The lemmas go from sequences (`Units`, `Span`) to the line of one
direction, to what each operation on the bufferevents does to it, and to the
actions. For the pipe it is enough that only `bufferevent_writecb` hands bytes
over, and then from the head of the line (`FlowsArrive`).

**Model-checked only.** Liveness (`StartReturns`, `DestroyEnds`, `RestartRelaunches`,
`ConnectingEnds`, `StoppingEnds`, `Settles` and the three `Progress`: fairness is out
of the prover's reach); and the safety of the NAT service,
`RulesFollow` and its `NothingLost`, whose lemmas about the trait are already there
in `BaseServiceProofs` but whose own steps have no proof yet.

## 6. What is not modelled

- Crash and restart of the process ":bg": nothing of the lifecycle is stored;
  what is (`profileId`, the rows of profiles) belongs to the planned store.
- The content of files, arguments, routes and rules.
- `StreamLogger`, the log, `stopSelf`, the tracker and the notification's text.
- The native programs beyond one TCP connection: UDP, the listeners, the reload of
  profiles, the end of the processes; pdnsd; and the libraries, but for what the
  relays call.
- How connections of one process meet: they share the reactor and memory, whose
  exhaustion each model has as a failure of its own.
- How long timers run: they may fire at any time.
- The rates of traffic and what the clients show of them.
- What Java allows beyond interleavings: an access to a field is one step that all
  threads see, also where the field is not volatile.
- The components marked `not_modelled` in `PROJECT.json`, with the reason there.

## 7. Plan

Done: `ProcessGuard`, `GuardedProcess` and its proofs, `BaseService`,
`VpnService` and their proofs, `NatService`, `CallbackRegistry` and its proofs,
`TrafficAccounting` and its proofs, `OrderedPipe`, and the three relays with their
proofs. Next, in this order:

1. The rest of `TrafficAccounting`: the rates, `dirty` and their broadcast by the
   timer, so that what is shown becomes the total that was reported.
2. `ServiceClient`: attach, detach, `binderDied`, the oneway registration
   against `getState`, a broadcast that is made before the assignment of `state`:
   the state shown by `Shadowsocks.scala` is the one of the service in the end.
   Composes with the broadcasts of `CallbackRegistry`.
3. `LocalSocketServer`: bind, accept, `stopThread`, for `ShadowsocksVpnThread`
   and `TrafficMonitorThread`.
4. `ProfileStore`, `SubscriptionUpdate` and `DbUpgrade`: whole rows written by
   two processes, deletion and creation that do not happen together, the steps
   of `onUpgrade` from every old version.
5. `ProfileList` with `UndoList` and the test threads of
   `ProfileManagerActivity`; `AppListLoader`.
6. An abstract lifecycle (stopped, starting, up, stopping) that `VpnService` and
   `NatService` implement when requests do not overlap.
7. The protocols of SSR (`auth_*`) and the UDP relay of ss-local; the listener of
   redsocks and its back-off.

Theorems to come: `NothingLost` and `RulesFollow` of the NAT service; the type
invariants of the modules above.
