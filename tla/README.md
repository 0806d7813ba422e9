# NapukettoQQ: specifications

TLA+ specifications of NapukettoQQ (`src/`), with TLC configurations that check small
instances and TLAPS proofs that hold for all of them where it matters most. NapukettoQQ
hosts the native QQ client in a process of its own and offers it to bots over several
protocols. What is hard in it is not the translation of messages but who is connected,
logged in, assembled, locked, restarted or stopped at the same time, and what remains of a
request or an event when one of its steps fails.

## 1. Inventory

| Part (source) | State | Operations | Hard behaviour | What makes it correct |
|---|---|---|---|---|
| kurobot connection (`packages/adapter/src/kurobot/connection.ts`) | state, socket, hello/ping/retry timers, attempt counter | `start`, `stop`, `send`, socket and timer callbacks | reconnection, late close events, a server that never answers | one socket; never stuck; nothing before the hello is accepted |
| kurobot adapter (`kurobot/adapter.ts`, `core/framework/base-protocol-adapter.ts`) | bindings, receive filter, pending commands and queries | `start`, `stop`, `reload`, frames, group messages, `query` | results that belong to a session that is over; an old connection closing beside a new one; calls that meet in each other's awaits | one connection, fresh bindings, results answered once and in their session, filter released |
| instance lock (`packages/loader/src/instance-lock.ts`) | the lock file | check, acquire, release | crash leftovers, reused pids, two starts at once | one process per data directory, refused only for cause |
| process hosting (`apps/cli/src/runtime`, `commands/ops.ts`, `loader/src/shutdown.ts`, `self-host.ts`) | process tree, restart timers, stop sentinel file | start, restart, stop by file, signal or command | restart against stop, a file seen by old and new processes, hangs, forced kills | nothing starts after a stop, a request stops whom it names, once, and everything ends |
| login control and assembly (`loader/src/host/core`) | phase, preemption port, claim, services | login, control login, assembly, soft relogin | two logins racing, late results, failing assemblies | one assembly; the account announced is the one served; every end is a service or an exit |
| kernel login (`packages/kernel/src/login`) and core (`core.ts`) | QR session, timers, retry counters | quick login, QR login, refresh, wait | expiry against scan against cancel; two sessions sharing one field | one outcome per login, the shared handle never names a session that is over |
| kernel event channel, bridges, caches (`packages/kernel/src`) | subscribers; group, friend and member maps; loads in flight | `on`, `emit`, load, upsert, disposal | a load that is overtaken by a callback or by disposal; differences of two snapshots | the cache is what the callbacks add up to; a change is announced once |
| kernel apis (`packages/kernel/src/apis`) | message ids, confirmation listeners, time limits | send, forward, recall, group, friend, file and web calls | a confirmation against its time limit and against another message's; a result that says less, or other, than what was done | a call that awaits its confirmation reports success only for what was sent; who may take a refusal for success is known |
| network transports (`packages/network/src`) | sockets, reconnect timer, clients of servers | open, close, reconnect, register | reopen during a pending reconnect; a stop between two awaits | nothing is left after a stop; a client reconnects until its limit |
| adapter framework (`packages/adapter/src/core`) | started flags, action registry, essence lists | `start`, `stop`, run of an action, error mapping, list differences | one step of several failing; two ways of learning one change | a failed action changed nothing; an event is broadcast once |
| onebot11, satori, milky adapters (`packages/adapter/src`) | message id table, essence keys, pins | actions, event translation | id reuse after release or overflow; look-ups that fail between callback and broadcast | an id names one message; what happened is reported |
| IPC mode (`loader/src/host/ipc`) | action table | actions, control messages | a parent that logs in beside the bootstrap | as the actions and the login |
| provisioning (`loader/src/locate-qq.ts`, `qq-extract.ts`, `win-node.ts`, `launcher.ts`) | the cache of QQ's files and of node.exe | search, download, unpack, copy, launch | starts of several accounts on one cache, crashes while copying | a self-host is spawned over whole files, unless two were at them at once or one was killed over them |
| kernel wrapper, infra and types; cli configuration; media; scaffolding; tooling | none that evolves | sequential work on data and files | - | not modelled |

How the parts interact: the command line program runs a supervisor, which runs one
boot process per account, which runs the self-host. They talk through exit codes,
signals and the stop sentinel file. The self-host takes the instance lock, logs in
(or is told to by its parent over IPC), and assembles kernel services and protocol
adapters; adapters subscribe to the kernel's event channel and speak through
transports or, for kurobot, through a connection of their own.

## 2. Modules

| Module | Models | Checked by | Proved in |
|---|---|---|---|
| `KurobotLink` | what an owner may rely on: off, trying, up, stopped, ended | refinement | - |
| `KurobotConnection` | class `KurobotConnection` | `MCLiveness.cfg` | `KurobotProofs` |
| `KurobotBridge` (extends `KurobotConnection`) | the adapter composed with its connection | `MCSafety.cfg`, `KurobotBridgeReload.cfg` | `KurobotProofs` |
| `InstanceLock` | the lock and the processes that use it | `Components.cfg`, `InstanceLockOverlap.cfg` | `StartProofs` |
| `Hosting` | supervisor, boot, self-host, stop command | `MCSafety.cfg`, `MCLiveness.cfg`, `Hosting*.cfg` | `HostingProofs` |
| `LoginControl` | the two login flows and the assembly | `MCLiveness.cfg`, `LoginControlZombie.cfg` | `LoginControlProofs` |
| `QrLogin` | inside one login: quick login, QR sessions, the shared handle | `Components.cfg`, `QrLoginHandle.cfg` | `KernelProofs` |
| `KernelCache` | group bridge, event channel, `GroupCache` and its readers | `Components.cfg` | `KernelProofs` |
| `Delivery` | what a caller of a send may rely on: told once, success after delivery | refinement | - |
| `MessageSend` | sending and its confirmation | `Components.cfg` | `KernelProofs` |
| `MessageUnique` | the table of OneBot message ids | `Components.cfg` | `AdapterProofs` |
| `KernelApis` | each kernel API method as the native calls it makes | through `Requests` | - |
| `OneBotActions`, `MilkyActions`, `SatoriActions`, `IpcActions` | each action as the plans of API calls its handler can follow | through `Requests` | - |
| `Requests` | a request from its payload to its answer | `Components.cfg`, `RequestsUnbound.cfg` | `AdapterProofs` |
| `ProtocolEvents` | from a kernel callback to the events of a protocol | `Components.cfg` | `EventProofs` |
| `EssenceEvents` | essence events out of pushes and compared lists | `Components.cfg`, `EssenceRefused.cfg` | `EventProofs` |
| `Notices` | friend and pin events out of compared snapshots | `Components.cfg` | `EventProofs` |
| `Transports` | start and stop of protocols, their servers and clients | `Components.cfg` | `AdapterProofs` |
| `Provision` | the files a start needs | `Components.cfg`, `ProvisionOverlap.cfg` | `StartProofs` |
| `Components` | the parts of a session that share no state, side by side | `Components.cfg` | `ComponentsProofs` |
| `MCSafety` | instance for TLC: `KurobotBridge` and `Hosting` | `MCSafety.cfg` | - |
| `MCLiveness` | instance for TLC: `KurobotConnection`, `LoginControl` and `Hosting` | `MCLiveness.cfg` | - |

**State and actions.** Variables carry the names of the fields they model
(`pendingHelloId`, `userStopped`, `inFlight`, `msgIdToInt`, `lastMsgTime`); history
variables are marked where they are declared. JavaScript runs a callback to its end, so a
handler is one action, and a handler that awaits is one action per stretch between awaits;
so do `start`, `stop` and `reload` of the kurobot adapter, whose callers (`Owners`) may
overlap. Where an `await` only hands a value on, its continuation runs before the next
event: then the two stretches are one action (`LoginControl`), or the next event waits for
it (`Settled` in `KurobotBridge`). Processes interleave at each system call that another
process can observe; in `InstanceLock` each read, probe, removal, creation and write of
the file is a step, in `Provision` the beginning and the end of each copy. Definitions
named `Faulty...` are fault-seeded forms of the operator they stand before: no
specification uses them, they show that a property would notice that fault.

**Composition.** `KurobotBridge` extends the connection and conjoins its handlers
with those of the adapter, because a frame is one callback in both. `Requests`
extends the four tables of actions, each of which extends `KernelApis`; the names of an
action that two protocols have begin with the protocol (`MilkyGetFriendList`).
`Components` is a disjoint union: its variable `part` says which part a behaviour is
about and the other parts stay in their initial state. No code couples these parts
in what their properties speak of, and no property relates two of them; one run then
explores them all, each with its own bounds. `MCSafety` and `MCLiveness` do the same for
the larger components: the one for what needs many states, the one for what needs
fairness. `BootConcludes` is `BootSettles` of `LoginControl`, said of the behaviours that
are about the login.

**Abstractions.**
- A WebSocket is one of a few identities, free again after its close event. The
  server and the network are unconstrained: they accept, answer with any hello id
  they have been sent, refuse, close with any code, or stay silent. In `Transports`
  a peer that vanishes without a close event is left out, and the network breaks
  `MaxLosses` connections.
- The back-off delay is the number of the attempt, capped where the delay reaches
  its maximum (`MaxAttempt`).
- Request ids are model values. A command id is used once; a query id is free again
  when the table drops it. `Tables` are all sets of groups.
- In `InstanceLock` the comparison of the command line is one answer: with
  `ProbeReliable` it tells the process from a stranger with its pid.
- In `Hosting` polls (0.1 to 0.5 s) are quicker than time limits (8 and 10 s):
  `PollsDone` guards the limits, and the supervisor's 8 s end before the 10 s of a
  boot process that was told to stop together with it. File age is the set `seen`
  of the processes older than the sentinel. `hits` counts at most to 2.
- In `LoginControl` the inside of a login is its outcome and the messages its QR code
  sends to the parent (`QrProgress`), which name no account; `QrLogin` has the inside. A
  process that loses its parent or its native side is out of scope there and is a crash in
  `Hosting`.
- Native callbacks and answers reach the event loop in the order the native side
  made them (`wire` in `KernelCache`, `pending` in `Notices`). This is an assumption
  about native code. One group stands for all: nothing in the code relates two. The
  data of a member is the number of its version.
- An action is a set of plans, sequences of steps (act, call): what it checks, reads,
  changes, and what becomes of a refusal (thrown, replaced by an empty answer, dropped). A
  loop is 1 to `MaxRounds` rounds (`Some`), an optional part is there or not (`Opt`).
  `Requests` runs a plan, and at each step QQ may take, refuse, reject or not confirm the
  call. The result of a send proves nothing in either direction (msg.ts:214-216): a
  message may have gone out although its call was refused, and the other way round. Of
  every other call that is refused or rejected QQ is taken to have done nothing; a call
  made in a try (`Fire`) cannot throw, any other can. What requests and answers carry is
  left out. The OneBot actions that are mounted over IPC use the handlers of the table
  `onebot`.
- In `ProtocolEvents` a look-up of a uid or a member succeeds or fails; a signal is
  the kind of callback and the flags its handlers test.
- The keys of broadcast essence events expire after five minutes: in `EssenceEvents`
  that happens only when nothing is under way, as fetches take seconds. The answer to a
  fetch is the list at some moment, any part of it when a page was refused (the pages
  before it are returned as the list), or an error.
- In `Provision` one version of QQ stands for all, a download or the unpacking by 7z
  succeeds or fails, a file that is being copied exists already, and a boot process may
  be killed at any step. The histories `shared` and `leftover` say of a store (the cache,
  node.exe) that two processes were at it at once, or that a killed one left part of it.
- In `KurobotBridge` a connection object that is overwritten without being stopped keeps
  its socket, and what it does afterwards is left out: that it is there is the violation.

## 3. Runs

| Run | Bounds | Distinct states | Question |
|---|---|---|---|
| `Liveness` | 2 accounts in the tree and 2 in the login, hangs, no operators; 2 sockets, 3 hello ids, 2 attempts | 25,504 | connection, login and process tree: what ends, and the safety it rests on |
| `Safety` | 2 sockets, 3 hello ids, 2 groups, 2 commands, 1 query, 1 attempt, 1 owner; 2 accounts, all commands and signals, hangs, symmetry of the accounts | 4,090,502 | the adapter across sessions and lives; restart and stop of the tree |
| `Components` | below | 875,736 | the parts of a session, side by side: safety, the refinement of `Delivery`, and the ends of logins and sends |
| `InstanceLockOverlap` | 2 processes, launches overlap | violation | the documented promise without that restriction |
| `HostingOrphan` | 1 account | violation | everything ends after a stop, on every platform |
| `HostingConfigExit` | 1 account | violation | an invalid configuration is not restarted |
| `LoginControlZombie` | 2 accounts | violation | a failed reassembly ends the process |
| `RequestsUnbound` | all actions | violation | no answer is an error of the program |
| `ProvisionOverlap` | 2 boot processes, 2 files, starts overlap | violation | starts at the same time do not take each other's unfinished files |
| `KurobotBridgeReload` | 1 group, 1 command, `ReloadsIdle` | violation | a stopped adapter has no connection |
| `QrLoginHandle` | 1 account, 2 retries, 1 renewal | violation | a login that waits can be refreshed |
| `EssenceRefused` | 2 messages, 2 changes, 1 misread list | violation | a list that could not be fetched tells nothing |

*Why the bounds are enough.* Two sockets let a new connection live beside one that is
still closing; a third could only close too. Three hello ids let the answer to an earlier
hello meet the present one twice. Two groups and two commands let one be confused with the
other; one query is kept through its whole life beside them. One owner calls `start`,
`stop` and `reload` one after another, and reloads only what is started (`ReloadsIdle`
FALSE): so the loader does, which awaits its one `start()` before it hands out the stop
and never reloads; with `ReloadsIdle`, or with two owners whose calls overlap,
`StopCloses` is violated (`KurobotBridgeReload` shows the first). Two accounts share the
sentinel file in `Hosting`, which is the only coupling of accounts; the operators and
signals of `Safety` are left out in `Liveness`: repeated for ever, a signal keeps
`PollsDone`, and so every time limit, from coming true. In `LoginControl` two accounts are
a result and another one. Symmetry is used only in the run without liveness properties. In
`Components`:

- *login*: 1 account (the two flows are the actors, whose accounts nothing compares),
  `NetworkRetryMax` 2 so that a retry and its limit both happen, `MaxRenewals` 1
  renewal by expiry or by hand, `MaxNews` 1: user and network wait while a callback
  is under way to each listener, which still lets both listeners be late.
- *cache*: 2 members, 2 readers that share or do not share a load, 3 versions (one that is
  stored, a change, a change of that; no callback of the group bridge removes a single
  member, so none is ever gone), `MaxWire` 1: the server changes while at most one message
  is on the wire, so that a load in flight can be overtaken by a callback.
- *send*: 2 calls, `MaxNow` 1: in one millisecond, where ids could be equal, or in two.
- *ids*: 4 messages for 3 ids, so that the ids run over and one message finds none.
- *requests*: all actions, `MaxRounds` 2: a loop whose second round fails after the first
  has changed something (1 in `RequestsUnbound`, whose fault is in one step). The theorems
  hold for any number of rounds.
- *essence*: 2 messages, 3 changes (set, unset, set again, or of two messages), 1
  failed fetch, 1 list that comes short. *notices*: 2 friends or conversations, 4
  changes, 3 frames under way; the first list may be shapeless, and the seed of the pins
  is asked for, read and answered at any time.
- *events*: 2 callbacks, whose handlers await their look-ups side by side.
- *transports*: the three protocols, 3 lost connections and `MaxAttempts` 1, so that
  the client gives up once and reconnects before.
- *files*: 2 boot processes, 2 files (`wrapper.node` and one other), 3 starts: one
  that fails leaves the cache to the next.
- *lock*: 3 processes: a dead one that left the lock, the holder, and one that is
  refused; launches one at a time, the probe supported and reliable.

*Deadlock.* No passing configuration checks for it, because every system may stop for
good: a stopped connection, an ended process tree, an answered request, a server that
has made its changes. Where they may stop is said by `WakeupPending`,
`SupervisorEnds`, `BootConcludes`, `LoginEnds` and `SendSettles`.

**What the runs show.**
- *Connection.* `SingleSocket`: no second socket by any order of callbacks.
  `WakeupPending`: in every state that is not final an event or timer is outstanding.
  `AckBeforeUse`: no frame precedes the server's acceptance. `ImplementsLink`: the
  end is reported once and only when the server caused it. `HandshakeResolves`,
  `ComesUp`, `SocketsReleased`: attempts are decided, a server that keeps giving
  chances is reached, sockets of a stopped object go.
- *Adapter.* `OneLiveConnection` over stop, start and reload and their awaits, as long
  as the calls follow one another; `BindingsFresh` and
  `FilterReleased` relate bindings and message filter to the session;
  `AnsweredOnce` and `NoStaleAnswer` relate results to requests.
- *Lock.* `Exclusive`, `LockNamesHolder`, `RefusedForCause`, as long as launches do
  not overlap and the probe of a command line succeeds.
- *Hosting.* `NoStartAfterStop`, `OneStopPerRequest`, `OnlyAskedStop`,
  `SupervisorEnds`; `StopReachesAll` for the boot processes.
- *Login.* `OneAssembly`; `AnnouncedIsServed`: what is served or assembled is the account
  named to the parent, and until the process is ready `logged_in` is the parent's last
  word only if a result waits or is assembled; `ReadyMeansServed`, `ControlReleased`,
  `BootConcludes`. While another result is assembled, the QR code of a control login that
  comes too late does send `logged_in` on, before the phase is looked at: the message names
  no account, and relogin.ts:13 (a late result is not reported) holds only of the result.
  Inside one login, `HandleIsWaited`: the shared handle of the QR code never names a
  session that is over; `LoginEnds`: no retry, scan or renewal, and no end of the other
  flow, takes a login its limit. That a login that waits has the handle is not true
  (`QrLoginHandle`).
- *Kernel.* `CacheCurrent`: once a list was stored, the cache is as new as the last
  callback, whatever loads were under way. `ImplementsDelivery`: a call that
  awaits its confirmation and reports success has sent its own message, whatever the
  native side answers; a forward or a call without a channel, which nothing confirms, has
  handed it over; what a caller was told is final, however late timer, callback and answer
  come, and no message is handed to QQ twice or after its call failed on the way.
  `SendSettles`: every answered call ends.
- *Requests.* `FailedChangedNothing`: an action answered as failed has changed nothing,
  except those of `HalfDone`, which are listed: sends and forwards, whose failure proves
  nothing; actions of two changes; a void call outside a try after an approval.
  `OkMeansDone`: success means that QQ took every change, except in `Unconfirmed`: actions
  that drop a result or have none (`Unheard`), that take an answer without a code for
  success (`LooselyHeard`, result.ts:39-48), and forwards (`Forwarding`).
  The two lists are what a user of the protocols has to know; an action that came to
  behave like them without being listed would violate the property.
- *Events.* `EventsReported`: whatever look-ups fail and however handlers overlap, a
  protocol broadcasts one event for each callback it has an event for. `LeftOut` is
  what it leaves out on purpose, `KnownGap` what it misses (a poke in a gray tip of
  subtype GROUP for OneBot, tips taken for messages in Satori). `EssenceReportedOnce`:
  push and list report a change once between them. `Slack` is the exact exception: each
  list that came short costs one event of a message at most (`EssenceRefused`), and on
  Milky a set told by a push may come again after a fetch that failed, when its key has
  expired before the next list. `LedgerIsFriends`: announced differences add up to the
  list of the server. `PinEventsAlternate`: pin events alternate and the last is true,
  except that a seed older than what was observed while it was fetched (`misled`) costs
  one repeated event: `seed()` overwrites the observation.
- *Ids.* `IdsOneToOne`: an id names one message until it is released, also after the
  ids ran over.
- *Transports.* `StoppedIsQuiet`: a stopped adapter leaves no server, subscription,
  registration, connection or timer. `ReconnectsUntilLimit`: the client does not give
  up before its attempts are used.
- *Files.* `LoadsWhole`: a self-host is spawned over part of its files only if the store
  it takes was taken or written by two at once (`shared`), or left in part by a killed
  start (`leftover`). A copy that fails, a start that gives up, and a kill at any other
  step do no harm to later starts. `ProvisionOverlap` shows that the first exception
  happens; of the second the model has traces too: `wrapper.node` exists from the moment
  its copy begins, so a version that a killed start left is taken for complete.

**Disagreements between code and documentation** (`findings` in `PROJECT.json`):
1. `HostingOrphan`: after a forced stop on Windows a self-host that was started
   just after the sentinel was written survives its boot process and supervisor.
2. `HostingConfigExit`: the exit code 78 of a self-host does not reach the
   supervisor, because the boot process between them ends with 0.
3. `InstanceLockOverlap`: two starts at once both get the lock.
4. `LoginControlZombie`: a second assembly that throws, instead of returning false,
   leaves a live process that serves nobody.
5. `RequestsUnbound`: eight OneBot actions pass the method `uinToUid` without its
   object, and where they look up a user always fail with a `TypeError` (retcode 999).
6. `ProvisionOverlap`: a version of QQ counts as complete as soon as `wrapper.node`
   exists, so of two boot processes on a fresh data root one launches its self-host
   over what the other is still copying; and every later start over what a killed one left.
7. `KurobotBridgeReload`: `reload()` of an adapter that is not started opens a connection
   that `stop()` leaves open, and beside which `start()` opens another. Only tests call
   `reload()`. A `stop()` during the await of a `start()` is ignored in the same way.
8. `QrLoginHandle`: of two QR logins the one that ends clears the handle of the one that
   still waits, and `refreshQr()` then answers that nothing is being scanned.
9. `EssenceRefused`: `getEssenceMsgList` returns the pages before a refused one as the
   list, and the adapters broadcast what is missing as removed.

## 4. Fairness

- `KurobotConnection`: the hello and retry timers fire; a connecting socket opens or
  closes; a closing one closes. These are the runtime's own promises. Nothing is
  asked of the server, except in `ComesUp`, whose hypothesis `HealthyServer` states
  what the server must do.
- `Hosting`: polls poll, exit events and signals arrive, and shutdown hooks that
  settle do. Time limits are strongly fair: they are armed once and not re-armed, so
  new requests cannot postpone them for ever. Nothing is assumed of bootstrap,
  operators or crashes, and a hung self-host makes no step.
- `LoginControl`: each login and each stretch of an assembly is bounded by a timer in the
  code (quick login 20 s, QR code 120 s, session start 20 s, session ready 30 s) or is a
  native call taken to answer. Messages of a QR code are not assumed. The renewal of an
  expired QR code restarts its timer: that it stops being renewed is an assumption, not a
  promise of the code, and so is the answer of the one native call without a limit
  (`setOnlineStatus`).
- `QrLogin`: the steps of the quick login are bounded by timers of 15 s and 20 s, the
  QR login by its limit of 120 s, which fires once the code is no longer renewed
  (`MaxRenewals`). Nothing is assumed of user, network and native callbacks.
- `MessageSend`: the 15 s timer fires, and a promise that is settled resumes who
  awaits it. That the native call answers is the hypothesis of `SendSettles`.

## 5. Proofs

Eight modules: one each for kurobot, hosting, login control and the composition, and
four for the modules that belong together (what precedes a self-host, the kernel, the
events of the adapters, the rest of the adapters). Every invariant, action property and
refinement of a passing run is stated by one of their theorems. Each module has the
inductive invariant of every module it is about in a section of its own. Where nothing
else is said the only assumptions are those that the modules make of their constants:
that bounds are natural numbers, and sets of model values finite where they are counted.

| Module | About | Theorems | Assumed | What the invariant adds to the properties |
|---|---|---|---|---|
| `KurobotProofs` | `KurobotConnection` | `TypeCorrect`, `OneSocket`, `NeverStuck`, `AckFirst`, `ConnectionImplementsLink` | - | `HelloIsPending`, `OneWayToEnd` |
| | `KurobotBridge` | `NeverTwoConnections`, `BindingsFollowServer`, `FilterGoesWithConnection`, `AnswerGoesHome`, `NoLateAnswer` | `Orderly` | `ObjectLife`, `SocketsAccounted`, `CommandsAccounted`, `CallsAccounted` |
| `HostingProofs` | `Hosting` | `OnlyTheAskedStop`, `EachFileStopsOnce`, `StopsForGood`, `NoEventIsLost` | - | `AskedAccounted`, `ListensUncounted`; `EventsHaveReceivers` |
| `LoginControlProofs` | `LoginControl` | `NeverTwoAssemblies`, `ServesWhatItAnnounced`, `ReadyIsTrue`, `SomebodyAlwaysWorks`, `EachStepLeadsOn` | - | `Phased`; `SomebodyWorks` |
| `StartProofs` | `InstanceLock` | `MutualExclusion`, `HolderIsNamed`, `RefusalHasCause` | `CalmSurroundings`; the last also `ProbeSupported` | `VerdictStands`, `OnlyHoldersNamed` |
| | `Provision` | `LaunchedWhole` | - | `StepInv`, `StoreInv`, `NodeInv` |
| `KernelProofs` | `QrLogin` | `RefreshReachesWaiter`, `LoginIsBounded` | - | `WaitIsGuarded`, `TriesCounted` |
| | `KernelCache` | `CacheCatchesUp` | - | `NewestIsSomebodys`, `NothingBefore`, `MembersCatchUp`, `DetailCatchesUp`, `CacheFollows` |
| | `MessageSend` | `SuccessMeansSent`, `SendsKeepTheirPromise`, `EveryWaitIsTimed`, `ConfirmationsAreFinal` | - | `IdsApart`, `ReportsTrue`, `CallsAccounted`; `WaitsAreTimed` |
| `EventProofs` | `Notices` | `AnnouncementsAddUp`, `PinEventsAreTrue` | - | `FramesCatchUp`, `BuddiesFollow`, `SeedIsOnce`, `PinsFollow` |
| | `EssenceEvents` | `EssenceCountsHold` | - | `OneSync`, `TodoFollows`, `PushThenList`, `Counted` |
| | `ProtocolEvents` | `EveryEventOnce` | - | `HandlerIsRight` |
| `AdapterProofs` | `MessageUnique` | `IdsStayOneToOne` | - | `IdsAccounted` |
| | `Transports` | `StopLeavesNothing`, `ClientPersists` | - | `StageFollows`, `ClosedIsQuiet`, `AttemptsAreFailures`, `StopsInOrder` |
| | `Requests` | `FailureIsClean`, `SuccessIsTaken` | - | `RequestShape`, `FailsClean`, `HearsOfDrops` |
| `ComponentsProofs` | `Components` | `SessionIsConsistent`, `SessionDelivers`, `SessionIsTimed` | - | `PartsBehave` |
| | | `StartIsSafe` | `CalmSurroundings`, `ProbeSupported` | `PartsBehave` |

Each invariant also has the types of its module (of `MessageSend` without the bound of
the clock; of `ProtocolEvents` with the finite set of event names where the type
invariant says `STRING`, of which the provers know nothing). Each proof has one lemma or
step per action and ends with the same three facts: it holds initially, every step keeps
it, it implies the property.

- *Connection.* `HelloIsPending` (the id the object waits for is the one written to
  the held socket) tells a mismatched answer from the right one; `OneWayToEnd` (the
  final state has exactly one cause, counted by `reports`) is what the refinement
  needs, which has one step of the link or one stutter per action.
- *Adapter.* The connection's invariant does not carry over to the composition: the
  sockets of a discarded connection object, still closing, share its variables.
  `ObjectLife` states what holds of the present object, `SocketsAccounted` that the
  sockets of discarded objects are closing and any other is the held one until stop,
  `CommandsAccounted` that a command in the table belongs to the present session and is
  not answered, `CallsAccounted` what a call has found or done when it goes on after an
  await. `Orderly` is what the loader keeps: calls follow one another, and what is
  reloaded is started. `KurobotBridgeReload` shows that the second is necessary.
- *Hosting.* `AskedAccounted`: every way to be told to stop (file, signal, armed boot
  process, stopping supervisor, waiting command) goes back to somebody who asked.
  `ListensUncounted`: a self-host that still listens has not been counted by the file
  it is older than, whoever replaced it is younger than the file.
- *Login.* `Phased`: in each phase, which of the two flows may be where. The bootstrap
  assembles only in phase `assembling` and a control login only in `ready`.
- *Lock.* `CalmSurroundings`: launches do not overlap and the command line of a live
  process can be read. `InstanceLockOverlap` shows the first is necessary.
  `VerdictStands`: what a starting process has concluded stays true until it acts.
- *Files.* Nothing is assumed: starts overlap and are killed as they like. `wrapper.node`
  alone decides whether a version is complete, which is right of a store that is `Sound`,
  never shared and never left in part: then who writes it has it to himself, nobody relies
  on it meanwhile, and it is all there or not at all whenever nobody writes (`StoreInv`,
  `NodeInv`).
- *QR login.* `WaitIsGuarded`: the limit is armed and the listener registered exactly
  while a login waits for its code, so a late callback or timer of a login that is over
  finds nothing to act on. `LoginIsBounded` states that on its own.
- *Cache.* The property speaks of a quiet wire, and at that moment it is too late to say
  why it holds. `MembersCatchUp` and `DetailCatchesUp` say of each callback and answer
  under way that it is the newest or has a newer callback behind it, and of an answer
  with the whole list also that it misses nobody but those such a callback brings;
  `CacheFollows` says the same of what is stored. That answers and callbacks share one
  wire in the order the native side made them is what a change that overtakes a load
  would break.
- *Send.* `IdsApart`: `nextMsgTime` never returns a time twice, so ids differ however many
  messages share a millisecond; `ReportsTrue`: a report of success carries the id of a
  message that was sent, and no result of a native call is trusted; `CallsAccounted` joins
  the two to the call. In the refinement a call is told of by its step and a message by
  what became of it on the native side: beginning, handing over, delivery and the two ends
  are steps of `Delivery`, whatever else happens is a stutter.
- *Friends and pins.* `FramesCatchUp` is the argument of the cache again, per kind of
  frame and, for pins, per conversation. `SeedIsOnce`: nothing is observed before the
  start and the seed comes once, at any time after it; a conversation it contradicts is
  `misled`, and is in step again after its one repeated event (`PinsFollow`).
- *Essence.* The count of an event is within its limit only because what is still to come
  has not been counted. `Pending` collects the four ways an event may still be broadcast
  for what has happened: a push under way, an event to look up, the difference of an
  answer that was not taken yet, and what the next whole list will differ in. `Counted`:
  while one of them is open and no key is kept, the count has room; and where the list
  differs though no sync is on its way, it has room even with a key kept, which is the
  case after a failed fetch or a short list and what lets a key expire. `PushThenList`:
  after each push comes the callback that starts a sync.
- *Catalogues.* `HandlerIsRight`: a handler has reported nothing until it ends and what
  its signal asks for afterwards; the reports of other handlers are not its own. That what
  the handlers do agrees with the catalogue of the protocol is read off the tables by
  `TablesTell`, one lemma per protocol.
- *Ids.* `IdsAccounted`: below the cursor an id is in use or freed, from the cursor on
  neither; so `nextFreeId` returns an id that is not in use.
- *Transports.* `StopsInOrder`: when an adapter stops, those before it in the order of
  the start are gone; `AttemptsAreFailures`: the attempts counted are the failures in a
  row, and the client has a socket or a timer while they are few.

- *Requests.* `FailsClean`: outside `HalfDone`, once a change was made only steps that
  cannot throw are left of the plan; `HearsOfDrops`: outside `Unconfirmed`, no step that is
  left can be dropped by QQ unnoticed. Both come down to what the plans of more than 170
  actions are made of, and that is proved the way a handler is written: an API or an action
  is a composition of parts, each part has one of a few properties (`Quiet`: changes
  nothing; `Safe`: cannot throw; `Sure`: a drop is noticed; `Clean`: nothing that may throw
  after the first change; `Doomed`: throws in its first step), and a lemma per operator
  (sequence, choice, `Opt`, `Some`) says which properties the whole has. A loop has any
  number of rounds: the least number of rounds at which a property fails would be one round
  more than a number at which it holds.
- *Composition.* `PartsBehave`: a behaviour of `Components` is a behaviour of each part,
  its fairness included, as a step of another part is a stutter. So what is proved of a
  part holds of the composed system.

**Towards liveness.** That something happens in the end cannot be proved here, but what the
liveness properties rest on beside fairness can, and for every value of the constants.
- `NoEventIsLost`: an exit code has the parent that spawned the process, a restart timer its
  supervisor, a signal and a wait of the stop command a boot process that is alive.
- `SomebodyAlwaysWorks` and `EachStepLeadsOn`: a claim and an unfinished bootstrap have work
  under way, and each step of it lowers a rank that no other step raises. Only a weakly fair
  step is missing to `ControlReleased` and `BootConcludes`.
- `EveryWaitIsTimed`, `ConfirmationsAreFinal`: an answered send waits at most for a
  confirmation whose timer is armed and is not armed again (`SendSettles`).
- `LoginIsBounded` and `NeverStuck` are the same for `LoginEnds`, `HandshakeResolves` and
  `ComesUp`.

*Model-checked only.* The liveness properties themselves (`HandshakeResolves`, `ComesUp`,
`SocketsReleased`, `LoginEnds`, `SendSettles`, `ControlReleased`, `BootConcludes`,
`SupervisorEnds`, `StopReachesAll`): fairness and ENABLED are out of the prover's reach.

## 6. Not modelled

- *Kernel wrapper, infra and types; cli configuration and program; media; scaffolding;
  tooling*: loading of the native module, formatting, parsing and validation,
  stateless conversion, generators and scripts. They keep no state that evolves.
- *Data*: schemas, the translation of messages between QQ and the protocols, the
  content of requests, answers and events, logging.
- *In modelled parts*: the status, log and attach commands; the framing of IPC, the
  replay of its last status; heartbeats, frames and authorization of transports; the
  sequence index and the resource handles of Milky; the channel type cache and event
  numbers of Satori.

Hazards without a property, with the reasons in `PROJECT.json`:
- The heartbeat of `ws-client.ts` stays with the first socket after a reconnect; only
  connections that end with an event are modelled.
- `runtime.json` may be read half written, and may name a pid that now belongs to
  another program; `Hosting` has no pids and takes a record as whole.
- Versions of QQ are sorted as strings; one version stands for all.
- The HTTP server of Milky waits for its clients when it closes; nothing in the code
  bounds that except the end of the process.
- Satori caches a failed `getGroupInfo` as a private channel; the choice of the peer is
  data in `Requests`.
- A shutdown during a soft relogin finds no services to release; the process ends then.
- One broadcaster serves every protocol and sends each event to all of them; no text of
  the repository promises that they are separated.
