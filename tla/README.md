# TLA+ models of the Telegram AWG proxy

The repository is an Android application (`src/app`) that keeps a local SOCKS5
proxy running for a messenger, and the program behind the proxy, a fork of
wireproxy for AmneziaWG (`src/build-src/wireproxy-awg-1.0.16`), which the
application runs as a child process. This directory holds TLA+ modules
translated from that code, TLC configurations that check them on small
instances, and TLAPS proofs of every safety property for every value of the
constants. `PROJECT.json` lists the components, the runs, the lines each definition stands for, one bug per property
that the run finds (the mutants), the hazards and the theorems.

## Inventory

Java paths are relative to `src/app/src/main/java/com/example/telegramawgproxy`,
Go paths to `src/build-src/wireproxy-awg-1.0.16`.

| component | state it keeps | operations | what is hard | what makes it correct |
|---|---|---|---|---|
| `ProxyService.java`, `RestartPolicy.java` | `desiredRunning`, `destroyed`, `process`, `processGeneration`, `pendingRestart`, the queue and delayed tasks of `controlExecutor`, the waiters on `ioExecutor`, the failure counter | `onStartCommand` (START, RESTART, STOP), `onDestroy`, `ensureProxyRunning`, `restartProxy`, `stopProxy`, `startProxy`, `handleProcessExit`, `scheduleCrashRestart`, `scheduleNetworkRestart`, `markProcessStable`, `terminateWireproxy` | four kinds of threads on unsynchronised fields; late exits of replaced processes; delayed tasks that race commands; a destroyed process that lives on; a failed launch | at most one wireproxy, always stoppable; a wanted one always comes back, on the current network; the end of the service is the end of the process |
| `NetworkChangeDetector.java`, `NetworkRestartGate.java`, the callbacks of `ProxyService` | the last network and link seen, the time of the last network change | `onAvailable`, `onLinkPropertiesChanged`, `onLost`, the broadcast of Android 6 | one change is announced by several callbacks, late; restarts are done later still | the tunnel ends up on the current network and link; one restart per change |
| `ConfigStore.java` | `wireproxy.conf`, `.import`, `.backup`, the preference `proxy_enabled` | `importConfig`, `validateConfig`, `replaceConfig`, `withLocalSocks` | a failure or the end of the process at any step; the service reads the file meanwhile | the configuration in place is the last one imported with success, and never a refused one |
| `MainActivity.java` | `pendingStartAction`, the permission dialog | import, start, stop, the tunnel test | the answer of the dialog reaches another activity | a button does what it says |
| `BootReceiver.java`, Android | kills, sticky restarts, reboots | `onReceive`, `onStartCommand(null)` | requests and tasks lost with the process | the proxy comes back |
| `udp_proxy.go` | the map of sessions, per session a connection, `lastActive`, `closeChan` | main loop, sweep, one goroutine per session | expiry races use; a late end meets a successor | no closed session is used, no connection leaks, idle ones close |
| `http.go`, `tcpClientForward`, `tcpServerForward`, `STDIOTcpForward`, `connForward` of `routine.go` | two connections and two copying goroutines | authentication, CONNECT, other methods, copying, closing | half-closed and broken ends, early data | order, nothing for refused clients, nothing left open |
| health check of `routine.go` | `PingRecord` | `pingIPs`, `/readyz` | replies late or never; times cut to seconds; a map read without its lock | neither stale good news nor false alarms |
| `awg_config.go`, its part of `wireguard.go` | `ASecConfigType` | `ParseASecConfig`, `ValidateASecConfig`, `CreateIPCRequest` | ranges of 32-bit numbers that nest, touch or are defaults | the device can tell packets apart, and gets what was written |
| `config.go`, the peers in `wireguard.go` | `Configuration` | `ParseConfig`, `CreateIPCRequest` | keys that repeat or are missing, defaults, a second file, lines whose meaning depends on the lines before | each peer is sent with what its section says, and nothing unreadable is accepted |
| `cmd/wireproxy/main.go`, `StartWireguard`, the `SpawnRoutine` of each kind | the arguments, the sandbox rules, what listens | `-n`, `-d`, `lockNetwork`, spawning, signals | rules are made before the ports are bound; one routine that fails ends all | what a documented file asks for comes up, and stays |
| `withLocalSocks` in `ConfigStore.java` and in `cmd/config-adapter` | a file | replace the local `[Socks5]` section | two readers of a file that are not the same | one local proxy, everything else untouched |
| SOCKS5 protocol (library), `/metrics`, build scripts, service files, CI, prebuilt binaries | none of the program's own | | | not modelled |

How they interact: `MainActivity`, `BootReceiver` and the system reach
`ProxyService` by start requests, delivered one after the other to
`onStartCommand` on the main thread, which hands every task to the single
thread of `controlExecutor`. That thread creates and destroys wireproxy
processes; a thread of `ioExecutor` per process waits for its exit and sends it
back as a task; the network callbacks run on a thread of their own and send
tasks too. `ConfigStore` shares only the file and the preference with the
service. Within wireproxy the tunnels share the network of the device and
nothing else, so each is a module of its own.

## Modules

| module | models | run |
|---|---|---|
| `ProxyService` | one service instance, all its threads, the processes | `service_*` |
| `SingleServer` | what the service promises: a launch only when nothing serves | (refined by `ProxyService`) |
| `NetworkMonitor` | which callbacks lead to a restart | `network_*` |
| `AppHost` | activity, files, boot, Android; composed with the service, one step per control task | `host`, `host_boot` |
| `UdpProxy` | the UDP proxy tunnel | `udp_sessions` |
| `Forwarding` | one connection through the HTTP proxy, a TCP tunnel or a STDIO tunnel | `forwarding` |
| `Health` | the ping loop and `/readyz` | `health` |
| `AwgConfig` | the AmneziaWG parameters of a file | `startup` |
| `ConfigFile` | pure operators: the import of a file, and what wireproxy reads in one | `startup` |
| `Startup` | from a file to a wireproxy that serves; on top of the two before | `startup`, `startup_sandbox` |
| `MCAwgConfig`, `MCStartup` | the sections TLC reads, and what it starts wireproxy with | |
| `ProxyServiceProofs`, `NetworkMonitorProofs`, `AppHostProofs`, `UdpProxyProofs`, `ForwardingProofs`, `HealthProofs`, `AwgConfigProofs`, `StartupProofs` | theorems about the module they are named for, and about what it extends | (TLAPS) |

In the modules an operator introduced as "A bug: ..." is a plausible mistake,
which no specification uses: put in the place of the definition it stands
beside, it breaks the property named in `PROJECT.json`.

### ProxyService

The fields keep their names. `main`, `ctl` and `conn` say where the main, the
control and the connectivity thread are; `queue` holds the tasks of
`controlExecutor`, `timers` the delayed restarts and `stableTimers` the
delayed `markProcessStable` calls; `waiters` are the calls of
`waitForProcess`. A process is a number; `alive` are those that exist,
`signalled` those that were told to end, `stale` those launched before the last
network change. A method of the code is cut where it touches what another
thread shares: `startProxy` is `StartProxy` (tests), `Launch`/`LaunchFails`
(`builder.start`), `Recheck`, `Publish`, `Attach`; `terminateWireproxy` takes
the field, destroys, and waits; `cancelPendingRestart` on the main thread is
three steps, since it reads the field twice. Steps of the control thread that
touch only what it alone uses are merged; so is its own `cancelPendingRestart`,
with `CancelOvertaken` for the case that `onDestroy` comes in between.

Time is abstract: a delayed restart runs at any moment after it was scheduled,
and so does a stability check, but that the checks, whose delay is the same
for all, run in the order of the launches; the wait for a destroyed process ends at any moment, with the process gone or
not. This includes every real timing and many unreal ones. The failure counter
stops at the largest shift of `RestartPolicy`. The preference and
`desiredRunning` are one variable, since both are set together.

`onDestroy` on the main thread can find `pendingRestart` null between its two
reads (line 285) and end in an exception; the model has that as
`NullPendingRestart`, which leaves `main = "crashed"`. The control thread can
meet the same the other way round; there the exception ends the task only.

`OneLaunchPerCause` counts: no command, network change or exit leads to two
launches, although each may pass through a submission, the queue, a cancelled
restart and launches that fail. A network change that comes while the last one
is being dealt with may be answered together with it, hence "at most".

`NeverGivenUp` leaves out histories with an import. Between the two renames of
`replaceConfig` there is no configuration file, so a task that looks for one
just then gives up and leaves it to the RESTART that follows the import; that
command belongs to `MainActivity`. `AppHost`, which has both, checks the whole
(`ServedWhenSettled`).

### NetworkMonitor

`initialized`, `activeNetwork` and `linkFingerprint` are the detector;
`settling` is the gate, with the clock reduced to "inside the settle window" or
not; `events` are the callbacks Android has sent and not delivered. Android
sends `onAvailable` and then the link properties of a network that becomes the
default, and `onLost` only when none is left. The restart is one step, taken
any time after the request (`ProxyService` has its details). With `legacy` the
broadcast handler of Android 6 runs instead. It compares with the network at
the last broadcast it handled, and looks at the network of that moment, so a
switch that is undone before the broadcast is handled stays unnoticed although
the process may have been started in between; `TunnelFollowsNetwork` is stated
for later versions only. Whether the system tells the link properties of the
network it has just named is open: the handler then does without.

### AppHost

`target`, `pending` and `backup` are the three files, `main` the step of the
import (which runs on the main thread, so that no other callback comes in
between), `intents` the start requests on their way, `tasks` the service's
queue. Every step of an import may fail, and the process may end after any of
them: `ProcessKilled`, `Reboot`. The service is that of `ProxyService` with one
step per task, and `onDestroy` is part of the task that calls `stopSelf()`: the
races inside are `ProxyService`'s subject. `apply()` of the preference is atomic
because Android flushes it before `onStartCommand` counts as done.

Excepted by the properties, because the code behaves otherwise and says nothing
else: a permission that is denied (nothing is started), an activity made anew
under the permission dialog (the new one has `pendingStartAction` START, so that
an import's RESTART becomes a START and the old configuration goes on running),
two renames that fail in one import (the result of the rollback is not looked
at), an import that fails after the control thread gave up a restart for want of
the file (nothing makes up for it until the next event).

### UdpProxy

One action per step of the main loop (`ReadFromUDP`, `GetSession`, `BeginDial`,
`CreateSession`, `WriteToRemote`), of the sweep (`CloseInactive`) and of a
session's goroutine (`CheckCloseChan`, `ReadFromRemote`, `Deliver`,
`RemoveSession`, `CloseRemoteConn`). `sessionMu` is held by the main loop while
it dials, and the others wait. `lastActive` is reduced to "idle for longer than
the limit"; it is written without the lock, and a write that is under way may
be seen or not. A write torn in two, possible where an `int64` field of this
struct is not written at once (32-bit builds), is not modelled. An element of
`Sessions` stands for one session and is not used again, so that their number
bounds how many sessions there are; there is a client at least
(`UdpAssumption`).

### Forwarding

`stage` is where `serve` or `tcpClientForward` is. What travels is numbered, so
that order and loss can be told. `buffered` is what the `bufio.Reader` took in
together with the request. A read and the write of what was read are one step,
and so are the two deferred closes. Ends may shut down one direction or break
off at any time, and a client need not wait for the answer. A request of
another method than CONNECT is written to its target while its body is still
being read, and fails with either end; what of it got through by then is not
kept, since its connection is closed.

### Health

`recordAge` is the age of a record, counted from the beginning of the second it
was made in, since `PingRecord` holds whole seconds; `heardAge` and `steady` are
history, for the properties. A clock tick passes only when nothing is due. When
`/readyz` iterates over the map while a goroutine writes it the Go runtime may
end the program (`crashed`).

### AwgConfig

`section` is what was read by the ini library, `config` the parsed structure,
`request` what `CreateIPCRequest` writes. A header's text is the sequence of its
parts. `phase` follows `ParseInterface`: parse, validate, send, or refuse. Its
actions are taken by those of `Startup`.

### ConfigFile and Startup

A file is a sequence of lines, each a header, a key with its value, blank, or
junk on which the ini library gives up; a header with a comment behind it is a
type of its own, since `withLocalSocks` takes it for no header and wireproxy
does. A value is the sequence of its parts between commas; where one part is
expected, several read as one text that is no key, number or address
(`Several`). Of an address with a port only the port is kept. What the ini
library does is external: it finds sections by name, and of a key that repeats
it returns the first line. What a loop over lines, sections or values keeps is
stated by place (`At` and `InOrder`: the n-th of those that are kept), which
says the same as a loop and can be reasoned about.

`Startup` has one process at a time: the validator that an import starts (`-n`,
or `ParseConfig` in `config-adapter`), wireproxy, or its daemon child, which
parses again and inherits the sandbox. `stage` follows `ParseConfig` and `main`,
`exit` says how a process ended. The interface and the peers are read in
`wgFile`, which is another file with a key `WGConfig`. `rules` are the TCP ports
the sandbox leaves; Android has none, nor have older versions of Linux
(`BestEffort`). Routines begin to listen in any order; a listener that fails
calls `log.Fatal`, which ends them all. Names of endpoints are resolved while the
file is read and may not be found; starting the device may fail at any call.
`Configured` plays the request back as the device reads it. A peer that claims
nothing is given both blocks of all addresses (`Everything`), one of which
another peer may claim in so many words.

With `-d` there is no child on a Linux with landlock: `lock("boot")` leaves `/`
to be read only, and `exec.Cmd` opens `/dev/null` for writing. Older Linux may
have a landlock that knows files and not TCP; there the child may start or not.

Only ports that a listener needs are compared, not the addresses they belong to:
two routines on different local addresses with one port do not occur.

## Runs

| run | instance | shows |
|---|---|---|
| `service_safety` | 3 commands, 1 network change, 2 exits, 1 failed launch, 1 import; at most 5 in all | every interleaving of the threads keeps one process at most, none out of reach of the service while it lives, its exit always heard of, a crash loop's backoff kept, restarts tracked, one launch at most for each cause, a stale process replaced; and the refinement of `SingleServer` |
| `service_liveness` | 2 commands, 2 changes, 1 exit, 1 failed launch; at most 4 | a proxy wanted for good is served for good on the current network |
| `service_stop_race` | 3 commands | **fails**: see below |
| `service_lost_start` | 2 commands | **fails**: see below |
| `network_callbacks` | 2 networks, 2 links, 4 changes, both handlers | the tunnel follows network and link, but for what the gate keeps back; one restart per change |
| `host` | 2 good files and a bad one; 3 imports, 2 kills or reboots, 2 failures, 2 exits or changes, presses of each button, a denial, a recreation; at most 6 | what is in place, what runs, and that it runs |
| `host_boot` | 2 imports, 1 kill | **fails**: see below |
| `udp_sessions` | 2 clients, 2 sessions in all | sessions are open, owned, removed for a reason, closed in the end |
| `forwarding` | each of four kinds of connection, 3 pieces each way | order, refusal, nothing left open, the relay ends |
| `health` | 2 addresses, 3 ticks a second, interval 2 s, latency up to 1 s | /readyz is right both ways and in the end |
| `startup` | 7474 inputs: files, modes, platforms, ports that are taken; headers 0..7 | what is accepted is unambiguous and sent unchanged, an imported file serves locally and loses nothing else, peers keep what they claim, a documented file comes up |
| `startup_sandbox` | every set of kinds of routines, each place | **fails**: see below |

Why the bounds are enough. A race in the service needs a process, something
that replaces it and something that comes late: with five events there are
three processes, exits of two of them, and every delayed task of each kind is
pending together with the others. Four events suffice for liveness, since a
counterexample is a suffix in which nothing more happens. Two networks with two
links give every relation of a new callback to the last, and four changes bring
each back once. Two clients and two sessions are one that ends and one that
takes its place. Three pieces show a first, a last and one in between for order
and for what is buffered. The numbers 0..7 have room for four headers that
nest, touch, coincide with a default or lie next to it; the sections hold every
value around each bound, and no rule of `ValidateASecConfig` looks at two groups
of keys together. A file's parts are read one after the other and no part looks
at another, so that one part varies at a time: the AmneziaWG parameters, the
other keys of the interface with each kind of text, one or two peers with every
combination of secret, endpoint and claimed blocks, a routine with each kind of
text on each platform, every set of kinds of routines and every two of a kind.
For the import, where order matters, the sections come in every order with up to
two more, or with three proxies. `MaxEvents` is the sum over all kinds of events; without it
each kind has its own bound only.

`CHECK_DEADLOCK FALSE` is set where the system does stop: a destroyed service, a
connection that is over, a crashed wireproxy, or all the events of the instance
used up. That nothing stops too early is what the liveness properties and
`NeverGivenUp` and `ServedWhenSettled` say.

### What the code does not keep

- `service_stop_race`: STOP, START, STOP. `startProxy` tests `desiredRunning` and
  `destroyed`, then publishes the process (`ProxyService.java:162-170`).
  `onDestroy` in between finds no process to end, and the one that is published
  afterwards keeps running and holding the port, while the user was told that
  the proxy is stopped.
- `service_lost_start`: the stop task calls `stopSelf()` without a start id
  (`ProxyService.java:85`). A START accepted before that call is destroyed along
  with the service; the preference says enabled and nothing runs.
- `host_boot`: the process may end between the two renames of `replaceConfig`.
  Nothing reads `.backup` again, so there is no configuration and `BootReceiver`
  skips the start at every boot.
- `startup_sandbox`: `lockNetwork` gives a `TCPClientTunnel` the right to connect
  to its own port (`main.go:153`) and not to bind it. Where landlock restricts
  TCP, `net.ListenTCP` fails and `log.Fatal` ends wireproxy with all its routines;
  wireproxy's `README.md:103` calls it a tunnel listening on your machine.

Seen while modelling, without a run because nothing in the repository says
otherwise: what a client sends right behind its CONNECT is lost when it was
buffered with it (`http.go:95`; `ForwardedInOrder` says exactly that much is
lost); a client that shuts down its sending half loses the answer still on its
way (`routine.go:192`); of the two seconds of leeway of `/readyz`
(wireproxy's `README.md:239`) up to one is lost to the rounding of records, so
that `UnavailableForCause` holds for latencies up to a second and fails for 5/3
of one; paddings that are absent count as 0 for the device but are not compared
(`awg_config.go:263`); a ping that fails leaves its socket open
(`routine.go:412`); `/readyz` reads `PingRecord` without its lock
(`routine.go:333`). A link change is dropped for 10 s after a network change
(`ProxyService.java:311`), but the restart it is to be part of is done after
0.75 s: a change of address in the rest of the window stays unanswered
(`coalesced`). A connection is left open after a refusal or a failed dial
(`http.go:109`, `routine.go:205`), and standard output after a failed dial. With
`-d` on a Linux with landlock wireproxy prints that its child did not start and
ends (`main.go:236`).

Several of these are hazards that no property covers (`PROJECT.json` says why for
each): the properties nearest to them, `TunnelFollowsNetwork`,
`InstalledConfigRuns`, `RemovedForCause`, `ForwardedInOrder` and
`UnavailableForCause`, except what the code does there, and show that nothing
else goes wrong.

About files: of a key `AllowedIPs` that repeats only the first line counts, where
wg-quick adds them up (`config.go:211`); `CertFile`, `KeyFile` and
`ResolveStrategy` are read and not used; a `Username` that refers to a variable
that is not set reads as none, and the proxy asks for no password
(`config.go:435`); `-n` accepts a `Target` without a port or a missing
`BindAddress`, which end the program later (`lockNetwork` panics on the second on
Linux, on Android the listener takes any port); `-n` needs the network if an
endpoint has a name (`config.go:353`), and so an import does; a line
`[Socks5] # comment` survives `withLocalSocks`, and a `[Peer] # comment` behind a
`[Socks5]` section is dropped with it.

## Fairness

- `ProxyService`: weak fairness of what each thread has been given to do (main
  looper, control thread, waiters, the callback's submission) and of the end of
  a process that was destroyed. Executors run what is queued, and
  wireproxy does not catch the signal of `destroy()` (`main.go:164` asks for
  SIGINT and SIGQUIT only). Nothing obliges a user, the network, or a
  process to do anything.
- `UdpProxy`: weak fairness of the goroutines and, for the two that wait on
  `sessionMu` while others take it again and again, strong fairness: Go's mutex
  hands itself to a waiter that has waited a millisecond. `ReadFromRemote`
  returns within its deadline of 5 s whatever the remote end does. `IdleSessionsClose`
  has as its premise that a limit is set (`Expires`).
- `Forwarding`: weak fairness of the goroutines; writes do not block, that is,
  an end that is there takes what it is sent.
- `Health`: weak fairness of the goroutines and of time.
- `Startup`: weak fairness of the main goroutine and of those of the routines,
  stated over the variables each of their steps changes. Nothing obliges a
  name to be found, a device to start or a user to send a signal.

## Proofs

Every invariant and every action property of the passing runs, and the
refinement of `SingleServer`, is a theorem of its specification for all values
of the constants. The only assumptions are the ones the modules name
(`BudgetsAssumption`, `NetworkAssumption` and so on: bounds are numbers, "none"
is none of the values), which TLC evaluates in the runs; one theorem, about
`/readyz`, has hypotheses beside them. `TypeCorrect` in each module is the type
invariant. None of the properties below is inductive as it stands; for each,
here is what has to be added and why.

`ProxyServiceProofs`, for any number of commands, exits, failures and changes:

- `MutualExclusion`, `NoneEscapes`, `AnnouncedStopIsReal` and the refinement
  `ImplementsSingleServer` follow from one inductive invariant, `ServingInv`.
  `NoStrayProxy` (whatever is left running is in the field, or startProxy holds
  it) is not inductive: a late exit clears the field, and a launch may meet an
  old process. So it is joined by `OldProcessGone` (from the end of
  `terminateWireproxy` to the publication the field names nothing that is left
  running), `ProcessesKnown` (no thread knows of a process before its creation)
  and `ExitsHappened` (a queued exit has happened, so that clearing the field for
  it loses nothing).
- `ExitIsHeardOf`: `Watched` with `DestroyPhases` (when the executors are shut
  down the service is destroyed) and `AttachesCurrent` (what `startProxy` will
  watch is what it published).
- `RestartsNeverPileUp`: `OneTrackedRestart` with `DestroyPhases` and the fact
  that a restart is scheduled only after the tracked one was cancelled.
- `CrashLoopIsNotForgiven` (`BackoffOutlastsLaunches`): a stability check lowers
  the count when it finds its own process. By `StableInv` the checks have
  generations of their own and one that is yet to be scheduled has the highest;
  so the check that finds its process is the last, and nothing was launched since.
- `NoCauseLaunchesTwice` (`OneLaunchPerCause`): a sum. `OpenCauses` counts the
  causes that may yet lead to a launch, wherever they are: at a thread that is to
  submit a task, in the queue, as a delayed restart, in the hands of the control
  thread, or as a dead process in the field or about to be published. With what
  was launched they never exceed what has happened (`LaunchesInv`): a step brings
  a cause in, moves one on, drops one or makes a launch of it. That the exit of a
  process told to stop is no cause needs `HeldUnsignalled`: what is in the field
  or about to be was not told to.
- `OldProcessesAreReplaced` (`FreshOrReplaced`): by `FreshInv`. A process can be
  made old while `startProxy` has yet to publish it (`OldIsReplaced` looks at
  those, too); the task that was to replace it may find the proxy unwanted, and
  then a stop must be on its way (`UnwantedIsStopped`); and a crash is handled
  only when nothing is left running (`CrashedIsGone`).
- `ProxyIsNeverGivenUp` (`NeverGivenUp`): by `ComesBackInv`. When the field is
  empty and the proxy wanted, a command, a task or a delayed restart will start
  it (`StartOnItsWay`). A queued stop takes the process away, so behind every
  stop there has to be a start as soon as the proxy is wanted again
  (`StopIsFollowed`, over the order of the queue).

`NetworkMonitorProofs`, for any networks, links and number of changes:

- `QueueInv` says what the callbacks on their way can be: each follows from the
  one before it (`Consecutive`), the first from what the detector knows
  (`Expected`), and the last tells of the present (`Latest`).
- `OneRestartForEachChange`: `RequestsInv`. Some callbacks cannot request a
  restart; those that can (`Counts`) are given changes of their own, in their
  order and later than the changes already answered. The numbering is an
  existential in the invariant, and each step is a way to renumber.
- `TunnelKeepsUp` (`TunnelFollowsNetwork`): `TunnelInv`. A tunnel that lags
  behind has a callback coming that counts, or a restart pending.

`AppHostProofs`, for any configurations and any bounds on what may happen:

- `OnlyAccepted` and `ImportIsAtomic` (`ConfigKept`): what is in place is, in the
  middle of `replaceConfig`, under its other name (`InPlace`); `ImportSteps` says
  what the main thread carries from step to step, `NothingLost` that `InPlace` is
  what was installed last until the import is done.
- `NewConfigTakesEffect` (`InstalledConfigRuns`): what runs is in place, or a
  restart for it is on its way through the dialog, the intents or the tasks
  (`ReplacementToCome`).
- `ProxyIsServed` (`ServedWhenSettled`): `ServiceServes` (a service that wants the
  proxy has it, or has something in its queues) and `ServiceIsThere` (the service
  of a user who never stopped it lives and is sticky, or a request is on its
  way), with `NeverStopped` for the stops that are not.

`UdpProxyProofs`, for any number of clients and sessions: `SessionsInv` gives
`SessionsAreOpen` and `ConnectionsAreClosed`. A connection is open exactly while
its goroutine runs (`ConnectionsHaveReaders`), the map holds only sessions whose
goroutine has yet to take them out (`MappedSessionsRun`), and the place of a
session that is being dialled stays free (`DialsForNobodyElse`: the mutex is
held). `SessionsLeaveForCause` is the action property.

`ForwardingProofs`, for any number of pieces: `StagesInv` (what exists at each
stage) gives `RefusalIsFinal` and `EndsClose`. `PiecesKeepTheirOrder` needs
`OutboundInv` and `InboundInv`: what was delivered, what the reader has
buffered and what is on its way are, laid end to end, the numbers of what was
sent. (`MaxSent` stays below 101 because status codes are numbers, too.)

`HealthProofs`, for any addresses, interval and fineness of the clock:
`ReadyIsNoOldNews` relates the age of a record to that of the ping it stands for.
`AlarmsHaveACause` (`UnavailableForCause`) has two hypotheses: a working tunnel
answers sooner than the next round begins and within a second. Its invariant
places every ping in a round (`PingsOnTime`) and every record of an address that
was always reached in this round, or in the one before while its ping waits
(`RecordsOnTime`). TLC shows that neither hypothesis can go: with an interval of
2 s, three ticks and a latency of five (5/3 s) a record is seen a round late and
cut to seconds; with an interval of 1 s and a latency of as much the pong and its
deadline come together.

`AwgConfigProofs`, for any section and any width of a header:

- `KindsUnambiguous`: what reaches the device uses no header for two kinds of
  packets, and given paddings leave the sizes apart. The code compares
  the ends of every two intervals once; the lemmas say that what is read has its
  ends in order, and why such intervals then share no number.
- `RequestFaithful`: the request names the keys of the section, and a header
  that is formatted reads as the same interval. `ConfigInvariant` relates each
  phase to the section and carries both.

`StartupProofs`, for any files (`IsFile`: any number of lines of each type), any
sets of keys, blocks and endpoints, in any order:

- `DeviceTellsKindsApart` and `DeviceGetsTheSection` carry the two of `AwgConfig`
  over to processes that read the file anew: a step of main takes a step of
  `AwgConfig`, leaves its variables alone or begins again.
- `StartupTypeCorrect`: by `StartupInv`, what main knows at each stage (the files
  are those given, or imported; after `ParsePeers` every section is accepted and
  the peers are theirs; a request was made of accepted peers).
- `ImportServesLocally` (`PreparedServesLocally`): `withLocalSocks` moves the lines
  it keeps without changing their order (`Moves`, `OrderKept`). Skipping begins
  and ends at headers, so that a section is kept or left out as a whole and has
  the same values afterwards (`KeysKept`, `ValueKept`); hence the same peers and
  the same routines in the same order, and one SOCKS5 proxy, the local one.
- `DeviceSendsAsClaimed` (`PeersKeepWhatTheyClaim`): `RequestShape` says what the
  lines of a peer are, `RequestHandled` what the device has learned after j of
  them, and `PeersKnown` what it knows after k peers (`KnowsPeers`): a block
  belongs to the last that claims it, a peer that is named once has its own
  settings, nobody else has any.

The library's induction theorems cannot be used here (they take an operator as
their parameter), so `Induction` is proved for a set of numbers from the fact
that a set of numbers has a first. With it, what the recursive functions inside
`FlattenSeq` and `FoldLeft` compute is stated step by step (`FlattenSteps`,
`ConfiguredSteps`).

Only model-checked: what is about liveness, which is out of the prover's reach
(`KeepsServing`, `IdleSessionsClose`, `ClosedSessionsEnd`,
`RelayEnds`, `StateIsNoticed`, `AllServed`), and the four violations.

## Plan

Done, in this order: the service with its abstract specification and proofs; the
network callbacks; the application around them; UDP sessions; forwarding;
AmneziaWG parameters with proofs; the health check; STDIO tunnels; the
configuration file, its import, and the start of wireproxy with its sandbox;
proofs of the safety properties of all of them.

Next: lemmas the liveness properties rest on, as far as they are about single
steps; a safety part of `AllServed` (which ports may be bound when a documented
file comes up).

## Running

    tlc -workers 2 -config ProxyService_safety.cfg ProxyService.tla
    tlapm ProxyServiceProofs.tla

`StartupProofs` takes three minutes, the other proofs less.

`service_safety` has 2.8 million states and takes a minute, `startup`
(of `MCStartup.tla`, with `MCStartup.cfg`) a minute and a half; every other run takes less.
