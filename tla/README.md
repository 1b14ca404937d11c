# A verification of mobilecli's daemon, recordings and shared streams

mobilecli drives phones, emulators and simulators from a command line, an HTTP
server and a WebSocket. A background daemon owns the devices; everything else is
a client of it. This directory holds TLA+ models of the parts where processes,
goroutines and callbacks meet, and of what each method does on each class of
device; the TLC configurations that check them; and theorems about them that
TLAPS checks. Paths below are relative to `src/`.

## 1. The system

```
 mobilecli <command>  --+                          +-- devices/*  (adb, simctl, go-ios, fleet)
 mobilecli server       +-- EnsureRunning, call -->| daemon: one request per unix connection
   HTTP / WebSocket   --+    (daemon/client.go)    |  DaemonDispatch -> commands -> device
   stream tickets                                  +-- recorder, device cache, stream hubs
```

| Component | State | Operations | Where it gets hard |
|---|---|---|---|
| Daemon process (`daemon/`, `cli/daemon.go`, `cli/client.go`) | socket path, pid file, spawn lock; in-flight requests, shutdown channel | EnsureRunning, Shutdown, Run, handleConn, watchIdle | several processes on one directory; crashes; versions; idle exit against requests |
| Recording manager (`server/recording.go`, handlers in `server/server.go`, `commands/screenrecord.go`) | the current session; its StopChan, Ready, Done | start, stop, clear, StopRecordingForShutdown | timers against late answers; one response, several receivers |
| AVC hub (`devices/avc_hub.go`) | subscribers, source, epoch, start/stop marks, cached parameter sets | subscribe, publish, sourceEnded, cancel | start/stop outside the mutex; late joiners; full queues; dying sources |
| HTTP server (`server/server.go`, `rpc/`) | stream tickets | AddSession, GetSession, MarkInUse, RemoveSession | check-then-act on tickets; expiry; the limit of 128 |
| WebSocket (`server/websocket.go`) | handler slots, the writer's mutex | read loop, handlers, pings | bounded concurrency, deadlines |
| Device cache (`commands/commands.go`, `commands/devices.go`) | one instance per device id | FindDevice, EvictDevicesNotIn | instances carry the mutexes and hubs that make requests safe |
| Location overrides (`commands/location.go`) | ids with an override | set, clear | keeps the daemon alive; device call and map not atomic |
| Android device server (`devices/android_device_server.go`, `android_rpc.go`) | the remembered port | ensure, forget, restart | a server that dies or is replaced under several requests |
| iOS tunnel, agent (`devices/ios/tunnel-manager.go`, `devices/ios.go`) | update loop, test runner's cancel function | start, stop | a goroutine's cleanup after its successor started |
| Flutter VM client (`devices/android_flutter.go`) | pending calls, fatal error, semaphore | call, readLoop, failAll | answers, time-outs and the end of the connection race |
| Streaming (`server/daemon_streams.go`, `forward.go`, `daemon/protocol.go`) | one buffer per stream | Write, cancel on disconnect | fragments, disconnects |
| AVC to MP4 (`pkg/avc2mp4`), log filters (`commands/logs.go`) | none | pure algorithms | boundaries, reordering |
| Commands and devices (`commands/*`, `devices/{android,ios,simulator,remote}*`, `utils/`) | temporary files, processes, forwards of one request | some 70 methods on four classes of device | any step may fail, and what earlier ones did must be undone |
| Everything else | none or per call | command lines, parsers, file formats | I/O |

`PROJECT.json` lists the components with their files and status, and every
hazard with the line where it bites and the properties that would catch it.

What makes each component correct:

* **Daemon**: one client at a time checks and spawns; one daemon serves; nobody
  takes its socket away; what EnsureRunning reports is a daemon of the right
  version; what was accepted is answered; only other versions are replaced.
* **Recordings**: what uses the device is what the manager can stop; two
  recordings never overlap; the daemon does not exit mid-file; every request is
  answered; a stop takes effect.
* **Hub**: one source holds the encoder; it is stopped when, and only when,
  nobody watches; nobody sees bytes of an older source or bytes it cannot
  decode; a truncated capture ends with an error.
* **Tickets**: a ticket admits one viewer, and it is in use exactly while that
  viewer is served; a viewer that leaves is let go of down to the device.
* **WebSocket**: every handler slot has a handler; every message is answered.
* **Cache**: one live instance per device id among the requests that use it.
* **Android server**: a request takes effect twice only if the server died under
  it; a mock location has the appop it needs.
* **iOS tunnel, agent**: cleanup of the old never harms the new; the shutdown hooks
  stop all that requests started.
* **VM client**: a dump ends, and should report an error if it lost part of the tree:
  `flutter_thin` shows that it need not.
* **Methods**: the agent is started before it is used; nothing a request takes for
  itself is left behind; one that fails has changed nothing.

## 2. Modules

| Module | Models | Role |
|---|---|---|
| `SharedStream` | what a shared stream promises | abstract specification |
| `AvcHub` | `devices/avc_hub.go`; its source from `devices/ios.go` | detailed specification; refines `SharedStream` |
| `MCAvcHub` | – | a chunk alphabet, for the hub's liveness and `avchub_ready` |
| `AvcHubProofs` | – | theorems about `AvcHub` |
| `OneRecording` | what the daemon promises of recordings | abstract specification |
| `Recorder` | `server/recording.go`, `server/server.go` 1190-1281, `commands/screenrecord.go`, `daemon/server.go` as far as recordings concern it | detailed specification; implements `OneRecording` |
| `DaemonLifecycle` | `daemon/ensure.go`, `client.go`, `server.go`, `pidfile.go`, `cli/client.go`, `cli/daemon.go` | specification |
| `MCDaemonLifecycle` | – | symmetry for TLC |
| `DaemonLifecycleProofs` | – | theorems about `DaemonLifecycle` |
| `DeviceCache` | `commands/commands.go`, `devices.go`, `location.go`; scans of `devices/common.go`; `devices/ios_location.go` | specification |
| `MCDeviceCache` | – | symmetry, for the two violations of the cache |
| `MCDevices` | – | safety of `AvcHub` and `DeviceCache`, the two sides of a device's object, for TLC |
| `DeviceCacheProofs` | – | theorems about `DeviceCache` |
| `StreamTickets` | what the HTTP front promises of its stream tickets | abstract specification |
| `StreamSessions` | tickets and stream endpoints of `server/server.go`, `daemon/client.go` CallStream, `daemon/server.go` handleConn, `server/daemon_streams.go` | detailed specification; implements `StreamTickets` |
| `WebSocket` | `server/websocket.go` | specification |
| `FlutterVM` | `devices/android_flutter.go` | specification |
| `AndroidServer` | `devices/android_device_server.go`, `android_rpc.go`, `android_location.go` | specification |
| `IosAgent` | StartAgent, the stream's forwarders and the cleanups of `devices/ios.go`, `devices/ios/tunnel-manager.go`, `port-forwarding.go`, `devices/shutdown.go` | specification |
| `Procedures` | – | the language of the tables below |
| `HostOps` | `utils/` | procedures |
| `AndroidOps`, `IosOps`, `SimulatorOps`, `RemoteOps` | `devices/android*.go`, `ios*.go`, `simulator*.go`, `remote*.go`, `devicekit/` | a table of procedures for each class of device |
| `CommandOps` | `commands/` | procedures of the commands, for a device `d` |
| `ServerOps` | the method handlers of `server/` | class of device → method → procedure |
| `Operations` | – | executes a procedure with every failure it may have |
| `MCComponents` | – | the components that share no state, for TLC |
| `RecorderProofs`, `StreamSessionsProofs`, `AndroidServerProofs`, `FlutterVMProofs` | – | lemmas: the inductive invariant of each component, for any values of its constants |
| `ComponentsProofs` | – | theorems about `MCComponents`, from those lemmas; the invariants of `WebSocket`, `IosAgent` and `Operations` |

Each definition that stands for code is tied to its lines in `PROJECT.json`
("map"). Definitions marked *fault* are wrong variants of the definition below
them; no specification uses them. They record a bug each property was seen to
catch.

### AvcHub

A client is a goroutine inside `subscribe`. Its `pc` says between which two
critical sections it is; an action is one stretch of code under `h.mu`, or one
call made without it: `src.start`, the stop function, `src.ready`, a receive
from its channel. A source is the epoch it was started with. `stop`,
`starting`, `stopping` hold the epoch whose function or channel the field of the
same name holds, 0 for nil. A chunk is the set of NAL unit kinds it completes;
`tail` is what `keepTailLocked` keeps, `sets` which parameter sets are cached.
A queue is its length: what a viewer is handed first and whose bytes came last
are history variables (`first`, `from`), and `readied` who was told it is live.
`live`, `reading`, `tearing` and `closed` are the source's side
(`startAvcStream`): it may fail to start, die, or be stopped, and a chunk read
before the stop may be published after it.

`SharedStream` has four variables: viewers, sources that hold the encoder, the
number of the current source, and whose bytes each viewer saw last. `Shared`
maps the hub to it; the run checks that each step of the hub is one of its steps or
a stutter.

### Recorder

Session s is the s-th one. A handler's `pc` is the select it waits in, `mine`
the session object it got; `ready` and `done` are the one-place channels (a
response that was received is gone for everybody else: `taken`). The recorder
goroutine starts, goes live or fails, ends, finishes its file, and only then
answers. `clear` frees the current session, whichever that is by then. Two flags
are chosen at the start and never change: `serial`, that clients wait for an
answer before they ask again, and `prompt`, that recorders finish within the 30 s
and 10 s that handlers and shutdown wait. Without `prompt` a timer may fire at any
moment; with it only when the session was not told to stop, or for a response
somebody else received: a handler whose session nobody stopped waits for something that
may never come, and its timer is what ends the wait (`MayExpire`).

`OneRecording` knows the recordings that use the device, the number of the last one
and whether the daemon is up. Its promise has a condition, `orderly`, which
`OneAtATime` in `MCComponents` maps to `serial /\ prompt`: with prompt recorders alone
`recorder_overlap` shows that it is broken.

### DaemonLifecycle

Daemon d is the d-th process started and d its pid. The shared directory is
three variables: the daemon whose listener the socket path names, the pid file,
and the maker of the lock directory. A client's `pc` follows EnsureRunning line
by line: each file operation, dial and poll is a step of its own, so that all
interleavings of processes are there. Writing the pid file takes two steps, as
`os.WriteFile` truncates first. `peer` and `reply` are a client's connection:
queued in the listener's backlog, accepted, answered or lost. Run's steps are
check, remove, listen, write the pid file, serve, close, drain, unlink, unlink.

What the code's time limits do not foresee is a *mishap*, and the run allows a
bounded number of kinds of them: a client is killed, a replacement outlasts
`spawnLockStale`, a daemon is slow to start or to exit, a request outlasts the
drain, a crash, a daemon started by hand. Two more are only noted, whenever they
happen: a client that finds no pid file of a daemon that listens, and a daemon whose
exit removes the path by which another listens (`NotePid`, `NoteTaken`). Properties say
under which mishaps they hold. Time does not exist otherwise: an idle daemon may exit at
any moment (DaemonBusy is Recorder's subject), and pids are not reused.

### DeviceCache

A request is a command on a device, or a listing. Its `todo` says what it does next:
look into the cache, scan the local platforms, ask the fleet, cache what it chose,
talk to the device, note what it did. Between two steps other requests and the
devices themselves move on; `req` is what the request has in hand, the scan's
result (`seen`) included, however old that is. The choice among the devices of a
scan is local and part of the step before it. A scan makes an object for each
device it sees, and all but the one that is put into the cache are garbage, so
an object gets its identity in `CacheDevice`: a copy number of its device, free
again when no request, cache entry or connection refers to it.

`service` is the iOS 17+ connection of an object: nil, open, or stale after its
device went away. `held` is the daemon's record of overrides, keyed by the id
in the request (`NoId` for none). `missed` is history: devices that once were not
online, or that a scan did not report since their platform failed. `serial`,
chosen at the start, says that clients set and clear overrides one at a time.

### StreamSessions

A viewer is one HTTP request for `/sessions/{id}/stream` or `/logs`; its `pc` lies
between GetSession, MarkInUse, the streaming call and RemoveSession, of which the
first two take the manager's mutex one after the other. The call has a connection
of its own: `toDaemon` and `toClient` are the frames under way, `closed` the viewers
whose client hung up. The handler in the daemon reads its request and looks for a cancel only
afterwards; `handleConn` reads the request through a buffered reader and drops it,
so that a cancel which came in the same read is lost (`swallowed`). The
client gives a cancelled call a grace of a minute (`Grace`). A crash ends all
handlers. `admitted` is history.

`StreamTickets` has neither calls nor connections: a ticket is offered, claimed by one
viewer, and spent; at most so many count against the limit. `OneEach` in `MCComponents`
maps a ticket that is unknown to the manager to new or spent, and whom it serves to the
viewer that holds it (`TicketLife`, `TicketServed`).

### WebSocket, FlutterVM

`WebSocket` is one connection: the reader, which takes a slot or refuses the message,
the handlers (dispatch, reply, release), the pings, and one write error after which every write
fails. `FlutterVM` is one dump: a goroutine for each render object (`step`), each
with a call that passes the check for a dead connection, takes a slot,
registers, writes, waits, and is answered, refused, timed out or failed by the
read loop. `cut` is history: the nodes whose children or place were lost since a call heard of
the dead connection or could not be written to it.

### AndroidServer, IosAgent

In `AndroidServer` processes of one or several builds send requests to the
one server a device can have; each process remembers its forward and has its own
`serverMu`. Finding, pushing, killing, launching and waiting are steps of
their own, as adb calls are. The server may die at any moment, may be slow (its
work is done although nobody waits any more), and may miss the 300 ms of
`isAgentReady` while it is busy. `IosAgent` numbers tunnel loops, test
runners and forwarders as they are made; the fields of the device hold such
numbers. A goroutine's deferred cleanup is a step that happens after anything else may have,
which is what the hazards are about; the hooks run against requests that are under way.

### Procedures, tables, Operations

What one request does on its device is straight-line code with many failures. A
procedure is a sequence of items: check, ask, change, take and drop (a temporary file, process,
connection, forward), defer a drop, start the agent, use it, choose, try. `AndroidOps` and
its siblings give each device method of the Go interface its procedure, `CommandOps` gives each
command one for a device record `d`, `ServerOps` adds the handlers' own checks. The names are the
source's, and a call in the source is a call here. A device of the fleet gives the platform and
type that the service lists (`Kinds`), so that a command which asks for them treats it as
Android, as a real iOS device, as a simulator or as something else. `Operations` executes one
request: every step succeeds or fails, a failure unwinds to whoever handles it, and deferred
drops run at the end.

### MCComponents

Recorder and the modules from StreamSessions on share no state: what one does
to another is a call that the caller's module has as a choice. Their product would
multiply their states and show nothing, so a behaviour picks one component (`part`) and
the others stay where they start. The properties read "if this is the component
that runs". `MCDevices` does the same for the hub and the cache.

## 3. Runs

| Run | Result | Shows | Bounds |
|---|---|---|---|
| `devices` | pass, 2.2 M states | TypeOK, NoLostWakeup, OneLiveSource, TeardownIsUnwatched, NoOrphanSource, LateJoinerDecodes, NoStaleBytes, TruncationIsReported, refinement of SharedStream; OneInstanceWhileSeen, OverrideIsReachable, BusyWhileHeld | hub: 2 clients, 3 calls, queue of 2, parameter sets alone; cache: 2 requests at a time (any number in a row), an iOS 17+ phone, a rented device, 2 objects of each, 1 mishap |
| `avchub_live` | pass | CancelReturns, WaitersAreReleased, IdleHubLetsGo | 2 clients, 2 calls, queue of 1, parameter sets with the key frame |
| `avchub_ready` | violation | ReadyHasKeyFrame | 2 clients, 2 calls |
| `components_safety` | pass, 1.0 M states | TypeOK, OneViewerPerClaim, CancelGetsResult, SlotsAreHandlers, RepeatedOnlyAfterDeath, ShutdownStopsEverything, NobodyIsStuck, AgentBeforeUse, NothingLeftBehind, FailedLeavesDevice, refinement of OneRecording and StreamTickets (Promises) | 2 handlers, 2 recordings; 2 viewers, 2 tickets with a limit of 1, a crash; 3 messages, 2 slots; 3 nodes, 1 slot; 2 requests in 1 or 2 processes, 2 forwards, a death; 2 callers, 2 loops, 1 runner, 3 forwarders; every method on every class |
| `components_live` | pass, 52 k states | ManagedIfSerial, NoExitMidFile, EveryCallAnswered, StopTakesEffect, StreamsEnd, RequestsAreAnswered, WalkEnds | 2 handlers, 2 recordings; 1 viewer, 2 tickets; 2 messages, 1 slot; 2 nodes, 1 slot |
| `flutter_thin` | violation | ThinTreeIsReported | 3 nodes, 1 slot |
| `mock_location` | violation | SetHasItsAppop | 1 request, 1 process |
| `recorder_overlap` | violation | NoOverlap | 2 handlers, 3 sessions |
| `daemon` | pass, 1.3 M states | TypeOK, OneInside, OneServes, SocketKept, EnsuredVersion, AcceptedIsAnswered | 2 clients, 2 versions, 2 commands, 2 daemons, 1 kind of mishap |
| `daemon_pid` | violation | ReplacesOnlyOtherVersions | as before, no mishap |
| `cache_evict` | violation | OneInstance | as in `devices` |
| `location_overlap` | violation | HeldKeepsBusy | as in `devices` |

**Are the bounds enough?** The hub's hazards need a capture that leaves while
another arrives, and a third call that meets the new source: two goroutines and
three calls. A queue of two overflows and also does not. The recorder's need two
requests for one session and a session after it. The daemon's need a client
that cleans up or replaces while another looks, and the daemon that follows; with
three commands the same properties hold on 7.4 M states (about 4 minutes).
The cache's need two requests and one device that comes, goes or is missed by a
scan; the number of requests in a row is not bounded. The run has no emulator, so
offline local devices occur only as a clause of `Reported`.
Two viewers meet on one ticket, and a limit of one is reached by the second ticket.
Three messages fill two handler slots and find them busy; a dump needs a root with
two children and fewer slots than goroutines. Two requests to the Android server
share a process or not, so that one restarts the server, or forgets its port,
under the other. Two callers on an iOS device race for the
forwarder; the second tunnel loop follows one whose first update failed. With two
test runners as well the properties hold on 1.4 M states of that component
alone, more than the run has time for. Methods run alone, and every one of them runs.
What these bounds leave open, for the properties that have a theorem, the proofs
close.

**Deadlock** is not checked by TLC's option: every behaviour may end, when the commands, calls,
messages or sessions of its bound are used up, or the process has stopped. What TLC would
call a deadlock and the code would call hanging is stated instead: NoLostWakeup and
NobodyIsStuck say that whoever waits waits for a step that can be taken, and the
liveness properties that it is taken.

**Fairness.** `AvcHub`: weak fairness of every client's own steps and of a
source's reader goroutine, of the scheduler's fairness to goroutines and of calls that
return; none for cancelling, emitting or dying, which are the environment's.
`Recorder`: weak fairness of handlers (their timers included), of a recorder that
has started, was stopped or is writing its file, and of the shutdown under way. A
recording nobody stops may go on for ever, and the properties do not claim
otherwise. That a stopped recording ends rests on the hub hearing its stop channel
(`watchStop`) even when no chunk arrives. `MCComponents`: the same for Recorder, and
weak fairness of a viewer's HTTP handler, of the AfterFunc that sends the
cancel, of the timer of the grace and of the daemon's handler; of the WebSocket's reader and
of each handler; of the goroutines of a dump, whose calls all have a time-out. Clients,
devices, deaths and crashes are bound to nothing.

## 4. Findings

* `avchub_ready` – a late joiner is reported ready although it never got a key
  frame (`devices/avc_hub.go:472`): `finishLocked` closes the channel that
  `awaitFirstChunk` takes for the arrival of the first chunk. The comment at
  `:124` and the message in `avc_hub_test.go:633` say otherwise.
* `recorder_overlap` – `clear()` (`server/recording.go:65`) frees whatever
  session is current, and two handlers may clear for one recording. A start waits for
  recording 1 to be ready and a stop for it to be done when its recorder fails to start. The
  start's handler hears of that and clears; a new start makes recording 2 current; the
  stop's handler, once it has the response of recording 1, clears as well and frees recording 2;
  recording 3 then starts beside it. No timer expires in that trace. (Two stops of one
  recording lead to the same: `Done` holds one response, so the second stop times out and
  then clears.)
* `flutter_thin` – a dump reports a tree without a node that it lost. A request that
  cannot be written to the dead connection (`devices/android_flutter.go:261`) fails like any
  other: only the read loop sets `fatal`. `childrenOf` and `globalRect` take it for a render
  object without children or without a place, and if the walk ends before the read loop
  has noticed, the last look at `fatal` (`:495`) finds nothing. The comments at `:220` and
  `:622` say that this does not happen. If the connection is heard of through the
  read loop, the dump fails as it should.
* `daemon_pid` – between listening and writing its pid file a daemon looks like
  one of another version (`daemon/ensure.go:46`, `daemon/server.go:79-91`): a
  second client of the same version shuts it down.
* `cache_evict` – a listing evicts objects that requests use
  (`commands/devices.go:34`): it counts as complete although a local platform
  failed, or it scanned before the device came. The next request drives the device
  through a second object, with its own mutexes, hub and location connection,
  against the comment at `commands/commands.go:199-202`. For a device that every
  scan saw, OneInstanceWhileSeen holds.
* `location_overlap` – the device call and the bookkeeping of an override are two
  steps (`commands/location.go:92`, `:110`): clear stops the old override, set starts
  another and stores the id, clear deletes the id. The override lives and the
  daemon may idle out, which ends it. BusyWhileHeld holds for clients that set and
  clear one at a time. Conversely a set without an id and a clear with one leave an
  entry that keeps the daemon alive for good.

* `mock_location` – `startMockLocation` (`devices/android_location.go:80`) grants the
  appop and then asks the server to set the location. If no server of this build
  runs, the call starts one, and `startDeviceServer` sets the appop back to its default
  (`android_device_server.go:88`). MockLocation runs without what it requires
  (`agents/android/java/MockLocation.java:20`).

Smaller observations, made while modelling. They are in the models, either as what may
happen or as the exceptions that a property names (`Leaks`, `Leftovers` in
`Operations`):

* HTTP: the write deadline (10 s by default) is shorter than the 60 s that a call
  of the daemon may take, so a slow method that is not on the list of
  `server/server.go:283-290` reaches its client as a closed connection.
* Streams: a cancel that is read together with its request is lost with the buffered reader of
  `handleConn` (`daemon/server.go:192`); the call then ends by its grace.
* WebSocket: the slot is released after the reply, so that a client with four
  outstanding requests at most can still be refused.
* Android: the forward of a server that died stays; a server that is busy for 300 ms is
  killed by the next process; a forward of one process may lead to the server of another build.
* Android methods: ScreenRecord leaves the file on the device if the pull fails;
  PushFile leaves the file in `/data/local/tmp` if the package name is missing.
* iOS: two concurrent StartAgents may each make an agent forwarder, and one is lost
  (`raced`); forwards to the injected agent are never stopped; web view calls register no
  hook; a failed `deviceWithRsdProvider` is returned as an empty device without an error.
* AgentInstall uninstalls the old agent before it checks the provisioning profile. On a device of
  the fleet, which it treats as the platform that the service names, an agent that was
  installed but does not show up in time stays there although the command failed.
* ApplySettings keeps the settings made before one that failed.
* A simulator's ScreenRecord drops the exit status of simctl; its agent client is
  written without a lock; Unzip leaves its directory when it fails.
* Remote: a failed download leaves a partial file, a failed recording is not stopped,
  FleetAllocate leaves its session when the device never comes.
* `handleScreenCapture` of `server/server.go` is called by tests only.

The conditions in the daemon's properties are observations of the same kind:

* OneInside fails when a client that replaces another version for longer than 10 s
  has its lock broken by a waiting one (`ensure.go:78`), or when a client died.
* OneServes and SocketKept fail when versions are mixed, for a leaving daemon removes the
  socket path and the pid file of its successor (`server.go:118`).
* For the same reason EnsuredVersion fails without `NoneEvicted`, although nothing
  else goes wrong: an idle daemon of v1 stops listening and drains; a client of v2
  starts its own; the first daemon's exit removes the second's path; a client of v1
  finds nobody there and starts a third; and while that one takes the socket, the second, slow to
  do so, writes its pid file. A client of v2 now finds its version there and reports success,
  while what listens is of v1. Two clients, four commands, three daemons and no
  mishap show it, in 56 steps; the `daemon` run's two daemons do not. It
  was met in the proof, where the invariant without `NoneEvicted` is not inductive.

## 5. Proofs

The theorems hold for every value of the constants: any number of clients,
sources, daemons, commands, versions, devices, requests, viewers, nodes, ports and
crashes. What they assume of the constants are the named assumptions of the
modules, which TLC evaluates on each run: numbers are numbers, `None` is no process, a
queue holds at least one chunk. Those that say something about the system are

* `IsTree` in `FlutterAssumption`: the render objects are a finite tree. `visit`
  keeps no set of the nodes it has seen; the VM service reports a tree.
* one class of iOS caller that streams at a time (`IosAssumption`): the hub starts one
  source (SingleSource).
* `SetsTogether`, a hypothesis of **LateJoinersDecode** alone: no chunk has an SPS without a
  PPS. Without it the theorem is false (`devices/avc_hub.go:328` resets on an
  SPS); the devices are seen to send both.

Every theorem but five is `Spec => []Inv`, by an inductive invariant that says more than the
property; each step lemma has one case per action, and under it one step per conjunct the
action can disturb. The five are an action property, three implementations of an abstract
specification, and the conjunction of two of these. The invariants were checked by TLC before they were
proved, those of the daemon with two clients, two versions, four commands and three daemons
(1.7 M states) and with three clients, three commands and three daemons (2.7 M).

* `AvcHubProofs`: **TypeCorrect**; **HubInvariant**, the inductive invariant `IInv`.
  That one source is live does not follow from itself: it needs who is starting
  and who is stopping (`Starters`, `Stoppers`: at most one client, or the reader
  inside `publish`, and never both kinds), that the hub's marks name exactly
  that one (`OneMark`, `MarkOwner`), that an epoch which ended is gone
  (`EndedIsGone`), and that whoever found the source without viewers takes it
  with it (`SomebodyDetaches`). **SingleSource**, **UnwatchedTeardown** and
  **NobodyLeavesASourceRunning** follow from it in one step each. What viewers are
  handed needs more (`DInv`): a client that starts or waits has no bytes yet, a hub
  with viewers has a source, a joiner without bytes waits, and a dropped one carries
  its error through every way out. **OnlyCurrentBytes** and **DroppedIsAnError**
  follow; **LateJoinersDecode** adds that the cached tail which ends in a parameter
  set holds both. **ImplementsSharedStream** is the refinement: each of the hub's
  steps is one of `SharedStream`'s or a stutter, with `IInv` for the steps that open
  or close a source. **EveryWaiterHasAWaker** (NoLostWakeup) is the safety half of
  WaitersAreReleased: `Wakers` are the channels that a starting or stopping goroutine
  has yet to close; a client that waits does so on one of them or on a closed one, since the
  hub's marks name their owner (`MarkOwner`), and no step takes a channel out of `Wakers` without
  waking those who wait on it (`StillWoken`). A hub is reserved only for such a goroutine.
* `DaemonLifecycleProofs`: **TypeCorrect**; **LockInvariant**: unless a client died
  or its lock grew old, the lock names the client inside EnsureRunning, no client is
  about to break it, and a client that replaces a daemon stays inside throughout
  Shutdown. **SpawnsAreSerial** (OneInside) is its consequence.
  **UpInvariant** is about daemons that start or serve: within the time limits, and
  unless an exit evicted another daemon, one at most is up; it has the path once
  it listens; while it starts its client awaits it inside; a client cleans up when none is
  up; the pid file is empty or of the version of the daemon that is up, unless its client is about to
  write it; a client at its release with success has its own version up. From that
  **SuccessIsOwnVersion** (EnsuredVersion). **OneVersionInvariant** is about all that live,
  also while they drain: among clients of one version there is one, its pid file
  stays until its exit, and a client that found no pid file of its version finds
  nothing left to replace. So nobody is evicted, and **OneDaemonServes** and
  **ServersKeepTheirSocket** need no such proviso. **NoneIsDropped** is the action property
  AcceptedIsAnswered: a daemon past its drain with requests left was kept waiting.
* `DeviceCacheProofs`: **TypeCorrect**, **SteadyDeviceHasOneInstance**,
  **SteadyOverrideIsReachable**, **NotedWhileOpen**. The invariant `Knows` says what a request may
  hold at each step: the scan in its hand saw every device that every scan saw,
  unless its listing asked for less, and then it evicts nothing. `Noted` says that an open
  connection of such a device has its id noted, or a request that is about to note
  it, and that whoever is about to clear the note has closed the connection.
* `RecorderProofs`, in `ComponentsProofs` **RunningIsCurrent** and **ExitAfterRecording**: `Once`
  ties what a recorder's channels hold to how far it got; `InTurn` is what clients that wait for
  answers and prompt recorders add: one handler at a time is busy, it is about the current
  session, and when it clears that session its recorder is over. With it **ImplementsOneRecording**: `StartRecording`
  is the step that begins a recording, the end of the file or a failed start the one that
  ends it, and the exit of the daemon is the abstract exit; every other step is a stutter
  (`RecordingSteps`).
* `StreamSessionsProofs`: **TicketAdmitsOneViewer**, **GivesUpOnlyIfSwallowed**. `Claims`: a
  free ticket admitted nobody, and one in use is held by the one viewer it
  admitted, which is between MarkInUse and RemoveSession.
  `CallOf` lists, for each place of a call, what may be under way in each direction
  and where the handler is. **ImplementsStreamTickets** needs `Claims` for the step that
  claims, which must find a ticket nobody was served with, and the finiteness of the set of
  tickets for the limit: AddSession is `Offer`, with those it sweeps as the lapsed ones, MarkInUse
  is `Claim`, RemoveSession is `Release` (`MintOffers`, `MarkClaims`, `RemoveReleases`).
  **PromisesKept** puts the two refinements together as the run has them.
* **NoneWaitsInVain** (NobodyIsStuck) is what the liveness properties rest on besides fairness,
  for any number of everything. `Recorder`: a handler that waits for an answer has it in the
  channel, or a recorder that is bound to answer, or its timer. `StreamSessions`
  (`HungUp`): the stream of a viewer that left has a step left in the client, on the
  wire or in the daemon, or the grace. `FlutterVM` (`Begun`): nodes wait for their children only,
  and a node that waits has begun all of them, so that in a finite tree some goroutine
  can go on. `WebSocket`: a message is in the inbox until it is read, and one whose handling is
  over was answered or the connection broke (`MessagesKept`). `IosAgent`: whoever keeps the device's
  mutex across a call is at a place it leaves by releasing it (`LockHolder`). TLC confirmed for
  the instances that the guards written out there (`CanRun`, `Handles`, ...) hold only where
  the actions are enabled; that is ENABLED, and not proved.
* `WebSocket`: **NoSlotIsLost**, with the messages in the inbox being distinct and not
  yet handled.
* `FlutterVMProofs`: the invariant under **NoneWaitsInVain** and **ComponentsTyped** for a dump.
  `LostIsFatal`: whoever hears of the dead connection from the read loop does so after
  `failAll`; `Walk`: a node is visited while its parent
  waits for it, so that the walk cannot have ended; induction over the tree is replaced
  by the set of nodes that nobody visits, which would have to hold the root (`IsTree`).
* `AndroidServerProofs`: **NoRepeatWithoutDeath**. `Attempts` counts what took effect
  and what is bound to: a second attempt is made only after a death under the first.
* `IosAgent`: **HooksStopTheDevice**. Numbers given to loops, runners and forwarders
  only grow. Until the hooks get to them, a loop that runs is the one `updateCtx` names,
  a runner the one `deviceKitCancel` names, and an open forwarder one of the three the device
  has, one in the hand of its caller, or one lost to a concurrent start (`AgentKnown`);
  the two forwarders of a stream are open together, or their caller is between them
  (`StreamPair`).
* **ComponentsTyped**: the type invariant of all components. For a request
  of `Operations` it says that the stack of calls is empty exactly when the request has ended,
  for any method table.

**Only model-checked**

* Liveness, with its fairness, and ENABLED: out of the prover's reach. What is proved of it is that
  nobody waits in vain (EveryWaiterHasAWaker, NoneWaitsInVain).
* AgentBeforeUse, NothingLeftBehind and FailedLeavesDevice of `Operations`: they say of the
  concrete tables what their procedures do, which call each other to any depth. A proof
  would be an induction over those tables, which are data. TLC runs every method on every
  class of device with every failure, so that for these three the run is exhaustive, up to the
  choices and repetitions the tables themselves contain.

## 6. What is not modelled

* Failures of the file system and of exec in EnsureRunning and Run; the daemon's
  log; pid reuse.
* Data: coordinates, texts, images, view trees, file contents, the bytes of the
  protocols to adb, lldb, the web inspector and usbmuxd, frames beyond NAL unit
  kinds; an encoder that repeats only one of its parameter sets with a key frame.
  What is parsed out of an answer is a choice of what the code goes on to tell apart.
* A step that fails in Operations is taken as not having happened, and a removal that
  fails as one that was tried. AndroidServer and StreamSessions have the calls
  whose outcome is unknown.
* Methods run one at a time in Operations. What concurrent methods share is in the
  modules of its own: cache, overrides, Android server, iOS agent, hub, recorder, VM
  client.
* progressReader's stall timer (`devices/remote.go:475`) and the splitting of a log
  stream into lines: byte buffers of one goroutine or two.
* AVC to MP4 conversion, and the filters of log streams: sequential algorithms, next
  in the plan.
* CLI flag parsing, output, OAuth and the keychain; HTTP routes and CORS; `adb.go`, which
  nothing calls; the on-device agents, whose side of a request is external.
* That a device unplugged for good leaves the cache at the next complete listing is
  one assignment (`Evict`) and not stated as a property.

## 7. Plan

1. `AccessUnits`, `LogLines` – pure algorithms: grouping and time stamps of
   samples against a reference definition; reassembly of lines from fragments; log
   filters.
2. An abstract specification of the device cache (a map from ids to objects), and that
   `DeviceCache` implements it for devices that every scan saw.
3. A run of the daemon with three daemons, if the state space can be reduced: it
   would show that EnsuredVersion needs its proviso.
