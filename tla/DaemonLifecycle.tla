--------------------------- MODULE DaemonLifecycle ---------------------------
(***************************************************************************)
(* The background daemon and the processes that start, use and stop it:    *)
(* daemon/ensure.go (spawn lock, stale files, replacing another version),  *)
(* daemon/client.go (calls, Shutdown), daemon/server.go (Run).  What they  *)
(* share is the directory ~/.mobilecli: a socket path, a pid file, a lock. *)
(* Daemon d is the d-th process started, and d its pid; 0 stands for none. *)
(***************************************************************************)
EXTENDS Naturals, FiniteSets

CONSTANTS
    Client,      \* command invocations that may run at the same time
    Version,     \* builds of mobilecli installed side by side
    NoOne, Dead, \* who made the spawn lock, if no client that still runs
    MaxCommands, \* bound: commands run in a behaviour
    MaxDaemons,  \* bound: daemon processes started
    MaxMishaps   \* bound: kinds of mishap in one behaviour

ASSUME DaemonAssumption ==
    /\ MaxDaemons \in Nat /\ MaxCommands \in Nat /\ MaxMishaps \in Nat
    /\ NoOne \notin Client /\ Dead \notin Client /\ NoOne # Dead
    /\ "none" \notin Version

Daemon == 1..MaxDaemons

VARIABLES
    \* the directory
    socket,   \* the daemon whose listener the socket path names
    pidFile,  \* the pid file
    lock,     \* who made the lock directory
    lockAge,  \* whether it is older than spawnLockStale
    \* the clients
    pc, version, commands,
    result,    \* what EnsureRunning is about to return
    target,    \* the process Shutdown waits for
    replacing, \* the clients that stop another version's daemon
    peer, reply, \* a client's connection, and how far its request got
    \* the daemons
    state, build, asked,
    \* history: what happened that the code's time limits do not foresee
    mishaps

directory == <<socket, pidFile, lock, lockAge>>
clients == <<pc, result, target, replacing>>
bounds == <<version, commands>>
wire == <<peer, reply>>
daemons == <<state, build, asked>>
vars == <<directory, clients, bounds, wire, daemons, mishaps>>

Mishap == {"clientDied", "slowReplacement", "slowStart", "slowExit", "slowRequest",
           "crash", "startedByHand", "pidUnreadable", "socketTaken"}

PC == {"idle", "lock", "break", "check", "readPid", "another", "clean", "cleanSocket",
       "spawn", "tearPid", "writePid", "await", "release", "dial", "call",
       "stop", "ask", "asking", "gone", "exit", "stopped"}

Starting == {"check", "clear", "listen", "tearPid", "writePid"}
Listening == {"tearPid", "writePid", "serving"}
Leaving == {"draining", "unlink", "unlinkPid"}

NoPid == [pid |-> 0, version |-> "none"]

TypeOK ==
    /\ socket \in 0..MaxDaemons
    /\ pidFile \in [pid : 0..MaxDaemons, version : Version \union {"none"}]
    /\ lock \in Client \union {NoOne, Dead} /\ lockAge \in {"young", "old"}
    /\ pc \in [Client -> PC] /\ version \in [Client -> Version]
    /\ commands \in 0..MaxCommands
    /\ result \in [Client -> {"ok", "error"}]
    /\ target \in [Client -> 0..MaxDaemons]
    /\ replacing \subseteq Client
    /\ peer \in [Client -> 0..MaxDaemons]
    /\ reply \in [Client -> {"none", "queued", "accepted", "answered", "lost"}]
    /\ \A c \in Client : pc[c] \in {"call", "asking"} <=> peer[c] # 0
    /\ state \in [Daemon -> Starting \union Leaving
                            \union {"unborn", "serving", "exited", "crashed"}]
    /\ build \in [Daemon -> Version \union {"none"}]
    /\ asked \subseteq Daemon
    /\ mishaps \subseteq Mishap

Init ==
    /\ socket = 0 /\ pidFile = NoPid /\ lock = NoOne /\ lockAge = "young"
    /\ pc = [c \in Client |-> "idle"] /\ version \in [Client -> Version]
    /\ commands = 0
    /\ result = [c \in Client |-> "error"] /\ target = [c \in Client |-> 0]
    /\ replacing = {}
    /\ peer = [c \in Client |-> 0] /\ reply = [c \in Client |-> "none"]
    /\ state = [d \in Daemon |-> "unborn"] /\ build = [d \in Daemon |-> "none"]
    /\ asked = {}
    /\ mishaps = {}

\* A dial succeeds when the path names a listener that is open.
Reachable == socket # 0 /\ state[socket] \in Listening

Alive(d) == d # 0 /\ state[d] \notin {"unborn", "exited", "crashed"}

Goto(c, label) == pc' = [pc EXCEPT ![c] = label]
Happens(m) ==
    /\ m \notin mishaps /\ Cardinality(mishaps) < MaxMishaps
    /\ mishaps' = mishaps \union {m}
NotePid == mishaps' = IF pidFile = NoPid /\ Reachable THEN mishaps \union {"pidUnreadable"}
                                                     ELSE mishaps
NoteTaken == mishaps' = IF Reachable THEN mishaps \union {"socketTaken"} ELSE mishaps
HappensIf(condition, m) == IF condition THEN Happens(m) ELSE UNCHANGED mishaps

\* A step of client c that does nothing but go on.
GoOn(c, from, to) ==
    /\ pc[c] = from
    /\ Goto(c, to)
    /\ UNCHANGED <<directory, result, target, replacing, bounds, wire, daemons, mishaps>>

-------------------------------------------------------------------------------
(* EnsureRunning: the spawn lock *)

Command(c) ==
    /\ pc[c] = "idle" /\ commands < MaxCommands
    /\ commands' = commands + 1
    /\ Goto(c, "lock")
    /\ UNCHANGED <<directory, result, target, replacing, version, wire, daemons, mishaps>>

\* mkdir succeeds.
LockIgnored == TRUE  \* fault: an existing lock is not noticed
LockIsFree == lock = NoOne

Acquire(c) ==
    /\ pc[c] = "lock" /\ LockIsFree
    /\ lock' = c /\ lockAge' = "young"
    /\ Goto(c, "check")
    /\ UNCHANGED <<socket, pidFile, result, target, replacing, bounds, wire, daemons, mishaps>>

\* The lock grows older than spawnLockStale: its maker died, or is a client that
\* waits for another version's daemon to go and for its own to come.
LockAges ==
    /\ lockAge = "young" /\ (lock = Dead \/ lock \in replacing)
    /\ lockAge' = "old"
    /\ HappensIf(lock # Dead, "slowReplacement")
    /\ UNCHANGED <<socket, pidFile, lock, clients, bounds, wire, daemons>>

\* stat says it is stale ...
SeeStale(c) == lock # NoOne /\ lockAge = "old" /\ GoOn(c, "lock", "break")

\* ... and whatever lock is there by now is removed.
RemoveLock == lock' = NoOne /\ lockAge' = "young"

Break(c) ==
    /\ pc[c] = "break"
    /\ RemoveLock
    /\ Goto(c, "lock")
    /\ UNCHANGED <<socket, pidFile, result, target, replacing, bounds, wire, daemons, mishaps>>

\* It stays taken for as long as this client may wait.
LockTimeout(c) == lock # NoOne /\ GoOn(c, "lock", "idle")

\* release, whoever made the lock that is there by now; on success the command
\* goes on to its call.
Release(c) ==
    /\ pc[c] = "release"
    /\ RemoveLock
    /\ replacing' = replacing \ {c}
    /\ target' = [target EXCEPT ![c] = 0]
    /\ Goto(c, IF result[c] = "ok" THEN "dial" ELSE "idle")
    /\ result' = [result EXCEPT ![c] = "error"]
    /\ UNCHANGED <<socket, pidFile, bounds, wire, daemons, mishaps>>

\* EnsureRunning is about to return.
Leave(c, how) ==
    /\ result' = [result EXCEPT ![c] = how]
    /\ Goto(c, "release")

-------------------------------------------------------------------------------
(* EnsureRunning: what runs, and what is left of what ran *)

Check(c) == GoOn(c, "check", IF Reachable THEN "readPid" ELSE "another")

\* Something listens: it is of this version by the pid file, or is replaced.
AnyVersion(c) == pidFile # NoPid  \* fault: a daemon of another version will do
PidFileMatches(c) == pidFile.version = version[c]

ReadPid(c) ==
    /\ pc[c] = "readPid"
    /\ IF PidFileMatches(c)
       THEN Leave(c, "ok") /\ UNCHANGED replacing
       ELSE Goto(c, "stop") /\ replacing' = replacing \union {c} /\ UNCHANGED result
    /\ NotePid
    /\ UNCHANGED <<directory, target, bounds, wire, daemons>>

\* Nothing listens: a process of this version is on its way, or what is left is
\* removed.
NoneOnItsWay(c) == FALSE  \* fault: the pid file is not looked at
StartedByAnother(c) == pidFile.version = version[c] /\ Alive(pidFile.pid)

Another(c) == GoOn(c, "another", IF StartedByAnother(c) THEN "await" ELSE "clean")

\* cleanStale
CleanPid(c) ==
    /\ pc[c] = "clean"
    /\ pidFile' = NoPid
    /\ Goto(c, "cleanSocket")
    /\ UNCHANGED <<socket, lock, lockAge, result, target, replacing, bounds,
                   wire, daemons, mishaps>>

CleanSocket(c) ==
    /\ pc[c] = "cleanSocket"
    /\ socket' = 0
    /\ Goto(c, "spawn")
    /\ UNCHANGED <<pidFile, lock, lockAge, result, target, replacing, bounds,
                   wire, daemons, mishaps>>

-------------------------------------------------------------------------------
(* EnsureRunning: spawn *)

NextPid == 1 + Cardinality({d \in Daemon : state[d] # "unborn"})

\* A process of build v comes to life.
Birth(v) ==
    /\ NextPid \in Daemon
    /\ state' = [state EXCEPT ![NextPid] = "check"]
    /\ build' = [build EXCEPT ![NextPid] = v]
    /\ UNCHANGED asked

Spawn(c) ==
    /\ pc[c] = "spawn"
    /\ Birth(version[c])
    /\ target' = [target EXCEPT ![c] = NextPid]
    /\ Goto(c, "tearPid")
    /\ UNCHANGED <<directory, result, replacing, bounds, wire, mishaps>>

\* The provisional pid: the file is truncated, then written.
TearPid(c) ==
    /\ pc[c] = "tearPid"
    /\ pidFile' = NoPid
    /\ Goto(c, "writePid")
    /\ UNCHANGED <<socket, lock, lockAge, result, target, replacing, bounds,
                   wire, daemons, mishaps>>

WritePid(c) ==
    /\ pc[c] = "writePid"
    /\ pidFile' = [pid |-> target[c], version |-> version[c]]
    /\ Goto(c, "await")
    /\ UNCHANGED <<socket, lock, lockAge, result, target, replacing, bounds,
                   wire, daemons, mishaps>>

\* WaitForSocket: something listens ...
SocketUp(c) ==
    /\ pc[c] = "await" /\ Reachable
    /\ Leave(c, "ok")
    /\ UNCHANGED <<directory, target, replacing, bounds, wire, daemons, mishaps>>

\* ... or nothing did for startTimeout: a slow start, or none is under way.
AwaitTimeout(c) ==
    /\ pc[c] = "await" /\ ~Reachable
    /\ Leave(c, "error")
    /\ HappensIf(\E d \in Daemon : state[d] \in Starting, "slowStart")
    /\ UNCHANGED <<directory, target, replacing, bounds, wire, daemons>>

-------------------------------------------------------------------------------
(* Calls, and Shutdown: by `daemon stop`, by auth commands, by EnsureRunning *)

StopCommand(c) ==
    /\ pc[c] = "idle" /\ commands < MaxCommands
    /\ commands' = commands + 1
    /\ Goto(c, "stop")
    /\ UNCHANGED <<directory, result, target, replacing, version, wire, daemons, mishaps>>

\* The process to wait for is the one the pid file names before the request.
ReadTarget(c) ==
    /\ pc[c] = "stop"
    /\ target' = [target EXCEPT ![c] = pidFile.pid]
    /\ Goto(c, "ask")
    /\ NotePid
    /\ UNCHANGED <<directory, result, replacing, bounds, wire, daemons>>

\* Where a client goes when Shutdown returns: on with EnsureRunning, or home.
EndStop(c, how) ==
    IF c \in replacing
    THEN /\ IF how = "ok" THEN Goto(c, "spawn") /\ UNCHANGED result ELSE Leave(c, "error")
         /\ UNCHANGED target
    ELSE Goto(c, "idle") /\ target' = [target EXCEPT ![c] = 0] /\ UNCHANGED result

\* dial, and the request; the connection waits to be accepted.
Dial(c) ==
    /\ pc[c] \in {"dial", "ask"} /\ Reachable
    /\ peer' = [peer EXCEPT ![c] = socket]
    /\ reply' = [reply EXCEPT ![c] = "queued"]
    /\ Goto(c, IF pc[c] = "dial" THEN "call" ELSE "asking")
    /\ UNCHANGED <<directory, result, target, replacing, bounds, daemons, mishaps>>

\* ErrNotRunning.
DialFails(c) ==
    /\ pc[c] \in {"dial", "ask"} /\ ~Reachable
    /\ IF pc[c] = "ask" THEN EndStop(c, "error")
                        ELSE Goto(c, "idle") /\ UNCHANGED <<result, target>>
    /\ UNCHANGED <<directory, replacing, bounds, wire, daemons, mishaps>>

\* The response, or the end of the connection without one.
StayConnected(c) == UNCHANGED <<peer, reply>>  \* fault: the connection is not closed
HangUp(c) == peer' = [peer EXCEPT ![c] = 0] /\ reply' = [reply EXCEPT ![c] = "none"]

CallReturns(c) ==
    /\ pc[c] = "call" /\ reply[c] \in {"answered", "lost"}
    /\ HangUp(c)
    /\ Goto(c, "idle")
    /\ UNCHANGED <<directory, result, target, replacing, bounds, daemons, mishaps>>

ShutdownAnswered(c) ==
    /\ pc[c] = "asking" /\ reply[c] = "answered"
    /\ HangUp(c)
    /\ Goto(c, "gone")
    /\ UNCHANGED <<directory, result, target, replacing, bounds, daemons, mishaps>>

ShutdownFails(c) ==
    /\ pc[c] = "asking" /\ reply[c] = "lost"
    /\ HangUp(c)
    /\ EndStop(c, "error")
    /\ UNCHANGED <<directory, replacing, bounds, daemons, mishaps>>

\* waitForSocketGone
SocketGone(c) == ~Reachable /\ GoOn(c, "gone", "exit")

SocketStays(c) ==
    /\ pc[c] = "gone" /\ Reachable
    /\ EndStop(c, "error")
    /\ Happens("slowExit")
    /\ UNCHANGED <<directory, replacing, bounds, wire, daemons>>

\* pollUntil the process is gone, if the pid file named one.
WaitsForExit(c) == Alive(target[c])

ProcessGone(c) ==
    /\ pc[c] = "exit" /\ ~WaitsForExit(c)
    /\ EndStop(c, "ok")
    /\ UNCHANGED <<directory, replacing, bounds, wire, daemons, mishaps>>

ProcessStays(c) ==
    /\ pc[c] = "exit" /\ WaitsForExit(c)
    /\ EndStop(c, "error")
    /\ Happens("slowExit")
    /\ UNCHANGED <<directory, replacing, bounds, wire, daemons>>

\* A client is killed, whatever it was about to do; its lock stays.
Die(c) ==
    /\ pc[c] # "idle"
    /\ Goto(c, "idle")
    /\ HangUp(c)
    /\ lock' = IF lock = c THEN Dead ELSE lock
    /\ result' = [result EXCEPT ![c] = "error"]
    /\ target' = [target EXCEPT ![c] = 0]
    /\ replacing' = replacing \ {c}
    /\ Happens("clientDied")
    /\ UNCHANGED <<socket, pidFile, lockAge, bounds, daemons>>

-------------------------------------------------------------------------------
(* Run: a daemon's life *)

\* `mobilecli daemon start` in the foreground takes no lock.
StartByHand(v) ==
    /\ Birth(v)
    /\ Happens("startedByHand")
    /\ UNCHANGED <<directory, clients, bounds, wire>>

Become(d, next) == state' = [state EXCEPT ![d] = next] /\ UNCHANGED <<build, asked>>

\* "never steal the socket from a live daemon"
SomebodyListens(d) == Reachable

RunCheck(d) ==
    /\ state[d] = "check"
    /\ Become(d, IF SomebodyListens(d) THEN "exited" ELSE "clear")
    /\ UNCHANGED <<directory, clients, bounds, wire, mishaps>>

RunClear(d) ==
    /\ state[d] = "clear"
    /\ socket' = 0
    /\ Become(d, "listen")
    /\ UNCHANGED <<pidFile, lock, lockAge, clients, bounds, wire, mishaps>>

\* Listen fails when a socket file is in its way.
RunListen(d) ==
    /\ state[d] = "listen"
    /\ IF socket = 0 THEN socket' = d /\ Become(d, "tearPid")
                     ELSE Become(d, "exited") /\ UNCHANGED socket
    /\ UNCHANGED <<pidFile, lock, lockAge, clients, bounds, wire, mishaps>>

RunTearPid(d) ==
    /\ state[d] = "tearPid"
    /\ pidFile' = NoPid
    /\ Become(d, "writePid")
    /\ UNCHANGED <<socket, lock, lockAge, clients, bounds, wire, mishaps>>

RunWritePid(d) ==
    /\ state[d] = "writePid"
    /\ pidFile' = [pid |-> d, version |-> build[d]]
    /\ Become(d, "serving")
    /\ UNCHANGED <<socket, lock, lockAge, clients, bounds, wire, mishaps>>

\* acceptLoop takes the next connection: its request is in flight.
Accept(d, c) ==
    /\ state[d] = "serving" /\ peer[c] = d /\ reply[c] = "queued"
    /\ reply' = [reply EXCEPT ![c] = "accepted"]
    /\ UNCHANGED <<directory, clients, bounds, peer, daemons, mishaps>>

InFlight(d) == {c \in Client : peer[c] = d /\ reply[c] = "accepted"}

\* A handler finishes; daemon.shutdown is heeded once it was answered.
Answer(d, c) ==
    /\ Alive(d) /\ c \in InFlight(d)
    /\ reply' = [reply EXCEPT ![c] = "answered"]
    /\ asked' = IF pc[c] = "asking" THEN asked \union {d} ELSE asked
    /\ UNCHANGED <<directory, clients, bounds, peer, state, build, mishaps>>

\* watchIdle
IsIdle(d) == InFlight(d) = {}

WatchIdle(d) ==
    /\ state[d] = "serving" /\ d \notin asked /\ IsIdle(d)
    /\ asked' = asked \union {d}
    /\ UNCHANGED <<directory, clients, bounds, wire, state, build, mishaps>>

\* SIGTERM or Ctrl+C.
Signal(d) ==
    /\ state[d] = "serving" /\ d \notin asked
    /\ asked' = asked \union {d}
    /\ UNCHANGED <<directory, clients, bounds, wire, state, build, mishaps>>

Lose(S) == reply' = [c \in Client |-> IF c \in S THEN "lost" ELSE reply[c]] /\ UNCHANGED peer

\* ln.Close unlinks the path, and resets connections that were not accepted.
CloseListener(d) ==
    /\ state[d] = "serving" /\ d \in asked
    /\ socket' = 0
    /\ Lose({c \in Client : peer[c] = d /\ reply[c] = "queued"})
    /\ Become(d, "draining")
    /\ UNCHANGED <<pidFile, lock, lockAge, clients, bounds, mishaps>>

\* waitInflight: the requests in flight are answered, or took too long.
NoDrain(d) == TRUE  \* fault: they are not waited for
Drained(d) == InFlight(d) = {}

Drain(d) ==
    /\ state[d] = "draining" /\ Drained(d)
    /\ Become(d, "unlink")
    /\ UNCHANGED <<directory, clients, bounds, wire, mishaps>>

DrainTimeout(d) ==
    /\ state[d] = "draining" /\ InFlight(d) # {}
    /\ Become(d, "unlink")
    /\ Happens("slowRequest")
    /\ UNCHANGED <<directory, clients, bounds, wire>>

\* After OnShutdown the path goes, whatever it names by now ...
UnlinkSocket(d) ==
    /\ state[d] = "unlink"
    /\ socket' = 0
    /\ Become(d, "unlinkPid")
    /\ NoteTaken
    /\ UNCHANGED <<pidFile, lock, lockAge, clients, bounds, wire>>

\* ... the pid file, whomever it names, and with the process its connections.
UnlinkPid(d) ==
    /\ state[d] = "unlinkPid"
    /\ pidFile' = NoPid
    /\ Lose(InFlight(d))
    /\ Become(d, "exited")
    /\ UNCHANGED <<socket, lock, lockAge, clients, bounds, mishaps>>

Crash(d) ==
    /\ Alive(d)
    /\ Become(d, "crashed")
    /\ Lose({c \in Client : peer[c] = d /\ reply[c] \in {"queued", "accepted"}})
    /\ Happens("crash")
    /\ UNCHANGED <<directory, clients, bounds>>

-------------------------------------------------------------------------------

ClientStep(c) ==
    \/ Acquire(c) \/ SeeStale(c) \/ Break(c) \/ LockTimeout(c) \/ Release(c)
    \/ Check(c) \/ ReadPid(c) \/ Another(c) \/ CleanPid(c) \/ CleanSocket(c)
    \/ Spawn(c) \/ TearPid(c) \/ WritePid(c) \/ SocketUp(c) \/ AwaitTimeout(c)
    \/ ReadTarget(c) \/ Dial(c) \/ DialFails(c) \/ CallReturns(c)
    \/ ShutdownAnswered(c) \/ ShutdownFails(c) \/ SocketGone(c) \/ SocketStays(c)
    \/ ProcessGone(c) \/ ProcessStays(c)

DaemonStep(d) ==
    \/ RunCheck(d) \/ RunClear(d) \/ RunListen(d) \/ RunTearPid(d) \/ RunWritePid(d)
    \/ CloseListener(d) \/ Drain(d) \/ DrainTimeout(d) \/ UnlinkSocket(d) \/ UnlinkPid(d)

Next ==
    \/ \E c \in Client : Command(c) \/ StopCommand(c) \/ ClientStep(c) \/ Die(c)
    \/ LockAges
    \/ \E d \in Daemon : DaemonStep(d) \/ WatchIdle(d) \/ Signal(d) \/ Crash(d)
    \/ \E d \in Daemon, c \in Client : Accept(d, c) \/ Answer(d, c)
    \/ \E v \in Version : StartByHand(v)

Spec == Init /\ [][Next]_vars

-------------------------------------------------------------------------------
(* Properties *)

\* Nothing happened that the spawn lock's time limits, and readers of the pid
\* file, do not allow for.
Orderly ==
    mishaps \intersect {"clientDied", "slowReplacement", "slowStart",
                        "startedByHand", "pidUnreadable"} = {}

\* The clients between acquiring the spawn lock and releasing it.
Outside == {"idle", "lock", "break", "dial", "call", "stop", "ask", "asking", "gone", "exit"}
Inside == {c \in Client : c \in replacing \/ pc[c] \notin Outside}

\* EnsureRunning: "the check below and the spawn it may lead to must not
\* interleave across clients"; they do not, unless the lock outlived its holder
\* or was taken for that of a dead client.
OneInside ==
    mishaps \intersect {"clientDied", "slowReplacement"} = {} => \A c, d \in Inside : c = d

\* The inductive invariant behind it: as long as every lock is removed by its
\* maker only, the client inside is the one that made the lock.
LockIsHeld ==
    /\ \A c \in replacing : pc[c] \notin {"idle", "lock", "break", "dial", "call"}
    /\ mishaps \intersect {"clientDied", "slowReplacement"} = {} =>
          /\ lock # Dead /\ lockAge = "young"
          /\ \A c \in Client : pc[c] # "break"
          /\ \A c \in Inside : lock = c

SameVersion == \A c, d \in Client : version[c] = version[d]
Serving == {d \in Daemon : state[d] = "serving" /\ d \notin asked}

\* However commands of one version, exits and crashes of daemons interleave,
\* never do two daemons serve: both would drive the same devices.
OneServes == SameVersion /\ Orderly => \A d, e \in Serving : d = e

\* Run: "never steal the socket from a live daemon". No client's cleanup and no
\* other daemon's exit takes the path away from a daemon that serves.
SocketKept == SameVersion /\ Orderly => \A d \in Serving : socket = d

\* No daemon, on its way out, removed the path by which another one listened: with
\* builds side by side one may be draining while the next is already up.
NoneEvicted == "socketTaken" \notin mishaps

\* EnsureRunning "makes sure a daemon of exactly `version` is listening": what
\* listens when it is about to report success is of the client's version.
EnsuredVersion ==
    Orderly /\ NoneEvicted =>
            \A c \in Client : pc[c] = "release" /\ result[c] = "ok" /\ Reachable
                                    => build[socket] = version[c]

\* A request that a daemon accepted is answered, also when the daemon idles out
\* or is stopped meanwhile, unless it outlasts the grace period or the daemon.
AcceptedIsAnswered ==
    [][\A c \in Client : reply[c] = "accepted" /\ reply'[c] = "lost"
                            => mishaps' \intersect {"crash", "slowRequest"} # {}]_vars

\* EnsureRunning "replaces a daemon of a different version", and no other: when
\* a client sets out to stop the daemon, one of another version was started.
ReplacesOnlyOtherVersions ==
    \A c \in replacing : \E d \in Daemon : build[d] \notin {"none", version[c]}
===============================================================================
