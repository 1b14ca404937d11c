------------------------- MODULE DaemonLifecycleProofs -------------------------
(* Theorems about DaemonLifecycle, for any number of clients and daemons. *)
EXTENDS DaemonLifecycle, TLAPS

\* What is noted is a mishap.
LEMMA MishapType ==
  ASSUME TypeOK, NEW m \in Mishap, Happens(m) \/ UNCHANGED mishaps \/ NotePid
  PROVE  mishaps' \subseteq Mishap
<1>0. mishaps \subseteq Mishap
  BY DEF TypeOK
<1>1. CASE Happens(m)
  BY <1>0, <1>1 DEF Happens
<1>2. CASE NotePid
  BY <1>0, <1>2 DEF NotePid, Mishap
<1>. QED
  BY <1>0, <1>1, <1>2

\* A step that only moves client c on, and what it remembers.
LEMMA OnlyClientMoves ==
  ASSUME TypeOK, NEW c \in Client, UNCHANGED <<directory, bounds, wire, daemons>>,
         NEW label \in PC, pc' = [pc EXCEPT ![c] = label],
         pc[c] \notin {"call", "asking"}, label \notin {"call", "asking"},
         result' \in [Client -> {"ok", "error"}], target' \in [Client -> 0..MaxDaemons],
         replacing' \subseteq Client, mishaps' \subseteq Mishap
  PROVE  TypeOK'
<1>1. pc' \in [Client -> PC]
  BY DEF TypeOK
<1>2. \A d \in Client : pc'[d] \in {"call", "asking"} <=> peer'[d] # 0
  BY DEF TypeOK, wire
<1>. QED
  BY <1>1, <1>2 DEF TypeOK, directory, bounds, wire, daemons

\* Shutdown's return leaves the client idle or still inside EnsureRunning.
LEMMA EndStopType ==
  ASSUME TypeOK, NEW c \in Client, NEW how \in {"ok", "error"}, EndStop(c, how)
  PROVE  /\ \E label \in {"spawn", "release", "idle"} : pc' = [pc EXCEPT ![c] = label]
         /\ result' \in [Client -> {"ok", "error"}]
         /\ target' \in [Client -> 0..MaxDaemons]
<1>1. CASE c \in replacing
  BY <1>1 DEF EndStop, Leave, Goto, TypeOK
<1>2. CASE c \notin replacing
  BY <1>2, DaemonAssumption DEF EndStop, Goto, TypeOK
<1>. QED
  BY <1>1, <1>2

\* Reading the pid file leads back to the command or on to Shutdown.
LEMMA ReadPidType ==
  ASSUME TypeOK, NEW c \in Client, ReadPid(c)
  PROVE  TypeOK'
<1>1. pc[c] = "readPid" /\ NotePid /\ UNCHANGED <<directory, target, bounds, wire, daemons>>
  BY DEF ReadPid
<1>2. "crash" \in Mishap /\ "release" \in PC /\ "stop" \in PC
  BY DEF Mishap, PC
<1>3. mishaps' \subseteq Mishap
  BY <1>1, <1>2, MishapType
<1>4. target' \in [Client -> 0..MaxDaemons]
  BY <1>1 DEF TypeOK
<1>5. CASE PidFileMatches(c)
  <2>1. /\ pc' = [pc EXCEPT ![c] = "release"] /\ UNCHANGED replacing
        /\ result' = [result EXCEPT ![c] = "ok"]
    BY <1>5 DEF ReadPid, Leave, Goto
  <2>2. result' \in [Client -> {"ok", "error"}] /\ replacing' \subseteq Client
    BY <2>1 DEF TypeOK
  <2>. QED
    BY <1>1, <1>2, <1>3, <1>4, <2>1, <2>2, OnlyClientMoves
<1>6. CASE ~PidFileMatches(c)
  <2>1. /\ pc' = [pc EXCEPT ![c] = "stop"] /\ UNCHANGED result
        /\ replacing' = replacing \union {c}
    BY <1>6 DEF ReadPid, Goto
  <2>2. result' \in [Client -> {"ok", "error"}] /\ replacing' \subseteq Client
    BY <2>1 DEF TypeOK
  <2>. QED
    BY <1>1, <1>2, <1>3, <1>4, <2>1, <2>2, OnlyClientMoves
<1>. QED
  BY <1>5, <1>6

\* A dial that fails ends the call, or the attempt to stop the daemon.
LEMMA DialFailsType ==
  ASSUME TypeOK, NEW c \in Client, DialFails(c)
  PROVE  TypeOK'
<1>1. /\ pc[c] \notin {"call", "asking"}
      /\ UNCHANGED <<directory, replacing, bounds, wire, daemons, mishaps>>
  BY DEF DialFails
<1>2. replacing' \subseteq Client /\ mishaps' \subseteq Mishap
  BY <1>1 DEF TypeOK
<1>3. {"idle", "spawn", "release"} \subseteq PC
  BY DEF PC
<1>4. CASE pc[c] = "ask"
  <2>1. EndStop(c, "error")
    BY <1>4 DEF DialFails
  <2>2. PICK label \in {"spawn", "release", "idle"} : pc' = [pc EXCEPT ![c] = label]
    BY <2>1, EndStopType
  <2>3. label \in PC /\ label \notin {"call", "asking"}
    BY <1>3
  <2>4. result' \in [Client -> {"ok", "error"}] /\ target' \in [Client -> 0..MaxDaemons]
    BY <2>1, EndStopType
  <2>. QED
    BY <1>1, <1>2, <2>2, <2>3, <2>4, OnlyClientMoves
<1>5. CASE pc[c] = "dial"
  <2>1. pc' = [pc EXCEPT ![c] = "idle"] /\ UNCHANGED <<result, target>>
    BY <1>5 DEF DialFails, Goto
  <2>2. result' \in [Client -> {"ok", "error"}] /\ target' \in [Client -> 0..MaxDaemons]
    BY <2>1 DEF TypeOK
  <2>. QED
    BY <1>1, <1>2, <1>3, <2>1, <2>2, OnlyClientMoves
<1>. QED
  BY <1>4, <1>5 DEF DialFails

\* Every step of a client keeps every variable in its type.
LEMMA ClientStepType ==
  ASSUME TypeOK, NEW c \in Client, Command(c) \/ StopCommand(c) \/ ClientStep(c) \/ Die(c)
  PROVE  TypeOK'
<1> USE DaemonAssumption
    DEF TypeOK, PC, Mishap, NoPid, Starting, Leaving, Daemon, Goto, GoOn,
        RemoveLock, directory, clients, bounds, wire, daemons
<1>1. CASE Command(c)
  BY <1>1 DEF Command
<1>2. CASE StopCommand(c)
  BY <1>2 DEF StopCommand
<1>3. CASE Acquire(c)
  BY <1>3 DEF Acquire, LockIsFree
<1>4. CASE SeeStale(c)
  BY <1>4 DEF SeeStale, LockIsFree
<1>5. CASE Break(c)
  BY <1>5 DEF Break, LockIsFree
<1>6. CASE LockTimeout(c)
  BY <1>6 DEF LockTimeout, LockIsFree
<1>7. CASE Release(c)
  BY <1>7 DEF Release, LockIsFree
<1>8. CASE Check(c)
  BY <1>8 DEF Check
<1>9. CASE ReadPid(c)
  BY <1>9, ReadPidType
<1>10. CASE Another(c)
  BY <1>10 DEF Another
<1>11. CASE CleanPid(c)
  <2>1. pidFile' \in [pid : 0..MaxDaemons, version : Version \union {"none"}]
    BY <1>11 DEF CleanPid
  <2>. QED
    BY <1>11, <2>1 DEF CleanPid
<1>12. CASE CleanSocket(c)
  BY <1>12 DEF CleanSocket
<1>13. CASE Spawn(c)
  BY <1>13 DEF Spawn, Birth
<1>14. CASE TearPid(c)
  BY <1>14 DEF TearPid
<1>15. CASE WritePid(c)
  BY <1>15 DEF WritePid
<1>16. CASE SocketUp(c)
  BY <1>16 DEF SocketUp, Leave
<1>17. CASE AwaitTimeout(c)
  <2>1. mishaps' \subseteq Mishap
    BY <1>17, MishapType, "slowStart" \in Mishap DEF AwaitTimeout, HappensIf
  <2>. QED
    BY <1>17, <2>1, OnlyClientMoves, "release" \in PC DEF AwaitTimeout, Leave
<1>18. CASE ReadTarget(c)
  <2>1. mishaps' \subseteq Mishap
    BY <1>18, MishapType, "crash" \in Mishap DEF ReadTarget
  <2>. QED
    BY <1>18, <2>1 DEF ReadTarget
<1>19. CASE Dial(c)
  BY <1>19 DEF Dial, Reachable
<1>20. CASE DialFails(c)
  BY <1>20, DialFailsType
<1>21. CASE SocketGone(c)
  BY <1>21 DEF SocketGone
<1>22. CASE SocketStays(c)
  <2>1. mishaps' \subseteq Mishap
    BY <1>22, MishapType, "slowExit" \in Mishap DEF SocketStays
  <2>2. PICK label \in {"spawn", "release", "idle"} : pc' = [pc EXCEPT ![c] = label]
    BY <1>22, EndStopType DEF SocketStays
  <2>. QED
    BY <1>22, <2>1, <2>2, EndStopType, OnlyClientMoves, label \in PC DEF SocketStays
<1>23. CASE ProcessGone(c)
  <2>1. PICK label \in {"spawn", "release", "idle"} : pc' = [pc EXCEPT ![c] = label]
    BY <1>23, EndStopType DEF ProcessGone
  <2>. QED
    BY <1>23, <2>1, EndStopType, OnlyClientMoves, label \in PC DEF ProcessGone
<1>24. CASE ProcessStays(c)
  <2>1. mishaps' \subseteq Mishap
    BY <1>24, MishapType, "slowExit" \in Mishap DEF ProcessStays
  <2>2. PICK label \in {"spawn", "release", "idle"} : pc' = [pc EXCEPT ![c] = label]
    BY <1>24, EndStopType DEF ProcessStays
  <2>. QED
    BY <1>24, <2>1, <2>2, EndStopType, OnlyClientMoves, label \in PC DEF ProcessStays
<1>25. CASE CallReturns(c)
  BY <1>25 DEF CallReturns, HangUp
<1>26. CASE ShutdownAnswered(c)
  BY <1>26 DEF ShutdownAnswered, HangUp
<1>27. CASE ShutdownFails(c)
  <2>1. EndStop(c, "error") /\ pc[c] = "asking" /\ HangUp(c)
        /\ UNCHANGED <<directory, replacing, bounds, daemons, mishaps>>
    BY <1>27 DEF ShutdownFails
  <2>2. PICK label \in {"spawn", "release", "idle"} : pc' = [pc EXCEPT ![c] = label]
    BY <2>1, EndStopType
  <2>3. result' \in [Client -> {"ok", "error"}] /\ target' \in [Client -> 0..MaxDaemons]
    BY <2>1, EndStopType
  <2>4. pc' \in [Client -> PC]
    BY <2>2
  <2>5. peer' \in [Client -> 0..MaxDaemons]
        /\ reply' \in [Client -> {"none", "queued", "accepted", "answered", "lost"}]
    BY <2>1 DEF HangUp
  <2>6. \A b \in Client : pc'[b] \in {"call", "asking"} <=> peer'[b] # 0
    BY <2>1, <2>2 DEF HangUp
  <2>. QED
    BY <2>1, <2>3, <2>4, <2>5, <2>6
<1>28. CASE Die(c)
  <2>1. mishaps' \subseteq Mishap
    BY <1>28, MishapType, "clientDied" \in Mishap DEF Die
  <2>. QED
    BY <1>28, <2>1 DEF Die, HangUp
<1>. QED
  BY <1>1, <1>2, <1>3, <1>4, <1>5, <1>6, <1>7, <1>8, <1>9, <1>10, <1>11, <1>12, <1>13,
     <1>14, <1>15, <1>16, <1>17, <1>18, <1>19, <1>20, <1>21, <1>22, <1>23, <1>24, <1>25,
     <1>26, <1>27, <1>28 DEF ClientStep

\* Listening names the daemon in the socket path, or ends it.
LEMMA RunListenType ==
  ASSUME TypeOK, NEW d \in Daemon, RunListen(d)
  PROVE  TypeOK'
<1>1. UNCHANGED <<pidFile, lock, lockAge, clients, bounds, wire, mishaps, build, asked>>
  BY DEF RunListen, Become
<1>2. socket' \in 0..MaxDaemons
  BY DaemonAssumption DEF RunListen, TypeOK, Daemon
<1>3. PICK next \in {"tearPid", "exited"} : state' = [state EXCEPT ![d] = next]
  BY DEF RunListen, Become
<1>4. state' \in [Daemon -> Starting \union Leaving
                              \union {"unborn", "serving", "exited", "crashed"}]
  BY <1>3 DEF TypeOK, Starting
<1>. QED
  BY <1>1, <1>2, <1>4 DEF TypeOK, clients, bounds, wire

\* So does every step of a daemon, and of its connections.
LEMMA DaemonStepType ==
  ASSUME TypeOK, NEW d \in Daemon,
         \/ DaemonStep(d) \/ WatchIdle(d) \/ Signal(d) \/ Crash(d)
         \/ \E c \in Client : Accept(d, c) \/ Answer(d, c)
  PROVE  TypeOK'
<1> USE DaemonAssumption
    DEF TypeOK, PC, Mishap, NoPid, Starting, Leaving, Daemon, Become, Happens, Lose,
        directory, clients, bounds, wire, daemons
<1>1. CASE RunCheck(d)
  BY <1>1 DEF RunCheck
<1>2. CASE RunClear(d)
  BY <1>2 DEF RunClear
<1>3. CASE RunListen(d)
  BY <1>3, RunListenType
<1>4. CASE RunTearPid(d)
  BY <1>4 DEF RunTearPid
<1>5. CASE RunWritePid(d)
  BY <1>5 DEF RunWritePid
<1>6. CASE CloseListener(d)
  BY <1>6 DEF CloseListener
<1>7. CASE UnlinkPid(d)
  BY <1>7 DEF UnlinkPid
<1>8. CASE Drain(d)
  BY <1>8 DEF Drain
<1>9. CASE DrainTimeout(d)
  BY <1>9 DEF DrainTimeout
<1>10. CASE UnlinkSocket(d)
  BY <1>10 DEF UnlinkSocket, NoteTaken
<1>11. CASE WatchIdle(d)
  BY <1>11 DEF WatchIdle
<1>12. CASE Signal(d)
  BY <1>12 DEF Signal
<1>13. CASE Crash(d)
  BY <1>13 DEF Crash
<1>14. CASE \E c \in Client : Accept(d, c) \/ Answer(d, c)
  <2>1. ASSUME NEW c \in Client, Accept(d, c) PROVE TypeOK'
    BY <2>1 DEF Accept
  <2>2. ASSUME NEW c \in Client, Answer(d, c) PROVE TypeOK'
    BY <2>2 DEF Answer
  <2>. QED
    BY <1>14, <2>1, <2>2
<1>. QED
  BY <1>1, <1>2, <1>3, <1>4, <1>5, <1>6, <1>7, <1>8, <1>9, <1>10, <1>11, <1>12, <1>13,
     <1>14 DEF DaemonStep

\* TypeOK holds throughout: the directory, the clients' and the daemons' steps,
\* and a connection exists exactly while a client waits for a response.
THEOREM TypeCorrect == Spec => []TypeOK
<1>1. Init => TypeOK
  BY DaemonAssumption DEF Init, TypeOK, PC, NoPid, Starting, Leaving, Mishap
<1>2. TypeOK /\ [Next]_vars => TypeOK'
  <2> SUFFICES ASSUME TypeOK, [Next]_vars PROVE TypeOK'
    OBVIOUS
  <2>1. ASSUME NEW c \in Client, Command(c) \/ StopCommand(c) \/ ClientStep(c) \/ Die(c)
        PROVE  TypeOK'
    BY <2>1, ClientStepType
  <2>2. ASSUME NEW d \in Daemon,
               \/ DaemonStep(d) \/ WatchIdle(d) \/ Signal(d) \/ Crash(d)
               \/ \E c \in Client : Accept(d, c) \/ Answer(d, c)
        PROVE  TypeOK'
    BY <2>2, DaemonStepType
  <2>3. CASE LockAges
    BY <2>3 DEF LockAges, TypeOK, Happens, HappensIf, Mishap, clients, bounds, wire, daemons
  <2>4. ASSUME NEW v \in Version, StartByHand(v)
        PROVE  TypeOK'
    BY <2>4 DEF StartByHand, Birth, TypeOK, Happens, Mishap, Starting, Daemon,
                directory, clients, bounds, wire
  <2>5. CASE UNCHANGED vars
    BY <2>5 DEF vars, TypeOK, directory, clients, bounds, wire, daemons
  <2>. QED
    BY <2>1, <2>2, <2>3, <2>4, <2>5 DEF Next
<1>. QED
  BY <1>1, <1>2, PTL DEF Spec

-------------------------------------------------------------------------------
(* The spawn lock *)

\* A step of a client leaves the lock with the client that is inside.
LEMMA ClientKeepsLock ==
  ASSUME TypeOK, LockIsHeld, NEW c \in Client,
         Command(c) \/ StopCommand(c) \/ ClientStep(c) \/ Die(c)
  PROVE  LockIsHeld'
<1> USE DaemonAssumption
    DEF TypeOK, LockIsHeld, Inside, Outside, Goto, Happens, HappensIf, GoOn, RemoveLock,
        directory, clients, bounds, wire, daemons
<1>1. CASE Command(c) \/ StopCommand(c)
  BY <1>1 DEF Command, StopCommand
<1>2. CASE Acquire(c) \/ SeeStale(c) \/ Break(c) \/ LockTimeout(c) \/ Release(c)
  BY <1>2 DEF Acquire, LockIsFree, SeeStale, Break, LockTimeout, Release
<1>3. CASE Check(c) \/ ReadPid(c) \/ Another(c) \/ CleanPid(c) \/ CleanSocket(c)
  BY <1>3 DEF Check, ReadPid, NotePid, Leave, Another, CleanPid, CleanSocket
<1>4. CASE Spawn(c) \/ TearPid(c) \/ WritePid(c) \/ SocketUp(c) \/ AwaitTimeout(c)
  BY <1>4 DEF Spawn, TearPid, WritePid, SocketUp, AwaitTimeout, Leave
<1>5. CASE ReadTarget(c) \/ Dial(c) \/ DialFails(c) \/ CallReturns(c)
  BY <1>5 DEF ReadTarget, NotePid, Dial, DialFails, CallReturns, EndStop, Leave
<1>6. CASE ShutdownAnswered(c) \/ ShutdownFails(c) \/ SocketGone(c) \/ SocketStays(c)
  BY <1>6 DEF ShutdownAnswered, ShutdownFails, SocketGone, SocketStays, EndStop, Leave
<1>7. CASE ProcessGone(c) \/ ProcessStays(c)
  BY <1>7 DEF ProcessGone, ProcessStays, EndStop, Leave
<1>8. CASE Die(c)
  BY <1>8 DEF Die
<1>. QED
  BY <1>1, <1>2, <1>3, <1>4, <1>5, <1>6, <1>7, <1>8 DEF ClientStep

\* Daemons know nothing of the lock.
LEMMA DaemonKeepsLock ==
  ASSUME LockIsHeld, NEW d \in Daemon,
         \/ DaemonStep(d) \/ WatchIdle(d) \/ Signal(d) \/ Crash(d)
         \/ \E c \in Client : Accept(d, c) \/ Answer(d, c)
  PROVE  LockIsHeld'
<1>1. /\ UNCHANGED <<lock, lockAge, pc, replacing>>
      /\ mishaps \subseteq mishaps'
  BY DEF DaemonStep, RunCheck, RunClear, RunListen, RunTearPid, RunWritePid, CloseListener,
         Drain, DrainTimeout, UnlinkSocket, UnlinkPid, WatchIdle, Signal, Crash, Accept, Answer,
         Happens, NoteTaken, directory, clients
<1>. QED
  BY <1>1 DEF LockIsHeld, Inside, Outside

\* LockIsHeld holds throughout: the lock names the client that is inside.
THEOREM LockInvariant == Spec => []LockIsHeld
<1>1. Init => LockIsHeld
  BY DaemonAssumption DEF Init, LockIsHeld, Inside, Outside
<1>2. TypeOK /\ LockIsHeld /\ [Next]_vars => LockIsHeld'
  <2> SUFFICES ASSUME TypeOK, LockIsHeld, [Next]_vars PROVE LockIsHeld'
    OBVIOUS
  <2>1. ASSUME NEW c \in Client, Command(c) \/ StopCommand(c) \/ ClientStep(c) \/ Die(c)
        PROVE  LockIsHeld'
    BY <2>1, ClientKeepsLock
  <2>2. ASSUME NEW d \in Daemon,
               \/ DaemonStep(d) \/ WatchIdle(d) \/ Signal(d) \/ Crash(d)
               \/ \E c \in Client : Accept(d, c) \/ Answer(d, c)
        PROVE  LockIsHeld'
    BY <2>2, DaemonKeepsLock
  <2>3. CASE LockAges
    BY <2>3 DEF LockAges, LockIsHeld, Inside, Outside, Happens, HappensIf, clients
  <2>4. ASSUME NEW v \in Version, StartByHand(v)
        PROVE  LockIsHeld'
    BY <2>4 DEF StartByHand, LockIsHeld, Inside, Outside, Happens, directory, clients
  <2>5. CASE UNCHANGED vars
    BY <2>5 DEF vars, LockIsHeld, Inside, Outside, directory, clients
  <2>. QED
    BY <2>1, <2>2, <2>3, <2>4, <2>5 DEF Next
<1>. QED
  BY <1>1, <1>2, TypeCorrect, PTL DEF Spec

\* EnsureRunning's check and spawn do not interleave across clients, for any
\* number of them, as long as no client dies inside and none replaces a daemon
\* for longer than spawnLockStale.
THEOREM SpawnsAreSerial == Spec => []OneInside
<1>1. LockIsHeld => OneInside
  BY DEF LockIsHeld, OneInside
<1>. QED
  BY <1>1, LockInvariant, PTL

-------------------------------------------------------------------------------
(* One daemon at a time *)

\* The daemons that have the socket path, or are on their way to it.
Up == {d \in Daemon : state[d] \in Starting \union {"serving"}}
Spawning == {"tearPid", "writePid", "await"}

OneUp == \A d, e \in Up : d = e
UpHasThePath == \A d \in Daemon : state[d] \in Listening => socket = d
\* Whoever does not listen yet is awaited by the client that spawned it.
StartIsAwaited ==
  \A d \in Daemon : state[d] \in {"check", "clear", "listen"} =>
     \E c \in Client : pc[c] \in Spawning /\ target[c] = d
\* A client that found nobody listening, or saw the listener go, may clean up.
NoneUpToClean ==
  \A c \in Client :
     (\/ pc[c] \in {"another", "clean", "cleanSocket", "spawn"}
      \/ c \in replacing /\ pc[c] = "exit") => Up = {}
OwnDaemon ==
  \A c \in Client : pc[c] \in Spawning =>
     \A d \in Up : target[c] = d /\ build[d] = version[c]
\* The pid file's version is that of the daemon that is up, or torn, or about
\* to be replaced by the client that spawned it.
PidOfUp ==
  \A d \in Up : \/ pidFile.version \in {"none", build[d]}
                \/ \E c \in Client : pc[c] = "tearPid"
OkIsOwnVersion ==
  \A c \in Client : pc[c] = "release" /\ result[c] = "ok" =>
     \A d \in Up : build[d] = version[c]

UpParts ==
  /\ OneUp /\ UpHasThePath /\ StartIsAwaited /\ NoneUpToClean
  /\ OwnDaemon /\ PidOfUp /\ OkIsOwnVersion

Quiet == Orderly /\ NoneEvicted
UpIInv == Quiet => UpParts

\* What was noted stays noted.
LEMMA MishapsStay ==
  ASSUME [Next]_vars
  PROVE  mishaps \subseteq mishaps'
<1> USE DEF Happens, HappensIf, NotePid, NoteTaken, GoOn
<1>1. ASSUME NEW c \in Client, Command(c) \/ StopCommand(c) \/ ClientStep(c) \/ Die(c)
      PROVE  mishaps \subseteq mishaps'
  BY <1>1 DEF Command, StopCommand, ClientStep, Die, Acquire, SeeStale, Break, LockTimeout,
              Release, Check, ReadPid, Another, CleanPid, CleanSocket, Spawn, TearPid,
              WritePid, SocketUp, AwaitTimeout, ReadTarget, Dial, DialFails, CallReturns,
              ShutdownAnswered, ShutdownFails, SocketGone, SocketStays, ProcessGone,
              ProcessStays
<1>2. ASSUME NEW d \in Daemon,
             \/ DaemonStep(d) \/ WatchIdle(d) \/ Signal(d) \/ Crash(d)
             \/ \E c \in Client : Accept(d, c) \/ Answer(d, c)
      PROVE  mishaps \subseteq mishaps'
  BY <1>2 DEF DaemonStep, RunCheck, RunClear, RunListen, RunTearPid, RunWritePid,
              CloseListener, Drain, DrainTimeout, UnlinkSocket, UnlinkPid, WatchIdle,
              Signal, Crash, Accept, Answer
<1>. QED
  BY <1>1, <1>2 DEF Next, LockAges, StartByHand, vars

\* Nobody listens, and no client but one that is not spawning is inside: then no
\* daemon is up.
LEMMA NobodyUp ==
  ASSUME TypeOK, UpHasThePath, StartIsAwaited, ~Reachable,
         NEW c \in Inside, \A b \in Inside : b = c, pc[c] \notin Spawning
  PROVE  Up = {}
<1> SUFFICES ASSUME NEW d \in Up PROVE FALSE
  OBVIOUS
<1>1. CASE state[d] \in Listening
  <2>1. socket = d /\ d # 0
    BY <1>1 DEF UpHasThePath, Up, Daemon
  <2>. QED
    BY <1>1, <2>1 DEF Reachable
<1>2. CASE state[d] \in {"check", "clear", "listen"}
  <2>1. PICK b \in Client : pc[b] \in Spawning
    BY <1>2 DEF StartIsAwaited, Up
  <2>2. b \in Inside
    BY <2>1 DEF Inside, Outside, Spawning
  <2>. QED
    BY <2>1, <2>2
<1>. QED
  BY <1>1, <1>2 DEF Up, Starting, Listening

\* Nothing in the model changes the version of an installed client.
LEMMA VersionStays ==
  ASSUME [Next]_vars
  PROVE  UNCHANGED version
<1>1. ASSUME NEW c \in Client, Command(c) \/ StopCommand(c) \/ ClientStep(c) \/ Die(c)
      PROVE  UNCHANGED version
  BY <1>1 DEF Command, StopCommand, ClientStep, Die, Acquire, SeeStale, Break, LockTimeout,
              Release, Check, ReadPid, Another, CleanPid, CleanSocket, Spawn, TearPid,
              WritePid, SocketUp, AwaitTimeout, ReadTarget, Dial, DialFails, CallReturns,
              ShutdownAnswered, ShutdownFails, SocketGone, SocketStays, ProcessGone,
              ProcessStays, GoOn, bounds
<1>2. ASSUME NEW d \in Daemon,
             \/ DaemonStep(d) \/ WatchIdle(d) \/ Signal(d) \/ Crash(d)
             \/ \E c \in Client : Accept(d, c) \/ Answer(d, c)
      PROVE  UNCHANGED version
  BY <1>2 DEF DaemonStep, RunCheck, RunClear, RunListen, RunTearPid, RunWritePid,
              CloseListener, Drain, DrainTimeout, UnlinkSocket, UnlinkPid, WatchIdle,
              Signal, Crash, Accept, Answer, bounds
<1>. QED
  BY <1>1, <1>2 DEF Next, LockAges, StartByHand, vars, bounds

\* A step of a client keeps the parts, as long as nothing untoward is noted.
LEMMA ClientKeepsUp ==
  ASSUME TypeOK, LockIsHeld, UpParts, Quiet, Quiet', NEW c \in Client,
         Command(c) \/ StopCommand(c) \/ ClientStep(c) \/ Die(c)
  PROVE  UpParts'
<1>1. \A b \in Inside : lock = b
  BY DEF LockIsHeld, Quiet, Orderly
<1>2. \A b \in Client : pc[b] \in {"another", "clean", "cleanSocket", "spawn"} => Up = {}
  BY DEF UpParts, NoneUpToClean
<1> USE <1>1 DEF TypeOK, UpParts, OneUp, UpHasThePath, StartIsAwaited, NoneUpToClean, OwnDaemon,
        PidOfUp, OkIsOwnVersion, Up, Spawning, Inside, Outside, Quiet, Orderly, NoneEvicted, Goto,
        GoOn, Happens, HappensIf, directory, clients, bounds, wire, daemons, Reachable
<1>a. CASE Command(c) \/ StopCommand(c)
  BY <1>a DEF Command, StopCommand
<1>b. CASE Acquire(c)
  BY <1>b DEF Acquire
<1>c. CASE SeeStale(c) \/ Break(c) \/ LockTimeout(c)
  BY <1>c DEF SeeStale, Break, LockTimeout
<1>d. CASE Release(c)
  BY <1>d DEF Release
<1>e. CASE Check(c)
  <2>1. UNCHANGED <<socket, pidFile, target, version, state, build, result, replacing>>
        /\ pc[c] = "check" /\ pc' = [pc EXCEPT ![c] = IF Reachable THEN "readPid" ELSE "another"]
    BY <1>e DEF Check
  <2>2. c \in Inside
    BY <2>1
  <2>3. OneUp' /\ UpHasThePath' /\ OwnDaemon' /\ StartIsAwaited' /\ PidOfUp' /\ OkIsOwnVersion'
    BY <2>1
  <2>4. ASSUME ~Reachable PROVE Up = {}
    <3>1. \A b \in Inside : b = c
      BY <2>2, <1>1
    <3>2. pc[c] \notin Spawning
      BY <2>1
    <3>. HIDE DEF Inside, Up, UpHasThePath, StartIsAwaited, Spawning, Reachable, TypeOK
    <3>. QED
      BY <2>2, <2>4, <3>1, <3>2, NobodyUp DEF UpParts
  <2>5. NoneUpToClean'
    BY <2>1, <2>4
  <2>. QED
    BY <2>3, <2>5
<1>f. CASE ReadPid(c)
  <2>1. UNCHANGED <<socket, pidFile, target, version, state, build>>
    BY <1>f DEF ReadPid
  <2>2. c \in Inside /\ c \in Inside' /\ pc[c] = "readPid"
    BY <1>f DEF ReadPid, Leave
  <2>3. \A b \in Client : b # c => /\ pc'[b] = pc[b] /\ result'[b] = result[b]
                                   /\ b \in replacing' <=> b \in replacing
    BY <1>f DEF ReadPid, Leave
  <2>4. pc'[c] \in {"release", "stop"}
    BY <1>f DEF ReadPid, Leave
  <2>5. OneUp' /\ UpHasThePath' /\ OwnDaemon' /\ StartIsAwaited' /\ NoneUpToClean' /\ PidOfUp'
    BY <2>1, <2>2, <2>3, <2>4
  <2>6. ASSUME pc'[c] = "release", NEW d \in Up PROVE build[d] = version[c]
    <3>1. PidFileMatches(c)
      BY <1>f, <2>6 DEF ReadPid
    <3>2. pidFile.version \in {"none", build[d]}
      BY <2>2, <2>6, <1>1
    <3>3. version[c] # "none"
      BY DaemonAssumption
    <3>. QED
      BY <3>1, <3>2, <3>3 DEF PidFileMatches
  <2>7. OkIsOwnVersion'
    BY <2>1, <2>3, <2>6
  <2>. QED
    BY <2>5, <2>7
<1>g. CASE Another(c)
  <2>0. pc[c] = "another" /\ UNCHANGED <<state, build, version, socket, pidFile, target, result>>
    BY <1>g DEF Another
  <2>1. Up = {} /\ UNCHANGED <<state, build, version, socket, pidFile, target, result>>
    <3> HIDE DEF Up
    <3>. QED
      BY <2>0, <1>2
  <2>2. Up' = {}
    BY <2>1
  <2>. HIDE DEF Up
  <2>3. UpHasThePath' /\ StartIsAwaited'
    BY <1>g DEF Another
  <2>. QED
    BY <2>2, <2>3
<1>h. CASE CleanPid(c)
  <2>1. OneUp'
    BY <1>h DEF CleanPid
  <2>2. UpHasThePath'
    BY <1>h DEF CleanPid
  <2>3. StartIsAwaited'
    BY <1>h DEF CleanPid
  <2>4. NoneUpToClean'
    BY <1>h DEF CleanPid
  <2>5. OwnDaemon'
    BY <1>h DEF CleanPid
  <2>6. PidOfUp'
    BY <1>h DEF CleanPid, NoPid
  <2>7. OkIsOwnVersion'
    BY <1>h DEF CleanPid
  <2>. QED
    BY <2>1, <2>2, <2>3, <2>4, <2>5, <2>6, <2>7
<1>i. CASE CleanSocket(c)
  <2>1. OneUp'
    BY <1>i DEF CleanSocket
  <2>2. UpHasThePath'
    <3>1. pc[c] = "cleanSocket" /\ UNCHANGED state
      BY <1>i DEF CleanSocket
    <3>2. Up = {}
      <4> HIDE DEF Up
      <4>. QED
        BY <3>1, <1>2
    <3>. QED
      BY <3>1, <3>2 DEF Starting, Listening
  <2>3. StartIsAwaited'
    BY <1>i DEF CleanSocket
  <2>4. NoneUpToClean'
    BY <1>i DEF CleanSocket
  <2>5. OwnDaemon'
    BY <1>i DEF CleanSocket
  <2>6. PidOfUp'
    BY <1>i DEF CleanSocket
  <2>7. OkIsOwnVersion'
    BY <1>i DEF CleanSocket
  <2>. QED
    BY <2>1, <2>2, <2>3, <2>4, <2>5, <2>6, <2>7
<1>j. CASE Spawn(c)
  <2> DEFINE n == NextPid
  <2>0. pc[c] = "spawn" /\ n \in Daemon
    BY <1>j DEF Spawn, Birth
  <2>1. Up = {} /\ n \in Daemon
    <3> HIDE DEF Up, n
    <3>. QED
      BY <2>0, <1>2
  <2>2. /\ state' = [state EXCEPT ![n] = "check"] /\ build' = [build EXCEPT ![n] = version[c]]
        /\ target' = [target EXCEPT ![c] = n] /\ pc' = [pc EXCEPT ![c] = "tearPid"]
        /\ UNCHANGED <<socket, pidFile, result, replacing, version>> /\ pc[c] = "spawn"
    BY <1>j DEF Spawn, Birth
  <2>3. c \in Inside /\ \A b \in Inside : b = c
    BY <2>2, <1>1
  <2> HIDE DEF n
  <2>4. state'[n] = "check" /\ \A d \in Daemon : d # n => state'[d] = state[d]
    BY <2>1, <2>2
  <2>5. build'[n] = version[c] /\ target'[c] = n /\ pc'[c] = "tearPid"
    BY <2>1, <2>2, n \in 0..MaxDaemons DEF Daemon
  <2>6. Up' = {n}
    BY <2>1, <2>4 DEF Starting
  <2>7. \A b \in Client : b # c => b \notin Inside /\ pc'[b] = pc[b]
    BY <2>2, <2>3
  <2>8. UpHasThePath' /\ StartIsAwaited'
    BY <2>1, <2>2, <2>4, <2>5 DEF Starting, Listening
  <2>9. OneUp' /\ NoneUpToClean' /\ OwnDaemon' /\ PidOfUp' /\ OkIsOwnVersion'
    <3> HIDE DEF Up
    <3>. QED
      BY <2>2, <2>5, <2>6, <2>7
  <2>. QED
    BY <2>8, <2>9
<1>k. CASE TearPid(c)
  BY <1>k DEF TearPid, NoPid
<1>l. CASE WritePid(c)
  BY <1>l DEF WritePid
<1>m. CASE SocketUp(c)
  <2>1. OneUp'
    BY <1>m DEF SocketUp, Leave
  <2>2. UpHasThePath'
    BY <1>m DEF SocketUp, Leave
  <2>3. StartIsAwaited'
    <3>1. socket \in Daemon /\ state[socket] \in Listening /\ UNCHANGED <<state, target>>
      BY <1>m DEF SocketUp, Leave, Daemon
    <3>2. ASSUME NEW d \in Daemon, state[d] \in {"check", "clear", "listen"} PROVE FALSE
      <4>1. socket \in Up /\ d \in Up
        BY <3>1, <3>2 DEF Starting, Listening
      <4>2. socket = d
        BY <4>1
      <4>. QED
        BY <3>1, <3>2, <4>2 DEF Listening
    <3>. QED
      BY <3>1, <3>2
  <2>4. NoneUpToClean'
    BY <1>m DEF SocketUp, Leave
  <2>5. OwnDaemon'
    BY <1>m DEF SocketUp, Leave
  <2>6. PidOfUp'
    BY <1>m DEF SocketUp, Leave
  <2>7. OkIsOwnVersion'
    BY <1>m DEF SocketUp, Leave
  <2>. QED
    BY <2>1, <2>2, <2>3, <2>4, <2>5, <2>6, <2>7
<1>n. CASE AwaitTimeout(c)
  BY <1>n DEF AwaitTimeout, Leave, Starting
<1>o. CASE ReadTarget(c)
  BY <1>o DEF ReadTarget, NotePid
<1>p. CASE Dial(c)
  BY <1>p DEF Dial
<1>q. CASE DialFails(c)
  BY <1>q DEF DialFails, EndStop, Leave
<1>r. CASE CallReturns(c) \/ ShutdownAnswered(c)
  BY <1>r DEF CallReturns, ShutdownAnswered
<1>s. CASE ShutdownFails(c)
  BY <1>s DEF ShutdownFails, EndStop, Leave
<1>t. CASE SocketGone(c)
  <2>1. OneUp'
    BY <1>t DEF SocketGone, Listening, Starting
  <2>2. UpHasThePath'
    BY <1>t DEF SocketGone, Listening, Starting
  <2>3. StartIsAwaited'
    BY <1>t DEF SocketGone, Listening, Starting
  <2>4. NoneUpToClean'
    <3>1. ASSUME c \in replacing PROVE Up = {}
      <4>1. c \in Inside /\ pc[c] \notin Spawning /\ ~Reachable
        BY <1>t, <3>1 DEF SocketGone
      <4>2. \A b \in Inside : b = c
        BY <1>1, <4>1
      <4>. HIDE DEF Inside, Up, UpHasThePath, StartIsAwaited, Spawning, Reachable, TypeOK
      <4>. QED
        BY <4>1, <4>2, NobodyUp
    <3>. QED
      BY <1>t, <3>1 DEF SocketGone
  <2>5. OwnDaemon'
    BY <1>t DEF SocketGone, Listening, Starting
  <2>6. PidOfUp'
    BY <1>t DEF SocketGone, Listening, Starting
  <2>7. OkIsOwnVersion'
    BY <1>t DEF SocketGone, Listening, Starting
  <2>. QED
    BY <2>1, <2>2, <2>3, <2>4, <2>5, <2>6, <2>7
<1>u. CASE SocketStays(c)
  BY <1>u DEF SocketStays, EndStop, Leave
<1>v. CASE ProcessGone(c)
  BY <1>v DEF ProcessGone, EndStop, Leave
<1>w. CASE ProcessStays(c)
  BY <1>w DEF ProcessStays, EndStop, Leave
<1>x. CASE Die(c)
  BY <1>x DEF Die
<1>. QED
  BY <1>a, <1>b, <1>c, <1>d, <1>e, <1>f, <1>g, <1>h, <1>i, <1>j, <1>k, <1>l, <1>m, <1>n,
     <1>o, <1>p, <1>q, <1>r, <1>s, <1>t, <1>u, <1>v, <1>w, <1>x DEF ClientStep

\* So does a step of a daemon, or of one of its connections.
LEMMA DaemonKeepsUp ==
  ASSUME TypeOK, UpParts, Quiet, Quiet', NEW d \in Daemon,
         \/ DaemonStep(d) \/ WatchIdle(d) \/ Signal(d) \/ Crash(d)
         \/ \E c \in Client : Accept(d, c) \/ Answer(d, c)
  PROVE  UpParts'
<1> USE DEF TypeOK, UpParts, OneUp, UpHasThePath, StartIsAwaited, NoneUpToClean, OwnDaemon,
        PidOfUp, OkIsOwnVersion, Up, Spawning, Quiet, Orderly, NoneEvicted, Become, Starting,
        Listening, Leaving, directory, clients, bounds, wire, daemons
<1>a. CASE RunCheck(d)
  BY <1>a DEF RunCheck
<1>b. CASE RunClear(d)
  BY <1>b DEF RunClear
<1>c. CASE RunListen(d)
  BY <1>c DEF RunListen
<1>d. CASE RunTearPid(d)
  BY <1>d DEF RunTearPid, NoPid
<1>e. CASE RunWritePid(d)
  BY <1>e DEF RunWritePid
<1>f. CASE CloseListener(d)
  BY <1>f DEF CloseListener
<1>g. CASE Drain(d) \/ DrainTimeout(d)
  BY <1>g DEF Drain, DrainTimeout
<1>h. CASE UnlinkSocket(d)
  BY <1>h DEF UnlinkSocket, NoteTaken, Reachable
<1>i. CASE UnlinkPid(d)
  BY <1>i DEF UnlinkPid, NoPid
<1>j. CASE Crash(d)
  BY <1>j DEF Crash
<1>k. CASE WatchIdle(d) \/ Signal(d) \/ \E c \in Client : Accept(d, c) \/ Answer(d, c)
  BY <1>k DEF WatchIdle, Signal, Accept, Answer
<1>. QED
  BY <1>a, <1>b, <1>c, <1>d, <1>e, <1>f, <1>g, <1>h, <1>i, <1>j, <1>k DEF DaemonStep

\* UpIInv holds throughout: as long as the time limits suffice and no daemon
\* evicts another, one daemon at most is up; it has the path, the pid file is
\* not that of another version, and clients clean up when none is up.
THEOREM UpInvariant == Spec => []UpIInv
<1>1. Init => UpIInv
  BY DEF Init, UpIInv, UpParts, OneUp, UpHasThePath, StartIsAwaited, NoneUpToClean, OwnDaemon,
         PidOfUp, OkIsOwnVersion, Up, Spawning, Starting, Listening
<1>2. TypeOK /\ LockIsHeld /\ UpIInv /\ [Next]_vars => UpIInv'
  <2> SUFFICES ASSUME TypeOK, LockIsHeld, UpIInv, [Next]_vars, Quiet'
               PROVE  UpParts'
    BY DEF UpIInv
  <2>1. mishaps \subseteq mishaps'
    BY MishapsStay
  <2>2. Quiet
    BY <2>1 DEF Quiet, Orderly, NoneEvicted
  <2>3. UpParts
    BY <2>2 DEF UpIInv
  <2>4. ASSUME NEW c \in Client, Command(c) \/ StopCommand(c) \/ ClientStep(c) \/ Die(c)
        PROVE  UpParts'
    BY <2>2, <2>3, <2>4, ClientKeepsUp
  <2>5. ASSUME NEW d \in Daemon,
               \/ DaemonStep(d) \/ WatchIdle(d) \/ Signal(d) \/ Crash(d)
               \/ \E c \in Client : Accept(d, c) \/ Answer(d, c)
        PROVE  UpParts'
    BY <2>2, <2>3, <2>5, DaemonKeepsUp
  <2>6. ~ \E v \in Version : StartByHand(v)
    BY DEF StartByHand, Happens, Quiet, Orderly
  <2>7. CASE LockAges \/ UNCHANGED vars
    <3>1. UNCHANGED <<socket, pidFile, pc, result, target, replacing, version, state, build>>
      BY <2>7 DEF LockAges, vars, directory, clients, bounds, daemons
    <3>. QED
      BY <2>3, <3>1 DEF UpParts, OneUp, UpHasThePath, StartIsAwaited, NoneUpToClean, OwnDaemon,
                        PidOfUp, OkIsOwnVersion, Up
  <2>. QED
    BY <2>4, <2>5, <2>6, <2>7 DEF Next
<1>. QED
  BY <1>1, <1>2, TypeCorrect, LockInvariant, PTL DEF Spec

\* EnsuredVersion: what listens when EnsureRunning reports success is of the
\* client's version, for any number of clients, versions and daemons.
THEOREM SuccessIsOwnVersion == Spec => []EnsuredVersion
<1>1. TypeOK /\ UpIInv => EnsuredVersion
  <2> SUFFICES ASSUME TypeOK, UpIInv, Quiet, Reachable,
                      NEW c \in Client, pc[c] = "release", result[c] = "ok"
               PROVE  build[socket] = version[c]
    BY DEF EnsuredVersion, Quiet
  <2>1. socket \in Up
    BY DEF TypeOK, Reachable, Up, Listening, Starting, Daemon
  <2>. QED
    BY <2>1 DEF UpIInv, UpParts, OkIsOwnVersion
<1>. QED
  BY <1>1, TypeCorrect, UpInvariant, PTL

-------------------------------------------------------------------------------
(* Clients of one version *)

Live == {d \in Daemon : state[d] \notin {"unborn", "exited", "crashed"}}

\* Everything that runs, and the pid file, is of the clients' version.
OneBuild ==
  /\ \A d \in Live : build[d] \in Version
  /\ \A c \in Client : /\ \A d \in Live : build[d] = version[c]
                       /\ pidFile.version \in {"none", version[c]}
TornIsEmpty == pidFile.version = "none" => pidFile = NoPid
OneLive == \A d, e \in Live : d = e
\* A daemon that wrote its pid file can be found by it until it is gone, but for
\* the moment in which its spawner writes the same again.
PidIsKept ==
  \A d \in Live : state[d] \in {"serving"} \union Leaving =>
     \/ pidFile = [pid |-> d, version |-> build[d]]
     \/ \E c \in Client : pc[c] = "writePid"
OwnLive ==
  \A c \in Client : pc[c] \in {"tearPid", "writePid"} => \A d \in Live : target[c] = d
\* A client that found its own version's pid file gone gets no further.
ReplacesNone ==
  \A c \in replacing : Up = {} /\ pc[c] \in {"stop", "ask", "release"}
NoneLiveToClean ==
  \A c \in Client : pc[c] \in {"clean", "cleanSocket", "spawn"} => Live = {}

OneVersionParts ==
  /\ NoneEvicted /\ OneBuild /\ TornIsEmpty /\ OneLive
  /\ PidIsKept /\ OwnLive /\ ReplacesNone /\ NoneLiveToClean

OneVersionIInv == SameVersion /\ Orderly => OneVersionParts

\* A step of a client keeps the parts.
LEMMA ClientKeepsOneVersion ==
  ASSUME TypeOK, LockIsHeld, UpParts, OneVersionParts, SameVersion, Orderly, Orderly',
         NEW c \in Client, Command(c) \/ StopCommand(c) \/ ClientStep(c) \/ Die(c)
  PROVE  OneVersionParts'
<1>1. \A b \in Inside : lock = b
  BY DEF LockIsHeld, Orderly
<1>2. \A b \in Client : pc[b] \in {"clean", "cleanSocket", "spawn"} => Live = {}
  BY DEF OneVersionParts, NoneLiveToClean
<1>3. \A b \in Client : version[b] = version[c] /\ version[b] # "none"
  BY DaemonAssumption DEF SameVersion, TypeOK
<1> USE <1>1, <1>3 DEF TypeOK, OneVersionParts, OneBuild, TornIsEmpty, OneLive, PidIsKept, OwnLive,
        ReplacesNone, NoneLiveToClean, Live, Up, Inside, Outside, Orderly, NoneEvicted, Goto,
        GoOn, Happens, HappensIf, directory, clients, bounds, wire, daemons, Reachable
<1>a. CASE Command(c) \/ StopCommand(c)
  BY <1>a DEF Command, StopCommand
<1>b. CASE Acquire(c)
  BY <1>b DEF Acquire
<1>c. CASE SeeStale(c) \/ Break(c) \/ LockTimeout(c)
  BY <1>c DEF SeeStale, Break, LockTimeout
<1>d. CASE Release(c)
  BY <1>d DEF Release
<1>e. CASE Check(c)
  BY <1>e DEF Check
<1>f. CASE ReadPid(c)
  <2>1. UNCHANGED <<socket, pidFile, target, version, state, build>> /\ pc[c] = "readPid"
    BY <1>f DEF ReadPid
  <2>2. \A b \in Client : b # c => pc'[b] = pc[b] /\ (b \in replacing' <=> b \in replacing)
    BY <1>f DEF ReadPid, Leave
  <2>3. \/ pc'[c] = "release" /\ UNCHANGED replacing
        \/ ~PidFileMatches(c) /\ pc'[c] = "stop"
    BY <1>f DEF ReadPid, Leave
  <2>4. OneBuild' /\ TornIsEmpty' /\ OneLive' /\ PidIsKept' /\ OwnLive' /\ NoneLiveToClean'
    BY <2>1, <2>2, <2>3
  <2>5. NoneEvicted'
    BY <1>f DEF ReadPid, NotePid
  <2>6. ASSUME ~PidFileMatches(c) PROVE Up = {}
    <3>1. pidFile = NoPid
      BY <2>6 DEF PidFileMatches
    <3>2. ~Reachable
      <4> HIDE DEF Reachable
      <4>. QED
        BY <1>f, <3>1 DEF ReadPid, NotePid
    <3>3. c \in Inside /\ \A b \in Inside : b = c
      BY <2>1
    <3>4. pc[c] \notin Spawning
      BY <2>1 DEF Spawning
    <3>. HIDE DEF Inside, Up, UpHasThePath, StartIsAwaited, Spawning, Reachable, TypeOK
    <3>. QED
      BY <3>2, <3>3, <3>4, NobodyUp DEF UpParts
  <2>7. ReplacesNone'
    <3>1. Up' = Up
      BY <2>1
    <3>2. replacing' \subseteq replacing \union {c} /\ c \notin replacing
      BY <1>f, <2>1 DEF ReadPid
    <3>3. c \in replacing' => ~PidFileMatches(c) /\ pc'[c] = "stop"
      BY <2>3, <3>2
    <3>4. \A b \in replacing : Up = {} /\ pc[b] \in {"stop", "ask", "release"}
      OBVIOUS
    <3> HIDE DEF Up
    <3>5. SUFFICES ASSUME NEW b \in replacing'
                   PROVE  Up = {} /\ pc'[b] \in {"stop", "ask", "release"}
      BY <3>1
    <3>6. CASE b = c
      BY <2>6, <3>3, <3>5, <3>6
    <3>7. CASE b # c
      <4>1. b \in replacing /\ b \in Client /\ pc'[b] = pc[b]
        BY <2>2, <3>2, <3>5, <3>7
      <4>. QED
        BY <3>4, <4>1
    <3>. QED
      BY <3>6, <3>7
  <2>. QED
    BY <2>4, <2>5, <2>7
<1>g. CASE Another(c)
  <2>1. pc[c] = "another" /\ UNCHANGED <<socket, pidFile, target, version, state, build, replacing, mishaps>>
        /\ pc' = [pc EXCEPT ![c] = IF StartedByAnother(c) THEN "await" ELSE "clean"]
    BY <1>g DEF Another
  <2>2. Up = {}
    <3> HIDE DEF Up
    <3>. QED
      BY <2>1 DEF UpParts, NoneUpToClean
  <2>3. ASSUME ~StartedByAnother(c), NEW d \in Live PROVE FALSE
    <3>1. state[d] \in Leaving
      BY <2>2 DEF Starting, Leaving
    <3>2. ~ \E b \in Client : pc[b] = "writePid"
      <4>1. c \in Inside
        BY <2>1
      <4>. QED
        BY <2>1, <4>1, <1>1
    <3>3. pidFile = [pid |-> d, version |-> build[d]]
      BY <3>1, <3>2
    <3>4. pidFile.pid = d /\ pidFile.version = version[c] /\ d # 0
      BY <3>3 DEF Daemon
    <3>. QED
      BY <2>3, <3>4 DEF StartedByAnother, Alive
  <2>4. OneBuild' /\ TornIsEmpty' /\ OneLive' /\ PidIsKept' /\ OwnLive' /\ NoneEvicted'
    BY <2>1
  <2>5. ReplacesNone'
    BY <2>1
  <2>6. NoneLiveToClean'
    BY <2>1, <2>3
  <2>. QED
    BY <2>4, <2>5, <2>6
<1>h. CASE CleanPid(c)
  BY <1>h DEF CleanPid, NoPid
<1>i. CASE CleanSocket(c)
  BY <1>i DEF CleanSocket
<1>j. CASE Spawn(c)
  <2> DEFINE n == NextPid
  <2>1. /\ state' = [state EXCEPT ![n] = "check"] /\ build' = [build EXCEPT ![n] = version[c]]
        /\ target' = [target EXCEPT ![c] = n] /\ pc' = [pc EXCEPT ![c] = "tearPid"]
        /\ UNCHANGED <<pidFile, replacing, version, mishaps>> /\ pc[c] = "spawn" /\ n \in Daemon
    BY <1>j DEF Spawn, Birth
  <2> HIDE DEF n
  <2>2. Live = {}
    <3> HIDE DEF Live
    <3>. QED
      BY <2>1, <1>2
  <2>3. c \in Inside /\ \A b \in Inside : b = c
    BY <2>1, <1>1
  <2>4. state'[n] = "check" /\ \A d \in Daemon : d # n => state'[d] = state[d]
    BY <2>1
  <2>5. build'[n] = version[c] /\ target'[c] = n /\ pc'[c] = "tearPid"
    BY <2>1, n \in 0..MaxDaemons DEF Daemon
  <2>6. Live' = {n}
    BY <2>1, <2>2, <2>4
  <2>7. \A b \in Client : b # c => b \notin Inside /\ pc'[b] = pc[b]
    BY <2>1, <2>3
  <2>8. c \notin replacing /\ replacing = {}
    BY <2>1, <2>3, <2>7
  <2>9. OneBuild' /\ TornIsEmpty' /\ OneLive' /\ NoneEvicted' /\ OwnLive' /\ NoneLiveToClean'
    <3> HIDE DEF Live
    <3>. QED
      BY <2>1, <2>5, <2>6, <2>7
  <2>10. PidIsKept'
    <3>1. state'[n] \notin {"serving"} \union Leaving
      BY <2>4 DEF Leaving
    <3> HIDE DEF Live
    <3>. QED
      BY <2>6, <3>1
  <2>11. ReplacesNone'
    BY <2>1, <2>8
  <2>. QED
    BY <2>9, <2>10, <2>11
<1>k. CASE TearPid(c)
  BY <1>k DEF TearPid, NoPid
<1>l. CASE WritePid(c)
  BY <1>l DEF WritePid
<1>m. CASE SocketUp(c)
  BY <1>m DEF SocketUp, Leave
<1>n. CASE AwaitTimeout(c)
  BY <1>n DEF AwaitTimeout, Leave
<1>o. CASE ReadTarget(c)
  BY <1>o DEF ReadTarget, NotePid
<1>p. CASE Dial(c)
  <2>1. pc[c] \in {"dial", "ask"} /\ pc'[c] \in {"call", "asking"} /\ Reachable
        /\ UNCHANGED <<pidFile, target, version, state, build, replacing, mishaps>>
        /\ \A b \in Client : b # c => pc'[b] = pc[b]
    BY <1>p DEF Dial
  <2>2. socket \in Up
    BY <2>1 DEF Listening, Starting, Daemon
  <2>3. c \notin replacing
    <3> HIDE DEF Up
    <3>. QED
      BY <2>2
  <2>4. OneBuild' /\ TornIsEmpty' /\ OneLive' /\ PidIsKept' /\ OwnLive' /\ NoneLiveToClean' /\ NoneEvicted'
    BY <2>1
  <2>5. ReplacesNone'
    BY <2>1, <2>3
  <2>. QED
    BY <2>4, <2>5
<1>q. CASE DialFails(c)
  BY <1>q DEF DialFails, EndStop, Leave
<1>r. CASE CallReturns(c) \/ ShutdownAnswered(c)
  BY <1>r DEF CallReturns, ShutdownAnswered
<1>s. CASE ShutdownFails(c)
  BY <1>s DEF ShutdownFails, EndStop, Leave
<1>t. CASE SocketGone(c)
  BY <1>t DEF SocketGone
<1>u. CASE SocketStays(c)
  BY <1>u DEF SocketStays, EndStop, Leave
<1>v. CASE ProcessGone(c)
  BY <1>v DEF ProcessGone, EndStop, Leave
<1>w. CASE ProcessStays(c)
  BY <1>w DEF ProcessStays, EndStop, Leave
<1>x. CASE Die(c)
  BY <1>x DEF Die
<1>. QED
  BY <1>a, <1>b, <1>c, <1>d, <1>e, <1>f, <1>g, <1>h, <1>i, <1>j, <1>k, <1>l, <1>m, <1>n,
     <1>o, <1>p, <1>q, <1>r, <1>s, <1>t, <1>u, <1>v, <1>w, <1>x DEF ClientStep

\* So does a step of a daemon, or of one of its connections.
LEMMA DaemonKeepsOneVersion ==
  ASSUME TypeOK, UpParts, OneVersionParts, Orderly, Orderly', NEW d \in Daemon,
         \/ DaemonStep(d) \/ WatchIdle(d) \/ Signal(d) \/ Crash(d)
         \/ \E c \in Client : Accept(d, c) \/ Answer(d, c)
  PROVE  OneVersionParts'
<1> USE DaemonAssumption DEF TypeOK, OneVersionParts, OneBuild, TornIsEmpty, OneLive, PidIsKept, OwnLive,
        ReplacesNone, NoneLiveToClean, Live, Up, Orderly, NoneEvicted, Become, Starting,
        Leaving, directory, clients, bounds, wire, daemons
<1>a. CASE RunCheck(d)
  BY <1>a DEF RunCheck
<1>b. CASE RunClear(d)
  BY <1>b DEF RunClear
<1>c. CASE RunListen(d)
  BY <1>c DEF RunListen
<1>d. CASE RunTearPid(d)
  BY <1>d DEF RunTearPid, NoPid
<1>e. CASE RunWritePid(d)
  <2>1. /\ state' = [state EXCEPT ![d] = "serving"] /\ state[d] = "writePid"
        /\ pidFile' = [pid |-> d, version |-> build[d]]
        /\ UNCHANGED <<build, pc, target, version, replacing, mishaps>>
    BY <1>e DEF RunWritePid
  <2>2. pidFile'.version = build[d] /\ d \in Live
    BY <2>1
  <2>3. Live' = Live /\ Up' = Up /\ \A e \in Live : e = d
    BY <2>1
  <2>4. build[d] # "none"
    BY <2>2
  <2>5. OneBuild' /\ OneLive' /\ OwnLive' /\ ReplacesNone' /\ NoneLiveToClean' /\ NoneEvicted'
    <3> HIDE DEF Live, Up
    <3>. QED
      BY <2>1, <2>2, <2>3
  <2>6. PidIsKept'
    <3> HIDE DEF Live, Up
    <3>. QED
      BY <2>1, <2>2, <2>3
  <2>7. TornIsEmpty'
    BY <2>2, <2>4
  <2>. QED
    BY <2>5, <2>6, <2>7
<1>f. CASE CloseListener(d)
  BY <1>f DEF CloseListener
<1>g. CASE Drain(d) \/ DrainTimeout(d)
  BY <1>g DEF Drain, DrainTimeout, Happens
<1>h. CASE UnlinkSocket(d)
  <2>1. /\ state' = [state EXCEPT ![d] = "unlinkPid"] /\ state[d] = "unlink"
        /\ UNCHANGED <<pidFile, build, pc, target, version, replacing>> /\ NoteTaken
    BY <1>h DEF UnlinkSocket
  <2>2. d \in Live /\ \A e \in Live : e = d
    BY <2>1
  <2>3. ~Reachable
    <3>1. SUFFICES ASSUME Reachable PROVE FALSE
      OBVIOUS
    <3>2. socket \in Live /\ state[socket] # "unlink"
      BY <3>1 DEF Reachable, Listening, Daemon
    <3>. QED
      BY <2>1, <2>2, <3>2
  <2>4. mishaps' = mishaps
    BY <2>1, <2>3 DEF NoteTaken
  <2>. QED
    BY <2>1, <2>4
<1>i. CASE UnlinkPid(d)
  BY <1>i DEF UnlinkPid, NoPid
<1>j. CASE Crash(d)
  BY <1>j DEF Crash, Happens
<1>k. CASE WatchIdle(d) \/ Signal(d) \/ \E c \in Client : Accept(d, c) \/ Answer(d, c)
  BY <1>k DEF WatchIdle, Signal, Accept, Answer
<1>. QED
  BY <1>a, <1>b, <1>c, <1>d, <1>e, <1>f, <1>g, <1>h, <1>i, <1>j, <1>k DEF DaemonStep

\* OneVersionIInv holds throughout: among clients of one version there is one
\* daemon at a time, from its start to its exit, and none evicts another.
THEOREM OneVersionInvariant == Spec => []OneVersionIInv
<1>1. Init => OneVersionIInv
  BY DEF Init, OneVersionIInv, OneVersionParts, NoneEvicted, OneBuild, TornIsEmpty, OneLive,
         PidIsKept, OwnLive, ReplacesNone, NoneLiveToClean, Live, NoPid
<1>2. TypeOK /\ LockIsHeld /\ UpIInv /\ OneVersionIInv /\ [Next]_vars => OneVersionIInv'
  <2> SUFFICES ASSUME TypeOK, LockIsHeld, UpIInv, OneVersionIInv, [Next]_vars,
                      SameVersion', Orderly'
               PROVE  OneVersionParts'
    BY DEF OneVersionIInv
  <2>1. mishaps \subseteq mishaps'
    BY MishapsStay
  <2>2. Orderly
    BY <2>1 DEF Orderly
  <2>3. UNCHANGED version
    BY VersionStays
  <2>4. SameVersion
    BY <2>3 DEF SameVersion
  <2>5. OneVersionParts
    BY <2>2, <2>4 DEF OneVersionIInv
  <2>6. UpParts
    BY <2>2, <2>5 DEF UpIInv, Quiet, OneVersionParts
  <2>7. ASSUME NEW c \in Client, Command(c) \/ StopCommand(c) \/ ClientStep(c) \/ Die(c)
        PROVE  OneVersionParts'
    BY <2>2, <2>4, <2>5, <2>6, <2>7, ClientKeepsOneVersion
  <2>8. ASSUME NEW d \in Daemon,
               \/ DaemonStep(d) \/ WatchIdle(d) \/ Signal(d) \/ Crash(d)
               \/ \E c \in Client : Accept(d, c) \/ Answer(d, c)
        PROVE  OneVersionParts'
    BY <2>2, <2>5, <2>6, <2>8, DaemonKeepsOneVersion
  <2>9. ~ \E v \in Version : StartByHand(v)
    BY DEF StartByHand, Happens, Orderly
  <2>10. CASE LockAges \/ UNCHANGED vars
    <3>1. UNCHANGED <<socket, pidFile, pc, target, replacing, version, state, build>>
      BY <2>10 DEF LockAges, vars, directory, clients, bounds, daemons
    <3>2. "socketTaken" \notin mishaps'
      BY <2>5, <2>10 DEF LockAges, Happens, HappensIf, OneVersionParts, NoneEvicted, vars
    <3>. QED
      BY <2>5, <3>1, <3>2 DEF OneVersionParts, NoneEvicted, OneBuild, TornIsEmpty, OneLive,
                              PidIsKept, OwnLive, ReplacesNone, NoneLiveToClean, Live, Up
  <2>. QED
    BY <2>7, <2>8, <2>9, <2>10 DEF Next
<1>. QED
  BY <1>1, <1>2, TypeCorrect, LockInvariant, UpInvariant, PTL DEF Spec

\* OneServes: however commands of one version, idle exits, stops and crashes
\* interleave, never do two daemons serve.
THEOREM OneDaemonServes == Spec => []OneServes
<1>1. UpIInv /\ OneVersionIInv => OneServes
  BY DEF UpIInv, OneVersionIInv, OneVersionParts, Quiet, UpParts, OneUp, OneServes, Serving, Up
<1>. QED
  BY <1>1, UpInvariant, OneVersionInvariant, PTL

\* SocketKept: neither a client's cleanup nor another daemon's exit takes the
\* path away from a daemon that serves.
THEOREM ServersKeepTheirSocket == Spec => []SocketKept
<1>1. UpIInv /\ OneVersionIInv => SocketKept
  BY DEF UpIInv, OneVersionIInv, OneVersionParts, Quiet, UpParts, UpHasThePath, SocketKept,
         Serving, Listening
<1>. QED
  BY <1>1, UpInvariant, OneVersionInvariant, PTL

-------------------------------------------------------------------------------
(* Requests *)

\* A daemon that is past its grace period with requests left was kept waiting.
DrainedOrLate ==
  \A d \in Daemon : state[d] \in {"unlink", "unlinkPid"} /\ InFlight(d) # {} =>
     "slowRequest" \in mishaps

\* A client's step accepts no request, and loses none.
LEMMA ClientKeepsRequests ==
  ASSUME TypeOK, NEW c \in Client, Command(c) \/ StopCommand(c) \/ ClientStep(c) \/ Die(c)
  PROVE  /\ \A d \in Daemon : state'[d] \in {"unlink", "unlinkPid"} => state[d] = state'[d]
         /\ \A d \in Daemon : InFlight(d)' \subseteq InFlight(d)
         /\ \A b \in Client : reply'[b] = "lost" => reply[b] = "lost"
<1> USE DEF TypeOK, InFlight, HangUp, GoOn, directory, clients, bounds, wire, daemons
<1>1. CASE Dial(c)
  BY <1>1 DEF Dial
<1>2. CASE CallReturns(c) \/ ShutdownAnswered(c) \/ ShutdownFails(c) \/ Die(c)
  BY <1>2 DEF CallReturns, ShutdownAnswered, ShutdownFails, Die
<1>3. CASE Spawn(c)
  BY <1>3 DEF Spawn, Birth
<1>4. CASE UNCHANGED <<wire, daemons>>
  BY <1>4
<1>5. ASSUME \/ Command(c) \/ StopCommand(c)
             \/ Acquire(c) \/ SeeStale(c) \/ Break(c) \/ LockTimeout(c) \/ Release(c)
             \/ Check(c) \/ ReadPid(c) \/ Another(c) \/ CleanPid(c) \/ CleanSocket(c)
             \/ TearPid(c) \/ WritePid(c) \/ SocketUp(c) \/ AwaitTimeout(c)
             \/ ReadTarget(c) \/ DialFails(c) \/ SocketGone(c) \/ SocketStays(c)
             \/ ProcessGone(c) \/ ProcessStays(c)
      PROVE  UNCHANGED <<wire, daemons>>
  BY <1>5 DEF Command, StopCommand, Acquire, SeeStale, Break, LockTimeout, Release, Check,
              ReadPid, Another, CleanPid, CleanSocket, TearPid, WritePid, SocketUp, AwaitTimeout, ReadTarget, DialFails,
              SocketGone, SocketStays, ProcessGone, ProcessStays
<1>. QED
  BY <1>1, <1>2, <1>3, <1>4, <1>5 DEF ClientStep

\* DrainedOrLate holds throughout.
LEMMA DrainedInvariant == Spec => []DrainedOrLate
<1>1. Init => DrainedOrLate
  BY DEF Init, DrainedOrLate
<1>2. TypeOK /\ DrainedOrLate /\ [Next]_vars => DrainedOrLate'
  <2> SUFFICES ASSUME TypeOK, DrainedOrLate, [Next]_vars PROVE DrainedOrLate'
    OBVIOUS
  <2>1. mishaps \subseteq mishaps'
    BY MishapsStay
  <2>2. ASSUME NEW c \in Client, Command(c) \/ StopCommand(c) \/ ClientStep(c) \/ Die(c)
        PROVE  DrainedOrLate'
    BY <2>1, <2>2, ClientKeepsRequests DEF DrainedOrLate
  <2>3. ASSUME NEW d \in Daemon,
               \/ DaemonStep(d) \/ WatchIdle(d) \/ Signal(d) \/ Crash(d)
               \/ \E c \in Client : Accept(d, c) \/ Answer(d, c)
        PROVE  DrainedOrLate'
    <3> USE <2>1 DEF DrainedOrLate, InFlight, Become, Lose, TypeOK, directory, clients, bounds,
            wire, daemons
    <3>1. CASE RunCheck(d) \/ RunClear(d) \/ RunListen(d) \/ RunTearPid(d) \/ RunWritePid(d)
      BY <3>1 DEF RunCheck, RunClear, RunListen, RunTearPid, RunWritePid
    <3>2. CASE CloseListener(d)
      BY <3>2 DEF CloseListener
    <3>3. CASE Drain(d)
      BY <3>3 DEF Drain, Drained
    <3>4. CASE DrainTimeout(d)
      BY <3>4 DEF DrainTimeout, Happens
    <3>5. CASE UnlinkSocket(d)
      BY <3>5 DEF UnlinkSocket
    <3>6. CASE UnlinkPid(d) \/ Crash(d)
      BY <3>6 DEF UnlinkPid, Crash
    <3>7. CASE WatchIdle(d) \/ Signal(d)
      BY <3>7 DEF WatchIdle, Signal
    <3>8. CASE \E c \in Client : Accept(d, c) \/ Answer(d, c)
      BY <3>8 DEF Accept, Answer
    <3>. QED
      BY <2>3, <3>1, <3>2, <3>3, <3>4, <3>5, <3>6, <3>7, <3>8 DEF DaemonStep
  <2>4. CASE LockAges \/ UNCHANGED vars
    BY <2>1, <2>4 DEF LockAges, vars, DrainedOrLate, InFlight, wire, daemons
  <2>5. ASSUME NEW v \in Version, StartByHand(v)
        PROVE  DrainedOrLate'
    BY <2>1, <2>5 DEF StartByHand, Birth, DrainedOrLate, InFlight, TypeOK, wire
  <2>. QED
    BY <2>2, <2>3, <2>4, <2>5 DEF Next
<1>. QED
  BY <1>1, <1>2, TypeCorrect, PTL DEF Spec

\* AcceptedIsAnswered: a request that a daemon accepted is lost only to a crash
\* or to the end of its grace period.
THEOREM NoneIsDropped == Spec => AcceptedIsAnswered
<1> DEFINE Kept == \A c \in Client : reply[c] = "accepted" /\ reply'[c] = "lost"
                                       => mishaps' \intersect {"crash", "slowRequest"} # {}
<1>1. TypeOK /\ DrainedOrLate /\ [Next]_vars => Kept
  <2> SUFFICES ASSUME TypeOK, DrainedOrLate, [Next]_vars,
                      NEW b \in Client, reply[b] = "accepted", reply'[b] = "lost"
               PROVE  mishaps' \intersect {"crash", "slowRequest"} # {}
    OBVIOUS
  <2>1. mishaps \subseteq mishaps'
    BY MishapsStay
  <2>2. ~ \E c \in Client : Command(c) \/ StopCommand(c) \/ ClientStep(c) \/ Die(c)
    BY ClientKeepsRequests
  <2>3. ~ LockAges /\ ~ UNCHANGED vars /\ ~ \E v \in Version : StartByHand(v)
    BY DEF LockAges, StartByHand, vars, wire
  <2>4. PICK d \in Daemon : \/ DaemonStep(d) \/ WatchIdle(d) \/ Signal(d) \/ Crash(d)
                            \/ \E c \in Client : Accept(d, c) \/ Answer(d, c)
    BY <2>2, <2>3 DEF Next
  <2>5. CASE Crash(d)
    BY <2>5 DEF Crash, Happens
  <2>6. CASE UnlinkPid(d)
    <3>1. b \in InFlight(d) /\ state[d] = "unlinkPid"
      BY <2>6 DEF UnlinkPid, Lose
    <3>. QED
      BY <2>1, <3>1 DEF DrainedOrLate
  <2>7. CASE CloseListener(d)
    BY <2>7 DEF CloseListener, Lose
  <2>8. CASE \E c \in Client : Accept(d, c) \/ Answer(d, c)
    BY <2>8 DEF Accept, Answer, TypeOK
  <2>9. CASE WatchIdle(d) \/ Signal(d)
    BY <2>9 DEF WatchIdle, Signal, wire
  <2>10. CASE \/ RunCheck(d) \/ RunClear(d) \/ RunListen(d) \/ RunTearPid(d) \/ RunWritePid(d)
              \/ Drain(d) \/ DrainTimeout(d) \/ UnlinkSocket(d)
    BY <2>10 DEF RunCheck, RunClear, RunListen, RunTearPid, RunWritePid, Drain, DrainTimeout,
                 UnlinkSocket, wire
  <2>. QED
    BY <2>4, <2>5, <2>6, <2>7, <2>8, <2>9, <2>10 DEF DaemonStep
<1>2. Kept => [Kept]_vars
  OBVIOUS
<1>. QED
  BY <1>1, TypeCorrect, DrainedInvariant, PTL DEF Spec, AcceptedIsAnswered
===============================================================================
