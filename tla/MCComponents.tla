----------------------------- MODULE MCComponents -----------------------------
(***************************************************************************)
(* The components that share no state: the sessions the daemon keeps for   *)
(* its clients and with its devices, and the requests that have a device   *)
(* of their own.  In the source they meet in calls that each module has as *)
(* choices of its environment.  So a behaviour picks one of them, and the  *)
(* others stay in their initial state.                                     *)
(***************************************************************************)
EXTENDS ServerOps, FiniteSets

CONSTANTS
  Parts,                                                  \* those that a run is about
  Caller, MaxRecordings,                                  \* Recorder
  Tickets, Viewers, NoTicket, MaxSessions, MaxCrashes,    \* StreamSessions
  MaxMessages, MaxHandlers,                               \* WebSocket
  Nodes, Root, Main, MaxCalls,                            \* FlutterVM
  Requests, Setter, Builds, Ports, None, MaxDeaths,       \* AndroidServer
  Callers, Streamers, Hooked, MaxLoops, MaxRunners, MaxForwards   \* IosAgent

VARIABLES
  part,   \* the component whose behaviour this is
  session, created, stopped, ready, done, recorder, recorderPc, mine, daemon, awaited,
  serial, prompt,
  sessions, ticketKind, minted, expired, viewerPc, ticket, gone, cancelSent, callOutcome,
  admitted, toDaemon, closed, handler, hctx, swallowed, toClient, crashes,
  inbox, messagePc, handlerSem, answer, replies, broken, socketOpen, pinging,
  step, call, pending, ch, callSem, conn, fatal, err, emitted, cut, handle, report,
  build, kind, requestPc, port, tries, remembered, holder, forwards, server, inFlight, ran,
  appop, effects, interrupted, denied, deaths,
  callerPc, mu, loops, steady, updateCtx, runners, deviceKitCancel, cancelled, open,
  agentFwd, httpFwd, avcFwd, own, made, agentUp, hooked, cleanup, raced, calm,
  op, class, stack, agent, held, deferred, changed, outcome

recordingVars == <<session, created, stopped, ready, done, recorder, recorderPc, mine, daemon,
                   awaited, serial, prompt>>
streamVars == <<sessions, ticketKind, minted, expired, viewerPc, ticket, gone, cancelSent,
                callOutcome, admitted, toDaemon, closed, handler, hctx, swallowed, toClient,
                crashes>>
socketVars == <<inbox, messagePc, handlerSem, answer, replies, broken, socketOpen, pinging>>
flutterVars == <<step, call, pending, ch, callSem, conn, fatal, err, emitted, cut, handle, report>>
serverVars == <<build, kind, requestPc, port, tries, remembered, holder, forwards, server, inFlight,
                ran, appop, effects, interrupted, denied, deaths>>
agentVars == <<callerPc, mu, loops, steady, updateCtx, runners, deviceKitCancel, cancelled,
               open, agentFwd, httpFwd, avcFwd, own, made, agentUp, hooked, cleanup, raced,
               calm>>
methodVars == <<op, class, stack, agent, held, deferred, changed, outcome>>

Recording == INSTANCE Recorder WITH pc <- recorderPc, MaxSessions <- MaxRecordings

Streams == INSTANCE StreamSessions
  WITH kind <- ticketKind, pc <- viewerPc, outcome <- callOutcome

Socket == INSTANCE WebSocket
  WITH pc <- messagePc, slots <- handlerSem, open <- socketOpen

\* A root with the other nodes as its children.
Flutter == INSTANCE FlutterVM
  WITH slots <- callSem, Kids <- [n \in Nodes |-> IF n = Root THEN Nodes \ {Root} ELSE {}]

\* One of the requests sets or clears a location.
Servers == INSTANCE AndroidServer
  WITH pc <- requestPc,
       Asks <- [r \in Requests |-> IF r = Setter THEN {"set", "clear"} ELSE {"tap"}]

Agents == INSTANCE IosAgent WITH pc <- callerPc

Requested == INSTANCE Operations

ASSUME PartsAssumed ==
  Parts \subseteq {"recording", "streams", "socket", "flutter", "servers", "agents", "methods"}
ASSUME RecordingAssumed == Recording!RecorderAssumption
ASSUME StreamsAssumed == Streams!SessionsAssumption
ASSUME SocketAssumed == Socket!WebSocketAssumption
ASSUME FlutterAssumed == Flutter!FlutterAssumption
ASSUME ServersAssumed == Servers!AndroidAssumption
ASSUME AgentsAssumed == Agents!IosAssumption

\* Recorder, AndroidServer and Operations begin in several ways, when it is their
\* turn.  Which build the setter has does not matter, only whether others have it too.
Init ==
  /\ part \in Parts
  /\ Recording!Init /\ Streams!Init /\ Socket!Init /\ Flutter!Init
  /\ Servers!Init /\ Agents!Init /\ Requested!Init
  /\ part # "recording" => serial /\ prompt
  /\ build[Setter] = CHOOSE b \in Builds : TRUE
  /\ part # "servers" => build = [r \in Requests |-> build[Setter]]
  /\ part # "methods" => op = "server_info" /\ class = "android"

Others ==
  /\ part # "recording" => UNCHANGED recordingVars
  /\ part # "streams" => UNCHANGED streamVars
  /\ part # "socket" => UNCHANGED socketVars
  /\ part # "flutter" => UNCHANGED flutterVars
  /\ part # "servers" => UNCHANGED serverVars
  /\ part # "agents" => UNCHANGED agentVars
  /\ part # "methods" => UNCHANGED methodVars

Next ==
  /\ UNCHANGED part
  /\ Others
  /\ \/ part = "recording" /\ Recording!Next
     \/ part = "streams" /\ Streams!Next
     \/ part = "socket" /\ Socket!Next
     \/ part = "flutter" /\ Flutter!Next
     \/ part = "servers" /\ Servers!Next
     \/ part = "agents" /\ Agents!Next
     \/ part = "methods" /\ Requested!Next

componentVars == <<part, recordingVars, streamVars, socketVars, flutterVars, serverVars,
                   agentVars, methodVars>>

Spec == Init /\ [][Next]_componentVars

(***************************************************************************)
(* Goroutines run on: handlers with their timers, recorders that get live, *)
(* end once they are stopped and finish their file, the reader of a        *)
(* WebSocket, the goroutines of a dump with their time-outs.  Clients,     *)
(* devices and crashes are not bound to do anything, and a recording that  *)
(* nobody stops may go on for ever.                                        *)
(***************************************************************************)
Fairness ==
  /\ \A h \in Caller : WF_recordingVars(part = "recording" /\ Recording!CallerStep(h))
  /\ \A s \in Recording!Session :
       /\ WF_recordingVars(part = "recording" /\ (Recording!GoLive(s) \/ Recording!FailToStart(s)))
       /\ WF_recordingVars(part = "recording" /\ s \in stopped /\ Recording!EndCapture(s))
       /\ WF_recordingVars(part = "recording" /\ Recording!Finish(s))
  /\ WF_recordingVars(part = "recording" /\ (Recording!StopForShutdown \/ Recording!Exit))
  /\ \A v \in Viewers :
       /\ WF_streamVars(part = "streams" /\ Streams!Serve(v))
       /\ WF_streamVars(part = "streams" /\ Streams!SendCancel(v))
       /\ WF_streamVars(part = "streams" /\ Streams!Grace(v))
       /\ WF_streamVars(part = "streams" /\ Streams!Handle(v))
  /\ WF_socketVars(part = "socket" /\ Socket!Read)
  /\ \A m \in Socket!Messages : WF_socketVars(part = "socket" /\ Socket!Handle(m))
  /\ \A c \in Flutter!Goroutines : WF_flutterVars(part = "flutter" /\ Flutter!Run(c))

FairSpec == Spec /\ Fairness

-------------------------------------------------------------------------------
\* The properties are stated and explained in the modules of the components; one
\* that stays in its initial state has nothing to show.

\* The state of the component that runs keeps its type.
TypeOK ==
  CASE part = "recording" -> Recording!TypeOK
    [] part = "streams" -> Streams!TypeOK
    [] part = "socket" -> Socket!TypeOK
    [] part = "flutter" -> Flutter!TypeOK
    [] part = "servers" -> Servers!TypeOK
    [] part = "agents" -> Agents!TypeOK
    [] part = "methods" -> Requested!TypeOK

\* A running recording is the manager's current session (recording.go:65).
ManagedIfSerial == part = "recording" => Recording!ManagedIfSerial

\* The daemon does not exit in the middle of a recording (recording.go:77).
NoExitMidFile == part = "recording" => Recording!NoExitMidFile

\* Who waits for a recording to end, for the stream of a viewer that left, for a
\* Flutter dump, for an answer or for a device's mutex does not wait for someone who
\* waits in turn or has forgotten it (recording.go:77, daemon/client.go:59,
\* android_flutter.go:145, websocket.go:210, ios.go:894).
NobodyIsStuck ==
  /\ part = "recording" => Recording!NoCallIsStuck
  /\ part = "streams" => Streams!NoStreamIsStuck
  /\ part = "flutter" => Flutter!WalkGoesOn
  /\ part = "socket" => Socket!NoMessageIsForgotten
  /\ part = "agents" => Agents!LockIsGivenBack

\* What the recorder promises: one recording at a time (recording.go:22).
OneAtATime == INSTANCE OneRecording WITH
  using <- {s \in 1..MaxRecordings : recorder[s] \in {"starting", "live", "finalizing"}},
  last <- created, up <- daemon # "exited", orderly <- serial /\ prompt

\* What the HTTP front promises: one viewer for each ticket (server.go:1582).
TicketLife == [t \in Tickets |->
  IF sessions[t] = "free" THEN "offered"
  ELSE IF sessions[t] = "inUse" THEN "claimed"
  ELSE IF minted[t] THEN "spent" ELSE "new"]
TicketServed == [t \in Tickets |->
  {v \in admitted[t] : viewerPc[v] \in {"dial", "send", "read", "remove"}}]

OneEach == INSTANCE StreamTickets WITH
  Ticket <- Tickets, Viewer <- Viewers, Limit <- MaxSessions,
  life <- TicketLife, served <- TicketServed

\* Recorder implements OneRecording and StreamSessions implements StreamTickets:
\* whatever crosses on the way to and from the daemon, their clients see no other
\* behaviour.
RecordingSpec == OneAtATime!Spec
TicketSpec == OneEach!Spec
Promises == RecordingSpec /\ TicketSpec

\* Every recording request is answered (server.go:1190).
EveryCallAnswered == Recording!EveryCallAnswered

\* A recording that was told to stop ends (screenrecord.go:353).
StopTakesEffect == Recording!StopTakesEffect

\* A ticket admits one viewer and is in use as long as that one is served (server.go:1582).
OneViewerPerClaim == part = "streams" => Streams!OneViewerPerClaim

\* A cancelled call gives up on its result only if the daemon never saw the
\* cancel (client.go:59).
CancelGetsResult == part = "streams" => Streams!CancelGetsResult

\* The stream of a viewer that left ends: handler, daemon, ticket (server.go:1696).
StreamsEnd == Streams!StreamsEnd

\* No handler slot of a WebSocket connection is lost (websocket.go:218).
SlotsAreHandlers == part = "socket" => Socket!SlotsAreHandlers

\* Every WebSocket message is answered unless the connection fails (websocket.go:161).
RequestsAreAnswered == Socket!RequestsAreAnswered

\* A Flutter dump that lost nodes to a dead connection is no success (android_flutter.go:623).
ThinTreeIsReported == part = "flutter" => Flutter!ThinTreeIsReported

\* A Flutter dump ends, however few slots there are (android_flutter.go:232).
WalkEnds == part = "flutter" ~> report # "none"

\* A request to the Android server is repeated only after the server died
\* (android_device_server.go:59).
RepeatedOnlyAfterDeath == part = "servers" => Servers!RepeatedOnlyAfterDeath

\* A mock location is set with the appop it needs (android_location.go:80).
SetHasItsAppop == part = "servers" => Servers!SetHasItsAppop

\* The shutdown hooks of an iOS device stop all that its requests started (shutdown.go:44).
ShutdownStopsEverything == part = "agents" => Agents!ShutdownStopsEverything

\* A method uses the on-device agent only after it was started (dispatch.go:79).
AgentBeforeUse == part = "methods" => Requested!AgentBeforeUse

\* A method leaves no temporary file, process, connection or forward behind (dispatch.go:79).
NothingLeftBehind == part = "methods" => Requested!NothingLeftBehind

\* A method that fails has changed nothing on the device but what is known (dispatch.go:79).
FailedLeavesDevice == part = "methods" => Requested!FailedLeavesDevice
===============================================================================
