------------------------------- MODULE Recorder -------------------------------
(***************************************************************************)
(* Screen recordings of the daemon: server/recording.go (the manager of    *)
(* the one current session), the handlers device.screenrecord and          *)
(* device.screenrecord.stop of server/server.go, the recorder goroutine    *)
(* they start (commands/screenrecord.go), and the daemon's shutdown.       *)
(* Session s is the s-th one started; 0 stands for no session.             *)
(***************************************************************************)
EXTENDS Naturals

CONSTANTS
    Caller,      \* goroutines that serve requests of clients
    MaxSessions  \* bound: sessions started in a behaviour

Session == 1..MaxSessions

RecorderAssumption == MaxSessions \in Nat

VARIABLES
    session,   \* recordingManager.session
    created,   \* how many sessions were started
    stopped,   \* the sessions whose StopChan was closed
    ready,     \* what each session's Ready channel holds
    done,      \* each session's Done channel: nothing yet, its response, or taken
    recorder,  \* each session's recorder goroutine
    pc, mine,  \* each caller's handler, and the session it was given
    daemon,    \* the daemon's life: up, draining requests, waiting for Done, exited
    awaited,   \* the session that shutdown waits for
    serial,    \* clients wait for one answer before they ask again
    prompt     \* recorders finish within the 30 s (10 s at shutdown) they are given

manager == <<session, created, stopped>>
channels == <<ready, done>>
handlers == <<pc, mine>>
shutdown == <<daemon, awaited>>
clients == <<serial, prompt>>
vars == <<manager, channels, recorder, handlers, shutdown, clients>>

\* A recorder that uses the device or is still writing its file.
Running == {"starting", "live", "finalizing"}

TypeOK ==
    /\ session \in 0..MaxSessions /\ created \in 0..MaxSessions
    /\ stopped \subseteq Session
    /\ ready \in [Session -> {"empty", "live", "failed"}]
    /\ done \in [Session -> {"none", "sent", "taken"}]
    /\ recorder \in [Session -> Running \union {"none", "failing", "ended"}]
    /\ pc \in [Caller -> {"idle", "awaitReady", "awaitDone", "clear"}]
    /\ mine \in [Caller -> 0..MaxSessions]
    /\ daemon \in {"up", "draining", "waiting", "exited"}
    /\ awaited \in 0..MaxSessions
    /\ serial \in BOOLEAN /\ prompt \in BOOLEAN

Init ==
    /\ session = 0 /\ created = 0 /\ stopped = {}
    /\ ready = [s \in Session |-> "empty"]
    /\ done = [s \in Session |-> "none"]
    /\ recorder = [s \in Session |-> "none"]
    /\ pc = [h \in Caller |-> "idle"] /\ mine = [h \in Caller |-> 0]
    /\ daemon = "up" /\ awaited = 0
    /\ serial \in BOOLEAN /\ prompt \in BOOLEAN

\* A process runs until the daemon exits.
At(h, label) == daemon # "exited" /\ pc[h] = label
RecorderIs(s, state) == daemon # "exited" /\ recorder[s] = state

Goto(h, label) == pc' = [pc EXCEPT ![h] = label]
Answer(h) == Goto(h, "idle") /\ mine' = [mine EXCEPT ![h] = 0]
NobodyAsks == \A h \in Caller : pc[h] = "idle"

\* A request reaches a handler while the daemon accepts connections.
MayCall(h) == daemon = "up" /\ pc[h] = "idle" /\ (serial => NobodyAsks)

NoNilCheck == TRUE  \* fault: stop does not look whether there is a session
HasSession == session # 0

\* The timer of a select on a Done channel may win: the recorder is slow, another
\* goroutine has received the one response, or nobody told this recorder to stop.
MayExpire(s) == prompt => s \notin stopped \/ done[s] = "taken"

-------------------------------------------------------------------------------
(* The handlers *)

\* Fault: a second start is let through.
StartsAnyway == created < MaxSessions
CanStart == session = 0 /\ created < MaxSessions

\* handleScreenRecord: recordingManager.start, then the recorder goroutine; with
\* a session in place it is an error and nothing changes.
StartRecording(h) ==
    /\ MayCall(h) /\ CanStart
    /\ LET s == created + 1 IN
       /\ created' = s /\ session' = s
       /\ recorder' = [recorder EXCEPT ![s] = "starting"]
       /\ mine' = [mine EXCEPT ![h] = s]
    /\ Goto(h, "awaitReady")
    /\ UNCHANGED <<stopped, channels, shutdown, clients>>

\* It hears that the recording is live and acknowledges it, or that it failed
\* to start and frees the manager.
HearReady(h) ==
    /\ At(h, "awaitReady") /\ ready[mine[h]] # "empty"
    /\ ready' = [ready EXCEPT ![mine[h]] = "empty"]
    /\ IF ready[mine[h]] = "live" THEN Answer(h) ELSE Goto(h, "clear") /\ UNCHANGED mine
    /\ UNCHANGED <<manager, done, recorder, shutdown, clients>>

\* A response is received from Done, by the start that is still waiting or by
\* whoever asked the recording to stop.
TakeDone(h) ==
    /\ At(h, "awaitReady") \/ At(h, "awaitDone")
    /\ done[mine[h]] = "sent"
    /\ done' = [done EXCEPT ![mine[h]] = "taken"]
    /\ Goto(h, "clear")
    /\ UNCHANGED <<manager, ready, recorder, mine, shutdown, clients>>

\* recordingManager.stop: the current session's StopChan is closed.
StopCurrent == stopped' = stopped \union {session}

\* 60 s without an answer: whatever session is current is asked to stop.
ReadyTimeout(h) ==
    /\ At(h, "awaitReady")
    /\ IF HasSession THEN StopCurrent /\ Goto(h, "awaitDone")
                     ELSE UNCHANGED stopped /\ Goto(h, "clear")
    /\ UNCHANGED <<session, created, channels, recorder, mine, shutdown, clients>>

\* handleScreenRecordStop; without a session it is an error and nothing changes.
StopRecording(h) ==
    /\ MayCall(h) /\ HasSession
    /\ StopCurrent
    /\ mine' = [mine EXCEPT ![h] = session]
    /\ Goto(h, "awaitDone")
    /\ UNCHANGED <<session, created, channels, recorder, shutdown, clients>>

\* 30 s without a response.
NoTimeout(h) == FALSE /\ UNCHANGED vars  \* fault: the wait for Done has no limit
FinalizeTimeout(h) ==
    /\ At(h, "awaitDone") /\ MayExpire(mine[h])
    /\ Goto(h, "clear")
    /\ UNCHANGED <<manager, channels, recorder, mine, shutdown, clients>>

\* recordingManager.clear, whatever session is current by now, and the answer.
Clear(h) ==
    /\ At(h, "clear")
    /\ session' = 0
    /\ Answer(h)
    /\ UNCHANGED <<created, stopped, channels, recorder, shutdown, clients>>

-------------------------------------------------------------------------------
(* The recorder goroutine: ScreenRecordCommand, then Done *)

SetRecorder(s, state) == recorder' = [recorder EXCEPT ![s] = state]

\* signalReady: only the first answer is kept.
SignalReady(s, answer) ==
    ready' = [ready EXCEPT ![s] = IF @ = "empty" THEN answer ELSE @]

GoLive(s) ==
    /\ RecorderIs(s, "starting")
    /\ SetRecorder(s, "live") /\ SignalReady(s, "live")
    /\ UNCHANGED <<manager, done, handlers, shutdown, clients>>

\* No device, no agent, no source, or stopped before the first byte.
FailToStart(s) ==
    /\ RecorderIs(s, "starting")
    /\ SetRecorder(s, "failing") /\ SignalReady(s, "failed")
    /\ UNCHANGED <<manager, done, handlers, shutdown, clients>>

\* The capture ends: stopped, out of time, or broken.
EndsByItself(s) == s \notin stopped  \* fault: a capture does not hear StopChan
MayEnd(s) == TRUE
EndCapture(s) ==
    /\ RecorderIs(s, "live") /\ MayEnd(s)
    /\ SetRecorder(s, "finalizing")
    /\ UNCHANGED <<manager, channels, handlers, shutdown, clients>>

\* The file is complete, or it failed: the response goes into Done.
Finish(s) ==
    /\ RecorderIs(s, "finalizing") \/ RecorderIs(s, "failing")
    /\ SetRecorder(s, "ended")
    /\ done' = [done EXCEPT ![s] = "sent"]
    /\ UNCHANGED <<manager, ready, handlers, shutdown, clients>>

-------------------------------------------------------------------------------
(* The daemon's end: server/daemon.go DaemonBusy, StopRecordingForShutdown *)

DaemonBusy == session # 0

\* watchIdle: no request in flight and nothing that keeps the daemon alive.
IdleExit ==
    /\ daemon = "up" /\ NobodyAsks /\ ~DaemonBusy
    /\ daemon' = "draining"
    /\ UNCHANGED <<manager, channels, recorder, handlers, awaited, clients>>

\* daemon.shutdown, or a signal.
ShutdownRequest ==
    /\ daemon = "up"
    /\ daemon' = "draining"
    /\ UNCHANGED <<manager, channels, recorder, handlers, awaited, clients>>

\* Fault: the daemon exits with whatever is being recorded.
ExitAtOnce ==
    /\ daemon = "draining" /\ daemon' = "exited"
    /\ UNCHANGED <<manager, channels, recorder, handlers, awaited, clients>>

\* StopRecordingForShutdown, after the requests in flight were given their time.
StopForShutdown ==
    /\ daemon = "draining"
    /\ IF HasSession
       THEN daemon' = "waiting" /\ StopCurrent /\ awaited' = session
       ELSE daemon' = "exited" /\ UNCHANGED <<stopped, awaited>>
    /\ UNCHANGED <<session, created, channels, recorder, handlers, clients>>

\* Done, or 10 s: the session is cleared and the process exits.
Exit ==
    /\ daemon = "waiting"
    /\ done[awaited] = "sent" \/ MayExpire(awaited)
    /\ daemon' = "exited"
    /\ session' = 0
    /\ done' = [done EXCEPT ![awaited] = IF @ = "sent" THEN "taken" ELSE @]
    /\ UNCHANGED <<created, stopped, ready, recorder, handlers, awaited, clients>>

-------------------------------------------------------------------------------

CallerStep(h) ==
    \/ HearReady(h) \/ TakeDone(h) \/ ReadyTimeout(h) \/ FinalizeTimeout(h) \/ Clear(h)

RecorderStep(s) == GoLive(s) \/ FailToStart(s) \/ EndCapture(s) \/ Finish(s)

Next ==
    \/ \E h \in Caller : StartRecording(h) \/ StopRecording(h) \/ CallerStep(h)
    \/ \E s \in Session : RecorderStep(s)
    \/ IdleExit \/ ShutdownRequest \/ StopForShutdown \/ Exit

\* A handler runs on, its timers included; a recorder gets live or fails, ends
\* once it is stopped, and finishes its file; a shutdown is carried through.
\* Nobody has to call, and a recording that nobody stops may go on for ever.
Fairness ==
    /\ \A h \in Caller : WF_vars(CallerStep(h))
    /\ \A s \in Session :
          /\ WF_vars(GoLive(s) \/ FailToStart(s))
          /\ WF_vars(s \in stopped /\ EndCapture(s))
          /\ WF_vars(Finish(s))
    /\ WF_vars(StopForShutdown \/ Exit)

Spec == Init /\ [][Next]_vars
FairSpec == Spec /\ Fairness

-------------------------------------------------------------------------------
(* Properties *)

\* A recording that uses the device is the manager's current session: it can be
\* stopped, no other one can be started beside it, and it keeps the daemon alive.
Managed == daemon # "exited" => \A s \in Session : recorder[s] \in Running => session = s

\* ... which is so for clients that ask one thing at a time, while recorders are
\* as quick as the handlers expect.
ManagedIfSerial == serial /\ prompt => Managed

\* StopRecordingForShutdown: "so the daemon never exits mid-file".
NoExitMidFile ==
    serial /\ prompt /\ daemon = "exited" => \A s \in Session : recorder[s] \notin Running

\* handleScreenRecord: a session is freed once its recorder has exited, "so it
\* cannot overlap a subsequent capture".
NoOverlap == prompt => \A s, t \in Session :
                          recorder[s] \in Running /\ recorder[t] \in Running => s = t

\* Nobody waits in vain: a handler that awaits a response, and the shutdown, have it
\* or a timer that may expire, or else the recorder is at work and told to end, so
\* that every step it has left is one it takes (server.go:1243, recording.go:77).
Answering(s) == done[s] = "sent" \/ MayExpire(s)
Ending(s) == recorder[s] \notin {"none", "ended"} /\ s \in stopped
NoCallIsStuck ==
    /\ \A h \in Caller : At(h, "awaitDone") => Answering(mine[h]) \/ Ending(mine[h])
    /\ daemon = "waiting" => Answering(awaited) \/ Ending(awaited)

\* Every request is answered, also one whose response somebody else received.
EveryCallAnswered ==
    \A h \in Caller : pc[h] # "idle" ~> pc[h] = "idle" \/ daemon = "exited"

\* A recording that was told to stop does, and gives its response to somebody.
StopTakesEffect ==
    \A s \in Session : s \in stopped ~> recorder[s] = "ended" \/ daemon = "exited"
===============================================================================
