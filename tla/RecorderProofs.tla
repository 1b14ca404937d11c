----------------------------- MODULE RecorderProofs -----------------------------
(***************************************************************************)
(* Proofs about Recorder, for any number of clients and of recordings.     *)
(***************************************************************************)
EXTENDS Recorder, TLAPS

\* A recorder goroutine runs once: what its channels hold tells how far it got.
Once ==
    /\ session <= created
    /\ \A s \in Session : s > created <=> recorder[s] = "none"
    /\ \A s \in Session : recorder[s] = "none" => ready[s] = "empty"
    /\ \A s \in Session : done[s] # "none" <=> recorder[s] = "ended"
    /\ \A s \in Session : ready[s] = "failed" => recorder[s] \in {"failing", "ended"}
    /\ \A h \in Caller : pc[h] # "idle" => mine[h] \in 1..created
    /\ daemon = "waiting" => awaited \in 1..created /\ awaited \in stopped

\* What clients that ask one thing at a time and quick recorders add: a handler is
\* about the current session, and that one is cleared when its recorder is over.
InTurn ==
    /\ \A g, h \in Caller : pc[g] # "idle" /\ pc[h] # "idle" => g = h
    /\ daemon # "exited" => \A h \in Caller : pc[h] # "idle" => mine[h] = session
    /\ \A h \in Caller : pc[h] = "awaitDone" => mine[h] \in stopped
    /\ daemon # "exited" => \A h \in Caller :
          pc[h] = "clear" => recorder[mine[h]] \in {"failing", "ended"}
    /\ daemon = "waiting" => session \in {0, awaited}
    /\ Managed
    /\ NoExitMidFile

IInv ==
    /\ TypeOK
    /\ Once
    /\ serial /\ prompt => InTurn

-------------------------------------------------------------------------------
\* The invariant holds when the daemon starts.
LEMMA InitIInv == RecorderAssumption /\ Init => IInv
<1> SUFFICES ASSUME RecorderAssumption, Init
             PROVE  IInv
  OBVIOUS
<1> USE DEF RecorderAssumption, Init, Session
<1>1. TypeOK
  <2>1. session \in 0..MaxSessions /\ created \in 0..MaxSessions /\ awaited \in 0..MaxSessions
    OBVIOUS
  <2>2. /\ ready \in [Session -> {"empty", "live", "failed"}]
        /\ done \in [Session -> {"none", "sent", "taken"}]
        /\ recorder \in [Session -> Running \union {"none", "failing", "ended"}]
    OBVIOUS
  <2>3. /\ pc \in [Caller -> {"idle", "awaitReady", "awaitDone", "clear"}]
        /\ mine \in [Caller -> 0..MaxSessions]
    OBVIOUS
  <2>4. serial \in BOOLEAN /\ prompt \in BOOLEAN /\ stopped \subseteq Session
    OBVIOUS
  <2>. QED
    BY <2>1, <2>2, <2>3, <2>4 DEF TypeOK
<1>2. Once
  BY DEF Once
<1>3. InTurn
  BY DEF InTurn, Managed, NoExitMidFile, Running
<1>. QED
  BY <1>1, <1>2, <1>3 DEF IInv

\* The session a handler is about was started.
LEMMA MineStarted ==
  ASSUME RecorderAssumption, IInv, NEW h \in Caller, pc[h] # "idle"
  PROVE  mine[h] \in Session /\ mine[h] <= created
  BY DEF IInv, Once, TypeOK, RecorderAssumption, Session

\* The handlers.
LEMMA HandlerStep ==
  ASSUME RecorderAssumption, IInv, NEW h \in Caller,
         StartRecording(h) \/ StopRecording(h) \/ CallerStep(h)
  PROVE  IInv'
<1> USE DEF Goto, Answer, Session, RecorderAssumption,
            manager, channels, handlers, shutdown, clients
<1>0. TypeOK /\ Once
  BY DEF IInv
<1>1. CASE StartRecording(h)
  <2>1. PICK s \in Session : /\ s = created + 1 /\ created' = s /\ session' = s
                             /\ recorder' = [recorder EXCEPT ![s] = "starting"]
                             /\ mine' = [mine EXCEPT ![h] = s]
    <3>1. created + 1 \in Session
      BY <1>0, <1>1 DEF StartRecording, CanStart, TypeOK
    <3>. QED
      BY <1>1, <3>1 DEF StartRecording
  <2>2. /\ daemon = "up" /\ pc[h] = "idle" /\ session = 0 /\ (serial => NobodyAsks)
        /\ pc' = [pc EXCEPT ![h] = "awaitReady"]
        /\ UNCHANGED <<stopped, ready, done, daemon, awaited, serial, prompt>>
    BY <1>1 DEF StartRecording, MayCall, CanStart
  <2>3. TypeOK'
    BY <1>0, <2>1, <2>2 DEF TypeOK, Running
  <2>4. Once'
    BY <1>0, <2>1, <2>2 DEF TypeOK, Once
  <2>5. ASSUME serial, prompt, InTurn
        PROVE  InTurn'
    BY <1>0, <2>1, <2>2, <2>5 DEF TypeOK, Once, InTurn, Managed, NoExitMidFile, NobodyAsks, Running
  <2>. QED
    BY <2>2, <2>3, <2>4, <2>5 DEF IInv
<1>2. CASE StopRecording(h)
  <2>1. /\ daemon = "up" /\ pc[h] = "idle" /\ session # 0 /\ (serial => NobodyAsks)
        /\ stopped' = stopped \union {session} /\ session \in Session
        /\ mine' = [mine EXCEPT ![h] = session]
        /\ pc' = [pc EXCEPT ![h] = "awaitDone"]
        /\ UNCHANGED <<session, created, ready, done, recorder, daemon, awaited, serial, prompt>>
    BY <1>0, <1>2 DEF StopRecording, MayCall, HasSession, StopCurrent, TypeOK
  <2>2. TypeOK'
    BY <1>0, <2>1 DEF TypeOK
  <2>3. Once'
    BY <1>0, <2>1 DEF TypeOK, Once
  <2>4. ASSUME serial, prompt, InTurn
        PROVE  InTurn'
    BY <1>0, <2>1, <2>4 DEF TypeOK, Once, InTurn, Managed, NoExitMidFile, NobodyAsks
  <2>. QED
    BY <2>1, <2>2, <2>3, <2>4 DEF IInv
<1>3. CASE HearReady(h)
  <2>1. /\ daemon # "exited" /\ pc[h] = "awaitReady" /\ ready[mine[h]] # "empty"
        /\ ready' = [ready EXCEPT ![mine[h]] = "empty"]
        /\ UNCHANGED <<session, created, stopped, done, recorder, daemon, awaited, serial, prompt>>
    BY <1>3 DEF HearReady, At
  <2>2. mine[h] \in Session /\ mine[h] <= created
    BY <2>1, MineStarted
  <2>3. CASE ready[mine[h]] = "live"
    <3>1. pc' = [pc EXCEPT ![h] = "idle"] /\ mine' = [mine EXCEPT ![h] = 0]
      BY <1>3, <2>3 DEF HearReady
    <3>2. TypeOK'
      <4>1. 0 \in 0..MaxSessions
        OBVIOUS
      <4>. QED
        BY <1>0, <2>1, <3>1, <4>1 DEF TypeOK
    <3>3. Once'
      BY <1>0, <2>1, <2>2, <3>1 DEF TypeOK, Once
    <3>4. ASSUME serial, prompt, InTurn
          PROVE  InTurn'
      BY <1>0, <2>1, <3>1, <3>4 DEF TypeOK, InTurn, Managed, NoExitMidFile
    <3>. QED
      BY <2>1, <3>2, <3>3, <3>4 DEF IInv
  <2>4. CASE ready[mine[h]] # "live"
    <3>1. pc' = [pc EXCEPT ![h] = "clear"] /\ UNCHANGED mine
      BY <1>3, <2>4 DEF HearReady
    <3>2. recorder[mine[h]] \in {"failing", "ended"}
      BY <1>0, <2>1, <2>2, <2>4 DEF TypeOK, Once
    <3>3. TypeOK'
      BY <1>0, <2>1, <3>1 DEF TypeOK
    <3>4. Once'
      BY <1>0, <2>1, <2>2, <3>1 DEF TypeOK, Once
    <3>5. ASSUME serial, prompt, InTurn
          PROVE  InTurn'
      BY <1>0, <2>1, <3>1, <3>2, <3>5 DEF TypeOK, InTurn, Managed, NoExitMidFile
    <3>. QED
      BY <2>1, <3>3, <3>4, <3>5 DEF IInv
  <2>. QED
    BY <2>3, <2>4
<1>4. CASE TakeDone(h)
  <2>1. /\ daemon # "exited" /\ pc[h] # "idle" /\ done[mine[h]] = "sent"
        /\ done' = [done EXCEPT ![mine[h]] = "taken"]
        /\ pc' = [pc EXCEPT ![h] = "clear"]
        /\ UNCHANGED <<session, created, stopped, ready, recorder, mine, daemon, awaited, serial, prompt>>
    BY <1>4 DEF TakeDone, At
  <2>2. mine[h] \in Session /\ mine[h] <= created
    BY <2>1, MineStarted
  <2>3. recorder[mine[h]] = "ended"
    BY <1>0, <2>1, <2>2 DEF Once
  <2>4. TypeOK'
    BY <1>0, <2>1 DEF TypeOK
  <2>5. Once'
    BY <1>0, <2>1, <2>2 DEF TypeOK, Once
  <2>6. ASSUME serial, prompt, InTurn
        PROVE  InTurn'
    BY <1>0, <2>1, <2>3, <2>6 DEF TypeOK, InTurn, Managed, NoExitMidFile
  <2>. QED
    BY <2>1, <2>4, <2>5, <2>6 DEF IInv
<1>5. CASE ReadyTimeout(h)
  <2>1. /\ daemon # "exited" /\ pc[h] = "awaitReady"
        /\ UNCHANGED <<session, created, ready, done, recorder, mine, daemon, awaited, serial, prompt>>
    BY <1>5 DEF ReadyTimeout, At
  <2>2. PICK l \in {"awaitDone", "clear"} :
           /\ pc' = [pc EXCEPT ![h] = l]
           /\ IF l = "clear" THEN session = 0 /\ UNCHANGED stopped
                             ELSE stopped' = stopped \union {session}
    BY <1>5 DEF ReadyTimeout, HasSession, StopCurrent
  <2>3. stopped' \subseteq Session
    <3>1. session # 0 => session \in Session
      BY <1>0 DEF TypeOK
    <3>. QED
      BY <1>0, <1>5, <3>1 DEF ReadyTimeout, HasSession, StopCurrent, TypeOK
  <2>4. mine[h] # 0
    BY <2>1, MineStarted
  <2>5. TypeOK'
    BY <1>0, <2>1, <2>2, <2>3 DEF TypeOK
  <2>6. Once'
    BY <1>0, <2>1, <2>2 DEF TypeOK, Once
  <2>7. ASSUME serial, prompt, InTurn
        PROVE  InTurn'
    BY <1>0, <2>1, <2>2, <2>4, <2>7 DEF TypeOK, InTurn, Managed, NoExitMidFile
  <2>. QED
    BY <2>1, <2>5, <2>6, <2>7 DEF IInv
<1>6. CASE FinalizeTimeout(h)
  <2>1. /\ daemon # "exited" /\ pc[h] = "awaitDone" /\ pc' = [pc EXCEPT ![h] = "clear"]
        /\ prompt => mine[h] \notin stopped \/ done[mine[h]] = "taken"
        /\ UNCHANGED <<session, created, stopped, ready, done, recorder, mine, daemon, awaited,
                       serial, prompt>>
    BY <1>6 DEF FinalizeTimeout, At, MayExpire
  <2>2. mine[h] \in Session
    BY <2>1, MineStarted
  <2>3. prompt /\ mine[h] \in stopped => recorder[mine[h]] = "ended"
    BY <1>0, <2>1, <2>2 DEF Once
  <2>4. TypeOK' /\ Once'
    BY <1>0, <2>1 DEF TypeOK, Once
  <2>5. ASSUME serial, prompt, InTurn
        PROVE  InTurn'
    BY <1>0, <2>1, <2>3, <2>5 DEF TypeOK, InTurn, Managed, NoExitMidFile
  <2>. QED
    BY <2>1, <2>4, <2>5 DEF IInv
<1>7. CASE Clear(h)
  <2>1. /\ daemon # "exited" /\ pc[h] = "clear" /\ session' = 0
        /\ pc' = [pc EXCEPT ![h] = "idle"] /\ mine' = [mine EXCEPT ![h] = 0]
        /\ UNCHANGED <<created, stopped, ready, done, recorder, daemon, awaited, serial, prompt>>
    BY <1>7 DEF Clear, At
  <2>2. TypeOK'
    BY <1>0, <2>1 DEF TypeOK
  <2>3. Once'
    BY <1>0, <2>1 DEF TypeOK, Once
  <2>4. ASSUME serial, prompt, InTurn
        PROVE  InTurn'
    <3>1. \A s \in Session : recorder[s] \notin Running
      BY <2>1, <2>4 DEF InTurn, Managed, Running
    <3>. QED
      BY <1>0, <2>1, <2>4, <3>1 DEF TypeOK, InTurn, Managed, NoExitMidFile
  <2>. QED
    BY <2>1, <2>2, <2>3, <2>4 DEF IInv
<1>. QED
  BY <1>1, <1>2, <1>3, <1>4, <1>5, <1>6, <1>7 DEF CallerStep

\* The recorder goroutines.
LEMMA RecorderStepIInv ==
  ASSUME RecorderAssumption, IInv, NEW s \in Session, RecorderStep(s)
  PROVE  IInv'
<1> USE DEF Session, RecorderAssumption, manager, handlers, shutdown, clients
<1>0. TypeOK /\ Once
  BY DEF IInv
<1>1. UNCHANGED <<session, created, stopped, pc, mine, daemon, awaited, serial, prompt>>
  BY DEF RecorderStep, GoLive, FailToStart, EndCapture, Finish, channels
<1>2. daemon # "exited" /\ recorder[s] \in Running \union {"failing"} /\ s <= created
  <2>1. daemon # "exited" /\ recorder[s] \in Running \union {"failing"}
    BY DEF RecorderStep, GoLive, FailToStart, EndCapture, Finish, RecorderIs, Running
  <2>. QED
    BY <1>0, <2>1 DEF Once, TypeOK, Running
<1>3. PICK to \in {"live", "failing", "finalizing", "ended"} :
         /\ recorder' = [recorder EXCEPT ![s] = to]
         /\ to \in Running => recorder[s] \in Running
         /\ recorder[s] = "failing" => to = "ended"
         /\ done' = IF to = "ended" THEN [done EXCEPT ![s] = "sent"] ELSE done
  BY DEF RecorderStep, GoLive, FailToStart, EndCapture, Finish, SetRecorder, RecorderIs, Running, channels
<1>4. /\ ready' \in [Session -> {"empty", "live", "failed"}]
      /\ \A t \in Session \ {s} : ready'[t] = ready[t]
      /\ ready'[s] = "failed" => ready[s] = "failed" \/ recorder'[s] = "failing"
  BY <1>0, <1>2 DEF RecorderStep, GoLive, FailToStart, EndCapture, Finish, SetRecorder, SignalReady,
     TypeOK, channels
<1>5. TypeOK'
  BY <1>0, <1>1, <1>3, <1>4 DEF TypeOK, Running
<1>6. Once'
  BY <1>0, <1>1, <1>2, <1>3, <1>4 DEF TypeOK, Once, Running
<1>7. ASSUME serial, prompt, InTurn
      PROVE  InTurn'
  BY <1>0, <1>1, <1>2, <1>3, <1>7 DEF TypeOK, InTurn, Managed, NoExitMidFile, Running
<1>. QED
  BY <1>1, <1>5, <1>6, <1>7 DEF IInv

\* The end of the daemon.
LEMMA ShutdownStep ==
  ASSUME RecorderAssumption, IInv, IdleExit \/ ShutdownRequest \/ StopForShutdown \/ Exit
  PROVE  IInv'
<1> USE DEF Session, RecorderAssumption, manager, channels, handlers, clients
<1>0. TypeOK /\ Once
  BY DEF IInv
<1>1. CASE IdleExit \/ ShutdownRequest
  <2>1. /\ daemon = "up" /\ daemon' = "draining"
        /\ UNCHANGED <<session, created, stopped, ready, done, recorder, pc, mine, awaited,
                       serial, prompt>>
    BY <1>1 DEF IdleExit, ShutdownRequest
  <2>2. TypeOK' /\ Once'
    BY <1>0, <2>1 DEF TypeOK, Once
  <2>3. ASSUME InTurn
        PROVE  InTurn'
    BY <2>1, <2>3 DEF InTurn, Managed, NoExitMidFile
  <2>. QED
    BY <2>1, <2>2, <2>3 DEF IInv
<1>2. CASE StopForShutdown
  <2>1. /\ daemon = "draining"
        /\ UNCHANGED <<session, created, ready, done, recorder, pc, mine, serial, prompt>>
    BY <1>2 DEF StopForShutdown
  <2>2. CASE session # 0
    <3>1. /\ daemon' = "waiting" /\ stopped' = stopped \union {session} /\ awaited' = session
          /\ session \in Session /\ session <= created
      BY <1>0, <1>2, <2>2 DEF StopForShutdown, HasSession, StopCurrent, TypeOK, Once
    <3>2. TypeOK'
      BY <1>0, <2>1, <3>1 DEF TypeOK
    <3>3. Once'
      BY <1>0, <2>1, <3>1 DEF TypeOK, Once
    <3>4. ASSUME InTurn
          PROVE  InTurn'
      BY <2>1, <3>1, <3>4 DEF InTurn, Managed, NoExitMidFile
    <3>. QED
      BY <2>1, <3>2, <3>3, <3>4 DEF IInv
  <2>3. CASE session = 0
    <3>1. daemon' = "exited" /\ UNCHANGED <<stopped, awaited>>
      BY <1>2, <2>3 DEF StopForShutdown, HasSession
    <3>2. TypeOK' /\ Once'
      BY <1>0, <2>1, <3>1 DEF TypeOK, Once
    <3>3. ASSUME InTurn
          PROVE  InTurn'
      BY <2>1, <2>3, <3>1, <3>3 DEF InTurn, Managed, NoExitMidFile
    <3>. QED
      BY <2>1, <3>2, <3>3 DEF IInv
  <2>. QED
    BY <2>2, <2>3
<1>3. CASE Exit
  <2>1. /\ daemon = "waiting" /\ daemon' = "exited" /\ session' = 0
        /\ prompt => awaited \notin stopped \/ done[awaited] # "none"
        /\ done' = [done EXCEPT ![awaited] = IF @ = "sent" THEN "taken" ELSE @]
        /\ UNCHANGED <<created, stopped, ready, recorder, pc, mine, awaited, serial, prompt>>
    BY <1>3 DEF Exit, MayExpire
  <2>2. awaited \in Session
    BY <1>0, <2>1 DEF TypeOK, Once
  <2>3. TypeOK' /\ Once'
    BY <1>0, <2>1, <2>2 DEF TypeOK, Once
  <2>4. ASSUME serial, prompt, InTurn
        PROVE  InTurn'
    <3>1. recorder[awaited] = "ended" /\ session \in {0, awaited}
      BY <1>0, <2>1, <2>2, <2>4 DEF Once, InTurn
    <3>2. \A s \in Session : recorder[s] \notin Running
      BY <2>1, <2>4, <3>1 DEF InTurn, Managed, Running
    <3>. QED
      BY <1>0, <2>1, <2>4, <3>2 DEF TypeOK, InTurn, Managed, NoExitMidFile
  <2>. QED
    BY <2>1, <2>3, <2>4 DEF IInv
<1>. QED
  BY <1>1, <1>2, <1>3

\* Every step keeps the invariant.
LEMMA NextIInv == RecorderAssumption /\ IInv /\ [Next]_vars => IInv'
<1> SUFFICES ASSUME RecorderAssumption, IInv, [Next]_vars
             PROVE  IInv'
  OBVIOUS
<1>1. CASE UNCHANGED vars
  BY <1>1 DEF vars, manager, channels, handlers, shutdown, clients, IInv, TypeOK, Once, InTurn,
     Managed, NoExitMidFile
<1>. QED
  BY <1>1, HandlerStep, RecorderStepIInv, ShutdownStep DEF Next

\* While clients wait for their answers and recorders are quick, a recording that
\* uses the device is the current session (recording.go:65).
LEMMA IInvManagedIfSerial == IInv => ManagedIfSerial
  BY DEF IInv, InTurn, ManagedIfSerial

\* ... and the daemon waits for the one there is before it exits (recording.go:77).
LEMMA IInvNoExitMidFile == IInv => NoExitMidFile
  BY DEF IInv, InTurn, NoExitMidFile

\* The invariant contains the type of the state.
LEMMA IInvTypeOK == IInv => TypeOK
  BY DEF IInv

\* Nobody waits in vain: whoever awaits a response can go on, or the recorder that
\* owes it is at work and was told to end.
LEMMA IInvNoCallIsStuck == IInv => NoCallIsStuck
<1> SUFFICES ASSUME IInv
             PROVE  NoCallIsStuck
  OBVIOUS
<1>0. TypeOK /\ Once
  BY DEF IInv
<1>1. ASSUME NEW s \in Session, s <= created
      PROVE  Answering(s) \/ Ending(s)
  <2>1. recorder[s] # "none"
    BY <1>0, <1>1 DEF Once, TypeOK, Session
  <2>2. done[s] \in {"none", "sent", "taken"} /\ (done[s] = "none" => recorder[s] # "ended")
    BY <1>0 DEF Once, TypeOK
  <2>. QED
    BY <2>1, <2>2 DEF Answering, Ending, MayExpire
<1>2. ASSUME NEW h \in Caller, At(h, "awaitDone")
      PROVE  Answering(mine[h]) \/ Ending(mine[h])
  <2>1. mine[h] \in Session /\ mine[h] <= created
    BY <1>0, <1>2 DEF Once, TypeOK, Session, At
  <2>. QED
    BY <1>1, <2>1
<1>3. ASSUME daemon = "waiting"
      PROVE  Answering(awaited) \/ Ending(awaited)
  <2>1. awaited \in Session /\ awaited <= created
    BY <1>0, <1>3 DEF Once, TypeOK, Session
  <2>. QED
    BY <1>1, <2>1
<1>. QED
  BY <1>2, <1>3 DEF NoCallIsStuck
=================================================================================
