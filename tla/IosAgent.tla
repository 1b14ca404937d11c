------------------------------ MODULE IosAgent ------------------------------
(***************************************************************************)
(* What mobilecli runs for one real iOS device (devices/ios.go): the loop  *)
(* that keeps the tunnel up (ios/tunnel-manager.go), the test runner that  *)
(* is the agent, and the port forwarders (ios/port-forwarding.go) of the   *)
(* agent and of the H.264 stream; and the shutdown hook that stops them    *)
(* (shutdown.go).  Requests start all of this concurrently; a streamer is  *)
(* the start of the shared stream, of which the hub allows one at a time.  *)
(*                                                                         *)
(* Loops, runners and forwarders are numbered in the order they are made.  *)
(***************************************************************************)
EXTENDS Naturals

CONSTANTS
  Callers,    \* requests that start the agent
  Streamers,  \* those that go on to start the H.264 stream
  Hooked,     \* those that pass a shutdown hook (web view calls do not)
  MaxLoops, MaxRunners, MaxForwards   \* bounds on what is ever made

IosAssumption ==
  /\ Streamers \subseteq Callers /\ Hooked \subseteq Callers
  /\ \A c, d \in Streamers : c = d
  /\ {MaxLoops, MaxRunners, MaxForwards} \subseteq Nat

VARIABLES
  pc,        \* caller -> its place in StartAgent and in the stream's start
  mu,        \* the caller that keeps d.mu across a call, 0 for nobody
  loops,     \* tunnel loops that run
  steady,    \* those whose first update went well
  updateCtx, \* the loop TunnelManager knows, or 0
  runners,   \* test runners that run
  deviceKitCancel, \* the runner whose cancel function is kept, or 0
  cancelled, \* loops and runners that were told to stop
  open,      \* forwarders that listen
  agentFwd, httpFwd, avcFwd,   \* the forwarders the device knows, or 0
  own,       \* caller -> the agent forwarder it just made, or 0
  made,      \* how many loops, runners and forwarders were made
  agentUp,   \* the agent on the device answers
  hooked,    \* a hook for Cleanup is registered
  cleanup,   \* how far the hooks are
  raced,     \* agent forwarders lost to another caller's (history)
  calm       \* no caller has run since the hooks began (history)

tunnel == <<loops, steady, updateCtx>>
runner == <<runners, deviceKitCancel, agentUp>>
ports == <<open, agentFwd, httpFwd, avcFwd, own, raced>>
shutdown == <<hooked, cleanup>>
vars == <<pc, mu, tunnel, runner, cancelled, ports, made, shutdown, calm>>

Stages == {"list", "start", "launch"}   \* the three calls of startTunnel
Waiting == [list |-> "list waits", start |-> "start waits", launch |-> "launch waits"]
Places == Stages \cup {"idle", "status", "apps", "check", "forward", "again", "run", "ready",
                       "stream", "http", "avc", "broadcast"}

TypeOK ==
  /\ pc \in [Callers -> Places \cup {Waiting[s] : s \in Stages}]
  /\ mu \in Callers \cup {0}
  /\ made \in [{"loop", "runner", "forward"} -> Nat]
  /\ steady \subseteq loops /\ loops \subseteq 1..made["loop"] /\ updateCtx \in 0..made["loop"]
  /\ runners \subseteq 1..made["runner"] /\ deviceKitCancel \in 0..made["runner"]
  /\ cancelled \subseteq {"loop", "runner"} \X Nat
  /\ open \subseteq 1..made["forward"] /\ raced \subseteq 1..made["forward"]
  /\ {agentFwd, httpFwd, avcFwd} \subseteq 0..made["forward"]
  /\ own \in [Callers -> 0..made["forward"]]
  /\ agentUp \in BOOLEAN /\ hooked \in BOOLEAN /\ calm \in BOOLEAN
  /\ cleanup \in {"off", "kit", "ports", "tunnel", "done"}

Init ==
  /\ pc = [c \in Callers |-> "idle"] /\ mu = 0
  /\ loops = {} /\ steady = {} /\ updateCtx = 0
  /\ runners = {} /\ deviceKitCancel = 0 /\ cancelled = {}
  /\ open = {} /\ raced = {} /\ agentFwd = 0 /\ httpFwd = 0 /\ avcFwd = 0
  /\ own = [c \in Callers |-> 0]
  /\ made = [k \in {"loop", "runner", "forward"} |-> 0]
  /\ agentUp = FALSE   \* or left running by an earlier process: see AgentRuns
  /\ hooked = FALSE /\ cleanup = "off" /\ calm = FALSE

Goto(c, place) == pc' = [pc EXCEPT ![c] = place]
Made(kind) == made' = [made EXCEPT ![kind] = @ + 1]
Stir == calm' = FALSE          \* every step of a caller
Unlocked == mu = 0

(***************************************************************************)
(* The tunnel.                                                             *)
(***************************************************************************)
AfterTunnel(stage) ==
  CASE stage = "list" -> "apps" [] stage = "start" -> "check" [] stage = "launch" -> "run"

(* startTunnel: StartTunnel makes a loop unless one is known; the caller   *)
(* that made it waits until the tunnel is there.  ListApps keeps d.mu.     *)
StartTunnel(c, stage) ==
  /\ pc[c] = stage
  /\ stage = "list" => mu = 0
  /\ mu' = IF stage = "list" THEN c ELSE mu
  /\ IF updateCtx # 0
       THEN /\ Goto(c, AfterTunnel(stage))
            /\ UNCHANGED <<tunnel, made>>
       ELSE /\ made["loop"] < MaxLoops
            /\ Made("loop")
            /\ loops' = loops \cup {made["loop"] + 1}
            /\ updateCtx' = made["loop"] + 1
            /\ Goto(c, Waiting[stage])
            /\ UNCHANGED steady
  /\ Stir /\ UNCHANGED <<runner, cancelled, ports, shutdown>>

\* waitForTunnelReady: the tunnel is there, or 10 s are over.
AwaitTunnel(c) ==
  /\ \E stage \in Stages :
       /\ pc[c] = Waiting[stage]
       /\ \/ steady # {} /\ Goto(c, AfterTunnel(stage)) /\ UNCHANGED <<mu, own>>
          \/ /\ Goto(c, "idle")
             /\ mu' = IF mu = c THEN 0 ELSE mu
             /\ own' = [own EXCEPT ![c] = 0]
  /\ Stir
  /\ UNCHANGED <<tunnel, runner, cancelled, open, agentFwd, httpFwd, avcFwd, raced, made, shutdown>>

\* The first UpdateTunnels of a loop.
Update(n) ==
  /\ n \in loops \ steady
  /\ steady' = steady \cup {n}
  /\ UNCHANGED <<pc, mu, loops, updateCtx, runner, cancelled, ports, made, shutdown, calm>>

\* A loop ends when it is cancelled or its first update fails; its deferred
\* function then clears what the manager knows, whichever loop that is.
LoopEnds(n) ==
  /\ n \in loops
  /\ <<"loop", n>> \in cancelled \/ n \notin steady
  /\ loops' = loops \ {n} /\ steady' = steady \ {n}
  /\ updateCtx' = 0
  /\ UNCHANGED <<pc, mu, runner, cancelled, ports, made, shutdown, calm>>

(***************************************************************************)
(* StartAgent.                                                             *)
(***************************************************************************)
Answers == agentUp /\ agentFwd \in open   \* deviceKitClient.GetStatus

Return(c) == Goto(c, IF c \in Streamers THEN "stream" ELSE "idle")

\* Shutdown holds the hooks' mutex while it runs them.
StartAgent(c) ==
  /\ pc[c] = "idle"
  /\ cleanup = "off" \/ c \notin Hooked
  /\ hooked' = (hooked \/ c \in Hooked)
  /\ IF Answers THEN Return(c) ELSE Goto(c, "list")
  /\ Stir /\ UNCHANGED <<mu, tunnel, runner, cancelled, ports, made, cleanup>>

\* findInstalledAgentBundleID: the rest of ListApps, which releases d.mu.
FindAgent(c) ==
  /\ pc[c] = "apps"
  /\ mu' = 0
  /\ \E found \in BOOLEAN : Goto(c, IF found THEN "start" ELSE "idle")
  /\ Stir /\ UNCHANGED <<tunnel, runner, cancelled, ports, made, shutdown>>

(* ensureDeviceKitAgentForwarder looks at the forwarder, makes one without *)
(* d.mu and then stores it: another caller may have done the same.         *)
CheckForwarder(c) ==
  /\ pc[c] = "check" /\ Unlocked
  /\ IF agentFwd \in open
       THEN Goto(c, "again") /\ UNCHANGED <<open, own, made>>
       ELSE /\ made["forward"] < MaxForwards
            /\ \/ /\ Made("forward")
                  /\ open' = open \cup {made["forward"] + 1}
                  /\ own' = [own EXCEPT ![c] = made["forward"] + 1]
                  /\ Goto(c, "forward")
               \/ Goto(c, "idle") /\ UNCHANGED <<open, own, made>>
  /\ Stir /\ UNCHANGED <<mu, tunnel, runner, cancelled, agentFwd, httpFwd, avcFwd, raced, shutdown>>

StoreForwarder(c) ==
  /\ pc[c] = "forward" /\ Unlocked
  /\ agentFwd' = own[c]
  /\ raced' = raced \cup (open \cap {agentFwd})
  /\ own' = [own EXCEPT ![c] = 0]
  /\ Goto(c, "again")
  /\ Stir /\ UNCHANGED <<mu, tunnel, runner, cancelled, open, httpFwd, avcFwd, made, shutdown>>

StatusAgain(c) ==
  /\ pc[c] = "again"
  /\ IF Answers THEN Return(c) ELSE Goto(c, "launch")
  /\ Stir /\ UNCHANGED <<mu, tunnel, runner, cancelled, ports, made, shutdown>>

\* LaunchTestRunner: one runner at a time, decided under d.mu.
Launch(c) ==
  /\ pc[c] = "run" /\ Unlocked
  /\ \/ /\ IF deviceKitCancel # 0
             THEN UNCHANGED <<runners, deviceKitCancel, made>>
             ELSE /\ made["runner"] < MaxRunners
                  /\ Made("runner")
                  /\ runners' = runners \cup {made["runner"] + 1}
                  /\ deviceKitCancel' = made["runner"] + 1
        /\ Goto(c, "ready")
     \/ Goto(c, "idle") /\ UNCHANGED <<runners, deviceKitCancel, made>>   \* no enhanced device
  /\ Stir /\ UNCHANGED <<mu, tunnel, agentUp, cancelled, ports, shutdown>>

\* WaitForAgent: the agent answers, or the wait is over.
AwaitAgent(c) ==
  /\ pc[c] = "ready"
  /\ \/ Answers /\ Return(c)
     \/ Goto(c, "idle")
  /\ Stir /\ UNCHANGED <<mu, tunnel, runner, cancelled, ports, made, shutdown>>

\* The agent comes up: a runner's, or one that an earlier process started.
AgentRuns ==
  /\ ~agentUp /\ agentUp' = TRUE
  /\ UNCHANGED <<pc, mu, tunnel, runners, deviceKitCancel, cancelled, ports, made, shutdown, calm>>

\* A runner ends by itself or cancelled, and forgets the cancel function,
\* whichever runner's that is.
RunnerEnds(n) ==
  /\ n \in runners /\ Unlocked
  /\ runners' = runners \ {n}
  /\ deviceKitCancel' = 0
  /\ agentUp' = FALSE
  /\ UNCHANGED <<pc, mu, tunnel, cancelled, ports, made, shutdown, calm>>

(***************************************************************************)
(* The forwarders of the stream: ensureDeviceKitAvcRunning.                *)
(***************************************************************************)
Known(f) == f \in open

(* isDeviceKitRunning: both forwarders run, or the stream answers through  *)
(* a forwarder made for the test and stopped again.  Both ways of going on *)
(* make the HTTP forwarder first; the second only if there is none.        *)
StartStream(c) ==
  /\ pc[c] = "stream" /\ Unlocked
  /\ \/ Known(httpFwd) /\ Known(avcFwd) /\ Goto(c, "idle")
     \/ ~(Known(httpFwd) /\ Known(avcFwd)) /\ Goto(c, "http")
     \/ Goto(c, "idle")   \* the tunnel, the apps or a port are missing
  /\ Stir /\ UNCHANGED <<mu, tunnel, runner, cancelled, ports, made, shutdown>>

(* fault: the first forwarder is left running when the second one fails *)
NothingUndone == {}

\* What is stopped when the second forwarder cannot listen.
Undone == {httpFwd}

\* A new forwarder f, or 0 for one that cannot listen.
Listen(c, f, place) ==
  IF f = 0
    THEN Goto(c, "idle") /\ UNCHANGED made
    ELSE f <= MaxForwards /\ Made("forward") /\ Goto(c, place)

NewForwards == {0, made["forward"] + 1}

ForwardHTTP(c) ==
  /\ pc[c] = "http" /\ Unlocked
  /\ \E f \in NewForwards :
       /\ Listen(c, f, "avc")
       /\ httpFwd' = f
       /\ open' = open \cup ({f} \ {0})
  /\ Stir /\ UNCHANGED <<mu, tunnel, runner, cancelled, agentFwd, avcFwd, own, raced, shutdown>>

ForwardStream(c) ==
  /\ pc[c] = "avc" /\ Unlocked
  /\ \E f \in NewForwards :
       /\ Listen(c, f, "broadcast")
       /\ avcFwd' = f
       /\ open' = IF f = 0 THEN open \ Undone ELSE open \cup {f}
  /\ Stir /\ UNCHANGED <<mu, tunnel, runner, cancelled, agentFwd, httpFwd, own, raced, shutdown>>

\* The app is launched and the broadcast begun, or both forwarders stopped.
Broadcast(c) ==
  /\ pc[c] = "broadcast"
  /\ \/ UNCHANGED open
     \/ open' = open \ {httpFwd, avcFwd}
  /\ Goto(c, "idle")
  /\ Stir
  /\ UNCHANGED <<mu, tunnel, runner, cancelled, agentFwd, httpFwd, avcFwd, own, raced, made, shutdown>>

(***************************************************************************)
(* The end of the process: the hooks run Cleanup, in three parts.          *)
(***************************************************************************)
Shutdown ==
  /\ cleanup = "off"
  /\ cleanup' = IF hooked THEN "kit" ELSE "done"
  /\ calm' = (\A c \in Callers : pc[c] = "idle")
  /\ UNCHANGED <<pc, mu, tunnel, runner, cancelled, ports, made, hooked>>

CleanupDeviceKit ==
  /\ cleanup = "kit" /\ Unlocked
  /\ cancelled' = cancelled \cup ({"runner"} \X ({deviceKitCancel} \ {0}))
  /\ deviceKitCancel' = 0
  /\ cleanup' = "ports"
  /\ UNCHANGED <<pc, mu, tunnel, runners, agentUp, ports, made, hooked, calm>>

CleanupForwarders ==
  /\ cleanup = "ports" /\ Unlocked
  /\ open' = open \ {agentFwd, httpFwd, avcFwd}
  /\ cleanup' = "tunnel"
  /\ UNCHANGED <<pc, mu, tunnel, runner, cancelled, agentFwd, httpFwd, avcFwd, own, raced, made, hooked, calm>>

CleanupTunnel ==
  /\ cleanup = "tunnel" /\ Unlocked
  /\ cancelled' = cancelled \cup ({"loop"} \X ({updateCtx} \ {0}))
  /\ updateCtx' = 0
  /\ cleanup' = "done"
  /\ UNCHANGED <<pc, mu, loops, steady, runner, ports, made, hooked, calm>>

\* The process ends when the hooks have run.
Next ==
  /\ cleanup # "done"
  /\ \/ \E c \in Callers :
          \/ StartAgent(c) \/ FindAgent(c) \/ CheckForwarder(c) \/ StoreForwarder(c)
          \/ StatusAgain(c) \/ Launch(c) \/ AwaitAgent(c) \/ AwaitTunnel(c)
          \/ \E stage \in Stages : StartTunnel(c, stage)
          \/ StartStream(c) \/ ForwardHTTP(c) \/ ForwardStream(c) \/ Broadcast(c)
     \/ \E n \in loops : Update(n) \/ LoopEnds(n)
     \/ \E n \in runners : RunnerEnds(n)
     \/ AgentRuns
     \/ Shutdown \/ CleanupDeviceKit \/ CleanupForwarders \/ CleanupTunnel

Spec == Init /\ [][Next]_vars

(***************************************************************************)
(* When the hooks of a device have run and no request was busy with it,    *)
(* every loop and runner has been told to stop and every forwarder is      *)
(* closed, but for agent forwarders lost to a concurrent StartAgent.  The  *)
(* code relies on it that a goroutine which ends clears no cancel function *)
(* but its own (tunnel-manager.go:71, ios.go:681), which is so until the   *)
(* hooks run, and that the stream's forwarders run both or not at all.     *)
(***************************************************************************)
ShutdownStopsEverything ==
  hooked /\ cleanup = "done" /\ calm =>
    /\ {"loop"} \X loops \subseteq cancelled
    /\ {"runner"} \X runners \subseteq cancelled
    /\ open \subseteq raced

(***************************************************************************)
(* Who keeps d.mu across a call is in a place it leaves by itself, and by  *)
(* releasing the mutex: waiting for the tunnel, for 10 s at most, or       *)
(* listing the apps.  Otherwise no request and no hook of the device could *)
(* go on (ios.go:894).                                                     *)
(***************************************************************************)
LockIsGivenBack == mu # 0 => pc[mu] \in {Waiting["list"], AfterTunnel("list")}

=============================================================================
