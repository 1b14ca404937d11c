---------------------------- MODULE AndroidServer ----------------------------
(***************************************************************************)
(* The persistent server on an Android device (android_device_server.go,   *)
(* android_rpc.go) and the requests that mobilecli processes of one or     *)
(* several builds send it through adb forwards; with them the appop that   *)
(* lets the server fake a location (android_location.go).                  *)
(*                                                                         *)
(* The server listens on one name of the device, so there is at most one,  *)
(* and every forward leads to it.  Each process remembers the port of its  *)
(* forward.  A request is "tap" (any call), "set" or "clear" (locations).  *)
(***************************************************************************)
EXTENDS Naturals, FiniteSets

CONSTANTS
  Requests,   \* calls of serverRequest
  Builds,     \* mobilecli processes, each with a dex of its own
  Asks,       \* request -> what it may ask for
  Ports,      \* host ports (a bound on the forwards there can be)
  None,       \* no port, no holder, no server
  MaxDeaths   \* how often the server dies by itself (a bound)

Kinds == {"tap", "set", "clear"}

AndroidAssumption ==
  /\ Asks \in [Requests -> SUBSET Kinds]
  /\ None \notin Ports \cup Requests \cup Builds
  /\ MaxDeaths \in Nat

VARIABLES
  build,       \* request -> the process it runs in
  kind,        \* request -> what it asks for
  pc,          \* request -> where it is
  port,        \* request -> the forward it will use
  tries,       \* request -> how often it was sent
  remembered,  \* process -> serverPort
  holder,      \* process -> the request that holds serverMu
  forwards,    \* ports with a forward to the server's name
  server,      \* the build of the server that runs, or None
  inFlight,    \* requests the server works on
  ran,         \* of those, the ones that took effect
  appop,       \* android:mock_location is allowed
  effects,     \* request -> how often it took effect (history)
  interrupted, \* requests whose server died under them (history)
  denied,      \* sets that ran without the appop (history)
  deaths

client == <<build, kind, pc, port, tries, remembered, holder>>
device == <<forwards, server, inFlight, ran, appop>>
history == <<effects, interrupted, denied>>
vars == <<client, device, history, deaths>>

InStart == {"find", "push", "launch", "await"}

TypeOK ==
  /\ build \in [Requests -> Builds]
  /\ kind \in [Requests -> Kinds]
  /\ pc \in [Requests -> {"idle", "ensure", "send", "wait", "forget", "revoke", "done"} \cup InStart]
  /\ port \in [Requests -> Ports \cup {None}]
  /\ tries \in [Requests -> 0..2]
  /\ remembered \in [Builds -> Ports \cup {None}]
  /\ holder \in [Builds -> Requests \cup {None}]
  /\ \A b \in Builds : holder[b] # None => pc[holder[b]] \in InStart
  /\ forwards \subseteq Ports
  /\ server \in Builds \cup {None}
  /\ ran \subseteq inFlight /\ inFlight \subseteq Requests
  /\ appop \in BOOLEAN
  /\ effects \in [Requests -> 0..2]
  /\ interrupted \subseteq Requests /\ denied \subseteq Requests
  /\ deaths \in 0..MaxDeaths

Init ==
  /\ build \in [Requests -> Builds]
  /\ kind = [r \in Requests |-> "tap"]
  /\ pc = [r \in Requests |-> "idle"]
  /\ port = [r \in Requests |-> None]
  /\ tries = [r \in Requests |-> 0]
  /\ remembered = [b \in Builds |-> None]
  /\ holder = [b \in Builds |-> None]
  /\ forwards = {}
  /\ server = None
  /\ inFlight = {} /\ ran = {}
  /\ appop = FALSE
  /\ effects = [r \in Requests |-> 0]
  /\ interrupted = {} /\ denied = {}
  /\ deaths = 0

Goto(r, l) == pc' = [pc EXCEPT ![r] = l]

(* Where a request goes when its call is over: a location call that failed *)
(* and every clear give the appop back.                                    *)
AfterFailure(r) == IF kind[r] = "tap" THEN "done" ELSE "revoke"
AfterAnswer(r) ==
  IF kind[r] = "clear" \/ (kind[r] = "set" /\ r \in denied) THEN "revoke" ELSE "done"

B(r) == build[r]
Reached(p) == p \in forwards /\ server # None

-----------------------------------------------------------------------------
(* A call.  startMockLocation first grants the appop, which adb may refuse. *)
Begin(r, k) ==
  /\ pc[r] = "idle"
  /\ kind' = [kind EXCEPT ![r] = k]
  /\ \/ Goto(r, "ensure") /\ appop' = (appop \/ k = "set")
     \/ k = "set" /\ Goto(r, "done") /\ UNCHANGED appop
  /\ UNCHANGED <<build, port, tries, remembered, holder,
                 forwards, server, inFlight, ran, history, deaths>>

(* ensureDeviceServerReady: a remembered port is not checked again.        *)
Ensure(r) ==
  /\ pc[r] = "ensure" /\ holder[B(r)] = None
  /\ IF remembered[B(r)] # None
       THEN /\ port' = [port EXCEPT ![r] = remembered[B(r)]]
            /\ Goto(r, "send")
            /\ UNCHANGED holder
       ELSE /\ holder' = [holder EXCEPT ![B(r)] = r]
            /\ Goto(r, "find")
            /\ UNCHANGED port
  /\ UNCHANGED <<build, kind, tries, remembered, device, history, deaths>>

(* ensureDeviceServerReady returns with a port, which it remembers.        *)
Ready(r, p) ==
  /\ remembered' = [remembered EXCEPT ![B(r)] = p]
  /\ port' = [port EXCEPT ![r] = p]
  /\ holder' = [holder EXCEPT ![B(r)] = None]
  /\ Goto(r, "send")

NotReady(r) ==
  /\ holder' = [holder EXCEPT ![B(r)] = None]
  /\ Goto(r, AfterFailure(r))
  /\ UNCHANGED <<remembered, port>>

(* startDeviceServer, first half: a forward that leads to a server of this *)
(* build is reused, one that leads to another build's is removed.  A busy  *)
(* server may miss the 300 ms of isAgentReady.                             *)
Find(r) ==
  /\ pc[r] = "find"
  /\ \/ \E p \in forwards :
          /\ Reached(p)
          /\ IF server = B(r)
               THEN Ready(r, p) /\ UNCHANGED forwards
               ELSE /\ forwards' = forwards \ {p}
                    /\ Goto(r, "push")
                    /\ UNCHANGED <<remembered, port, holder>>
     \/ /\ \A p \in forwards : Reached(p) => inFlight # {}
        /\ Goto(r, "push")
        /\ UNCHANGED <<forwards, remembered, port, holder>>
  /\ UNCHANGED <<build, kind, tries, server, inFlight, ran, appop, history, deaths>>

(* The server is gone and with it the requests it worked on.               *)
ServerStops ==
  /\ server' = None
  /\ inFlight' = {} /\ ran' = {}
  /\ interrupted' = interrupted \cup inFlight

(* pushTempFile, then pkill, which also takes the appop back.              *)
PushAndKill(r) ==
  /\ pc[r] = "push"
  /\ \/ /\ ServerStops
        /\ appop' = FALSE
        /\ Goto(r, "launch")
        /\ UNCHANGED <<remembered, port, holder>>
     \/ NotReady(r) /\ UNCHANGED <<server, inFlight, ran, appop, interrupted>>
  /\ UNCHANGED <<build, kind, tries, forwards, effects, denied, deaths>>

(* nohup app_process and forwardOnFreePort.  A second server cannot bind    *)
(* the name and exits.                                                     *)
Launch(r) ==
  /\ pc[r] = "launch"
  /\ server' \in {server, IF server = None THEN B(r) ELSE server}
  /\ \/ \E p \in Ports \ forwards :
          /\ forwards' = forwards \cup {p}
          /\ port' = [port EXCEPT ![r] = p]
          /\ Goto(r, "await")
          /\ UNCHANGED <<remembered, holder>>
     \/ NotReady(r) /\ UNCHANGED forwards
  /\ UNCHANGED <<build, kind, tries, inFlight, ran, appop, history, deaths>>

(* The wait of 5 s for isAgentReady.                                       *)
Await(r) ==
  /\ pc[r] = "await"
  /\ \/ Reached(port[r]) /\ Ready(r, port[r]) /\ UNCHANGED forwards
     \/ NotReady(r) /\ forwards' = forwards \ {port[r]}
  /\ UNCHANGED <<build, kind, tries, server, inFlight, ran, appop, history, deaths>>

(* agentRequest: nobody answers at the port, or the request is on its way. *)
Send(r) ==
  /\ pc[r] = "send"
  /\ tries' = [tries EXCEPT ![r] = @ + 1]
  /\ port' = [port EXCEPT ![r] = None]
  /\ IF Reached(port[r])
       THEN inFlight' = inFlight \cup {r} /\ Goto(r, "wait")
       ELSE UNCHANGED inFlight /\ Goto(r, IF tries[r] = 0 THEN "forget" ELSE AfterFailure(r))
  /\ UNCHANGED <<build, kind, remembered, holder, forwards, server, ran, appop, history, deaths>>

(* fault: a call that timed out is sent again like one that found no server. *)
TimeoutIsUnreachable(r) ==
  /\ pc[r] = "wait"
  /\ Goto(r, IF tries[r] = 1 THEN "forget" ELSE AfterFailure(r))
  /\ UNCHANGED <<build, kind, port, tries, remembered, holder, device, history, deaths>>

(* 10 s without an answer: errAgentTimedOut, which is never sent again.    *)
(* The server may still be at it.                                          *)
Timeout(r) ==
  /\ pc[r] = "wait"
  /\ Goto(r, AfterFailure(r))
  /\ UNCHANGED <<build, kind, port, tries, remembered, holder, device, history, deaths>>

(* The connection ends without an answer: errAgentUnreachable.             *)
Unreachable(r) ==
  /\ pc[r] = "wait" /\ r \notin inFlight
  /\ Goto(r, IF tries[r] = 1 THEN "forget" ELSE AfterFailure(r))
  /\ UNCHANGED <<build, kind, port, tries, remembered, holder, device, history, deaths>>

(* forgetDeviceServer, whatever port is remembered by now; then once more. *)
Forget(r) ==
  /\ pc[r] = "forget" /\ holder[B(r)] = None
  /\ remembered' = [remembered EXCEPT ![B(r)] = None]
  /\ Goto(r, "ensure")
  /\ UNCHANGED <<build, kind, port, tries, holder, device, history, deaths>>

(* revokeMockLocationAppop, which may fail.                                *)
Revoke(r) ==
  /\ pc[r] = "revoke"
  /\ appop' \in {FALSE, appop}
  /\ Goto(r, "done")
  /\ UNCHANGED <<build, kind, port, tries, remembered, holder,
                 forwards, server, inFlight, ran, history, deaths>>

-----------------------------------------------------------------------------
(* The server (DeviceServer.java): a set needs the appop when it runs.     *)
Execute(r) ==
  /\ r \in inFlight \ ran
  /\ ran' = ran \cup {r}
  /\ effects' = [effects EXCEPT ![r] = @ + 1]
  /\ denied' = IF kind[r] = "set" /\ ~appop THEN denied \cup {r} ELSE denied
  /\ UNCHANGED <<client, forwards, server, inFlight, appop, interrupted, deaths>>

Answer(r) ==
  /\ r \in ran
  /\ inFlight' = inFlight \ {r} /\ ran' = ran \ {r}
  /\ IF pc[r] = "wait" THEN Goto(r, AfterAnswer(r)) ELSE UNCHANGED pc
  /\ UNCHANGED <<build, kind, port, tries, remembered, holder, forwards, server, appop, history, deaths>>

(* Killed by the system, or the device reboots; forwards survive the first *)
(* and not the second.                                                     *)
Die ==
  /\ server # None /\ deaths < MaxDeaths
  /\ deaths' = deaths + 1
  /\ ServerStops
  /\ forwards' \in {forwards, {}}
  /\ UNCHANGED <<client, appop, effects, denied>>

Step(r) ==
  \/ Ensure(r) \/ Find(r) \/ PushAndKill(r) \/ Launch(r) \/ Await(r)
  \/ Send(r) \/ Timeout(r) \/ Unreachable(r) \/ Forget(r) \/ Revoke(r)

Next ==
  \/ \E r \in Requests : Step(r) \/ Execute(r) \/ Answer(r) \/ \E k \in Asks[r] : Begin(r, k)
  \/ Die

-----------------------------------------------------------------------------
(* A request takes effect twice only if the server died under its first    *)
(* attempt: never because it was slow, however processes and requests      *)
(* restart the server and forget its port (android_device_server.go:59,    *)
(* 196).                                                                   *)
RepeatedOnlyAfterDeath ==
  \A r \in Requests : effects[r] = 2 => r \in interrupted

(* A set that reaches the server runs with the appop that MockLocation     *)
(* requires (MockLocation.java:20) and startMockLocation has granted.      *)
SetHasItsAppop == denied = {}
=============================================================================
