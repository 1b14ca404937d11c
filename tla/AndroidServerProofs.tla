--------------------------- MODULE AndroidServerProofs ---------------------------
(***************************************************************************)
(* Proofs about AndroidServer, for any number of requests, processes,      *)
(* ports and deaths of the server, whatever the requests ask for.          *)
(***************************************************************************)
EXTENDS AndroidServer, TLAPS

(* The request has not been sent, or is about to be sent once more.        *)
Trying == {"idle", "ensure", "send", "forget"} \cup InStart

(* The number of times r took effect or is bound to.                       *)
Due(r) == effects[r] + (IF r \in inFlight \ ran THEN 1 ELSE 0)

(* What is known of one request: only a request whose server died under it *)
(* can take effect and be sent again.                                      *)
Attempts(r) ==
  /\ pc[r] \in Trying => /\ r \notin inFlight
                         /\ tries[r] <= 1
                         /\ r \notin interrupted => effects[r] = 0
  /\ pc[r] = "wait" => /\ tries[r] \in 1..2
                       /\ r \notin inFlight => r \in interrupted
  /\ Due(r) <= tries[r]
  /\ r \notin interrupted => Due(r) <= 1

(* serverMu: who starts a server holds the lock of its own process.        *)
Holders ==
  \A b \in Builds : holder[b] # None => build[holder[b]] = b

IInv == TypeOK /\ Holders /\ \A r \in Requests : Attempts(r)

-----------------------------------------------------------------------------
(* The invariant holds before the first call.                              *)
LEMMA InitIInv == AndroidAssumption /\ Init => IInv
<1> SUFFICES ASSUME AndroidAssumption, Init
             PROVE  IInv
  OBVIOUS
<1>1. TypeOK
  <2> USE DEF AndroidAssumption, Init
  <2>1. build \in [Requests -> Builds] /\ kind \in [Requests -> Kinds]
    BY DEF Kinds
  <2>2. pc \in [Requests -> {"idle", "ensure", "send", "wait", "forget", "revoke", "done"} \cup InStart]
    OBVIOUS
  <2>3. port \in [Requests -> Ports \cup {None}] /\ remembered \in [Builds -> Ports \cup {None}]
    OBVIOUS
  <2>4. holder \in [Builds -> Requests \cup {None}] /\ \A b \in Builds : holder[b] = None
    OBVIOUS
  <2>5. tries \in [Requests -> 0..2] /\ effects \in [Requests -> 0..2]
    OBVIOUS
  <2>6. /\ forwards \subseteq Ports /\ server \in Builds \cup {None}
        /\ ran \subseteq inFlight /\ inFlight \subseteq Requests
        /\ interrupted \subseteq Requests /\ denied \subseteq Requests
    OBVIOUS
  <2>7. deaths \in 0..MaxDeaths
    OBVIOUS
  <2>8. appop \in BOOLEAN
    OBVIOUS
  <2>. QED
    BY <2>1, <2>2, <2>3, <2>4, <2>5, <2>6, <2>7, <2>8 DEF TypeOK
<1>2. Holders
  BY DEF Init, Holders
<1>3. ASSUME NEW r \in Requests
      PROVE  Attempts(r)
  BY <1>3 DEF Init, Attempts, Due, Trying, InStart
<1>. QED
  BY <1>1, <1>2, <1>3 DEF IInv

(* A step that has nothing to do with request r.                           *)
LEMMA Elsewhere ==
  ASSUME NEW r \in Requests, Attempts(r),
         pc'[r] = pc[r], tries'[r] = tries[r], effects'[r] = effects[r],
         r \in inFlight' <=> r \in inFlight, r \in ran' <=> r \in ran,
         r \in interrupted' <=> r \in interrupted
  PROVE  Attempts(r)'
  BY DEF Attempts, Due

(* The steps of request r that move it from a point before it is sent to   *)
(* another such point.                                                     *)
LEMMA StillTrying ==
  ASSUME IInv, NEW r \in Requests, pc[r] \in Trying, NEW l \in Trying, Goto(r, l),
         UNCHANGED <<tries, inFlight, ran, effects, interrupted>>
  PROVE  \A s \in Requests : Attempts(s)'
<1>1. Attempts(r)'
  BY DEF IInv, TypeOK, Attempts, Due, Goto, Trying, InStart
<1>2. ASSUME NEW s \in Requests, s # r
      PROVE  Attempts(s)'
  BY <1>2, Elsewhere DEF IInv, TypeOK, Goto
<1>. QED
  BY <1>1, <1>2

(* The steps of request r that end its attempts.                           *)
LEMMA Ends ==
  ASSUME IInv, NEW r \in Requests, NEW l \in {"revoke", "done"}, Goto(r, l),
         UNCHANGED <<tries, inFlight, ran, effects, interrupted>>
  PROVE  \A s \in Requests : Attempts(s)'
<1>1. Attempts(r)'
  BY DEF IInv, TypeOK, Attempts, Due, Goto, Trying, InStart
<1>2. ASSUME NEW s \in Requests, s # r
      PROVE  Attempts(s)'
  BY <1>2, Elsewhere DEF IInv, TypeOK, Goto
<1>. QED
  BY <1>1, <1>2

(* The server goes, and the requests it worked on are interrupted.         *)
LEMMA StopInterrupts ==
  ASSUME IInv, ServerStops, UNCHANGED <<tries, effects>>,
         \A s \in Requests : pc'[s] = pc[s]
  PROVE  \A s \in Requests : Attempts(s)'
  BY DEF IInv, TypeOK, ServerStops, Attempts, Due, Trying, InStart

(* The steps that leave the holders of serverMu alone.                     *)
LEMMA SameHolders ==
  IInv /\ UNCHANGED <<build, holder>> => Holders'
  BY DEF IInv, Holders

(* A request leaves the start of a server with the lock released.          *)
LEMMA LockReleased ==
  ASSUME IInv, NEW r \in Requests, pc[r] \in InStart, NEW l, Goto(r, l),
         (l \in InStart /\ UNCHANGED holder) \/ holder' = [holder EXCEPT ![build[r]] = None],
         UNCHANGED build
  PROVE  /\ \A b \in Builds : holder'[b] # None => pc'[holder'[b]] \in InStart
         /\ Holders'
         /\ holder' \in [Builds -> Requests \cup {None}]
<1>1. /\ build \in [Requests -> Builds] /\ holder \in [Builds -> Requests \cup {None}]
      /\ \A b \in Builds : holder[b] # None => pc[holder[b]] \in InStart /\ build[holder[b]] = b
      /\ DOMAIN pc = Requests
  BY DEF IInv, TypeOK, Holders
<1>2. CASE l \in InStart /\ UNCHANGED holder
  BY <1>1, <1>2 DEF Goto, Holders
<1>3. CASE holder' = [holder EXCEPT ![build[r]] = None]
  <2>1. \A b \in Builds : holder'[b] # None => holder'[b] = holder[b] /\ b # build[r]
    BY <1>1, <1>3
  <2>2. \A b \in Builds : holder'[b] # None => holder[b] # r
    BY <1>1, <2>1
  <2>. QED
    BY <1>1, <1>3, <2>1, <2>2 DEF Goto, Holders
<1>. QED
  BY <1>2, <1>3

(* A request outside of the start of a server holds no lock.               *)
LEMMA OutsideHoldsNothing ==
  ASSUME IInv, NEW r \in Requests, pc[r] \notin InStart, NEW l, Goto(r, l), UNCHANGED holder
  PROVE  \A b \in Builds : holder'[b] # None => pc'[holder'[b]] \in InStart
  BY DEF IInv, TypeOK, Goto

(* The calls of a request: their steps before and after it is sent.        *)
LEMMA CallStep ==
  ASSUME AndroidAssumption, IInv, NEW r \in Requests,
         Ensure(r) \/ Forget(r) \/ Revoke(r) \/ Timeout(r) \/ Unreachable(r)
           \/ \E k \in Asks[r] : Begin(r, k)
  PROVE  IInv'
<1> USE DEF InStart
<1>0. TypeOK /\ Attempts(r)
  BY DEF IInv
<1>1. CASE Ensure(r)
  <2>1. CASE remembered[B(r)] # None
    <3>1. \A s \in Requests : Attempts(s)'
      BY <1>1, <2>1, StillTrying DEF Ensure, Trying, device, history
    <3>2. Holders' /\ \A b \in Builds : holder'[b] # None => pc'[holder'[b]] \in InStart
      BY <1>1, <2>1, SameHolders, OutsideHoldsNothing DEF Ensure
    <3>3. TypeOK'
      BY <1>0, <1>1, <2>1, <3>2 DEF Ensure, TypeOK, Goto, device, history, B
    <3>. QED
      BY <3>1, <3>2, <3>3 DEF IInv
  <2>2. CASE remembered[B(r)] = None
    <3>1. \A s \in Requests : Attempts(s)'
      BY <1>1, <2>2, StillTrying DEF Ensure, Trying, device, history
    <3>2. /\ holder[build[r]] = None /\ holder' = [holder EXCEPT ![build[r]] = r]
          /\ pc[r] \notin InStart /\ Goto(r, "find") /\ UNCHANGED build /\ build[r] \in Builds
      BY <1>0, <1>1, <2>2 DEF Ensure, B, TypeOK
    <3>3. /\ \A b \in Builds : holder'[b] # None => pc'[holder'[b]] \in InStart
          /\ holder' \in [Builds -> Requests \cup {None}]
      BY <1>0, <3>2 DEF TypeOK, Goto
    <3>4. Holders'
      BY <1>0, <3>2 DEF TypeOK, IInv, Holders
    <3>5. TypeOK'
      BY <1>0, <1>1, <2>2, <3>3 DEF Ensure, TypeOK, Goto, device, history, B
    <3>. QED
      BY <3>1, <3>4, <3>5 DEF IInv
  <2>. QED
    BY <2>1, <2>2
<1>2. CASE Forget(r)
  <2>1. \A s \in Requests : Attempts(s)'
    BY <1>2, StillTrying DEF Forget, Trying, device, history
  <2>2. Holders' /\ \A b \in Builds : holder'[b] # None => pc'[holder'[b]] \in InStart
    BY <1>2, SameHolders, OutsideHoldsNothing DEF Forget
  <2>3. TypeOK'
    BY <1>0, <1>2, <2>2 DEF Forget, TypeOK, Goto, device, history, B
  <2>. QED
    BY <2>1, <2>2, <2>3 DEF IInv
<1>3. CASE Revoke(r)
  <2>1. \A s \in Requests : Attempts(s)'
    BY <1>3, Ends DEF Revoke, history
  <2>2. Holders' /\ \A b \in Builds : holder'[b] # None => pc'[holder'[b]] \in InStart
    BY <1>3, SameHolders, OutsideHoldsNothing DEF Revoke
  <2>3. TypeOK'
    BY <1>0, <1>3, <2>2 DEF Revoke, TypeOK, Goto, history
  <2>. QED
    BY <2>1, <2>2, <2>3 DEF IInv
<1>4. CASE Timeout(r)
  <2>1. \A s \in Requests : Attempts(s)'
    BY <1>4, Ends DEF Timeout, AfterFailure, device, history
  <2>2. Holders' /\ \A b \in Builds : holder'[b] # None => pc'[holder'[b]] \in InStart
    BY <1>4, SameHolders, OutsideHoldsNothing DEF Timeout
  <2>3. TypeOK'
    BY <1>0, <1>4, <2>2 DEF Timeout, TypeOK, Goto, AfterFailure, device, history
  <2>. QED
    BY <2>1, <2>2, <2>3 DEF IInv
<1>5. CASE Unreachable(r)
  <2>1. CASE tries[r] = 1
    <3>1. Attempts(r)'
      BY <1>0, <1>5, <2>1 DEF Unreachable, TypeOK, Attempts, Due, Goto, Trying, device, history
    <3>2. ASSUME NEW s \in Requests, s # r
          PROVE  Attempts(s)'
      BY <1>5, <3>2, Elsewhere DEF IInv, TypeOK, Unreachable, Goto, device, history
    <3>. QED
      BY <1>0, <1>5, <2>1, <3>1, <3>2, SameHolders, OutsideHoldsNothing
         DEF Unreachable, IInv, TypeOK, Goto, device, history
  <2>2. CASE tries[r] # 1
    <3>1. \A s \in Requests : Attempts(s)'
      BY <1>5, <2>2, Ends DEF Unreachable, AfterFailure, device, history
    <3>2. Holders' /\ \A b \in Builds : holder'[b] # None => pc'[holder'[b]] \in InStart
      BY <1>5, SameHolders, OutsideHoldsNothing DEF Unreachable
    <3>3. TypeOK'
      BY <1>0, <1>5, <2>2, <3>2 DEF Unreachable, TypeOK, Goto, AfterFailure, device, history
    <3>. QED
      BY <3>1, <3>2, <3>3 DEF IInv
  <2>. QED
    BY <2>1, <2>2
<1>6. ASSUME NEW k \in Asks[r], Begin(r, k)
      PROVE  IInv'
  <2>1. /\ k \in Kinds /\ pc[r] = "idle"
        /\ kind' \in [Requests -> Kinds] /\ appop' \in BOOLEAN
        /\ UNCHANGED <<build, port, tries, remembered, holder, forwards, server, inFlight, ran,
                       effects, interrupted, denied, deaths>>
    BY <1>0, <1>6 DEF Begin, TypeOK, AndroidAssumption, history
  <2>2. PICK l \in {"ensure", "done"} : Goto(r, l)
    BY <1>6 DEF Begin
  <2>3. \A s \in Requests : Attempts(s)'
    BY <2>1, <2>2, StillTrying, Ends DEF Trying
  <2>4. Holders' /\ \A b \in Builds : holder'[b] # None => pc'[holder'[b]] \in InStart
    BY <2>1, <2>2, SameHolders, OutsideHoldsNothing
  <2>5. TypeOK'
    BY <1>0, <2>1, <2>2, <2>4 DEF TypeOK, Goto
  <2>. QED
    BY <2>3, <2>4, <2>5 DEF IInv
<1>. QED
  BY <1>1, <1>2, <1>3, <1>4, <1>5, <1>6

(* The steps that start a server, under serverMu.                          *)
LEMMA StartStep ==
  ASSUME AndroidAssumption, IInv, NEW r \in Requests,
         Find(r) \/ PushAndKill(r) \/ Launch(r) \/ Await(r)
  PROVE  IInv'
<1>0. TypeOK /\ Attempts(r)
  BY DEF IInv
<1>1. pc[r] \in InStart /\ pc[r] \in Trying /\ build[r] \in Builds
  BY <1>0 DEF Find, PushAndKill, Launch, Await, InStart, Trying, TypeOK
<1>2. PICK l \in {"send", "revoke", "done", "push", "launch", "await"} :
        /\ Goto(r, l)
        /\ \/ l \in InStart /\ UNCHANGED holder
           \/ holder' = [holder EXCEPT ![build[r]] = None]
        /\ l = "launch" \/ UNCHANGED inFlight
  BY DEF Find, PushAndKill, Launch, Await, Ready, NotReady, AfterFailure, InStart, B, history
<1>3. UNCHANGED <<build, kind, tries, effects, denied, deaths>>
  BY DEF Find, PushAndKill, Launch, Await, history
<1>4. /\ \A b \in Builds : holder'[b] # None => pc'[holder'[b]] \in InStart
      /\ Holders' /\ holder' \in [Builds -> Requests \cup {None}]
  BY <1>1, <1>2, <1>3, LockReleased
<1>5. port' \in [Requests -> Ports \cup {None}] /\ remembered' \in [Builds -> Ports \cup {None}]
  BY <1>0, <1>1 DEF Find, PushAndKill, Launch, Await, Ready, NotReady, TypeOK, B
<1>6. forwards' \subseteq Ports /\ server' \in Builds \cup {None}
  BY <1>0, <1>1 DEF Find, PushAndKill, Launch, Await, ServerStops, TypeOK, B
<1>7. /\ ran' \subseteq inFlight' /\ inFlight' \subseteq Requests
      /\ appop' \in BOOLEAN /\ interrupted' \subseteq Requests
  BY <1>0 DEF Find, PushAndKill, Launch, Await, ServerStops, TypeOK, history
<1>8. TypeOK'
  BY <1>0, <1>2, <1>3, <1>4, <1>5, <1>6, <1>7 DEF TypeOK, Goto, InStart
<1>9. CASE UNCHANGED <<inFlight, ran, interrupted>>
  BY <1>1, <1>2, <1>3, <1>4, <1>8, <1>9, StillTrying, Ends DEF IInv, Trying, InStart
<1>10. CASE ServerStops /\ Goto(r, "launch")
  <2>1. ASSUME NEW s \in Requests
        PROVE  Attempts(s)'
    BY <1>0, <1>1, <1>3, <1>10 DEF IInv, TypeOK, ServerStops, Attempts, Due, Goto, Trying, InStart
  <2>. QED
    BY <1>4, <1>8, <2>1 DEF IInv
<1>. QED
  BY <1>9, <1>10 DEF Find, PushAndKill, Launch, Await, history

(* The steps of the server, and the answer or the failure they lead to.    *)
LEMMA ServerStep ==
  ASSUME AndroidAssumption, IInv, NEW r \in Requests, Send(r) \/ Execute(r) \/ Answer(r)
  PROVE  IInv'
<1>0. TypeOK /\ Attempts(r) /\ Due(r) \in Nat
  BY DEF IInv, TypeOK, Due
<1>1. CASE Send(r)
  <2>1. /\ pc[r] = "send" /\ tries' = [tries EXCEPT ![r] = @ + 1]
        /\ UNCHANGED <<build, kind, remembered, holder, forwards, server, ran, appop, effects,
                       interrupted, denied, deaths>>
        /\ port' = [port EXCEPT ![r] = None]
    BY <1>1 DEF Send, history
  <2>2. Holders'
    BY <2>1, SameHolders
  <2>3. ASSUME NEW l \in {"wait", "forget", "revoke", "done"}, Goto(r, l),
               IF l = "wait" THEN inFlight' = inFlight \cup {r} ELSE UNCHANGED inFlight,
               l = "forget" => tries[r] = 0
        PROVE  IInv'
    <3>1. \A b \in Builds : holder'[b] # None => pc'[holder'[b]] \in InStart
      BY <2>1, <2>3, OutsideHoldsNothing DEF InStart
    <3>2. Attempts(r)'
      BY <1>0, <2>1, <2>3 DEF TypeOK, Attempts, Due, Goto, Trying, InStart
    <3>3. ASSUME NEW s \in Requests, s # r
          PROVE  Attempts(s)'
      BY <2>1, <2>3, <3>3, Elsewhere DEF IInv, TypeOK, Goto
    <3>4. tries' \in [Requests -> 0..2]
      BY <1>0, <2>1 DEF Attempts, TypeOK, Trying
    <3>5. ran' \subseteq inFlight' /\ inFlight' \subseteq Requests
      BY <1>0, <2>1, <2>3 DEF TypeOK
    <3>6. TypeOK'
      BY <1>0, <2>1, <2>3, <3>1, <3>4, <3>5 DEF TypeOK, Goto
    <3>. QED
      BY <2>2, <3>2, <3>3, <3>6 DEF IInv
  <2>4. CASE Reached(port[r])
    BY <1>1, <2>3, <2>4 DEF Send
  <2>5. CASE ~Reached(port[r])
    BY <1>1, <2>3, <2>5 DEF Send, AfterFailure
  <2>. QED
    BY <2>4, <2>5
<1>2. CASE Execute(r)
  <2>1. /\ r \in inFlight \ ran /\ ran' = ran \cup {r} /\ effects' = [effects EXCEPT ![r] = @ + 1]
        /\ UNCHANGED <<client, forwards, server, inFlight, appop, interrupted, deaths>>
        /\ denied' \subseteq Requests
    BY <1>0, <1>2 DEF Execute, TypeOK
  <2>2. Attempts(r)' /\ effects[r] + 1 \in 0..2
    BY <1>0, <2>1 DEF TypeOK, Attempts, Due, client, Trying, InStart
  <2>3. ASSUME NEW s \in Requests, s # r
        PROVE  Attempts(s)'
    BY <2>1, <2>3, Elsewhere DEF IInv, TypeOK, client
  <2>4. TypeOK'
    BY <1>0, <2>1, <2>2 DEF TypeOK, client
  <2>. QED
    BY <2>1, <2>2, <2>3, <2>4, SameHolders DEF IInv, client
<1>3. CASE Answer(r)
  <2>1. /\ r \in ran /\ inFlight' = inFlight \ {r} /\ ran' = ran \ {r}
        /\ UNCHANGED <<build, kind, port, tries, remembered, holder, forwards, server, appop,
                       effects, interrupted, denied, deaths>>
    BY <1>3 DEF Answer, history
  <2>2. PICK l : /\ IF pc[r] = "wait" THEN l \in {"revoke", "done"} ELSE l = pc[r]
                 /\ Goto(r, l)
    <3>1. CASE pc[r] = "wait"
      <4>1. Goto(r, AfterAnswer(r)) /\ AfterAnswer(r) \in {"revoke", "done"}
        BY <1>3, <3>1 DEF Answer, AfterAnswer
      <4>. QED
        BY <3>1, <4>1
    <3>2. CASE pc[r] # "wait"
      <4>1. pc = [pc EXCEPT ![r] = pc[r]]
        BY <1>0 DEF TypeOK
      <4>. QED
        BY <1>3, <3>2, <4>1 DEF Answer, Goto
    <3>. QED
      BY <3>1, <3>2
  <2>3. Attempts(r)'
    BY <1>0, <2>1, <2>2 DEF TypeOK, Attempts, Due, Goto, Trying, InStart
  <2>4. ASSUME NEW s \in Requests, s # r
        PROVE  Attempts(s)'
    BY <2>1, <2>2, <2>4, Elsewhere DEF IInv, TypeOK, Goto
  <2>5. \A b \in Builds : holder'[b] # None => pc'[holder'[b]] \in InStart
    BY <1>0, <2>1, <2>2 DEF TypeOK, Goto, InStart
  <2>6. TypeOK'
    BY <1>0, <2>1, <2>2, <2>5 DEF TypeOK, Goto
  <2>. QED
    BY <2>1, <2>3, <2>4, <2>6, SameHolders DEF IInv
<1>. QED
  BY <1>1, <1>2, <1>3

(* Every step keeps the invariant.                                         *)
LEMMA NextIInv == AndroidAssumption /\ IInv /\ [Next]_vars => IInv'
<1> SUFFICES ASSUME AndroidAssumption, IInv, [Next]_vars
             PROVE  IInv'
  OBVIOUS
<1>1. ASSUME NEW r \in Requests, Step(r) \/ Execute(r) \/ Answer(r) \/ \E k \in Asks[r] : Begin(r, k)
      PROVE  IInv'
  BY <1>1, CallStep, StartStep, ServerStep DEF Step
<1>2. CASE Die
  <2>1. /\ ServerStops /\ forwards' \subseteq Ports /\ deaths' \in 0..MaxDeaths
        /\ UNCHANGED <<client, appop, effects, denied>>
    BY <1>2 DEF Die, IInv, TypeOK, AndroidAssumption
  <2>2. \A s \in Requests : Attempts(s)'
    BY <2>1, StopInterrupts DEF client
  <2>3. TypeOK'
    BY <2>1 DEF IInv, TypeOK, ServerStops, client
  <2>. QED
    BY <2>1, <2>2, <2>3, SameHolders DEF IInv, client
<1>3. CASE UNCHANGED vars
  <2>1. ASSUME NEW s \in Requests
        PROVE  Attempts(s)'
    BY <1>3, Elsewhere DEF IInv, vars, client, device, history
  <2>2. TypeOK'
    BY <1>3 DEF IInv, TypeOK, vars, client, device, history
  <2>. QED
    BY <1>3, <2>1, <2>2, SameHolders DEF IInv, vars, client
<1>. QED
  BY <1>1, <1>2, <1>3 DEF Next

(* The second effect of a request needs a second attempt, and the first one *)
(* can then only have been interrupted (android_device_server.go:59).      *)
LEMMA IInvRepeatedOnlyAfterDeath == IInv => RepeatedOnlyAfterDeath
  BY DEF IInv, TypeOK, Attempts, Due, RepeatedOnlyAfterDeath

(* The invariant contains the type of the state.                           *)
LEMMA IInvTypeOK == IInv => TypeOK
  BY DEF IInv
=============================================================================
