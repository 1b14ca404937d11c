---------------------------- MODULE ComponentsProofs ----------------------------
(***************************************************************************)
(* Proofs about MCComponents, for any number of viewers, messages, render  *)
(* objects, requests and callers, whichever components may run.  What the  *)
(* modules StreamSessionsProofs, RecorderProofs, AndroidServerProofs and   *)
(* FlutterVMProofs show of their component is carried over to the          *)
(* instances; what is shown of WebSocket, IosAgent and Operations is here. *)
(***************************************************************************)
EXTENDS MCComponents, SequenceTheorems, FiniteSetTheorems, TLAPS

StreamsP == INSTANCE StreamSessionsProofs
  WITH kind <- ticketKind, pc <- viewerPc, outcome <- callOutcome

(* The instances of a component and of its proofs are the same.            *)
LEMMA SameStreams ==
  /\ Streams!SessionsAssumption <=> StreamsP!SessionsAssumption
  /\ Streams!Init <=> StreamsP!Init
  /\ streamVars' = streamVars => StreamsP!vars' = StreamsP!vars
  /\ Streams!Next <=> StreamsP!Next
  /\ Streams!OneViewerPerClaim <=> StreamsP!OneViewerPerClaim
  /\ Streams!CancelGetsResult <=> StreamsP!CancelGetsResult
  /\ Streams!TypeOK <=> StreamsP!TypeOK
  /\ Streams!NoStreamIsStuck <=> StreamsP!NoStreamIsStuck
<1>1. Streams!SessionsAssumption <=> StreamsP!SessionsAssumption
  BY DEF Streams!SessionsAssumption, StreamsP!SessionsAssumption
<1>2. Streams!Init <=> StreamsP!Init
  BY DEF Streams!Init, StreamsP!Init
<1>3. streamVars' = streamVars => StreamsP!vars' = StreamsP!vars
  BY DEF streamVars, StreamsP!vars, StreamsP!ticketVars, StreamsP!wireVars, StreamsP!viewerVars
<1>4. Streams!Next <=> StreamsP!Next
  BY DEF Streams!Next, StreamsP!Next, Streams!ticketVars, StreamsP!ticketVars,
     Streams!wireVars, StreamsP!wireVars, Streams!viewerVars, StreamsP!viewerVars,
     Streams!vars, StreamsP!vars,
     Streams!Kinds, StreamsP!Kinds, Streams!Serving, StreamsP!Serving,
     Streams!OnCall, StreamsP!OnCall, Streams!Swept, StreamsP!Swept,
     Streams!Known, StreamsP!Known, Streams!HasRoom, StreamsP!HasRoom, Streams!Mint, StreamsP!Mint,
     Streams!Expire, StreamsP!Expire, Streams!Redeemable, StreamsP!Redeemable,
     Streams!Markable, StreamsP!Markable, Streams!Goto, StreamsP!Goto,
     Streams!GetSession, StreamsP!GetSession, Streams!MarkInUse, StreamsP!MarkInUse,
     Streams!Disconnect, StreamsP!Disconnect, Streams!Dial, StreamsP!Dial,
     Streams!EndCall, StreamsP!EndCall, Streams!DaemonAlive, StreamsP!DaemonAlive,
     Streams!SendRequest, StreamsP!SendRequest, Streams!SendCancel, StreamsP!SendCancel,
     Streams!ReadChunk, StreamsP!ReadChunk, Streams!ReadResult, StreamsP!ReadResult,
     Streams!ReadEOF, StreamsP!ReadEOF, Streams!Grace, StreamsP!Grace,
     Streams!Remove, StreamsP!Remove, Streams!Receive, StreamsP!Receive,
     Streams!Watch, StreamsP!Watch, Streams!Emit, StreamsP!Emit,
     Streams!Return, StreamsP!Return, Streams!Crash, StreamsP!Crash,
     Streams!Serve, StreamsP!Serve, Streams!Handle, StreamsP!Handle, Streams!Cardinality, StreamsP!Cardinality
<1>5. Streams!OneViewerPerClaim <=> StreamsP!OneViewerPerClaim
  BY DEF Streams!OneViewerPerClaim, StreamsP!OneViewerPerClaim, Streams!Serving, StreamsP!Serving,
     Streams!Cardinality, StreamsP!Cardinality
<1>6. Streams!CancelGetsResult <=> StreamsP!CancelGetsResult
  BY DEF Streams!CancelGetsResult, StreamsP!CancelGetsResult
<1>7. Streams!TypeOK <=> StreamsP!TypeOK
  BY DEF Streams!TypeOK, StreamsP!TypeOK, Streams!Kinds, StreamsP!Kinds,
     Streams!Serving, StreamsP!Serving
<1>8. Streams!NoStreamIsStuck <=> StreamsP!NoStreamIsStuck
  BY DEF Streams!NoStreamIsStuck, StreamsP!NoStreamIsStuck, Streams!Served, StreamsP!Served,
     Streams!Cancels, StreamsP!Cancels, Streams!RunsOut, StreamsP!RunsOut,
     Streams!Handles, StreamsP!Handles, Streams!OnCall, StreamsP!OnCall,
     Streams!DaemonAlive, StreamsP!DaemonAlive
<1>. QED
  BY <1>1, <1>2, <1>3, <1>4, <1>5, <1>6, <1>7, <1>8

(* A call that is over was hung up, in every behaviour.                    *)
StreamsKept == StreamsP!IInv /\ \A v \in Viewers : StreamsP!HungUp(v)

(* The streams component satisfies its inductive invariant, whichever runs.*)
LEMMA StreamsInvariant == Spec => []StreamsP!IInv
<1>1. Init => StreamsP!IInv
  BY StreamsAssumed, SameStreams, StreamsP!InitIInv DEF Init
<1>2. StreamsP!IInv /\ [Next]_componentVars => StreamsP!IInv'
  <2> SUFFICES ASSUME StreamsP!IInv, [Next]_componentVars
               PROVE  StreamsP!IInv'
    OBVIOUS
  <2>1. StreamsP!Next \/ UNCHANGED streamVars
    BY SameStreams DEF Next, Others, componentVars
  <2>. QED
    BY <2>1, StreamsAssumed, SameStreams, StreamsP!NextIInv
<1>. QED
  BY <1>1, <1>2, PTL DEF Spec

(* ... and hangs up on each call it leaves.                                *)
LEMMA StreamsHungUp == Spec => []StreamsKept
<1>1. Init => StreamsKept
  BY StreamsAssumed, SameStreams, StreamsP!InitIInv, StreamsP!InitHungUp DEF Init, StreamsKept
<1>2. StreamsKept /\ [Next]_componentVars => StreamsKept'
  <2> SUFFICES ASSUME StreamsKept, [Next]_componentVars
               PROVE  StreamsKept'
    OBVIOUS
  <2>1. StreamsP!Next \/ UNCHANGED streamVars
    BY SameStreams DEF Next, Others, componentVars
  <2>2. [StreamsP!Next]_(StreamsP!vars) /\ StreamsP!IInv /\ \A v \in Viewers : StreamsP!HungUp(v)
    BY <2>1, SameStreams DEF StreamsKept
  <2>3. StreamsP!IInv'
    BY <2>2, StreamsAssumed, SameStreams, StreamsP!NextIInv
  <2>4. \A v \in Viewers : StreamsP!HungUp(v)'
    BY <2>2, StreamsAssumed, SameStreams, StreamsP!NextHungUp
  <2>. QED
    BY <2>3, <2>4 DEF StreamsKept
<1>. QED
  BY <1>1, <1>2, PTL DEF Spec

(* A ticket admits one viewer ever, and is in use as long as that viewer is served.  *)
THEOREM TicketAdmitsOneViewer == Spec => []OneViewerPerClaim
<1>1. StreamsP!IInv => OneViewerPerClaim
  BY SameStreams, StreamsP!IInvOneViewerPerClaim DEF OneViewerPerClaim
<1>. QED
  BY <1>1, StreamsInvariant, PTL

(* A cancelled call gives up on its result only when the daemon read the cancel      *)
(* together with the request and threw it away.                                      *)
THEOREM GivesUpOnlyIfSwallowed == Spec => []CancelGetsResult
<1>1. StreamsP!IInv => CancelGetsResult
  BY SameStreams, StreamsP!IInvCancelGetsResult DEF CancelGetsResult
<1>. QED
  BY <1>1, StreamsInvariant, PTL

(* What a step of the sessions is to the clients: nothing, or the next station of    *)
(* one ticket.                                                                       *)
LEMMA TicketsStay ==
  ASSUME UNCHANGED <<sessions, minted, admitted>>,
         \A w \in Viewers : viewerPc'[w] \in StreamsP!Serving <=> viewerPc[w] \in StreamsP!Serving,
         StreamsP!IInv
  PROVE  UNCHANGED OneEach!vars
<1>1. TicketLife' = TicketLife
  BY DEF TicketLife
<1>2. \A t \in Tickets : {v \in admitted'[t] : viewerPc'[v] \in {"dial", "send", "read", "remove"}}
                         = {v \in admitted[t] : viewerPc[v] \in {"dial", "send", "read", "remove"}}
  BY DEF StreamsP!IInv, StreamsP!Types, StreamsP!Serving
<1>3. TicketServed' = TicketServed
  BY <1>2, Zenon DEF TicketServed
<1>. QED
  BY <1>1, <1>3 DEF OneEach!vars

(* A ticket is minted only while there are fewer than the limit that have not lapsed. *)
LEMMA MintOffers ==
  ASSUME StreamsP!IInv, NEW t \in Tickets, NEW k \in StreamsP!Kinds, StreamsP!Mint(t, k)
  PROVE  OneEach!Next
<1> DEFINE lapsed == {l \in Tickets : expired[l] /\ sessions[l] = "free"}
<1>1. /\ sessions \in [Tickets -> {"absent", "free", "inUse"}]
      /\ minted \in [Tickets -> BOOLEAN] /\ admitted' = admitted /\ viewerPc' = viewerPc
      /\ sessions[t] = "absent" /\ ~minted[t]
  BY DEF StreamsP!IInv, StreamsP!Types, StreamsP!Claims, StreamsP!Mint, StreamsP!viewerVars
<1>2. OneEach!Known \ lapsed = StreamsP!Known(StreamsP!Swept)
  BY <1>1 DEF OneEach!Known, TicketLife, StreamsP!Known, StreamsP!Swept
<1>3. OneEach!Cardinality(OneEach!Known \ lapsed) < MaxSessions
  BY <1>2 DEF StreamsP!Mint, StreamsP!HasRoom, StreamsP!Cardinality, OneEach!Cardinality
<1>4. /\ sessions' = [l \in Tickets |-> IF l = t THEN "free"
                                        ELSE IF l \in lapsed THEN "absent" ELSE sessions[l]]
      /\ minted' = [l \in Tickets |-> IF l = t THEN TRUE ELSE minted[l]]
  BY <1>1 DEF StreamsP!Mint, StreamsP!Swept
<1>5. \A l \in lapsed : TicketLife[l] = "offered" /\ minted[l]
  BY <1>1 DEF TicketLife, StreamsP!IInv, StreamsP!Claims
<1>6. TicketLife' = [l \in Tickets |-> IF l = t THEN "offered"
                                       ELSE IF l \in lapsed THEN "spent" ELSE TicketLife[l]]
  <2>1. \A l \in Tickets : TicketLife'[l] = IF l = t THEN "offered"
                                            ELSE IF l \in lapsed THEN "spent" ELSE TicketLife[l]
    BY <1>1, <1>4, <1>5 DEF TicketLife
  <2> HIDE DEF lapsed
  <2>. QED
    BY <2>1 DEF TicketLife
<1>7. TicketLife[t] = "new"
  BY <1>1 DEF TicketLife
<1>8. TicketServed' = TicketServed
  BY <1>1 DEF TicketServed
<1>. QED
  BY <1>3, <1>5, <1>6, <1>7, <1>8 DEF OneEach!Next, OneEach!Offer

(* The viewer that marks a ticket as in use is the only one it ever serves.          *)
LEMMA MarkClaims ==
  ASSUME StreamsP!IInv, NEW v \in Viewers, StreamsP!MarkInUse(v)
  PROVE  [OneEach!Next]_(OneEach!vars)
<1> DEFINE t == ticket[v]
<1>1. /\ sessions \in [Tickets -> {"absent", "free", "inUse"}]
      /\ admitted \in [Tickets -> SUBSET Viewers] /\ DOMAIN viewerPc = Viewers
      /\ viewerPc[v] = "mark" /\ t \in Tickets
  BY DEF StreamsP!IInv, StreamsP!Types, StreamsP!Claims, StreamsP!MarkInUse
<1>2. \A w \in Viewers \ {v} : viewerPc'[w] = viewerPc[w]
  BY <1>1 DEF StreamsP!MarkInUse, StreamsP!Goto
<1>3. CASE sessions[t] = "free"
  <2>1. /\ sessions' = [sessions EXCEPT ![t] = "inUse"]
        /\ admitted' = [admitted EXCEPT ![t] = admitted[t] \cup {v}]
        /\ viewerPc'[v] = "dial" /\ minted' = minted
    BY <1>1, <1>3 DEF StreamsP!MarkInUse, StreamsP!Markable, StreamsP!Goto
  <2>2. admitted[t] = {} /\ \A s \in Tickets : v \notin admitted[s]
    BY <1>1, <1>3 DEF StreamsP!IInv, StreamsP!Claims, StreamsP!Serving
  <2>3. TicketLife[t] = "offered" /\ TicketServed[t] = {}
    BY <1>1, <1>3, <2>2 DEF TicketLife, TicketServed
  <2>4. TicketLife' = [TicketLife EXCEPT ![t] = "claimed"]
    <3>1. \A s \in Tickets : TicketLife'[s] = IF s = t THEN "claimed" ELSE TicketLife[s]
      BY <1>1, <2>1 DEF TicketLife
    <3> HIDE DEF t
    <3>. QED
      BY <3>1 DEF TicketLife
  <2>5. TicketServed' = [TicketServed EXCEPT ![t] = {v}]
    <3>1. TicketServed'[t] = {v}
      BY <1>1, <2>1, <2>2 DEF TicketServed
    <3>2. ASSUME NEW s \in Tickets, s # t
          PROVE  TicketServed'[s] = TicketServed[s]
      <4>1. admitted'[s] = admitted[s]
        BY <1>1, <2>1, <3>2
      <4>. QED
        BY <1>1, <1>2, <2>2, <3>2, <4>1 DEF TicketServed
    <3> HIDE DEF t
    <3>. QED
      BY <1>1, <3>1, <3>2 DEF TicketServed
  <2>. QED
    BY <1>1, <2>3, <2>4, <2>5 DEF OneEach!Next, OneEach!Claim
<1>4. CASE sessions[t] # "free"
  <2>1. UNCHANGED <<sessions, minted, admitted>> /\ viewerPc'[v] = "done"
    BY <1>1, <1>4 DEF StreamsP!MarkInUse, StreamsP!Markable, StreamsP!Goto
  <2>. QED
    BY <1>1, <1>2, <2>1, TicketsStay DEF StreamsP!Serving
<1>. QED
  BY <1>3, <1>4

(* RemoveSession spends the ticket of the viewer whose request is over.              *)
LEMMA RemoveReleases ==
  ASSUME StreamsP!IInv, NEW v \in Viewers, StreamsP!Remove(v)
  PROVE  OneEach!Next
<1> DEFINE t == ticket[v]
<1>1. /\ sessions \in [Tickets -> {"absent", "free", "inUse"}]
      /\ admitted \in [Tickets -> SUBSET Viewers] /\ DOMAIN viewerPc = Viewers
      /\ viewerPc[v] = "remove" /\ t \in Tickets /\ sessions[t] = "inUse"
      /\ admitted[t] = {v} /\ minted[t]
      /\ \A s \in Tickets : v \in admitted[s] => s = t
  BY DEF StreamsP!IInv, StreamsP!Types, StreamsP!Claims, StreamsP!Serving, StreamsP!Remove
<1>2. /\ \A w \in Viewers \ {v} : viewerPc'[w] = viewerPc[w]
      /\ viewerPc'[v] = "done" /\ sessions' = [sessions EXCEPT ![t] = "absent"]
      /\ UNCHANGED <<minted, admitted>>
  BY <1>1 DEF StreamsP!Remove, StreamsP!Goto
<1>3. TicketLife[t] = "claimed" /\ TicketServed[t] = {v}
  BY <1>1 DEF TicketLife, TicketServed
<1>4. TicketLife' = [TicketLife EXCEPT ![t] = "spent"]
  <2>1. \A s \in Tickets : TicketLife'[s] = IF s = t THEN "spent" ELSE TicketLife[s]
    BY <1>1, <1>2 DEF TicketLife
  <2> HIDE DEF t
  <2>. QED
    BY <2>1 DEF TicketLife
<1>5. TicketServed' = [TicketServed EXCEPT ![t] = {}]
  <2>1. TicketServed'[t] = {}
    BY <1>1, <1>2 DEF TicketServed
  <2>2. ASSUME NEW s \in Tickets, s # t
        PROVE  TicketServed'[s] = TicketServed[s]
    BY <1>1, <1>2, <2>2 DEF TicketServed
  <2> HIDE DEF t
  <2>. QED
    BY <1>1, <2>1, <2>2 DEF TicketServed
<1>. QED
  BY <1>1, <1>3, <1>4, <1>5 DEF OneEach!Next, OneEach!Release

(* No other step moves a ticket.                                                     *)
LEMMA TicketSteps ==
  ASSUME StreamsP!IInv, StreamsP!Next \/ UNCHANGED streamVars
  PROVE  [OneEach!Next]_(OneEach!vars)
<1>1. DOMAIN viewerPc = Viewers
  BY DEF StreamsP!IInv, StreamsP!Types
<1>2. CASE UNCHANGED streamVars
  BY <1>2, TicketsStay DEF streamVars
<1>3. ASSUME NEW t \in Tickets, StreamsP!Expire(t)
      PROVE  UNCHANGED OneEach!vars
  BY <1>3, TicketsStay DEF StreamsP!Expire, StreamsP!viewerVars
<1>4. ASSUME NEW v \in Viewers, NEW l,
             viewerPc' = [viewerPc EXCEPT ![v] = l] \/ viewerPc' = viewerPc,
             l \in StreamsP!Serving <=> viewerPc[v] \in StreamsP!Serving,
             UNCHANGED <<sessions, minted, admitted>>
      PROVE  UNCHANGED OneEach!vars
  <2>1. \A w \in Viewers : viewerPc'[w] \in StreamsP!Serving <=> viewerPc[w] \in StreamsP!Serving
    BY <1>1, <1>4
  <2>. QED
    BY <1>4, <2>1, TicketsStay
<1>5. ASSUME NEW v \in Viewers, NEW t \in Tickets, NEW e \in StreamsP!Kinds,
             StreamsP!GetSession(v, t, e)
      PROVE  UNCHANGED OneEach!vars
  <2>1. \E l \in {"mark", "done"} : viewerPc' = [viewerPc EXCEPT ![v] = l]
    BY <1>5 DEF StreamsP!GetSession, StreamsP!Goto
  <2>2. viewerPc[v] = "idle" /\ UNCHANGED <<sessions, minted, admitted>>
    BY <1>5 DEF StreamsP!GetSession, StreamsP!ticketVars
  <2>. QED
    BY <1>4, <2>1, <2>2 DEF StreamsP!Serving
<1>6. ASSUME NEW v \in Viewers,
             \/ StreamsP!Disconnect(v) \/ StreamsP!SendCancel(v) \/ StreamsP!Handle(v)
             \/ StreamsP!Emit(v) \/ StreamsP!Return(v)
      PROVE  UNCHANGED OneEach!vars
  <2>1. UNCHANGED <<viewerPc, sessions, minted, admitted>>
    BY <1>6 DEF StreamsP!Disconnect, StreamsP!SendCancel, StreamsP!Handle, StreamsP!Receive,
       StreamsP!Watch, StreamsP!Emit, StreamsP!Return, StreamsP!ticketVars, StreamsP!viewerVars
  <2>. QED
    BY <2>1, TicketsStay
<1>7. ASSUME NEW v \in Viewers,
             \/ StreamsP!Dial(v) \/ StreamsP!SendRequest(v) \/ StreamsP!ReadChunk(v)
             \/ StreamsP!ReadResult(v) \/ StreamsP!ReadEOF(v) \/ StreamsP!Grace(v)
      PROVE  UNCHANGED OneEach!vars
  <2>1. \E l \in {"send", "read", "remove"} :
           viewerPc' = [viewerPc EXCEPT ![v] = l] \/ viewerPc' = viewerPc
    BY <1>7 DEF StreamsP!Dial, StreamsP!SendRequest, StreamsP!ReadChunk, StreamsP!ReadResult,
       StreamsP!ReadEOF, StreamsP!Grace, StreamsP!EndCall, StreamsP!Goto
  <2>2. viewerPc[v] \in {"dial", "send", "read"} /\ UNCHANGED <<sessions, minted, admitted>>
    BY <1>7 DEF StreamsP!Dial, StreamsP!SendRequest, StreamsP!ReadChunk, StreamsP!ReadResult,
       StreamsP!ReadEOF, StreamsP!Grace, StreamsP!ticketVars
  <2>. QED
    BY <1>4, <2>1, <2>2 DEF StreamsP!Serving
<1>8. CASE StreamsP!Crash
  BY <1>8, TicketsStay DEF StreamsP!Crash, StreamsP!ticketVars, StreamsP!viewerVars
<1>. QED
  BY <1>2, <1>3, <1>5, <1>6, <1>7, <1>8, MintOffers, MarkClaims, RemoveReleases
     DEF StreamsP!Next, StreamsP!Serve

(* For any number of tickets, viewers and crashes, and whatever the limit, the HTTP  *)
(* front implements StreamTickets.                                                   *)
THEOREM ImplementsStreamTickets == Spec => TicketSpec
<1>1. Init => OneEach!Init
  <2> SUFFICES ASSUME Init
               PROVE  OneEach!Init
    OBVIOUS
  <2>1. StreamsP!Init
    BY SameStreams DEF Init
  <2>2. \A t \in Tickets : sessions[t] = "absent" /\ ~minted[t] /\ admitted[t] = {}
    BY <2>1 DEF StreamsP!Init
  <2>3. TicketLife = [t \in Tickets |-> "new"]
    BY <2>2 DEF TicketLife
  <2>4. TicketServed = [t \in Tickets |-> {}]
    BY <2>2 DEF TicketServed
  <2>. QED
    BY <2>3, <2>4 DEF OneEach!Init
<1>2. StreamsP!IInv /\ [Next]_componentVars => [OneEach!Next]_(OneEach!vars)
  <2> SUFFICES ASSUME StreamsP!IInv, [Next]_componentVars
               PROVE  [OneEach!Next]_(OneEach!vars)
    OBVIOUS
  <2>1. StreamsP!Next \/ UNCHANGED streamVars
    BY SameStreams DEF Next, Others, componentVars
  <2>. QED
    BY <2>1, TicketSteps
<1>. QED
  BY <1>1, <1>2, StreamsInvariant, PTL DEF Spec, TicketSpec, OneEach!Spec

-------------------------------------------------------------------------------
(* WebSocket.  The slots that are taken are counted by the handlers that hold *)
(* them; a message in the inbox is there once and has no handler yet.         *)
Handlers == {m \in Socket!Messages : messagePc[m] \in Socket!Running}

SocketIInv ==
  /\ Socket!TypeOK
  /\ handlerSem = Cardinality(Handlers)
  /\ \A i \in 1..Len(inbox) : messagePc[inbox[i].id] = "sent"
  /\ \A i, j \in 1..Len(inbox) : inbox[i].id = inbox[j].id => i = j
  /\ \A m \in Socket!Messages : messagePc[m] \notin {"release", "done"} => replies[m] = 0

(* Any set of messages is finite: their numbers are bounded.               *)
LEMMA HandlersAreFinite == \A S : IsFiniteSet({m \in Socket!Messages : m \in S})
<1>1. IsFiniteSet(Socket!Messages)
  BY SocketAssumed, FS_Interval DEF Socket!Messages, Socket!WebSocketAssumption
<1>. QED
  BY <1>1, FS_Subset

(* A step of message m that gives it a slot, keeps or releases the one it has.*)
LEMMA SlotsFollow ==
  ASSUME SocketIInv, NEW m \in Socket!Messages, NEW l,
         messagePc' = [messagePc EXCEPT ![m] = l],
         handlerSem' = handlerSem
                       + (IF l \in Socket!Running THEN 1 ELSE 0)
                       - (IF messagePc[m] \in Socket!Running THEN 1 ELSE 0)
  PROVE  handlerSem' = Cardinality(Handlers')
<1>1. IsFiniteSet(Handlers) /\ handlerSem = Cardinality(Handlers)
  BY HandlersAreFinite DEF SocketIInv, Handlers
<1>2. DOMAIN messagePc = Socket!Messages /\ handlerSem \in Nat
  BY SocketAssumed DEF SocketIInv, Socket!TypeOK, Socket!WebSocketAssumption
<1>3. CASE l \in Socket!Running /\ messagePc[m] \notin Socket!Running
  <2>1. Handlers' = Handlers \cup {m} /\ m \notin Handlers
    BY <1>2, <1>3 DEF Handlers
  <2>2. handlerSem' = handlerSem + 1
    BY <1>2, <1>3
  <2>. QED
    BY <1>1, <2>1, <2>2, FS_AddElement
<1>4. CASE l \notin Socket!Running /\ messagePc[m] \in Socket!Running
  <2>1. Handlers' = Handlers \ {m} /\ m \in Handlers
    BY <1>2, <1>4 DEF Handlers
  <2>. QED
    BY <1>1, <1>2, <1>4, <2>1, FS_RemoveElement
<1>5. CASE l \in Socket!Running <=> messagePc[m] \in Socket!Running
  <2>1. Handlers' = Handlers
    BY <1>2, <1>5 DEF Handlers
  <2>. QED
    BY <1>1, <1>2, <1>5, <2>1
<1>. QED
  BY <1>3, <1>4, <1>5

(* A new connection has no handler, and every slot is free.                *)
LEMMA SocketInit == Socket!Init => SocketIInv
<1> SUFFICES ASSUME Socket!Init
             PROVE  SocketIInv
  OBVIOUS
<1> USE SocketAssumed DEF Socket!WebSocketAssumption, Socket!Init
<1>1. Handlers = {} /\ Len(inbox) = 0
  BY DEF Handlers, Socket!Running
<1>2. Socket!TypeOK
  <2>1. inbox \in Seq([id : Socket!Messages, class : Socket!Classes])
    OBVIOUS
  <2>2. handlerSem \in 0..MaxHandlers
    OBVIOUS
  <2>3. /\ messagePc \in [Socket!Messages -> {"unsent", "sent", "byReader", "done"} \cup Socket!Running]
        /\ answer \in [Socket!Messages -> {"none", "refused", "busy", "result", "error", "panic"}]
        /\ replies \in [Socket!Messages -> 0..1]
    OBVIOUS
  <2>4. {broken, socketOpen, pinging} \subseteq BOOLEAN
    OBVIOUS
  <2>. QED
    BY <2>1, <2>2, <2>3, <2>4 DEF Socket!TypeOK
<1>. QED
  BY <1>1, <1>2, FS_EmptySet DEF SocketIInv

(* The message the reader takes next, and what stays behind it.               *)
LEMMA ReadInbox ==
  ASSUME SocketIInv, inbox # <<>>, inbox' = Tail(inbox), NEW l, l # "sent",
         messagePc' = [messagePc EXCEPT ![Head(inbox).id] = l]
  PROVE  /\ inbox' \in Seq([id : Socket!Messages, class : Socket!Classes])
         /\ Head(inbox).id \in Socket!Messages /\ messagePc[Head(inbox).id] = "sent"
         /\ \A i \in 1..Len(inbox') : messagePc'[inbox'[i].id] = "sent"
         /\ \A i, j \in 1..Len(inbox') : inbox'[i].id = inbox'[j].id => i = j
<1> DEFINE Msg == [id : Socket!Messages, class : Socket!Classes]
<1>1. inbox \in Seq(Msg) /\ Len(inbox) \in Nat /\ DOMAIN messagePc = Socket!Messages
  BY DEF SocketIInv, Socket!TypeOK
<1> HIDE DEF Msg
<1>2. /\ Tail(inbox) \in Seq(Msg) /\ Len(Tail(inbox)) = Len(inbox) - 1
      /\ \A i \in 1..Len(Tail(inbox)) : Tail(inbox)[i] = inbox[i + 1]
      /\ Head(inbox) = inbox[1] /\ Head(inbox) \in Msg /\ 1 \in 1..Len(inbox)
  <2>1. Len(inbox) # 0
    BY <1>1, EmptySeq
  <2>. QED
    BY <1>1, <2>1, HeadTailProperties
<1>3. \A i \in 1..Len(Tail(inbox)) : i + 1 \in 1..Len(inbox) /\ i + 1 # 1
  BY <1>1, <1>2
<1>4. \A i \in 1..Len(inbox) : inbox[i] \in Msg
  BY <1>1, ElementOfSeq
<1>5. \A i \in 1..Len(Tail(inbox)) : Tail(inbox)[i].id # Head(inbox).id
                                     /\ Tail(inbox)[i].id \in Socket!Messages
  BY <1>2, <1>3, <1>4 DEF SocketIInv, Msg
<1>6. \A i \in 1..Len(inbox') : messagePc'[inbox'[i].id] = "sent"
  BY <1>1, <1>2, <1>3, <1>5 DEF SocketIInv
<1>7. \A i, j \in 1..Len(inbox') : inbox'[i].id = inbox'[j].id => i = j
  BY <1>2, <1>3 DEF SocketIInv
<1>. QED
  BY <1>2, <1>4, <1>6, <1>7 DEF SocketIInv, Msg

(* A step of a message that has left the inbox.                               *)
LEMMA InboxKept ==
  ASSUME SocketIInv, UNCHANGED inbox, NEW m \in Socket!Messages, messagePc[m] # "sent", NEW l,
         messagePc' = [messagePc EXCEPT ![m] = l]
  PROVE  /\ \A i \in 1..Len(inbox') : messagePc'[inbox'[i].id] = "sent"
         /\ \A i, j \in 1..Len(inbox') : inbox'[i].id = inbox'[j].id => i = j
  BY DEF SocketIInv

(* Every step of the connection keeps slots and handlers in agreement.     *)
LEMMA SocketStep == SocketIInv /\ [Socket!Next]_socketVars => SocketIInv'
<1> SUFFICES ASSUME SocketIInv, [Socket!Next]_socketVars
             PROVE  SocketIInv'
  OBVIOUS
<1>0. /\ Socket!TypeOK /\ handlerSem \in Nat
      /\ MaxHandlers \in Nat \ {0}
      /\ handlerSem = Cardinality(Handlers)
      /\ \A m \in Socket!Messages : messagePc[m] \notin {"release", "done"} => replies[m] = 0
  BY SocketAssumed DEF SocketIInv, Socket!TypeOK, Socket!WebSocketAssumption
<1> USE <1>0
<1>1. ASSUME NEW m \in Socket!Messages, NEW c \in Socket!Classes, Socket!Send(m, c)
      PROVE  SocketIInv'
  <2> DEFINE Msg == [id : Socket!Messages, class : Socket!Classes]
             msg == [id |-> m, class |-> c]
  <2>1. messagePc[m] = "unsent" /\ messagePc' = [messagePc EXCEPT ![m] = "sent"]
        /\ inbox' = Append(inbox, msg)
        /\ UNCHANGED <<handlerSem, answer, replies, broken, socketOpen, pinging>>
    BY <1>1 DEF Socket!Send
  <2>2. /\ inbox \in Seq(Msg) /\ msg \in Msg /\ inbox' \in Seq(Msg)
        /\ Len(inbox') = Len(inbox) + 1 /\ inbox'[Len(inbox) + 1] = msg
        /\ \A i \in 1..Len(inbox) : inbox'[i] = inbox[i]
    BY <2>1, AppendProperties DEF Socket!TypeOK
  <2>3. \A i \in 1..Len(inbox) : inbox[i].id \in Socket!Messages /\ inbox[i].id # m
    <3>1. \A i \in 1..Len(inbox) : inbox[i] \in Msg
      BY <2>2, ElementOfSeq
    <3>. QED
      BY <2>1, <3>1 DEF SocketIInv
  <2>4. \A i \in 1..Len(inbox') : i \in 1..Len(inbox) \/ i = Len(inbox) + 1
    BY <2>2
  <2>5. \A i \in 1..Len(inbox') : messagePc'[inbox'[i].id] = "sent"
    BY <2>1, <2>2, <2>3, <2>4 DEF SocketIInv, Socket!TypeOK
  <2>6. \A i, j \in 1..Len(inbox') : inbox'[i].id = inbox'[j].id => i = j
    BY <2>2, <2>3, <2>4 DEF SocketIInv
  <2>7. handlerSem' = Cardinality(Handlers')
    <3>1. "sent" \notin Socket!Running /\ "unsent" \notin Socket!Running
      BY DEF Socket!Running
    <3>2. handlerSem' = handlerSem + (IF "sent" \in Socket!Running THEN 1 ELSE 0)
                                   - (IF messagePc[m] \in Socket!Running THEN 1 ELSE 0)
      BY <2>1, <3>1
    <3>. QED
      BY <2>1, <3>2, SlotsFollow
  <2>8. Socket!TypeOK'
    BY <2>1, <2>2 DEF Socket!TypeOK
  <2>. QED
    BY <2>1, <2>5, <2>6, <2>7, <2>8 DEF SocketIInv, Socket!TypeOK
<1>2. CASE Socket!Read
  <2> DEFINE m == Head(inbox).id
  <2>1. inbox # <<>> /\ inbox' = Tail(inbox)
        /\ UNCHANGED <<replies, broken, socketOpen, pinging>>
    BY <1>2 DEF Socket!Read
  <2>2. ASSUME NEW l \in {"byReader", "dispatch"}, messagePc' = [messagePc EXCEPT ![m] = l],
               answer' = [answer EXCEPT ![m] = "refused"] \/ answer' = [answer EXCEPT ![m] = "busy"]
                 \/ UNCHANGED answer,
               handlerSem' = handlerSem + (IF l = "dispatch" THEN 1 ELSE 0),
               l = "dispatch" => handlerSem # MaxHandlers
        PROVE  SocketIInv'
    <3>1. /\ inbox' \in Seq([id : Socket!Messages, class : Socket!Classes])
          /\ m \in Socket!Messages /\ messagePc[m] = "sent"
          /\ \A i \in 1..Len(inbox') : messagePc'[inbox'[i].id] = "sent"
          /\ \A i, j \in 1..Len(inbox') : inbox'[i].id = inbox'[j].id => i = j
      BY <2>1, <2>2, ReadInbox
    <3> HIDE DEF m
    <3>2. handlerSem' = Cardinality(Handlers')
      <4>1. handlerSem' = handlerSem + (IF l \in Socket!Running THEN 1 ELSE 0)
                                     - (IF messagePc[m] \in Socket!Running THEN 1 ELSE 0)
        BY <2>2, <3>1 DEF Socket!Running
      <4>. QED
        BY <2>2, <3>1, <4>1, SlotsFollow
    <3>3. handlerSem' \in 0..MaxHandlers
      BY <2>2 DEF Socket!TypeOK
    <3>4. Socket!TypeOK'
      BY <2>1, <2>2, <3>1, <3>3 DEF Socket!TypeOK, Socket!Running
    <3>5. \A k \in Socket!Messages : messagePc'[k] \notin {"release", "done"} => replies'[k] = 0
      BY <2>1, <2>2, <3>1 DEF Socket!TypeOK
    <3>. QED
      BY <3>1, <3>2, <3>4, <3>5 DEF SocketIInv
  <2>3. CASE Head(inbox).class \in {"bad", "unknown"}
    BY <1>2, <2>2, <2>3 DEF Socket!Read, Socket!ReaderAnswers
  <2>4. CASE Head(inbox).class \notin {"bad", "unknown"} /\ handlerSem = MaxHandlers
    BY <1>2, <2>2, <2>4 DEF Socket!Read, Socket!ReaderAnswers, Socket!AllBusy
  <2>5. CASE Head(inbox).class \notin {"bad", "unknown"} /\ handlerSem # MaxHandlers
    BY <1>2, <2>2, <2>5 DEF Socket!Read, Socket!AllBusy
  <2>. QED
    BY <2>3, <2>4, <2>5
<1>3. ASSUME NEW m \in Socket!Messages, Socket!Handle(m)
      PROVE  SocketIInv'
  <2>1. ASSUME NEW l \in {"reply", "release", "done"}, messagePc' = [messagePc EXCEPT ![m] = l],
               UNCHANGED inbox, messagePc[m] # "sent", Socket!TypeOK',
               handlerSem' = handlerSem + (IF l \in Socket!Running THEN 1 ELSE 0)
                                        - (IF messagePc[m] \in Socket!Running THEN 1 ELSE 0),
               l = "reply" => replies'[m] = 0,
               \A k \in Socket!Messages \ {m} : replies'[k] = replies[k]
        PROVE  SocketIInv'
    <3>1. handlerSem' = Cardinality(Handlers')
      BY <2>1, SlotsFollow
    <3>2. /\ \A i \in 1..Len(inbox') : messagePc'[inbox'[i].id] = "sent"
          /\ \A i, j \in 1..Len(inbox') : inbox'[i].id = inbox'[j].id => i = j
      BY <2>1, InboxKept
    <3>3. \A k \in Socket!Messages : messagePc'[k] \notin {"release", "done"} => replies'[k] = 0
      BY <2>1 DEF Socket!TypeOK
    <3>. QED
      BY <2>1, <3>1, <3>2, <3>3 DEF SocketIInv
  <2>2. CASE Socket!Dispatch(m)
    <3>1. Socket!TypeOK'
      BY <2>2 DEF Socket!Dispatch, Socket!TypeOK, Socket!Running
    <3>. QED
      BY <2>1, <2>2, <3>1 DEF Socket!Dispatch, Socket!Running
  <2>3. CASE Socket!Reply(m)
    <3>1. replies[m] = 0
      BY <2>3 DEF Socket!Reply
    <3>2. Socket!TypeOK'
      BY <2>3, <3>1 DEF Socket!Reply, Socket!WriteOutcomes, Socket!TypeOK, Socket!Running
    <3>3. \A k \in Socket!Messages \ {m} : replies'[k] = replies[k]
      BY <2>3 DEF Socket!Reply, Socket!TypeOK
    <3>4. CASE messagePc[m] = "reply"
      BY <2>1, <2>3, <3>2, <3>3, <3>4 DEF Socket!Reply, Socket!Running
    <3>5. CASE messagePc[m] = "byReader"
      BY <2>1, <2>3, <3>2, <3>3, <3>5 DEF Socket!Reply, Socket!Running
    <3>. QED
      BY <2>3, <3>4, <3>5 DEF Socket!Reply
  <2>4. CASE Socket!Release(m)
    <3>1. handlerSem # 0
      <4>1. m \in Handlers
        BY <2>4 DEF Socket!Release, Handlers, Socket!Running
      <4>. QED
        BY <4>1, HandlersAreFinite, FS_EmptySet DEF Handlers
    <3>2. Socket!TypeOK'
      BY <2>4, <3>1 DEF Socket!Release, Socket!TypeOK
    <3>. QED
      BY <2>1, <2>4, <3>2 DEF Socket!Release, Socket!Running
  <2>. QED
    BY <1>3, <2>2, <2>3, <2>4 DEF Socket!Handle
<1>4. CASE Socket!Ping
  BY <1>4 DEF Socket!Ping, Socket!WriteOutcomes, SocketIInv, Socket!TypeOK, Handlers
<1>5. CASE Socket!ReaderEnds
  BY <1>5 DEF Socket!ReaderEnds, SocketIInv, Socket!TypeOK, Handlers
<1>6. CASE UNCHANGED socketVars
  BY <1>6 DEF socketVars, SocketIInv, Socket!TypeOK, Handlers
<1>. QED
  BY <1>1, <1>2, <1>3, <1>4, <1>5, <1>6 DEF Socket!Next

(* SocketIInv holds throughout, also while another component runs.         *)
LEMMA SocketInvariant == Spec => []SocketIInv
<1>1. Init => SocketIInv
  BY SocketInit DEF Init
<1>2. SocketIInv /\ [Next]_componentVars => SocketIInv'
  <2> SUFFICES ASSUME SocketIInv, [Next]_componentVars
               PROVE  SocketIInv'
    OBVIOUS
  <2>1. Socket!Next \/ UNCHANGED socketVars
    BY DEF Next, Others, componentVars
  <2>. QED
    BY <2>1, SocketStep
<1>. QED
  BY <1>1, <1>2, PTL DEF Spec

(* Every step of the connection leaves each message where it will be found: in the   *)
(* inbox, with its handler, or answered.                                             *)
LEMMA MessagesKept ==
  SocketIInv /\ Socket!NoMessageIsForgotten /\ [Socket!Next]_socketVars
    => Socket!NoMessageIsForgotten'
<1> SUFFICES ASSUME SocketIInv, Socket!NoMessageIsForgotten, [Socket!Next]_socketVars
             PROVE  Socket!NoMessageIsForgotten'
  OBVIOUS
<1> DEFINE Found(k) == \E i \in 1..Len(inbox) : inbox[i].id = k
           Answered(k) == messagePc[k] \in {"release", "done"} => replies[k] = 1 \/ broken
<1>0. /\ \A k \in Socket!Messages : (messagePc[k] = "sent" => Found(k)) /\ Answered(k)
      /\ Socket!TypeOK /\ DOMAIN messagePc = Socket!Messages /\ DOMAIN replies = Socket!Messages
      /\ \A k \in Socket!Messages : messagePc[k] \notin {"release", "done"} => replies[k] = 0
  BY DEF Socket!NoMessageIsForgotten, SocketIInv, Socket!TypeOK
<1>a. (\A k \in Socket!Messages : (messagePc'[k] = "sent" => Found(k)') /\ Answered(k)')
        => Socket!NoMessageIsForgotten'
  BY DEF Socket!NoMessageIsForgotten
<1>1. ASSUME NEW m \in Socket!Messages, NEW c \in Socket!Classes, Socket!Send(m, c)
      PROVE  Socket!NoMessageIsForgotten'
  <2> DEFINE Msg == [id : Socket!Messages, class : Socket!Classes]
             msg == [id |-> m, class |-> c]
  <2>1. /\ messagePc' = [messagePc EXCEPT ![m] = "sent"] /\ inbox' = Append(inbox, msg)
        /\ UNCHANGED <<replies, broken>> /\ msg.id = m
    BY <1>1 DEF Socket!Send
  <2>2. /\ inbox \in Seq(Msg) /\ msg \in Msg /\ Len(inbox) \in Nat
    BY <1>0 DEF Socket!TypeOK
  <2> HIDE DEF Msg, msg
  <2>3. /\ Len(inbox') = Len(inbox) + 1 /\ inbox'[Len(inbox) + 1] = msg
        /\ \A i \in 1..Len(inbox) : inbox'[i] = inbox[i]
    BY <2>1, <2>2, AppendProperties
  <2>4. \A k \in Socket!Messages : Found(k) \/ k = m => Found(k)'
    BY <2>1, <2>2, <2>3
  <2> HIDE DEF Found
  <2>5. \A k \in Socket!Messages : (messagePc'[k] = "sent" => Found(k)') /\ Answered(k)'
    BY <1>0, <2>1, <2>4
  <2>. QED
    BY <1>a, <2>5
<1>2. CASE Socket!Read
  <2> DEFINE m == Head(inbox).id
             Msg == [id : Socket!Messages, class : Socket!Classes]
  <2>1. /\ inbox # <<>> /\ inbox' = Tail(inbox) /\ UNCHANGED <<replies, broken>>
        /\ \E l \in {"byReader", "dispatch"} : messagePc' = [messagePc EXCEPT ![m] = l]
    BY <1>2 DEF Socket!Read, Socket!ReaderAnswers
  <2>2. inbox \in Seq(Msg) /\ Len(inbox) \in Nat
    BY <1>0 DEF Socket!TypeOK
  <2> HIDE DEF Msg
  <2>3. /\ Head(inbox) = inbox[1] /\ Len(inbox') = Len(inbox) - 1
        /\ \A i \in 1..Len(inbox') : inbox'[i] = inbox[i + 1]
    BY <2>1, <2>2, HeadTailProperties, EmptySeq
  <2>4. \A k \in Socket!Messages : Found(k) /\ k # m => Found(k)'
    <3> SUFFICES ASSUME NEW k \in Socket!Messages, k # m,
                        NEW i \in 1..Len(inbox), inbox[i].id = k
                 PROVE  Found(k)'
      OBVIOUS
    <3>1. i - 1 \in 1..Len(inbox') /\ (i - 1) + 1 = i
      BY <2>2, <2>3
    <3>2. inbox'[i - 1].id = k
      BY <2>3, <3>1
    <3>. QED
      BY <3>1, <3>2
  <2> HIDE DEF Found, m
  <2>5. \A k \in Socket!Messages : (messagePc'[k] = "sent" => Found(k)') /\ Answered(k)'
    BY <1>0, <2>1, <2>4
  <2>. QED
    BY <1>a, <2>5
<1>3. ASSUME NEW m \in Socket!Messages, NEW l, l # "sent", UNCHANGED inbox,
             messagePc' = [messagePc EXCEPT ![m] = l], Answered(m)', broken => broken',
             \A k \in Socket!Messages \ {m} : replies'[k] = replies[k]
      PROVE  Socket!NoMessageIsForgotten'
  <2>1. \A k \in Socket!Messages : (messagePc'[k] = "sent" => Found(k)') /\ Answered(k)'
    BY <1>0, <1>3
  <2>. QED
    BY <1>a, <2>1
<1>4. ASSUME NEW m \in Socket!Messages, Socket!Handle(m)
      PROVE  Socket!NoMessageIsForgotten'
  <2>1. CASE Socket!Dispatch(m)
    BY <1>0, <1>3, <2>1 DEF Socket!Dispatch
  <2>2. CASE Socket!Reply(m)
    <3>1. replies[m] = 0 /\ messagePc[m] \in {"reply", "byReader"} /\ UNCHANGED inbox
      BY <1>0, <2>2 DEF Socket!Reply
    <3>2. /\ replies'[m] = 1 \/ broken'
          /\ broken => broken'
          /\ \A k \in Socket!Messages \ {m} : replies'[k] = replies[k]
      <4>1. PICK ok \in BOOLEAN :
              /\ replies' = IF ok THEN [replies EXCEPT ![m] = @ + 1] ELSE replies
              /\ broken' = (broken \/ ~ok)
        BY <2>2 DEF Socket!Reply, Socket!WriteOutcomes
      <4>2. CASE ok
        <5>1. replies' = [replies EXCEPT ![m] = replies[m] + 1]
          BY <4>1, <4>2
        <5>2. replies'[m] = 1 /\ \A k \in Socket!Messages \ {m} : replies'[k] = replies[k]
          BY <1>0, <3>1, <5>1
        <5>. QED
          BY <4>1, <5>2
      <4>3. CASE ~ok
        BY <4>1, <4>3
      <4>. QED
        BY <4>2, <4>3
    <3>3. \E l \in {"release", "done"} : messagePc' = [messagePc EXCEPT ![m] = l]
      BY <2>2 DEF Socket!Reply
    <3>. QED
      BY <1>3, <3>1, <3>2, <3>3
  <2>3. CASE Socket!Release(m)
    BY <1>0, <1>3, <2>3 DEF Socket!Release
  <2>. QED
    BY <1>4, <2>1, <2>2, <2>3 DEF Socket!Handle
<1>5. ASSUME UNCHANGED <<inbox, messagePc, replies>>, broken => broken'
      PROVE  Socket!NoMessageIsForgotten'
  BY <1>5 DEF Socket!NoMessageIsForgotten
<1>6. CASE Socket!Ping
  BY <1>5, <1>6 DEF Socket!Ping
<1>7. CASE Socket!ReaderEnds
  BY <1>5, <1>7 DEF Socket!ReaderEnds
<1>8. CASE UNCHANGED socketVars
  BY <1>5, <1>8 DEF socketVars
<1>. QED
  BY <1>1, <1>2, <1>4, <1>6, <1>7, <1>8 DEF Socket!Next

(* What is kept of a connection: its invariant, and that it forgets no message.      *)
SocketKept == SocketIInv /\ Socket!NoMessageIsForgotten

(* No message is forgotten in any behaviour.                                         *)
LEMMA SocketAnswers == Spec => []SocketKept
<1>1. Init => SocketKept
  <2>1. Socket!Init => Socket!NoMessageIsForgotten
    BY DEF Socket!Init, Socket!NoMessageIsForgotten
  <2>. QED
    BY <2>1, SocketInit DEF Init, SocketKept
<1>2. SocketKept /\ [Next]_componentVars => SocketKept'
  <2> SUFFICES ASSUME SocketKept, [Next]_componentVars
               PROVE  SocketKept'
    OBVIOUS
  <2>1. Socket!Next \/ UNCHANGED socketVars
    BY DEF Next, Others, componentVars
  <2>. QED
    BY <2>1, SocketStep, MessagesKept DEF SocketKept
<1>. QED
  BY <1>1, <1>2, PTL DEF Spec

(* The slots of a connection are those of the requests being handled: none is lost.  *)
THEOREM NoSlotIsLost == Spec => []SlotsAreHandlers
<1>1. \A S : Socket!Cardinality(S) = Cardinality(S)
  BY DEF Cardinality, Socket!Cardinality
<1>2. SocketIInv => SlotsAreHandlers
  BY <1>1 DEF SlotsAreHandlers, Socket!SlotsAreHandlers, SocketIInv, Handlers
<1>. QED
  BY <1>2, SocketInvariant, PTL

-------------------------------------------------------------------------------
(* AndroidServer, with one request that sets or clears a location.            *)
ServersP == INSTANCE AndroidServerProofs
  WITH pc <- requestPc,
       Asks <- [r \in Requests |-> IF r = Setter THEN {"set", "clear"} ELSE {"tap"}]

(* The instances of AndroidServer and of its proofs are the same.             *)
LEMMA SameServers ==
  /\ Servers!AndroidAssumption <=> ServersP!AndroidAssumption
  /\ Servers!Init <=> ServersP!Init
  /\ serverVars' = serverVars => ServersP!vars' = ServersP!vars
  /\ Servers!Next <=> ServersP!Next
  /\ Servers!RepeatedOnlyAfterDeath <=> ServersP!RepeatedOnlyAfterDeath
  /\ Servers!TypeOK <=> ServersP!TypeOK
<1>1. Servers!AndroidAssumption <=> ServersP!AndroidAssumption
  BY DEF Servers!AndroidAssumption, ServersP!AndroidAssumption, Servers!Kinds, ServersP!Kinds
<1>2. Servers!Init <=> ServersP!Init
  BY DEF Servers!Init, ServersP!Init
<1>3. serverVars' = serverVars => ServersP!vars' = ServersP!vars
  BY DEF serverVars, ServersP!vars, ServersP!client, ServersP!device, ServersP!history
<1>4. Servers!Next <=> ServersP!Next
  BY DEF Servers!Next, ServersP!Next, Servers!Step, ServersP!Step,
     Servers!client, ServersP!client, Servers!device, ServersP!device,
     Servers!history, ServersP!history, Servers!Goto, ServersP!Goto,
     Servers!AfterFailure, ServersP!AfterFailure, Servers!AfterAnswer, ServersP!AfterAnswer,
     Servers!B, ServersP!B, Servers!Reached, ServersP!Reached,
     Servers!Begin, ServersP!Begin, Servers!Ensure, ServersP!Ensure,
     Servers!Ready, ServersP!Ready, Servers!NotReady, ServersP!NotReady,
     Servers!Find, ServersP!Find, Servers!ServerStops, ServersP!ServerStops,
     Servers!PushAndKill, ServersP!PushAndKill, Servers!Launch, ServersP!Launch,
     Servers!Await, ServersP!Await, Servers!Send, ServersP!Send,
     Servers!Timeout, ServersP!Timeout, Servers!Unreachable, ServersP!Unreachable,
     Servers!Forget, ServersP!Forget, Servers!Revoke, ServersP!Revoke,
     Servers!Execute, ServersP!Execute, Servers!Answer, ServersP!Answer,
     Servers!Die, ServersP!Die
<1>5. Servers!RepeatedOnlyAfterDeath <=> ServersP!RepeatedOnlyAfterDeath
  BY DEF Servers!RepeatedOnlyAfterDeath, ServersP!RepeatedOnlyAfterDeath
<1>6. Servers!TypeOK <=> ServersP!TypeOK
  BY DEF Servers!TypeOK, ServersP!TypeOK, Servers!Kinds, ServersP!Kinds,
     Servers!InStart, ServersP!InStart
<1>. QED
  BY <1>1, <1>2, <1>3, <1>4, <1>5, <1>6

(* The invariant of AndroidServerProofs holds in every behaviour.             *)
LEMMA ServersInvariant == Spec => []ServersP!IInv
<1>1. Init => ServersP!IInv
  BY ServersAssumed, SameServers, ServersP!InitIInv DEF Init
<1>2. ServersP!IInv /\ [Next]_componentVars => ServersP!IInv'
  <2> SUFFICES ASSUME ServersP!IInv, [Next]_componentVars
               PROVE  ServersP!IInv'
    OBVIOUS
  <2>1. ServersP!Next \/ UNCHANGED serverVars
    BY SameServers DEF Next, Others, componentVars
  <2>. QED
    BY <2>1, ServersAssumed, SameServers, ServersP!NextIInv
<1>. QED
  BY <1>1, <1>2, PTL DEF Spec

(* A request to the Android server has its effect twice only if the server died     *)
(* under its first attempt, however slow it was.                                    *)
THEOREM NoRepeatWithoutDeath == Spec => []RepeatedOnlyAfterDeath
<1>1. ServersP!IInv => RepeatedOnlyAfterDeath
  BY SameServers, ServersP!IInvRepeatedOnlyAfterDeath DEF RepeatedOnlyAfterDeath
<1>. QED
  BY <1>1, ServersInvariant, PTL

-------------------------------------------------------------------------------
(* Recorder.                                                                  *)
RecordingP == INSTANCE RecorderProofs WITH pc <- recorderPc, MaxSessions <- MaxRecordings

(* The instances of Recorder and of its proofs are the same.                  *)
LEMMA SameRecording ==
  /\ Recording!RecorderAssumption <=> RecordingP!RecorderAssumption
  /\ Recording!Init <=> RecordingP!Init
  /\ recordingVars' = recordingVars => RecordingP!vars' = RecordingP!vars
  /\ Recording!Next <=> RecordingP!Next
  /\ Recording!ManagedIfSerial <=> RecordingP!ManagedIfSerial
  /\ Recording!NoExitMidFile <=> RecordingP!NoExitMidFile
  /\ Recording!TypeOK <=> RecordingP!TypeOK
  /\ Recording!NoCallIsStuck <=> RecordingP!NoCallIsStuck
<1>1. Recording!RecorderAssumption <=> RecordingP!RecorderAssumption
  BY DEF Recording!RecorderAssumption, RecordingP!RecorderAssumption
<1>2. Recording!Init <=> RecordingP!Init
  BY DEF Recording!Init, RecordingP!Init, Recording!Session, RecordingP!Session
<1>3. recordingVars' = recordingVars => RecordingP!vars' = RecordingP!vars
  BY DEF recordingVars, RecordingP!vars, RecordingP!manager, RecordingP!channels,
     RecordingP!handlers, RecordingP!shutdown, RecordingP!clients
<1>4. Recording!Next <=> RecordingP!Next
  BY DEF Recording!Next, RecordingP!Next,
     Recording!Session, RecordingP!Session, Recording!manager, RecordingP!manager,
     Recording!channels, RecordingP!channels, Recording!handlers, RecordingP!handlers,
     Recording!shutdown, RecordingP!shutdown, Recording!clients, RecordingP!clients,
     Recording!At, RecordingP!At, Recording!RecorderIs, RecordingP!RecorderIs,
     Recording!Goto, RecordingP!Goto, Recording!Answer, RecordingP!Answer,
     Recording!NobodyAsks, RecordingP!NobodyAsks, Recording!MayCall, RecordingP!MayCall,
     Recording!HasSession, RecordingP!HasSession, Recording!MayExpire, RecordingP!MayExpire,
     Recording!CanStart, RecordingP!CanStart, Recording!StartRecording, RecordingP!StartRecording,
     Recording!HearReady, RecordingP!HearReady, Recording!TakeDone, RecordingP!TakeDone,
     Recording!StopCurrent, RecordingP!StopCurrent, Recording!ReadyTimeout, RecordingP!ReadyTimeout,
     Recording!StopRecording, RecordingP!StopRecording, Recording!FinalizeTimeout, RecordingP!FinalizeTimeout,
     Recording!Clear, RecordingP!Clear, Recording!SetRecorder, RecordingP!SetRecorder,
     Recording!SignalReady, RecordingP!SignalReady, Recording!GoLive, RecordingP!GoLive,
     Recording!FailToStart, RecordingP!FailToStart, Recording!MayEnd, RecordingP!MayEnd,
     Recording!EndCapture, RecordingP!EndCapture, Recording!Finish, RecordingP!Finish,
     Recording!DaemonBusy, RecordingP!DaemonBusy, Recording!IdleExit, RecordingP!IdleExit,
     Recording!ShutdownRequest, RecordingP!ShutdownRequest, Recording!StopForShutdown, RecordingP!StopForShutdown,
     Recording!Exit, RecordingP!Exit, Recording!CallerStep, RecordingP!CallerStep,
     Recording!RecorderStep, RecordingP!RecorderStep
<1>5. Recording!ManagedIfSerial <=> RecordingP!ManagedIfSerial
  BY DEF Recording!ManagedIfSerial, RecordingP!ManagedIfSerial,
     Recording!Managed, RecordingP!Managed, Recording!Running, RecordingP!Running,
     Recording!Session, RecordingP!Session
<1>6. Recording!NoExitMidFile <=> RecordingP!NoExitMidFile
  BY DEF Recording!NoExitMidFile, RecordingP!NoExitMidFile,
     Recording!Running, RecordingP!Running, Recording!Session, RecordingP!Session
<1>7. Recording!TypeOK <=> RecordingP!TypeOK
  BY DEF Recording!TypeOK, RecordingP!TypeOK, Recording!Running, RecordingP!Running,
     Recording!Session, RecordingP!Session
<1>8. Recording!NoCallIsStuck <=> RecordingP!NoCallIsStuck
  BY DEF Recording!NoCallIsStuck, RecordingP!NoCallIsStuck, Recording!At, RecordingP!At,
     Recording!Answering, RecordingP!Answering, Recording!Ending, RecordingP!Ending,
     Recording!MayExpire, RecordingP!MayExpire
<1>. QED
  BY <1>1, <1>2, <1>3, <1>4, <1>5, <1>6, <1>7, <1>8

(* The invariant of RecorderProofs holds in every behaviour.                  *)
LEMMA RecordingInvariant == Spec => []RecordingP!IInv
<1>1. Init => RecordingP!IInv
  BY RecordingAssumed, SameRecording, RecordingP!InitIInv DEF Init
<1>2. RecordingP!IInv /\ [Next]_componentVars => RecordingP!IInv'
  <2> SUFFICES ASSUME RecordingP!IInv, [Next]_componentVars
               PROVE  RecordingP!IInv'
    OBVIOUS
  <2>1. RecordingP!Next \/ UNCHANGED recordingVars
    BY SameRecording DEF Next, Others, componentVars
  <2>. QED
    BY <2>1, RecordingAssumed, SameRecording, RecordingP!NextIInv
<1>. QED
  BY <1>1, <1>2, PTL DEF Spec

(* While clients wait for their answers and recorders are quick, a recording that    *)
(* uses the device is the current session: it can be stopped, and no other starts.   *)
THEOREM RunningIsCurrent == Spec => []ManagedIfSerial
<1>1. RecordingP!IInv => ManagedIfSerial
  BY SameRecording, RecordingP!IInvManagedIfSerial DEF ManagedIfSerial
<1>. QED
  BY <1>1, RecordingInvariant, PTL

(* Under the same conditions the daemon never exits in the middle of a recording.    *)
THEOREM ExitAfterRecording == Spec => []NoExitMidFile
<1>1. RecordingP!IInv => NoExitMidFile
  BY SameRecording, RecordingP!IInvNoExitMidFile DEF NoExitMidFile
<1>. QED
  BY <1>1, RecordingInvariant, PTL

(* The recordings that use the device, as OneAtATime maps them.                      *)
UsingNow == {s \in 1..MaxRecordings : recorder[s] \in {"starting", "live", "finalizing"}}

(* What a step of the recorder is to the clients: nothing, the begin or the end of   *)
(* the one recording, or the exit of the daemon.                                     *)
LEMMA RecordingSteps ==
  ASSUME RecordingP!IInv, RecordingP!NoExitMidFile', RecordingP!Next \/ UNCHANGED recordingVars
  PROVE  [OneAtATime!Next]_(OneAtATime!vars)
<1> USE DEF RecordingP!Session, RecordingP!Running, RecordingP!At, RecordingP!RecorderIs,
            RecordingP!Goto, RecordingP!Answer, RecordingP!MayCall, RecordingP!SetRecorder,
            RecordingP!SignalReady, RecordingP!manager, RecordingP!channels,
            RecordingP!handlers, RecordingP!shutdown, RecordingP!clients
<1>1. /\ recorder \in [1..MaxRecordings ->
                         {"starting", "live", "finalizing", "none", "failing", "ended"}]
      /\ created \in 0..MaxRecordings /\ MaxRecordings \in Nat
  BY RecordingAssumed DEF RecordingP!IInv, RecordingP!TypeOK, Recording!RecorderAssumption
<1>2. ASSUME UsingNow' = UsingNow, UNCHANGED <<created, serial, prompt>>,
             daemon' = daemon \/ (daemon # "exited" /\ daemon' # "exited")
      PROVE  UNCHANGED OneAtATime!vars
  <2>1. (daemon # "exited")' = (daemon # "exited") /\ (serial /\ prompt)' = (serial /\ prompt)
    BY <1>2
  <2>. QED
    BY <1>2, <2>1, Zenon DEF UsingNow, OneAtATime!vars
<1>3. ASSUME UNCHANGED <<recorder, created, serial, prompt>>,
             daemon' = daemon \/ (daemon # "exited" /\ daemon' # "exited")
      PROVE  UNCHANGED OneAtATime!vars
  BY <1>2, <1>3 DEF UsingNow
<1>4. ASSUME NEW s \in 1..MaxRecordings, NEW l,
             l \in {"starting", "live", "finalizing"} <=> s \in UsingNow,
             recorder' = [recorder EXCEPT ![s] = l], UNCHANGED <<created, daemon, serial, prompt>>
      PROVE  UNCHANGED OneAtATime!vars
  <2>1. UsingNow' = UsingNow
    BY <1>1, <1>4 DEF UsingNow
  <2>. QED
    BY <1>2, <1>4, <2>1
<1>5. serial /\ prompt =>
        /\ daemon # "exited" => \A s \in UsingNow : session = s
        /\ daemon' = "exited" => UsingNow' = {}
  <2>1. serial' = serial /\ prompt' = prompt
    BY DEF recordingVars, RecordingP!Next, RecordingP!CallerStep, RecordingP!RecorderStep,
       RecordingP!StartRecording, RecordingP!HearReady, RecordingP!TakeDone, RecordingP!ReadyTimeout,
       RecordingP!StopRecording, RecordingP!FinalizeTimeout, RecordingP!Clear, RecordingP!GoLive,
       RecordingP!FailToStart, RecordingP!EndCapture, RecordingP!Finish, RecordingP!IdleExit,
       RecordingP!ShutdownRequest, RecordingP!StopForShutdown, RecordingP!Exit
  <2>2. serial /\ prompt /\ daemon' = "exited" => UsingNow' = {}
    BY <2>1 DEF RecordingP!NoExitMidFile, UsingNow
  <2>. QED
    BY <2>2, RecordingP!IInvManagedIfSerial
       DEF RecordingP!ManagedIfSerial, RecordingP!Managed, UsingNow
<1>6. CASE UNCHANGED recordingVars
  BY <1>3, <1>6 DEF recordingVars
<1>7. ASSUME NEW h \in Caller, RecordingP!StartRecording(h)
      PROVE  [OneAtATime!Next]_(OneAtATime!vars)
  <2>1. /\ daemon # "exited" /\ session = 0 /\ created + 1 \in 1..MaxRecordings
        /\ created' = created + 1 /\ UNCHANGED <<daemon, serial, prompt>>
        /\ recorder' = [recorder EXCEPT ![created + 1] = "starting"]
    BY <1>1, <1>7 DEF RecordingP!StartRecording, RecordingP!CanStart
  <2>2. CASE serial /\ prompt
    <3>1. UsingNow = {}
      BY <1>5, <2>1, <2>2 DEF UsingNow
    <3>2. UsingNow' = {created'}
      BY <1>1, <2>1, <3>1 DEF UsingNow
    <3>. QED
      BY <2>1, <2>2, <3>1, <3>2 DEF UsingNow, OneAtATime!Next, OneAtATime!Begin
  <2>3. CASE ~(serial /\ prompt)
    BY <2>1, <2>3 DEF OneAtATime!Next
  <2>. QED
    BY <2>2, <2>3
<1>8. ASSUME NEW h \in Caller, RecordingP!StopRecording(h) \/ RecordingP!CallerStep(h)
      PROVE  UNCHANGED OneAtATime!vars
  <2>1. UNCHANGED <<recorder, created, daemon, serial, prompt>>
    BY <1>8 DEF RecordingP!StopRecording, RecordingP!CallerStep, RecordingP!HearReady,
       RecordingP!TakeDone, RecordingP!ReadyTimeout, RecordingP!FinalizeTimeout, RecordingP!Clear
  <2>. QED
    BY <1>3, <2>1
<1>9. ASSUME NEW s \in 1..MaxRecordings, RecordingP!RecorderStep(s)
      PROVE  [OneAtATime!Next]_(OneAtATime!vars)
  <2>1. /\ daemon # "exited" /\ UNCHANGED <<created, daemon, serial, prompt>>
        /\ \/ recorder[s] \in {"starting", "live", "finalizing"}
              /\ \/ recorder' = [recorder EXCEPT ![s] = "live"]
                 \/ recorder' = [recorder EXCEPT ![s] = "finalizing"]
                 \/ recorder' = [recorder EXCEPT ![s] = "failing"]
                 \/ recorder' = [recorder EXCEPT ![s] = "ended"]
           \/ recorder[s] = "failing" /\ recorder' = [recorder EXCEPT ![s] = "ended"]
    BY <1>9 DEF RecordingP!RecorderStep, RecordingP!GoLive, RecordingP!FailToStart,
       RecordingP!EndCapture, RecordingP!Finish
  <2>2. CASE s \in UsingNow /\ (\/ recorder' = [recorder EXCEPT ![s] = "live"]
                               \/ recorder' = [recorder EXCEPT ![s] = "finalizing"])
    BY <1>4, <2>1, <2>2
  <2>3. CASE s \notin UsingNow /\ recorder' = [recorder EXCEPT ![s] = "ended"]
    BY <1>4, <2>1, <2>3
  <2>4. CASE s \in UsingNow /\ (\/ recorder' = [recorder EXCEPT ![s] = "failing"]
                               \/ recorder' = [recorder EXCEPT ![s] = "ended"])
    <3>1. CASE serial /\ prompt
      <4>1. UsingNow = {s}
        BY <1>5, <2>1, <2>4, <3>1
      <4>2. UsingNow' = {}
        BY <1>1, <2>4, <4>1 DEF UsingNow
      <4>. QED
        BY <2>1, <3>1, <4>1, <4>2 DEF UsingNow, OneAtATime!Next, OneAtATime!End
    <3>2. CASE ~(serial /\ prompt)
      BY <2>1, <3>2 DEF OneAtATime!Next
    <3>. QED
      BY <3>1, <3>2
  <2>. QED
    BY <2>1, <2>2, <2>3, <2>4 DEF UsingNow
<1>10. CASE RecordingP!IdleExit \/ RecordingP!ShutdownRequest
  <2>1. daemon = "up" /\ daemon' = "draining" /\ UNCHANGED <<recorder, created, serial, prompt>>
    BY <1>10 DEF RecordingP!IdleExit, RecordingP!ShutdownRequest
  <2>. QED
    BY <1>3, <2>1
<1>11. CASE RecordingP!StopForShutdown \/ RecordingP!Exit
  <2>1. /\ daemon \in {"draining", "waiting"} /\ daemon' \in {"waiting", "exited"}
        /\ UNCHANGED <<recorder, created, serial, prompt>>
    BY <1>11 DEF RecordingP!StopForShutdown, RecordingP!Exit
  <2>2. CASE daemon' = "waiting"
    BY <1>3, <2>1, <2>2
  <2>3. CASE daemon' = "exited" /\ serial /\ prompt
    <3>1. UsingNow' = {} /\ UsingNow' = UsingNow
      BY <1>5, <2>1, <2>3 DEF UsingNow
    <3>. QED
      BY <2>1, <2>3, <3>1 DEF UsingNow, OneAtATime!Next, OneAtATime!Exit
  <2>4. CASE ~(serial /\ prompt)
    BY <2>1, <2>4 DEF OneAtATime!Next
  <2>. QED
    BY <2>1, <2>2, <2>3, <2>4
<1>. QED
  BY <1>6, <1>7, <1>8, <1>9, <1>10, <1>11 DEF RecordingP!Next

(* For any number of clients and recordings, the recorder implements OneRecording.   *)
THEOREM ImplementsOneRecording == Spec => RecordingSpec
<1>1. Init => OneAtATime!Init
  <2> SUFFICES ASSUME Init
               PROVE  OneAtATime!Init
    OBVIOUS
  <2>1. RecordingP!Init
    BY SameRecording DEF Init
  <2>2. UsingNow = {} /\ created = 0 /\ daemon = "up" /\ serial \in BOOLEAN /\ prompt \in BOOLEAN
    BY <2>1 DEF RecordingP!Init, RecordingP!Session, UsingNow
  <2>. QED
    BY <2>2 DEF OneAtATime!Init, UsingNow
<1>2. RecordingP!IInv /\ RecordingP!NoExitMidFile' /\ [Next]_componentVars
        => [OneAtATime!Next]_(OneAtATime!vars)
  <2> SUFFICES ASSUME RecordingP!IInv, RecordingP!NoExitMidFile', [Next]_componentVars
               PROVE  [OneAtATime!Next]_(OneAtATime!vars)
    OBVIOUS
  <2>1. RecordingP!Next \/ UNCHANGED recordingVars
    BY SameRecording DEF Next, Others, componentVars
  <2>. QED
    BY <2>1, RecordingSteps
<1>3. RecordingP!IInv => RecordingP!NoExitMidFile
  BY RecordingP!IInvNoExitMidFile
<1>. QED
  BY <1>1, <1>2, <1>3, RecordingInvariant, PTL DEF Spec, RecordingSpec, OneAtATime!Spec

(* Both promises at once.                                                            *)
THEOREM PromisesKept == Spec => Promises
  BY ImplementsOneRecording, ImplementsStreamTickets, PTL DEF Promises

-------------------------------------------------------------------------------
(* FlutterVM, with a root whose children are the other nodes.                 *)
FlutterP == INSTANCE FlutterVMProofs
  WITH slots <- callSem, Kids <- [n \in Nodes |-> IF n = Root THEN Nodes \ {Root} ELSE {}]

(* The instances of FlutterVM and of its proofs are the same.                 *)
LEMMA SameFlutter ==
  /\ Flutter!FlutterAssumption <=> FlutterP!FlutterAssumption
  /\ Flutter!Init <=> FlutterP!Init
  /\ flutterVars' = flutterVars => FlutterP!vars' = FlutterP!vars
  /\ Flutter!Next <=> FlutterP!Next
  /\ Flutter!TypeOK <=> FlutterP!TypeOK
  /\ Flutter!WalkGoesOn <=> FlutterP!WalkGoesOn
<1>1. Flutter!FlutterAssumption <=> FlutterP!FlutterAssumption
  BY DEF Flutter!FlutterAssumption, FlutterP!FlutterAssumption, Flutter!IsTree, FlutterP!IsTree,
     Flutter!IsFiniteSet, FlutterP!IsFiniteSet
<1>2. Flutter!Init <=> FlutterP!Init
  BY DEF Flutter!Init, FlutterP!Init, Flutter!Goroutines, FlutterP!Goroutines
<1>3. flutterVars' = flutterVars => FlutterP!vars' = FlutterP!vars
  BY DEF flutterVars, FlutterP!vars
<1>4. Flutter!Next <=> FlutterP!Next
  BY DEF Flutter!Goroutines, FlutterP!Goroutines, Flutter!Bootstrap, FlutterP!Bootstrap,
     Flutter!VisitSteps, FlutterP!VisitSteps, Flutter!Calling, FlutterP!Calling,
     Flutter!Answers, FlutterP!Answers, Flutter!wire, FlutterP!wire,
     Flutter!walk, FlutterP!walk, Flutter!Enter, FlutterP!Enter,
     Flutter!Register, FlutterP!Register, Flutter!Hangup, FlutterP!Hangup,
     Flutter!WriteFails, FlutterP!WriteFails, Flutter!TakeAnswer, FlutterP!TakeAnswer,
     Flutter!TimeOut, FlutterP!TimeOut, Flutter!Answer, FlutterP!Answer,
     Flutter!ConnectionDies, FlutterP!ConnectionDies, Flutter!FailAll, FlutterP!FailAll,
     Flutter!Ended, FlutterP!Ended, Flutter!Advance, FlutterP!Advance,
     Flutter!Dial, FlutterP!Dial, Flutter!Conclude, FlutterP!Conclude,
     Flutter!GiveUp, FlutterP!GiveUp, Flutter!Locate, FlutterP!Locate,
     Flutter!EnableSemantics, FlutterP!EnableSemantics, Flutter!StartWalk, FlutterP!StartWalk,
     Flutter!WholeTree, FlutterP!WholeTree, Flutter!EndWalk, FlutterP!EndWalk,
     Flutter!DisposeSemantics, FlutterP!DisposeSemantics, Flutter!NoteCut, FlutterP!NoteCut,
     Flutter!Visit, FlutterP!Visit, Flutter!ReadSemantics, FlutterP!ReadSemantics,
     Flutter!ChildrenOf, FlutterP!ChildrenOf, Flutter!Join, FlutterP!Join,
     Flutter!GlobalRect, FlutterP!GlobalRect, Flutter!ExtractText, FlutterP!ExtractText,
     Flutter!Calls, FlutterP!Calls, Flutter!MainStep, FlutterP!MainStep,
     Flutter!VisitStep, FlutterP!VisitStep, Flutter!Run, FlutterP!Run,
     Flutter!Next, FlutterP!Next
<1>5. Flutter!TypeOK <=> FlutterP!TypeOK
  BY DEF Flutter!TypeOK, FlutterP!TypeOK, Flutter!Goroutines, FlutterP!Goroutines,
     Flutter!Calling, FlutterP!Calling, Flutter!Bootstrap, FlutterP!Bootstrap,
     Flutter!VisitSteps, FlutterP!VisitSteps, Flutter!Answers, FlutterP!Answers
<1>6. Flutter!WalkGoesOn <=> FlutterP!WalkGoesOn
  <2>1. ASSUME NEW c
        PROVE  Flutter!CanRun(c) <=> FlutterP!CanRun(c)
    BY DEF Flutter!CanRun, FlutterP!CanRun, Flutter!Calling, FlutterP!Calling,
       Flutter!Bootstrap, FlutterP!Bootstrap, Flutter!VisitSteps, FlutterP!VisitSteps
  <2>2. Flutter!Goroutines = FlutterP!Goroutines
    BY DEF Flutter!Goroutines, FlutterP!Goroutines
  <2>. QED
    BY <2>1, <2>2 DEF Flutter!WalkGoesOn, FlutterP!WalkGoesOn
<1>. QED
  BY <1>1, <1>2, <1>3, <1>4, <1>5, <1>6

(* The invariant of FlutterVMProofs holds in every behaviour.                 *)
LEMMA FlutterInvariant == Spec => []FlutterP!IInv
<1>1. Init => FlutterP!IInv
  BY FlutterAssumed, SameFlutter, FlutterP!InitIInv DEF Init
<1>2. FlutterP!IInv /\ [Next]_componentVars => FlutterP!IInv'
  <2> SUFFICES ASSUME FlutterP!IInv, [Next]_componentVars
               PROVE  FlutterP!IInv'
    OBVIOUS
  <2>1. FlutterP!Next \/ UNCHANGED flutterVars
    BY SameFlutter DEF Next, Others, componentVars
  <2>. QED
    BY <2>1, FlutterAssumed, SameFlutter, FlutterP!NextIInv
<1>. QED
  BY <1>1, <1>2, PTL DEF Spec

(* What is kept of a dump: its invariant, and that it began with its root.          *)
FlutterKept == FlutterP!IInv /\ FlutterP!Begun

(* A dump begins with its root and visits no node before its parent.                *)
LEMMA FlutterBegun == Spec => []FlutterKept
<1>1. Init => FlutterKept
  BY FlutterAssumed, SameFlutter, FlutterP!InitIInv, FlutterP!InitBegun DEF Init, FlutterKept
<1>2. FlutterKept /\ [Next]_componentVars => FlutterKept'
  <2> SUFFICES ASSUME FlutterKept, [Next]_componentVars
               PROVE  FlutterKept'
    OBVIOUS
  <2>1. FlutterP!Next \/ UNCHANGED flutterVars
    BY SameFlutter DEF Next, Others, componentVars
  <2>. QED
    BY <2>1, FlutterAssumed, SameFlutter, FlutterP!NextIInv, FlutterP!NextBegun DEF FlutterKept
<1>. QED
  BY <1>1, <1>2, PTL DEF Spec

-------------------------------------------------------------------------------
(* IosAgent.  Until the hooks reach them, the only loop, the only runner and the     *)
(* open forwarders are those the device knows, and a forwarder a caller has just     *)
(* made or lost; the stream's two forwarders run both or not at all, unless the      *)
(* streamer is between them.                                                         *)
StreamPlaces == {"stream", "http", "avc", "broadcast"}
BeforePorts == cleanup \in {"off", "kit", "ports"}

AgentPlaces ==
  /\ \A c \in Callers : own[c] # 0 => callerPc[c] = "forward"
  /\ \A c \in Callers : callerPc[c] \in StreamPlaces => c \in Streamers
  /\ calm => \A c \in Callers : callerPc[c] = "idle"
  /\ cleanup \in {"kit", "ports", "tunnel"} => hooked

AgentKnown ==
  /\ cleanup # "done" => loops \subseteq {updateCtx}
  /\ cleanup \in {"off", "kit"} => runners \subseteq {deviceKitCancel}
  /\ BeforePorts =>
       open \subseteq {agentFwd, httpFwd, avcFwd} \cup raced \cup {own[c] : c \in Callers}

StreamPair ==
  BeforePorts =>
    /\ \A c \in Callers : callerPc[c] = "http" => httpFwd \notin open /\ avcFwd \notin open
    /\ \A c \in Callers : callerPc[c] = "avc" => httpFwd \in open /\ avcFwd \notin open
    /\ (\A c \in Callers : callerPc[c] # "avc") => (httpFwd \in open <=> avcFwd \in open)

AgentStopped ==
  hooked /\ calm =>
    /\ cleanup = "done" => {"loop"} \X loops \subseteq cancelled
    /\ cleanup \in {"ports", "tunnel", "done"} => {"runner"} \X runners \subseteq cancelled
    /\ cleanup \in {"tunnel", "done"} => open \subseteq raced

AgentsIInv ==
  Agents!TypeOK /\ AgentPlaces /\ AgentKnown /\ StreamPair /\ AgentStopped

(* TypeOK by its parts: places, tunnel, runner, forwarders.                   *)
PlacesTyped ==
  /\ callerPc \in [Callers -> Agents!Places \cup {Agents!Waiting[s] : s \in Agents!Stages}]
  /\ mu \in Callers \cup {0}
TunnelTyped ==
  steady \subseteq loops /\ loops \subseteq 1..made["loop"] /\ updateCtx \in 0..made["loop"]
RunnerTyped ==
  /\ runners \subseteq 1..made["runner"] /\ deviceKitCancel \in 0..made["runner"]
  /\ cancelled \subseteq {"loop", "runner"} \X Nat
PortsTyped ==
  /\ open \subseteq 1..made["forward"] /\ raced \subseteq 1..made["forward"]
  /\ {agentFwd, httpFwd, avcFwd} \subseteq 0..made["forward"]
  /\ own \in [Callers -> 0..made["forward"]]
FlagsTyped ==
  /\ {agentUp, hooked, calm} \subseteq BOOLEAN
  /\ cleanup \in {"off", "kit", "ports", "tunnel", "done"}
MadeTyped == made \in [{"loop", "runner", "forward"} -> Nat]

(* TypeOK of IosAgent, in the groups of variables that a step changes together.*)
LEMMA AgentTypes ==
  Agents!TypeOK <=> PlacesTyped /\ TunnelTyped /\ RunnerTyped /\ PortsTyped /\ FlagsTyped
                    /\ MadeTyped
BY DEF Agents!TypeOK, PlacesTyped, TunnelTyped, RunnerTyped, PortsTyped, FlagsTyped, MadeTyped

(* The next number in a set of those given so far.                            *)
LEMMA NextNumber ==
  ASSUME NEW n \in Nat, NEW S \in SUBSET (1..n)
  PROVE  S \cup {n + 1} \subseteq 1..(n + 1) /\ n + 1 \in 0..(n + 1)
OBVIOUS

(* One more loop, runner or forwarder.                                        *)
LEMMA OneMore ==
  ASSUME MadeTyped, NEW k \in {"loop", "runner", "forward"}, Agents!Made(k)
  PROVE  /\ MadeTyped' /\ made'[k] = made[k] + 1
         /\ \A j \in {"loop", "runner", "forward"} \ {k} : made'[j] = made[j]
BY DEF Agents!Made, MadeTyped

(* A caller goes on to a place.                                               *)
LEMMA AgentGoes ==
  ASSUME PlacesTyped, NEW c \in Callers, mu' \in {mu, c, 0},
         NEW l \in Agents!Places \cup {Agents!Waiting[s] : s \in Agents!Stages},
         Agents!Goto(c, l)
  PROVE  PlacesTyped'
BY DEF PlacesTyped, Agents!Goto, Agents!Places, Agents!Waiting, Agents!Stages

(* The places a step may send a caller to are among those of the type.     *)
LEMMA AgentPlaceNames ==
  /\ {"idle", "list", "apps", "start", "check", "forward", "again", "launch", "run", "ready",
      "stream", "http", "avc", "broadcast"} \subseteq Agents!Places
  /\ \A s \in Agents!Stages : /\ Agents!Waiting[s] \in {"list waits", "start waits", "launch waits"}
                              /\ Agents!AfterTunnel(s) \in {"apps", "check", "run"}
BY DEF Agents!Places, Agents!Stages, Agents!Waiting, Agents!AfterTunnel

(* The inductive invariant keeps the types.                                   *)
LEMMA AgentsType == AgentsIInv /\ [Agents!Next]_agentVars => Agents!TypeOK'
<1> SUFFICES ASSUME AgentsIInv, [Agents!Next]_agentVars
             PROVE  Agents!TypeOK'
  OBVIOUS
<1>0. /\ PlacesTyped /\ TunnelTyped /\ RunnerTyped /\ PortsTyped /\ FlagsTyped /\ MadeTyped
      /\ made["loop"] \in Nat /\ made["runner"] \in Nat /\ made["forward"] \in Nat
  BY AgentTypes DEF AgentsIInv, MadeTyped
<1> SUFFICES PlacesTyped' /\ TunnelTyped' /\ RunnerTyped' /\ PortsTyped' /\ FlagsTyped'
             /\ MadeTyped'
  BY AgentTypes, PTL
<1> USE DEF Agents!tunnel, Agents!runner, Agents!ports, Agents!shutdown
<1>k. ASSUME UNCHANGED <<callerPc, mu>>
      PROVE  PlacesTyped'
  BY <1>0, <1>k DEF PlacesTyped
<1>l. ASSUME UNCHANGED <<loops, steady, updateCtx>>, made'["loop"] = made["loop"]
      PROVE  TunnelTyped'
  BY <1>0, <1>l DEF TunnelTyped
<1>r. ASSUME UNCHANGED <<runners, deviceKitCancel, cancelled>>, made'["runner"] = made["runner"]
      PROVE  RunnerTyped'
  BY <1>0, <1>r DEF RunnerTyped
<1>p. ASSUME UNCHANGED <<open, agentFwd, httpFwd, avcFwd, own, raced>>,
             made'["forward"] = made["forward"]
      PROVE  PortsTyped'
  BY <1>0, <1>p DEF PortsTyped
<1>f. ASSUME {agentUp', hooked', calm'} \subseteq BOOLEAN, cleanup' = cleanup
      PROVE  FlagsTyped'
  BY <1>0, <1>f DEF FlagsTyped
<1>b. {agentUp, hooked, calm} \subseteq BOOLEAN
  BY <1>0 DEF FlagsTyped
<1>m. UNCHANGED made => MadeTyped'
  BY <1>0 DEF MadeTyped
<1>1. ASSUME NEW c \in Callers,
             Agents!StartAgent(c) \/ Agents!FindAgent(c) \/ Agents!StatusAgain(c)
             \/ Agents!AwaitAgent(c) \/ Agents!StartStream(c)
      PROVE  PlacesTyped' /\ TunnelTyped' /\ RunnerTyped' /\ PortsTyped' /\ FlagsTyped'
             /\ MadeTyped'
  <2>1. \E l \in Agents!Places : Agents!Goto(c, l) /\ mu' \in {mu, 0}
    BY <1>1, AgentPlaceNames DEF Agents!StartAgent, Agents!FindAgent, Agents!StatusAgain,
       Agents!AwaitAgent, Agents!StartStream, Agents!Return
  <2>2. UNCHANGED <<Agents!tunnel, Agents!runner, cancelled, Agents!ports, made, cleanup>>
    BY <1>1 DEF Agents!StartAgent, Agents!FindAgent, Agents!StatusAgain,
       Agents!AwaitAgent, Agents!StartStream
  <2>3. {agentUp', hooked', calm'} \subseteq BOOLEAN
    BY <1>1, <1>b DEF Agents!StartAgent, Agents!FindAgent, Agents!StatusAgain,
       Agents!AwaitAgent, Agents!StartStream, Agents!Stir
  <2>. QED
    BY <1>0, <2>1, <2>2, <2>3, AgentGoes, <1>l, <1>r, <1>p, <1>f, <1>m
<1>2. ASSUME NEW c \in Callers, Agents!AwaitTunnel(c)
      PROVE  PlacesTyped' /\ TunnelTyped' /\ RunnerTyped' /\ PortsTyped' /\ FlagsTyped'
             /\ MadeTyped'
  <2>1. \E l \in Agents!Places : Agents!Goto(c, l) /\ mu' \in {mu, 0}
    BY <1>2, AgentPlaceNames DEF Agents!AwaitTunnel
  <2>2. PortsTyped'
    BY <1>0, <1>2 DEF Agents!AwaitTunnel, PortsTyped
  <2>3. {agentUp', hooked', calm'} \subseteq BOOLEAN /\ UNCHANGED <<cleanup, made>>
    BY <1>2, <1>b DEF Agents!AwaitTunnel, Agents!Stir
  <2>. QED
    BY <1>0, <1>2, <2>1, <2>2, <2>3, AgentGoes, <1>l, <1>r, <1>f, <1>m DEF Agents!AwaitTunnel
<1>3. ASSUME NEW c \in Callers, NEW stage \in Agents!Stages, Agents!StartTunnel(c, stage)
      PROVE  PlacesTyped' /\ TunnelTyped' /\ RunnerTyped' /\ PortsTyped' /\ FlagsTyped'
             /\ MadeTyped'
  <2>1. \E l \in Agents!Places \cup {Agents!Waiting[s] : s \in Agents!Stages} :
          Agents!Goto(c, l) /\ mu' \in {mu, c}
    BY <1>3, AgentPlaceNames DEF Agents!StartTunnel
  <2>2. {agentUp', hooked', calm'} \subseteq BOOLEAN /\ UNCHANGED cleanup
    BY <1>3, <1>b DEF Agents!StartTunnel, Agents!Stir
  <2>3. MadeTyped' /\ TunnelTyped' /\ made'["runner"] = made["runner"]
        /\ made'["forward"] = made["forward"]
    <3>1. CASE updateCtx # 0
      BY <1>0, <1>3, <3>1, <1>l, <1>m DEF Agents!StartTunnel
    <3>2. CASE updateCtx = 0
      <4>1. /\ MadeTyped' /\ made'["loop"] = made["loop"] + 1
            /\ made'["runner"] = made["runner"] /\ made'["forward"] = made["forward"]
        BY <1>0, <1>3, <3>2, OneMore DEF Agents!StartTunnel
      <4>2. /\ loops' = loops \cup {made["loop"] + 1} /\ updateCtx' = made["loop"] + 1
            /\ steady' = steady
        BY <1>3, <3>2 DEF Agents!StartTunnel
      <4>3. steady' \subseteq loops' /\ loops' \subseteq 1..(made["loop"] + 1)
            /\ updateCtx' \in 0..(made["loop"] + 1)
        BY <1>0, <4>2, NextNumber DEF TunnelTyped
      <4>. QED
        BY <4>1, <4>3 DEF TunnelTyped
    <3>. QED
      BY <3>1, <3>2
  <2>. QED
    BY <1>0, <1>3, <2>1, <2>2, <2>3, AgentGoes, <1>r, <1>p, <1>f DEF Agents!StartTunnel
<1>4. ASSUME NEW c \in Callers,
             Agents!CheckForwarder(c) \/ Agents!StoreForwarder(c) \/ Agents!ForwardHTTP(c)
             \/ Agents!ForwardStream(c) \/ Agents!Broadcast(c)
      PROVE  PlacesTyped' /\ TunnelTyped' /\ RunnerTyped' /\ PortsTyped' /\ FlagsTyped'
             /\ MadeTyped'
  <2> USE DEF Agents!CheckForwarder, Agents!StoreForwarder, Agents!ForwardHTTP,
              Agents!ForwardStream, Agents!Broadcast
  <2>1. \E l \in Agents!Places : Agents!Goto(c, l) /\ mu' = mu
    BY <1>4, AgentPlaceNames DEF Agents!Listen
  <2>2. {agentUp', hooked', calm'} \subseteq BOOLEAN /\ UNCHANGED cleanup
    BY <1>4, <1>b DEF Agents!Stir
  <2>3. UNCHANGED made \/ Agents!Made("forward")
    BY <1>4 DEF Agents!Listen
  <2>4. MadeTyped' /\ made'["runner"] = made["runner"] /\ made'["loop"] = made["loop"]
    BY <1>0, <1>m, <2>3, OneMore
  <2>5. PortsTyped'
    <3>0. ASSUME Agents!Made("forward"), UNCHANGED raced,
                 {agentFwd', httpFwd', avcFwd'} \subseteq 0..(made["forward"] + 1),
                 open' \subseteq open \cup {made["forward"] + 1},
                 UNCHANGED own \/ own' = [own EXCEPT ![c] = made["forward"] + 1]
          PROVE  PortsTyped'
      <4>1. made'["forward"] = made["forward"] + 1
        BY <1>0, <3>0, OneMore
      <4>2. open' \subseteq 1..(made["forward"] + 1) /\ raced' \subseteq 1..(made["forward"] + 1)
        BY <1>0, <3>0 DEF PortsTyped
      <4>3. own' \in [Callers -> 0..(made["forward"] + 1)]
        BY <1>0, <3>0 DEF PortsTyped
      <4>. QED
        BY <3>0, <4>1, <4>2, <4>3 DEF PortsTyped
    <3>t. {agentFwd, httpFwd, avcFwd} \subseteq 0..(made["forward"] + 1)
          /\ {0, made["forward"] + 1} \subseteq 0..(made["forward"] + 1)
      BY <1>0 DEF PortsTyped
    <3>1. CASE Agents!CheckForwarder(c)
      <4>1. CASE Agents!Made("forward")
        BY <3>0, <3>1, <3>t, <4>1
      <4>2. CASE UNCHANGED <<open, own, made>>
        BY <3>1, <4>2, <1>p
      <4>. QED
        BY <3>1, <4>1, <4>2
    <3>2. CASE Agents!StoreForwarder(c)
      <4>1. own[c] \in 0..made["forward"] /\ open \cap {agentFwd} \subseteq 1..made["forward"]
        BY <1>0 DEF PortsTyped
      <4>2. own' \in [Callers -> 0..made["forward"]]
        BY <1>0, <3>2 DEF PortsTyped
      <4>. QED
        BY <1>0, <3>2, <4>1, <4>2 DEF PortsTyped
    <3>3. CASE Agents!ForwardHTTP(c)
      BY <1>0, <3>3, OneMore DEF PortsTyped, Agents!Listen, Agents!NewForwards
    <3>4. CASE Agents!ForwardStream(c)
      <4>1. CASE avcFwd' = 0
        <5>1. open' \subseteq open /\ UNCHANGED <<agentFwd, httpFwd, own, raced, made>>
          BY <1>0, <3>4, <4>1 DEF Agents!Listen, Agents!NewForwards
        <5>2. open' \subseteq 1..made["forward"] /\ {agentFwd', httpFwd', avcFwd'} \subseteq 0..made["forward"]
          BY <1>0, <4>1, <5>1 DEF PortsTyped
        <5>. QED
          BY <1>0, <5>1, <5>2 DEF PortsTyped
      <4>2. CASE avcFwd' = made["forward"] + 1
        BY <1>0, <3>0, <3>4, <3>t, <4>2 DEF Agents!Listen
      <4>. QED
        BY <3>4, <4>1, <4>2 DEF Agents!NewForwards
    <3>5. CASE Agents!Broadcast(c)
      BY <1>0, <3>5 DEF PortsTyped
    <3>. QED
      BY <1>4, <3>1, <3>2, <3>3, <3>4, <3>5
  <2>. QED
    BY <1>0, <1>4, <2>1, <2>2, <2>4, <2>5, AgentGoes, <1>l, <1>r, <1>f
<1>5. ASSUME NEW c \in Callers, Agents!Launch(c)
      PROVE  PlacesTyped' /\ TunnelTyped' /\ RunnerTyped' /\ PortsTyped' /\ FlagsTyped'
             /\ MadeTyped'
  <2>1. \E l \in Agents!Places : Agents!Goto(c, l) /\ mu' = mu
    BY <1>5, AgentPlaceNames DEF Agents!Launch
  <2>2. {agentUp', hooked', calm'} \subseteq BOOLEAN /\ UNCHANGED cleanup
    BY <1>5, <1>b DEF Agents!Launch, Agents!Stir
  <2>3. MadeTyped' /\ RunnerTyped' /\ made'["loop"] = made["loop"]
        /\ made'["forward"] = made["forward"]
    <3>1. CASE UNCHANGED <<runners, deviceKitCancel, made>>
      BY <1>0, <1>5, <3>1, <1>r, <1>m DEF Agents!Launch
    <3>2. CASE Agents!Made("runner") /\ runners' = runners \cup {made["runner"] + 1}
               /\ deviceKitCancel' = made["runner"] + 1
      <4>1. /\ MadeTyped' /\ made'["runner"] = made["runner"] + 1
            /\ made'["loop"] = made["loop"] /\ made'["forward"] = made["forward"]
        BY <1>0, <3>2, OneMore
      <4>2. runners' \subseteq 1..(made["runner"] + 1) /\ deviceKitCancel' \in 0..(made["runner"] + 1)
        BY <1>0, <3>2, NextNumber DEF RunnerTyped
      <4>. QED
        BY <1>0, <1>5, <4>1, <4>2 DEF Agents!Launch, RunnerTyped
    <3>. QED
      BY <1>5, <3>1, <3>2 DEF Agents!Launch
  <2>. QED
    BY <1>0, <1>5, <2>1, <2>2, <2>3, AgentGoes, <1>l, <1>p, <1>f DEF Agents!Launch
<1>6. ASSUME NEW n, Agents!Update(n) \/ Agents!LoopEnds(n) \/ Agents!RunnerEnds(n)
                    \/ Agents!AgentRuns
      PROVE  PlacesTyped' /\ TunnelTyped' /\ RunnerTyped' /\ PortsTyped' /\ FlagsTyped'
             /\ MadeTyped'
  <2> USE DEF Agents!Update, Agents!LoopEnds, Agents!RunnerEnds, Agents!AgentRuns
  <2>1. {agentUp', hooked', calm'} \subseteq BOOLEAN /\ UNCHANGED <<cleanup, made>>
    BY <1>6, <1>b
  <2>2. TunnelTyped'
    <3>1. /\ steady' \subseteq loops' /\ loops' \subseteq loops /\ updateCtx' \in {updateCtx, 0}
      BY <1>0, <1>6 DEF TunnelTyped
    <3>. QED
      BY <1>0, <2>1, <3>1 DEF TunnelTyped
  <2>3. RunnerTyped'
    <3>1. /\ runners' \subseteq runners /\ deviceKitCancel' \in {deviceKitCancel, 0}
          /\ cancelled' = cancelled
      BY <1>6
    <3>. QED
      BY <1>0, <2>1, <3>1 DEF RunnerTyped
  <2>. QED
    BY <1>6, <2>1, <2>2, <2>3, <1>k, <1>p, <1>f, <1>m
<1>7. CASE Agents!Shutdown \/ Agents!CleanupDeviceKit \/ Agents!CleanupForwarders
           \/ Agents!CleanupTunnel
  <2> USE DEF Agents!Shutdown, Agents!CleanupDeviceKit, Agents!CleanupForwarders,
              Agents!CleanupTunnel
  <2>1. {agentUp', hooked', calm'} \subseteq BOOLEAN
    BY <1>7, <1>b
  <2>2. FlagsTyped' /\ UNCHANGED made
    BY <1>7, <2>1 DEF FlagsTyped
  <2>3. TunnelTyped'
    <3>1. UNCHANGED <<loops, steady>> /\ updateCtx' \in {updateCtx, 0}
      BY <1>7
    <3>. QED
      BY <1>0, <2>2, <3>1 DEF TunnelTyped
  <2>4. RunnerTyped'
    <3>1. UNCHANGED runners /\ deviceKitCancel' \in {deviceKitCancel, 0}
      BY <1>7
    <3>2. updateCtx \in Nat /\ deviceKitCancel \in Nat
      BY <1>0 DEF RunnerTyped, TunnelTyped
    <3>3. cancelled' \subseteq {"loop", "runner"} \X Nat
      BY <1>0, <1>7, <3>2 DEF RunnerTyped
    <3>. QED
      BY <1>0, <2>2, <3>1, <3>3 DEF RunnerTyped
  <2>5. PortsTyped'
    BY <1>0, <1>7 DEF PortsTyped
  <2>. QED
    BY <1>7, <2>2, <2>3, <2>4, <2>5, <1>k, <1>m
<1>8. CASE UNCHANGED agentVars
  <2>1. FlagsTyped'
    BY <1>0, <1>8 DEF agentVars, FlagsTyped
  <2>. QED
    BY <1>8, <2>1, <1>k, <1>l, <1>r, <1>p, <1>m DEF agentVars
<1>. QED
  BY <1>1, <1>2, <1>3, <1>4, <1>5, <1>6, <1>7, <1>8 DEF Agents!Next

(* What the types say of a state that the next steps use.                     *)
LEMMA AgentFacts ==
  ASSUME Agents!TypeOK
  PROVE  /\ DOMAIN callerPc = Callers /\ callerPc = [c \in Callers |-> callerPc[c]]
         /\ DOMAIN own = Callers /\ own = [c \in Callers |-> own[c]]
         /\ 0 \notin open /\ 0 \notin loops /\ 0 \notin runners
         /\ made["forward"] + 1 \notin open
         /\ made["forward"] + 1 \notin {0, agentFwd, httpFwd, avcFwd}
<1>1. /\ TunnelTyped /\ RunnerTyped /\ PortsTyped /\ PlacesTyped
      /\ made["loop"] \in Nat /\ made["runner"] \in Nat /\ made["forward"] \in Nat
  BY AgentTypes DEF MadeTyped
<1>. QED
  BY <1>1 DEF TunnelTyped, RunnerTyped, PortsTyped, PlacesTyped

(* The places of the callers.                                                 *)
LEMMA AgentPlacesKept == AgentsIInv /\ [Agents!Next]_agentVars => AgentPlaces'
<1> SUFFICES ASSUME AgentsIInv, [Agents!Next]_agentVars
             PROVE  AgentPlaces'
  OBVIOUS
<1>0. /\ DOMAIN callerPc = Callers /\ DOMAIN own = Callers /\ AgentPlaces
  BY AgentFacts DEF AgentsIInv
<1> USE DEF Agents!tunnel, Agents!runner, Agents!ports, Agents!shutdown
<1> DEFINE Owned == \A d \in Callers : own[d] # 0 => callerPc[d] = "forward"
           Streaming == \A d \in Callers : callerPc[d] \in StreamPlaces => d \in Streamers
           Calm == calm => \A d \in Callers : callerPc[d] = "idle"
           Hooks == cleanup \in {"kit", "ports", "tunnel"} => hooked
<1>a. Owned /\ Streaming /\ Calm /\ Hooks
  BY <1>0 DEF AgentPlaces
<1>b. ASSUME NEW c \in Callers, NEW l, l \notin StreamPlaces \/ c \in Streamers,
             Agents!Goto(c, l)
      PROVE  Streaming'
  BY <1>0, <1>a, <1>b DEF Agents!Goto
<1>c. ASSUME NEW c \in Callers, NEW l, Agents!Goto(c, l),
             \/ own' = [own EXCEPT ![c] = 0]
             \/ own' = own /\ callerPc[c] # "forward"
             \/ l = "forward" /\ \E n : own' = [own EXCEPT ![c] = n]
      PROVE  Owned'
  BY <1>0, <1>a, <1>c DEF Agents!Goto
<1>d. Agents!Stir => Calm'
  BY DEF Agents!Stir
<1>e. cleanup' = cleanup /\ (hooked => hooked') => Hooks'
  BY <1>a
<1>f. Owned' /\ Streaming' /\ Calm' /\ Hooks' => AgentPlaces'
  BY DEF AgentPlaces
<1> HIDE DEF Owned, Streaming, Calm, Hooks
<1>1. ASSUME NEW c \in Callers,
             Agents!StartAgent(c) \/ Agents!FindAgent(c) \/ Agents!StatusAgain(c)
             \/ Agents!AwaitAgent(c) \/ Agents!Launch(c)
      PROVE  AgentPlaces'
  <2> USE DEF Agents!StartAgent, Agents!FindAgent, Agents!StatusAgain,
              Agents!AwaitAgent, Agents!Launch
  <2>1. Agents!Stir /\ cleanup' = cleanup
    BY <1>1
  <2>2. hooked => hooked'
    BY <1>1
  <2>3. own' = own /\ callerPc[c] # "forward"
    BY <1>1
  <2>4. \E l : Agents!Goto(c, l) /\ (l \notin StreamPlaces \/ c \in Streamers)
    BY <1>1 DEF Agents!Return, StreamPlaces
  <2>5. Owned' /\ Streaming'
    BY <2>3, <2>4, <1>b, <1>c
  <2>6. Calm' /\ Hooks'
    BY <2>1, <2>2, <1>d, <1>e
  <2>. QED
    BY <2>5, <2>6, <1>f
<1>2. ASSUME NEW c \in Callers, NEW stage \in Agents!Stages, Agents!StartTunnel(c, stage)
      PROVE  AgentPlaces'
  <2>1. /\ Agents!Stir /\ UNCHANGED <<cleanup, hooked, own>> /\ callerPc[c] # "forward"
        /\ \E l : Agents!Goto(c, l) /\ l \notin StreamPlaces
    BY <1>2, AgentPlaceNames DEF Agents!StartTunnel, Agents!Stages, StreamPlaces
  <2>2. Owned' /\ Streaming'
    BY <2>1, <1>b, <1>c
  <2>3. Calm' /\ Hooks'
    BY <2>1, <1>d, <1>e
  <2>. QED
    BY <2>2, <2>3, <1>f
<1>3. ASSUME NEW c \in Callers, Agents!CheckForwarder(c)
      PROVE  AgentPlaces'
  <2>1. Agents!Stir /\ UNCHANGED <<cleanup, hooked>> /\ callerPc[c] # "forward"
    BY <1>3 DEF Agents!CheckForwarder
  <2>2. PICK l \in {"again", "idle", "forward"} :
          Agents!Goto(c, l) /\ (l # "forward" => own' = own)
          /\ (l = "forward" => \E n : own' = [own EXCEPT ![c] = n])
    BY <1>3 DEF Agents!CheckForwarder
  <2>3. l \notin StreamPlaces
    BY DEF StreamPlaces
  <2>4. Owned' /\ Streaming'
    BY <2>1, <2>2, <2>3, <1>b, <1>c
  <2>5. Calm' /\ Hooks'
    BY <2>1, <1>d, <1>e
  <2>. QED
    BY <2>4, <2>5, <1>f
<1>4. ASSUME NEW c \in Callers, Agents!StoreForwarder(c) \/ Agents!AwaitTunnel(c)
      PROVE  AgentPlaces'
  <2> USE DEF Agents!StoreForwarder, Agents!AwaitTunnel
  <2>1. Agents!Stir /\ UNCHANGED <<cleanup, hooked>>
    BY <1>4
  <2>2. PICK l : Agents!Goto(c, l) /\ l \notin StreamPlaces
    <3>1. \A stage \in Agents!Stages : Agents!AfterTunnel(stage) \notin StreamPlaces
      BY AgentPlaceNames DEF StreamPlaces
    <3>2. "again" \notin StreamPlaces /\ "idle" \notin StreamPlaces
      BY DEF StreamPlaces
    <3>. QED
      BY <1>4, <3>1, <3>2
  <2>3. own' = [own EXCEPT ![c] = 0] \/ (own' = own /\ callerPc[c] # "forward")
    BY <1>4, AgentPlaceNames
  <2>4. Owned' /\ Streaming'
    BY <2>2, <2>3, <1>b, <1>c
  <2>5. Calm' /\ Hooks'
    BY <2>1, <1>d, <1>e
  <2>. QED
    BY <2>4, <2>5, <1>f
<1>5. ASSUME NEW c \in Callers,
             Agents!StartStream(c) \/ Agents!ForwardHTTP(c) \/ Agents!ForwardStream(c)
             \/ Agents!Broadcast(c)
      PROVE  AgentPlaces'
  <2> USE DEF Agents!StartStream, Agents!ForwardHTTP, Agents!ForwardStream, Agents!Broadcast,
              Agents!Listen
  <2>1. Agents!Stir /\ UNCHANGED <<cleanup, hooked, own>>
    BY <1>5
  <2>2. c \in Streamers /\ callerPc[c] # "forward"
    BY <1>0, <1>5 DEF AgentPlaces, StreamPlaces
  <2>3. \E l : Agents!Goto(c, l)
    BY <1>5
  <2>4. Owned' /\ Streaming'
    BY <2>1, <2>2, <2>3, <1>b, <1>c
  <2>5. Calm' /\ Hooks'
    BY <2>1, <1>d, <1>e
  <2>. QED
    BY <2>4, <2>5, <1>f
<1>6. ASSUME NEW n, Agents!Update(n) \/ Agents!LoopEnds(n) \/ Agents!RunnerEnds(n)
                    \/ Agents!AgentRuns
      PROVE  AgentPlaces'
  <2>1. UNCHANGED <<callerPc, own, calm, cleanup, hooked>>
    BY <1>6 DEF Agents!Update, Agents!LoopEnds, Agents!RunnerEnds, Agents!AgentRuns
  <2>. QED
    BY <1>0, <2>1 DEF AgentPlaces
<1>7. CASE Agents!CleanupDeviceKit \/ Agents!CleanupForwarders \/ Agents!CleanupTunnel
  <2>1. UNCHANGED <<callerPc, own, calm, hooked>> /\ cleanup \in {"kit", "ports", "tunnel"}
    BY <1>7 DEF Agents!CleanupDeviceKit, Agents!CleanupForwarders, Agents!CleanupTunnel
  <2>. QED
    BY <1>0, <2>1 DEF AgentPlaces
<1>8. CASE Agents!Shutdown
  <2>1. UNCHANGED <<callerPc, own, hooked>>
    BY <1>8 DEF Agents!Shutdown
  <2>2. calm' => \A c \in Callers : callerPc[c] = "idle"
    BY <1>8 DEF Agents!Shutdown
  <2>3. (cleanup' = "kit" /\ hooked) \/ cleanup' = "done"
    BY <1>8 DEF Agents!Shutdown
  <2>. QED
    BY <1>0, <2>1, <2>2, <2>3 DEF AgentPlaces
<1>9. CASE UNCHANGED agentVars
  BY <1>0, <1>9 DEF agentVars, AgentPlaces
<1>. QED
  BY <1>1, <1>2, <1>3, <1>4, <1>5, <1>6, <1>7, <1>8, <1>9 DEF Agents!Next

(* What runs is known.                                                        *)
LEMMA AgentKnownKept == AgentsIInv /\ [Agents!Next]_agentVars => AgentKnown'
<1> SUFFICES ASSUME AgentsIInv, [Agents!Next]_agentVars
             PROVE  AgentKnown'
  OBVIOUS
<1>0. /\ DOMAIN callerPc = Callers /\ DOMAIN own = Callers /\ own = [c \in Callers |-> own[c]]
      /\ 0 \notin open /\ 0 \notin loops /\ 0 \notin runners
      /\ AgentKnown /\ AgentPlaces /\ StreamPair
  BY AgentFacts DEF AgentsIInv
<1> USE DEF Agents!Stir, Agents!tunnel, Agents!runner, Agents!ports, Agents!shutdown
<1> DEFINE TunnelKnown == cleanup # "done" => loops \subseteq {updateCtx}
           RunnerKnown == cleanup \in {"off", "kit"} => runners \subseteq {deviceKitCancel}
           PortsKnown == BeforePorts =>
             open \subseteq {agentFwd, httpFwd, avcFwd} \cup raced \cup {own[c] : c \in Callers}
<1> SUFFICES TunnelKnown' /\ RunnerKnown' /\ PortsKnown'
  BY DEF AgentKnown
<1>t. TunnelKnown /\ RunnerKnown /\ PortsKnown
  BY <1>0 DEF AgentKnown
<1>l. ASSUME UNCHANGED <<cleanup, loops, updateCtx>>
      PROVE  TunnelKnown'
  BY <1>t, <1>l
<1>r. ASSUME UNCHANGED <<cleanup, runners, deviceKitCancel>>
      PROVE  RunnerKnown'
  BY <1>t, <1>r
<1>p. ASSUME UNCHANGED <<cleanup, open, agentFwd, httpFwd, avcFwd, raced, own>>
      PROVE  PortsKnown'
  BY <1>t, <1>p DEF BeforePorts
<1> HIDE DEF TunnelKnown, RunnerKnown, PortsKnown
<1>1. ASSUME NEW c \in Callers,
             Agents!StartAgent(c) \/ Agents!FindAgent(c) \/ Agents!StatusAgain(c)
             \/ Agents!AwaitAgent(c) \/ Agents!StartStream(c)
      PROVE  TunnelKnown' /\ RunnerKnown' /\ PortsKnown'
  BY <1>1, <1>l, <1>r, <1>p DEF Agents!StartAgent, Agents!FindAgent, Agents!StatusAgain,
     Agents!AwaitAgent, Agents!StartStream
<1>2. ASSUME NEW c \in Callers, Agents!AwaitTunnel(c)
      PROVE  TunnelKnown' /\ RunnerKnown' /\ PortsKnown'
  <2>1. own[c] = 0
    BY <1>0, <1>2, AgentPlaceNames DEF Agents!AwaitTunnel, AgentPlaces
  <2>2. [own EXCEPT ![c] = 0] = own
    BY <1>0, <2>1
  <2>. QED
    BY <1>2, <2>2, <1>l, <1>r, <1>p DEF Agents!AwaitTunnel
<1>3. ASSUME NEW c \in Callers, NEW stage \in Agents!Stages, Agents!StartTunnel(c, stage)
      PROVE  TunnelKnown' /\ RunnerKnown' /\ PortsKnown'
  <2>1. TunnelKnown'
    BY <1>0, <1>3, <1>t DEF Agents!StartTunnel, TunnelKnown
  <2>. QED
    BY <1>3, <2>1, <1>r, <1>p DEF Agents!StartTunnel
<1>4. ASSUME NEW c \in Callers, Agents!Launch(c)
      PROVE  TunnelKnown' /\ RunnerKnown' /\ PortsKnown'
  <2>1. RunnerKnown'
    BY <1>0, <1>4, <1>t DEF Agents!Launch, RunnerKnown
  <2>. QED
    BY <1>4, <2>1, <1>l, <1>p DEF Agents!Launch
<1>5. ASSUME NEW c \in Callers, Agents!CheckForwarder(c)
      PROVE  TunnelKnown' /\ RunnerKnown' /\ PortsKnown'
  <2>1. CASE UNCHANGED <<open, own>>
    BY <1>5, <2>1, <1>l, <1>r, <1>p DEF Agents!CheckForwarder
  <2>2. CASE /\ open' = open \cup {made["forward"] + 1}
             /\ own' = [own EXCEPT ![c] = made["forward"] + 1]
    <3>1. own[c] = 0
      BY <1>0, <1>5 DEF Agents!CheckForwarder, AgentPlaces
    <3>2. \A k \in open : k \in {own[d] : d \in Callers} => k \in {own'[d] : d \in Callers}
      BY <1>0, <2>2, <3>1
    <3>3. made["forward"] + 1 \in {own'[d] : d \in Callers}
      BY <1>0, <2>2
    <3>4. UNCHANGED <<cleanup, agentFwd, httpFwd, avcFwd, raced>>
      BY <1>5 DEF Agents!CheckForwarder
    <3>5. PortsKnown'
      BY <1>t, <2>2, <3>2, <3>3, <3>4 DEF PortsKnown, BeforePorts
    <3>. QED
      BY <1>5, <3>5, <1>l, <1>r DEF Agents!CheckForwarder
  <2>. QED
    BY <1>5, <2>1, <2>2 DEF Agents!CheckForwarder
<1>6. ASSUME NEW c \in Callers, Agents!StoreForwarder(c)
      PROVE  TunnelKnown' /\ RunnerKnown' /\ PortsKnown'
  <2>1. /\ agentFwd' = own[c] /\ raced' = raced \cup (open \cap {agentFwd})
        /\ own' = [own EXCEPT ![c] = 0]
        /\ UNCHANGED <<cleanup, open, httpFwd, avcFwd>>
    BY <1>6 DEF Agents!StoreForwarder
  <2>2. \A k \in {own[d] : d \in Callers} : k = own[c] \/ k \in {own'[d] : d \in Callers}
    BY <1>0, <2>1
  <2>3. PortsKnown'
    BY <1>t, <2>1, <2>2 DEF PortsKnown, BeforePorts
  <2>. QED
    BY <1>6, <2>3, <1>l, <1>r DEF Agents!StoreForwarder
<1>7. ASSUME NEW c \in Callers, Agents!ForwardHTTP(c)
      PROVE  TunnelKnown' /\ RunnerKnown' /\ PortsKnown'
  <2>1. BeforePorts => httpFwd \notin open
    BY <1>0, <1>7 DEF Agents!ForwardHTTP, StreamPair
  <2>2. open' \subseteq open \cup {httpFwd'}
    BY <1>7 DEF Agents!ForwardHTTP
  <2>3. UNCHANGED <<cleanup, agentFwd, avcFwd, raced, own>>
    BY <1>7 DEF Agents!ForwardHTTP
  <2>4. PortsKnown'
    BY <1>t, <2>1, <2>2, <2>3 DEF PortsKnown, BeforePorts
  <2>. QED
    BY <1>7, <2>4, <1>l, <1>r DEF Agents!ForwardHTTP
<1>8. ASSUME NEW c \in Callers, Agents!ForwardStream(c)
      PROVE  TunnelKnown' /\ RunnerKnown' /\ PortsKnown'
  <2>1. BeforePorts => avcFwd \notin open
    BY <1>0, <1>8 DEF Agents!ForwardStream, StreamPair
  <2>2. open' \subseteq open \cup {avcFwd'}
    BY <1>8 DEF Agents!ForwardStream
  <2>3. UNCHANGED <<cleanup, agentFwd, httpFwd, raced, own>>
    BY <1>8 DEF Agents!ForwardStream
  <2>4. PortsKnown'
    BY <1>t, <2>1, <2>2, <2>3 DEF PortsKnown, BeforePorts
  <2>. QED
    BY <1>8, <2>4, <1>l, <1>r DEF Agents!ForwardStream
<1>9. ASSUME NEW c \in Callers, Agents!Broadcast(c)
      PROVE  TunnelKnown' /\ RunnerKnown' /\ PortsKnown'
  <2>1. PortsKnown'
    BY <1>t, <1>9 DEF Agents!Broadcast, PortsKnown, BeforePorts
  <2>. QED
    BY <1>9, <2>1, <1>l, <1>r DEF Agents!Broadcast
<1>10. ASSUME NEW n, Agents!Update(n) \/ Agents!LoopEnds(n) \/ Agents!AgentRuns
       PROVE  TunnelKnown' /\ RunnerKnown' /\ PortsKnown'
  <2> USE DEF Agents!Update, Agents!LoopEnds, Agents!AgentRuns
  <2>1. TunnelKnown'
    BY <1>t, <1>10 DEF TunnelKnown
  <2>. QED
    BY <1>10, <2>1, <1>r, <1>p
<1>11. ASSUME NEW n, Agents!RunnerEnds(n)
       PROVE  TunnelKnown' /\ RunnerKnown' /\ PortsKnown'
  <2>1. RunnerKnown'
    BY <1>t, <1>11 DEF Agents!RunnerEnds, RunnerKnown
  <2>. QED
    BY <1>11, <2>1, <1>l, <1>p DEF Agents!RunnerEnds
<1>12. CASE Agents!Shutdown \/ Agents!CleanupDeviceKit \/ Agents!CleanupForwarders
            \/ Agents!CleanupTunnel
  <2> USE DEF Agents!Shutdown, Agents!CleanupDeviceKit, Agents!CleanupForwarders,
              Agents!CleanupTunnel
  <2>1. TunnelKnown'
    BY <1>t, <1>12 DEF TunnelKnown
  <2>2. RunnerKnown'
    BY <1>t, <1>12 DEF RunnerKnown
  <2>3. PortsKnown'
    BY <1>t, <1>12 DEF PortsKnown, BeforePorts
  <2>. QED
    BY <2>1, <2>2, <2>3
<1>13. CASE UNCHANGED agentVars
  BY <1>13, <1>l, <1>r, <1>p DEF agentVars
<1>. QED
  BY <1>1, <1>2, <1>3, <1>4, <1>5, <1>6, <1>7, <1>8, <1>9, <1>10, <1>11, <1>12, <1>13
  DEF Agents!Next

(* The forwarders of the stream run both or not at all.                       *)
LEMMA StreamPairKept == AgentsIInv /\ [Agents!Next]_agentVars => StreamPair'
<1> SUFFICES ASSUME AgentsIInv, [Agents!Next]_agentVars
             PROVE  StreamPair'
  OBVIOUS
<1>0. /\ DOMAIN callerPc = Callers /\ 0 \notin open
      /\ made["forward"] + 1 \notin open
      /\ made["forward"] + 1 \notin {0, agentFwd, httpFwd, avcFwd}
      /\ AgentPlaces /\ StreamPair
  BY AgentFacts DEF AgentsIInv
<1> USE DEF Agents!Goto, Agents!tunnel, Agents!runner, Agents!ports, Agents!shutdown
<1>1. ASSUME NEW c \in Callers, NEW l, Agents!Goto(c, l), l \notin {"http", "avc"},
             callerPc[c] # "avc", UNCHANGED <<httpFwd, avcFwd, cleanup>>,
             httpFwd \in open' <=> httpFwd \in open, avcFwd \in open' <=> avcFwd \in open
      PROVE  StreamPair'
  BY <1>0, <1>1 DEF StreamPair, BeforePorts
<1>2. ASSUME UNCHANGED <<callerPc, httpFwd, avcFwd, open>>, BeforePorts' => BeforePorts
      PROVE  StreamPair'
  BY <1>0, <1>2 DEF StreamPair
<1>3. ASSUME NEW c \in Callers,
             Agents!StartAgent(c) \/ Agents!FindAgent(c) \/ Agents!StatusAgain(c)
             \/ Agents!AwaitAgent(c) \/ Agents!Launch(c)
      PROVE  StreamPair'
  <2> USE DEF Agents!StartAgent, Agents!FindAgent, Agents!StatusAgain,
              Agents!AwaitAgent, Agents!Launch
  <2>1. UNCHANGED <<httpFwd, avcFwd, cleanup, open>> /\ callerPc[c] # "avc"
    BY <1>3
  <2>2. \E l : Agents!Goto(c, l) /\ l \notin {"http", "avc"}
    BY <1>3 DEF Agents!Return
  <2>. QED
    BY <2>1, <2>2, <1>1
<1>4. ASSUME NEW c \in Callers, NEW stage \in Agents!Stages, Agents!StartTunnel(c, stage)
      PROVE  StreamPair'
  <2>1. /\ UNCHANGED <<httpFwd, avcFwd, cleanup, open>> /\ callerPc[c] # "avc"
        /\ \E l : Agents!Goto(c, l) /\ l \notin {"http", "avc"}
    BY <1>4, AgentPlaceNames DEF Agents!StartTunnel, Agents!Stages
  <2>. QED
    BY <2>1, <1>1
<1>5. ASSUME NEW c \in Callers,
             Agents!CheckForwarder(c) \/ Agents!StoreForwarder(c) \/ Agents!AwaitTunnel(c)
      PROVE  StreamPair'
  <2> USE DEF Agents!CheckForwarder, Agents!StoreForwarder, Agents!AwaitTunnel
  <2>1. UNCHANGED <<httpFwd, avcFwd, cleanup>>
    BY <1>5
  <2>2. callerPc[c] # "avc"
    BY <1>5, AgentPlaceNames
  <2>3. open' = open \/ open' = open \cup {made["forward"] + 1}
    BY <1>5
  <2>4. PICK l : Agents!Goto(c, l) /\ l \notin {"http", "avc"}
    BY <1>5, AgentPlaceNames
  <2>. QED
    BY <1>0, <2>1, <2>2, <2>3, <2>4, <1>1
<1>6. ASSUME NEW c \in Callers, callerPc[c] \in StreamPlaces
      PROVE  \A d \in Callers \ {c} : callerPc[d] \notin StreamPlaces
  BY <1>0, <1>6, AgentsAssumed DEF AgentPlaces, Agents!IosAssumption
<1>7. ASSUME NEW c \in Callers, Agents!StartStream(c)
      PROVE  StreamPair'
  <2>1. /\ UNCHANGED <<httpFwd, avcFwd, cleanup, open>> /\ callerPc[c] = "stream"
        /\ \/ Agents!Goto(c, "idle")
           \/ Agents!Goto(c, "http") /\ ~(httpFwd \in open /\ avcFwd \in open)
    BY <1>7 DEF Agents!StartStream, Agents!Known
  <2>2. \A d \in Callers : callerPc[d] # "avc"
    BY <2>1, <1>6 DEF StreamPlaces
  <2>. QED
    BY <1>0, <2>1, <2>2 DEF StreamPair, BeforePorts
<1>8. ASSUME NEW c \in Callers, Agents!ForwardHTTP(c)
      PROVE  StreamPair'
  <2>1. /\ UNCHANGED <<avcFwd, cleanup>> /\ callerPc[c] = "http"
        /\ open' = open \cup ({httpFwd'} \ {0})
        /\ \/ httpFwd' = 0 /\ Agents!Goto(c, "idle")
           \/ httpFwd' = made["forward"] + 1 /\ Agents!Goto(c, "avc")
    BY <1>0, <1>8 DEF Agents!ForwardHTTP, Agents!Listen, Agents!NewForwards
  <2>2. \A d \in Callers \ {c} : callerPc[d] \notin StreamPlaces
    BY <2>1, <1>6 DEF StreamPlaces
  <2>3. BeforePorts => httpFwd \notin open /\ avcFwd \notin open
    BY <1>0, <2>1 DEF StreamPair
  <2>. QED
    BY <1>0, <2>1, <2>2, <2>3 DEF StreamPair, BeforePorts, StreamPlaces
<1>9. ASSUME NEW c \in Callers, Agents!ForwardStream(c)
      PROVE  StreamPair'
  <2>1. /\ UNCHANGED <<httpFwd, cleanup>> /\ callerPc[c] = "avc"
        /\ \/ avcFwd' = 0 /\ Agents!Goto(c, "idle") /\ open' = open \ {httpFwd}
           \/ /\ avcFwd' = made["forward"] + 1 /\ Agents!Goto(c, "broadcast")
              /\ open' = open \cup {made["forward"] + 1}
    BY <1>0, <1>9 DEF Agents!ForwardStream, Agents!Listen, Agents!NewForwards, Agents!Undone
  <2>2. \A d \in Callers \ {c} : callerPc[d] \notin StreamPlaces
    BY <2>1, <1>6 DEF StreamPlaces
  <2>3. BeforePorts => httpFwd \in open /\ avcFwd \notin open
    BY <1>0, <2>1 DEF StreamPair
  <2>. QED
    BY <1>0, <2>1, <2>2, <2>3 DEF StreamPair, BeforePorts, StreamPlaces
<1>10. ASSUME NEW c \in Callers, Agents!Broadcast(c)
       PROVE  StreamPair'
  <2>1. /\ UNCHANGED <<httpFwd, avcFwd, cleanup>> /\ callerPc[c] = "broadcast"
        /\ Agents!Goto(c, "idle")
        /\ open' = open \/ open' = open \ {httpFwd, avcFwd}
    BY <1>10 DEF Agents!Broadcast
  <2>2. \A d \in Callers : callerPc[d] # "avc"
    BY <2>1, <1>6 DEF StreamPlaces
  <2>. QED
    BY <1>0, <2>1, <2>2, <1>6 DEF StreamPair, BeforePorts, StreamPlaces
<1>11. ASSUME NEW n, Agents!Update(n) \/ Agents!LoopEnds(n) \/ Agents!RunnerEnds(n)
                     \/ Agents!AgentRuns
       PROVE  StreamPair'
  BY <1>11, <1>2 DEF Agents!Update, Agents!LoopEnds, Agents!RunnerEnds, Agents!AgentRuns,
     BeforePorts
<1>12. CASE Agents!Shutdown \/ Agents!CleanupDeviceKit \/ Agents!CleanupForwarders
            \/ Agents!CleanupTunnel
  <2> USE DEF Agents!Shutdown, Agents!CleanupDeviceKit, Agents!CleanupForwarders,
              Agents!CleanupTunnel
  <2>1. CASE Agents!CleanupForwarders \/ Agents!CleanupTunnel
    BY <2>1 DEF StreamPair, BeforePorts
  <2>2. CASE Agents!Shutdown \/ Agents!CleanupDeviceKit
    BY <2>2, <1>2 DEF BeforePorts
  <2>. QED
    BY <1>12, <2>1, <2>2
<1>13. CASE UNCHANGED agentVars
  BY <1>13, <1>2 DEF agentVars, BeforePorts
<1>. QED
  BY <1>3, <1>4, <1>5, <1>7, <1>8, <1>9, <1>10, <1>11, <1>12, <1>13 DEF Agents!Next

(* What the hooks have stopped.                                               *)
LEMMA AgentStoppedKept == AgentsIInv /\ [Agents!Next]_agentVars => AgentStopped'
<1> SUFFICES ASSUME AgentsIInv, [Agents!Next]_agentVars
             PROVE  AgentStopped'
  OBVIOUS
<1>0. /\ AgentPlaces /\ AgentKnown /\ AgentStopped
      /\ 0 \notin open /\ 0 \notin loops /\ 0 \notin runners
  BY AgentFacts DEF AgentsIInv
<1> USE DEF Agents!tunnel, Agents!runner, Agents!ports, Agents!shutdown
<1>1. ASSUME Agents!Stir
      PROVE  AgentStopped'
  BY <1>1 DEF Agents!Stir, AgentStopped
<1>2. ASSUME NEW c \in Callers,
             \/ Agents!StartAgent(c) \/ Agents!FindAgent(c) \/ Agents!CheckForwarder(c)
             \/ Agents!StoreForwarder(c) \/ Agents!StatusAgain(c) \/ Agents!Launch(c)
             \/ Agents!AwaitAgent(c) \/ Agents!AwaitTunnel(c)
             \/ \E stage \in Agents!Stages : Agents!StartTunnel(c, stage)
             \/ Agents!StartStream(c) \/ Agents!ForwardHTTP(c) \/ Agents!ForwardStream(c)
             \/ Agents!Broadcast(c)
      PROVE  AgentStopped'
  <2>1. Agents!Stir
    BY <1>2 DEF Agents!StartAgent, Agents!FindAgent, Agents!CheckForwarder,
       Agents!StoreForwarder, Agents!StatusAgain, Agents!Launch, Agents!AwaitAgent,
       Agents!AwaitTunnel, Agents!StartTunnel, Agents!StartStream, Agents!ForwardHTTP,
       Agents!ForwardStream, Agents!Broadcast
  <2>. QED
    BY <2>1, <1>1
<1>3. ASSUME NEW n, Agents!Update(n) \/ Agents!LoopEnds(n) \/ Agents!RunnerEnds(n)
                    \/ Agents!AgentRuns
      PROVE  AgentStopped'
  <2>1. /\ loops' \subseteq loops /\ runners' \subseteq runners
        /\ UNCHANGED <<cancelled, open, raced, cleanup, hooked, calm>>
    BY <1>3 DEF Agents!Update, Agents!LoopEnds, Agents!RunnerEnds, Agents!AgentRuns
  <2>. QED
    BY <1>0, <2>1 DEF AgentStopped
<1>4. CASE Agents!Shutdown
  <2>1. CASE hooked
    <3>1. cleanup' = "kit"
      BY <1>4, <2>1 DEF Agents!Shutdown
    <3>. QED
      BY <3>1 DEF AgentStopped
  <2>2. CASE ~hooked
    <3>1. ~hooked'
      BY <1>4, <2>2 DEF Agents!Shutdown
    <3>. QED
      BY <3>1 DEF AgentStopped
  <2>. QED
    BY <2>1, <2>2
<1>5. CASE Agents!CleanupDeviceKit
  <2>1. runners \subseteq {deviceKitCancel} /\ cleanup' = "ports" /\ runners' = runners
        /\ cancelled' = cancelled \cup ({"runner"} \X ({deviceKitCancel} \ {0}))
    BY <1>0, <1>5 DEF Agents!CleanupDeviceKit, AgentKnown
  <2>2. {"runner"} \X runners' \subseteq cancelled'
    BY <1>0, <2>1
  <2>. QED
    BY <2>1, <2>2 DEF AgentStopped
<1>6. CASE Agents!CleanupForwarders
  <2>1. /\ open' = open \ {agentFwd, httpFwd, avcFwd} /\ cleanup = "ports" /\ cleanup' = "tunnel"
        /\ UNCHANGED <<hooked, calm, raced, runners, cancelled>>
    BY <1>6 DEF Agents!CleanupForwarders
  <2>2. open \subseteq {agentFwd, httpFwd, avcFwd} \cup raced \cup {own[c] : c \in Callers}
    BY <1>0, <2>1 DEF AgentKnown, BeforePorts
  <2>3. calm => \A c \in Callers : own[c] = 0
    BY <1>0 DEF AgentPlaces
  <2>4. calm => open' \subseteq raced'
    BY <1>0, <2>1, <2>2, <2>3
  <2>. QED
    BY <1>0, <2>1, <2>4 DEF AgentStopped
<1>7. CASE Agents!CleanupTunnel
  <2>1. /\ loops \subseteq {updateCtx} /\ cleanup = "tunnel" /\ cleanup' = "done"
        /\ cancelled' = cancelled \cup ({"loop"} \X ({updateCtx} \ {0}))
        /\ UNCHANGED <<loops, runners, hooked, calm, open, raced>>
    BY <1>0, <1>7 DEF Agents!CleanupTunnel, AgentKnown
  <2>2. {"loop"} \X loops' \subseteq cancelled'
    BY <1>0, <2>1
  <2>. QED
    BY <1>0, <2>1, <2>2 DEF AgentStopped
<1>8. CASE UNCHANGED agentVars
  BY <1>0, <1>8 DEF agentVars, AgentStopped
<1>. QED
  BY <1>2, <1>3, <1>4, <1>5, <1>6, <1>7, <1>8 DEF Agents!Next

(* A new process has no loop, runner or forwarder, and nobody waits.       *)
LEMMA AgentsInit == Agents!Init => AgentsIInv
<1> SUFFICES ASSUME Agents!Init
             PROVE  AgentsIInv
  OBVIOUS
<1> USE DEF Agents!Init
<1>1. PlacesTyped /\ TunnelTyped /\ RunnerTyped /\ PortsTyped /\ MadeTyped
  BY DEF PlacesTyped, TunnelTyped, RunnerTyped, PortsTyped, MadeTyped, Agents!Places
<1>2. FlagsTyped
  BY DEF FlagsTyped
<1>3. AgentPlaces /\ AgentKnown /\ StreamPair
  BY DEF AgentPlaces, AgentKnown, StreamPair, StreamPlaces, BeforePorts
<1>4. AgentStopped
  BY DEF AgentStopped
<1>. QED
  BY <1>1, <1>2, <1>3, <1>4, AgentTypes DEF AgentsIInv

(* The invariant of IosAgent holds in every behaviour.                        *)
LEMMA AgentsInvariant == Spec => []AgentsIInv
<1>1. Init => AgentsIInv
  BY AgentsInit DEF Init
<1>2. AgentsIInv /\ [Next]_componentVars => AgentsIInv'
  <2> SUFFICES ASSUME AgentsIInv, [Next]_componentVars
               PROVE  AgentsIInv'
    OBVIOUS
  <2>1. [Agents!Next]_agentVars
    BY DEF Next, Others, componentVars
  <2>. QED
    BY <2>1, AgentsType, AgentPlacesKept, AgentKnownKept, StreamPairKept, AgentStoppedKept
    DEF AgentsIInv
<1>. QED
  BY <1>1, <1>2, PTL DEF Spec

(* When the hooks of an iOS device have run and no request was busy with it, its     *)
(* loops and runners are told to stop and its forwarders are closed, but for agent   *)
(* forwarders lost to a concurrent start; for any number of callers and of attempts. *)
THEOREM HooksStopTheDevice == Spec => []ShutdownStopsEverything
<1>1. AgentsIInv => ShutdownStopsEverything
  BY DEF ShutdownStopsEverything, Agents!ShutdownStopsEverything, AgentsIInv, AgentStopped
<1>. QED
  BY <1>1, AgentsInvariant, PTL

(* The mutex of an iOS device is kept only by a caller that will release it.         *)
LEMMA LockHolder ==
  Agents!TypeOK /\ Agents!LockIsGivenBack /\ [Agents!Next]_agentVars => Agents!LockIsGivenBack'
<1> SUFFICES ASSUME Agents!TypeOK, Agents!LockIsGivenBack, [Agents!Next]_agentVars
             PROVE  Agents!LockIsGivenBack'
  OBVIOUS
<1> DEFINE Holding == {"list waits", "apps"}
<1>0. /\ mu # 0 => mu \in Callers /\ callerPc[mu] \in Holding
      /\ DOMAIN callerPc = Callers
      /\ (mu' # 0 => callerPc'[mu'] \in Holding) => Agents!LockIsGivenBack'
      /\ Agents!Waiting["list"] = "list waits" /\ Agents!AfterTunnel("list") = "apps"
  BY DEF Agents!TypeOK, Agents!LockIsGivenBack, Agents!Waiting, Agents!AfterTunnel, Agents!Stages
<1> USE DEF Agents!Goto
<1>1. ASSUME NEW c \in Callers, NEW l, Agents!Goto(c, l), mu' = mu, mu # c \/ mu = 0
      PROVE  Agents!LockIsGivenBack'
  BY <1>0, <1>1
<1>2. ASSUME NEW c \in Callers,
             \/ Agents!StartAgent(c) \/ Agents!CheckForwarder(c) \/ Agents!StoreForwarder(c)
             \/ Agents!StatusAgain(c) \/ Agents!Launch(c) \/ Agents!AwaitAgent(c)
             \/ Agents!StartStream(c) \/ Agents!ForwardHTTP(c) \/ Agents!ForwardStream(c)
             \/ Agents!Broadcast(c)
      PROVE  Agents!LockIsGivenBack'
  <2>1. callerPc[c] \notin Holding
    BY <1>2 DEF Agents!StartAgent, Agents!CheckForwarder, Agents!StoreForwarder,
       Agents!StatusAgain, Agents!Launch, Agents!AwaitAgent, Agents!StartStream,
       Agents!ForwardHTTP, Agents!ForwardStream, Agents!Broadcast
  <2>2. mu # c \/ mu = 0
    BY <1>0, <2>1
  <2>3. mu' = mu /\ \E l : Agents!Goto(c, l)
    <3> HIDE DEF Agents!Goto
    <3>1. CASE Agents!StartAgent(c) \/ Agents!StatusAgain(c) \/ Agents!AwaitAgent(c)
      BY <3>1 DEF Agents!StartAgent, Agents!StatusAgain, Agents!AwaitAgent, Agents!Return
    <3>2. CASE Agents!CheckForwarder(c) \/ Agents!StoreForwarder(c) \/ Agents!Launch(c)
      BY <3>2 DEF Agents!CheckForwarder, Agents!StoreForwarder, Agents!Launch
    <3>3. CASE Agents!StartStream(c) \/ Agents!Broadcast(c)
      BY <3>3 DEF Agents!StartStream, Agents!Broadcast
    <3>4. CASE Agents!ForwardHTTP(c) \/ Agents!ForwardStream(c)
      BY <3>4 DEF Agents!ForwardHTTP, Agents!ForwardStream, Agents!Listen
    <3>. QED
      BY <1>2, <3>1, <3>2, <3>3, <3>4
  <2>. QED
    BY <1>1, <2>2, <2>3
<1>3. ASSUME NEW c \in Callers, Agents!FindAgent(c)
      PROVE  Agents!LockIsGivenBack'
  BY <1>0, <1>3 DEF Agents!FindAgent
<1>4. ASSUME NEW c \in Callers, NEW stage \in Agents!Stages, Agents!StartTunnel(c, stage)
      PROVE  Agents!LockIsGivenBack'
  <2>1. /\ callerPc[c] = stage /\ callerPc[c] \notin Holding
        /\ \E l \in {Agents!AfterTunnel(stage), Agents!Waiting[stage]} : Agents!Goto(c, l)
    BY <1>4 DEF Agents!StartTunnel, Agents!Stages
  <2>2. CASE stage = "list"
    BY <1>0, <1>4, <2>1, <2>2 DEF Agents!StartTunnel
  <2>3. CASE stage # "list"
    <3>1. mu' = mu
      BY <1>4, <2>3 DEF Agents!StartTunnel
    <3>. QED
      BY <1>0, <1>1, <2>1, <3>1
  <2>. QED
    BY <2>2, <2>3
<1>5. ASSUME NEW c \in Callers, Agents!AwaitTunnel(c)
      PROVE  Agents!LockIsGivenBack'
  <2>1. PICK stage \in Agents!Stages :
          /\ callerPc[c] = Agents!Waiting[stage]
          /\ \/ Agents!Goto(c, Agents!AfterTunnel(stage)) /\ mu' = mu
             \/ Agents!Goto(c, "idle") /\ mu' = IF mu = c THEN 0 ELSE mu
    BY <1>5 DEF Agents!AwaitTunnel
  <2>2. stage # "list" => callerPc[c] \notin Holding
    <3>1. /\ Agents!Waiting["start"] \notin Holding /\ Agents!Waiting["launch"] \notin Holding
          /\ stage # "list" => stage = "start" \/ stage = "launch"
      BY DEF Agents!Waiting, Agents!Stages
    <3>. QED
      BY <2>1, <3>1
  <2>3. CASE Agents!Goto(c, Agents!AfterTunnel(stage)) /\ mu' = mu
    BY <1>0, <2>2, <2>3
  <2>4. CASE Agents!Goto(c, "idle") /\ mu' = IF mu = c THEN 0 ELSE mu
    BY <1>0, <2>4
  <2>. QED
    BY <2>1, <2>3, <2>4
<1>6. ASSUME mu' = mu, callerPc' = callerPc
      PROVE  Agents!LockIsGivenBack'
  BY <1>0, <1>6
<1>7. ASSUME \/ \E n \in loops : Agents!Update(n) \/ Agents!LoopEnds(n)
             \/ \E n \in runners : Agents!RunnerEnds(n)
             \/ Agents!AgentRuns \/ Agents!Shutdown \/ Agents!CleanupDeviceKit
             \/ Agents!CleanupForwarders \/ Agents!CleanupTunnel
             \/ UNCHANGED agentVars
      PROVE  Agents!LockIsGivenBack'
  BY <1>6, <1>7 DEF Agents!Update, Agents!LoopEnds, Agents!RunnerEnds, Agents!AgentRuns,
     Agents!Shutdown, Agents!CleanupDeviceKit, Agents!CleanupForwarders, Agents!CleanupTunnel,
     agentVars
<1>. QED
  BY <1>2, <1>3, <1>4, <1>5, <1>7 DEF Agents!Next

(* The mutex is given back in every behaviour.                                       *)
LEMMA LockIsReleased == Spec => []Agents!LockIsGivenBack
<1>1. Init => Agents!LockIsGivenBack
  BY DEF Init, Agents!Init, Agents!LockIsGivenBack
<1>2. AgentsIInv /\ Agents!LockIsGivenBack /\ [Next]_componentVars => Agents!LockIsGivenBack'
  <2> SUFFICES ASSUME AgentsIInv, Agents!LockIsGivenBack, [Next]_componentVars
               PROVE  Agents!LockIsGivenBack'
    OBVIOUS
  <2>1. [Agents!Next]_agentVars
    BY DEF Next, Others, componentVars
  <2>. QED
    BY <2>1, LockHolder DEF AgentsIInv
<1>. QED
  BY <1>1, <1>2, AgentsInvariant, PTL DEF Spec

-------------------------------------------------------------------------------
(* Nobody waits in vain, for any number of callers, viewers, nodes, messages and     *)
(* slots: a handler that waits for a recording to end, and the shutdown, have their  *)
(* response or a recorder that is ending; the stream of a viewer that left has a     *)
(* step left on one of its sides; of the goroutines of a dump one can always go on;  *)
(* no message is forgotten, and no mutex of a device is kept for good.               *)
THEOREM NoneWaitsInVain == Spec => []NobodyIsStuck
<1>1. RecordingP!IInv /\ StreamsKept /\ FlutterKept /\ SocketKept /\ Agents!LockIsGivenBack
        => NobodyIsStuck
  <2> SUFFICES ASSUME RecordingP!IInv, StreamsKept, FlutterKept, SocketKept,
                      Agents!LockIsGivenBack
               PROVE  NobodyIsStuck
    OBVIOUS
  <2>1. Recording!NoCallIsStuck
    BY SameRecording, RecordingP!IInvNoCallIsStuck
  <2>2. Streams!NoStreamIsStuck
    BY SameStreams, StreamsP!HungUpNoStreamIsStuck DEF StreamsKept
  <2>3. Flutter!WalkGoesOn
    BY FlutterAssumed, SameFlutter, FlutterP!BegunWalkGoesOn DEF FlutterKept
  <2>4. Socket!NoMessageIsForgotten
    BY DEF SocketKept
  <2>. QED
    BY <2>1, <2>2, <2>3, <2>4 DEF NobodyIsStuck
<1>. QED
  BY <1>1, RecordingInvariant, StreamsHungUp, FlutterBegun, SocketAnswers, LockIsReleased, PTL

-------------------------------------------------------------------------------
(* Operations.  The calls of a request are a sequence whose first one, the    *)
(* method itself, has nobody to deal with its failure, so that a request that *)
(* is running always has a call to go on with.                                *)
IsMethod(frame) == \E p, q, e, c, u : frame = Requested!Frame(p, q, e, c, u) /\ ~c
IsStack(s) ==
  /\ \E S : s \in Seq(S)
  /\ s # <<>> => IsMethod(s[1])

MethodsIInv == Requested!TypeOK /\ IsStack(stack)

(* A call with something else to do is otherwise as it was.                   *)
LEMMA OtherTodo ==
  ASSUME NEW q, NEW p, NEW e, NEW f, NEW c, NEW u, NEW frame,
         frame = Requested!Frame(q, e, f, c, u)
  PROVE  [frame EXCEPT !.todo = p] = Requested!Frame(p, e, f, c, u) /\ frame.caught = c
BY DEF Requested!Frame

(* A method with something else to do still has nobody to deal with its failure. *)
LEMMA StillMethod ==
  ASSUME NEW frame, IsMethod(frame), NEW p
  PROVE  IsMethod([frame EXCEPT !.todo = p]) /\ ~frame.caught
<1>1. PICK q, e, f, c, u : frame = Requested!Frame(q, e, f, c, u) /\ ~c
  BY DEF IsMethod
<1>2. [frame EXCEPT !.todo = p] = Requested!Frame(p, e, f, c, u) /\ frame.caught = c
  BY <1>1, OtherTodo
<1>3. IsMethod([frame EXCEPT !.todo = p])
  BY <1>1, <1>2 DEF IsMethod
<1>4. ~frame.caught
  BY <1>1, <1>2
<1>. QED
  BY <1>3, <1>4

(* One call of a sequence replaced by another.                                *)
LEMMA ReplaceCall ==
  ASSUME NEW S, NEW s \in Seq(S), NEW n \in 1..Len(s), NEW r
  PROVE  LET t == [s EXCEPT ![n] = r]
         IN  /\ t \in Seq(S \cup {r}) /\ Len(t) = Len(s) /\ t # <<>>
             /\ t[n] = r /\ \A k \in 1..Len(s) : k # n => t[k] = s[k]
OBVIOUS

(* A set of numbers up to n has a greatest one.                               *)
LEMMA GreatestNumber ==
  ASSUME NEW n \in Nat, NEW T \in SUBSET (1..n), T # {}
  PROVE  \E m \in T : \A k \in T : k <= m
<1> DEFINE U == {n - k : k \in T}
           R == OpToRel(<, Nat)
<1>1. U \subseteq Nat /\ U # {}
  <2> HIDE DEF R
  <2>1. \A k \in T : n - k \in Nat
    OBVIOUS
  <2>. QED
    BY <2>1
<1>2. PICK x \in U : \A y \in U : <<y, x>> \notin R
  <2> HIDE DEF U, R
  <2>1. IsWellFoundedOn(R, Nat)
    BY NatLessThanWellFounded DEF R
  <2>. QED
    BY <1>1, <2>1, WFMin
<1>3. PICK m \in T : x = n - m
  OBVIOUS
<1>4. ASSUME NEW k \in T PROVE k <= m
  <2>1. n - k \in U /\ n - k \in Nat /\ x \in Nat
    BY <1>1
  <2>2. ~ (n - k < x)
    BY <1>2, <2>1 DEF OpToRel
  <2>. QED
    BY <1>3, <2>2
<1>. QED
  BY <1>4

(* The calls after a step in the innermost one: it has something else to do.  *)
LEMMA AfterStep ==
  ASSUME IsStack(stack), stack # <<>>, NEW before
  PROVE  IsStack(Requested!Advanced(before)) /\ Requested!Advanced(before) # <<>>
<1> DEFINE t == Requested!Advanced(before)
           n == Len(stack)
           r == [stack[n] EXCEPT !.todo = before \o Tail(@)]
<1>1. PICK S : stack \in Seq(S)
  BY DEF IsStack
<1>2. n \in 1..Len(stack)
  BY <1>1
<1>3. t = [stack EXCEPT ![n] = r]
  BY DEF Requested!Advanced, Requested!Depth
<1> HIDE DEF t, n, r
<1>4. /\ t \in Seq(S \cup {r}) /\ Len(t) = Len(stack) /\ t # <<>>
      /\ t[n] = r /\ \A k \in 1..Len(stack) : k # n => t[k] = stack[k]
  BY <1>1, <1>2, <1>3, ReplaceCall
<1>5. IsMethod(t[1])
  <2>1. CASE n = 1
    <3>1. IsMethod(stack[1])
      BY DEF IsStack
    <3>2. r = [stack[1] EXCEPT !.todo = before \o Tail(stack[1].todo)]
      BY <2>1 DEF r
    <3>3. IsMethod([stack[1] EXCEPT !.todo = before \o Tail(stack[1].todo)])
      BY <3>1, StillMethod
    <3>. QED
      BY <1>4, <2>1, <3>2, <3>3
  <2>2. CASE n # 1
    BY <1>1, <1>2, <1>4, <2>2 DEF IsStack
  <2>. QED
    BY <2>1, <2>2
<1>6. IsStack(t) /\ t # <<>>
  BY <1>4, <1>5 DEF IsStack
<1>. QED
  BY <1>6 DEF t

(* The calls after one returned or failed: those it was in, the next of which *)
(* has something to do first.                                                 *)
LEMMA AfterReturn ==
  ASSUME IsStack(stack), NEW n \in 2..Len(stack), NEW before
  PROVE  IsStack(Requested!Below(n, before)) /\ Requested!Below(n, before) # <<>>
<1> DEFINE t == Requested!Below(n, before)
           s == SubSeq(stack, 1, n - 1)
           r == [s[n - 1] EXCEPT !.todo = before \o @]
<1>1. PICK S : stack \in Seq(S)
  BY DEF IsStack
<1>2. s \in Seq(S) /\ Len(s) = n - 1 /\ \A k \in 1..(n - 1) : s[k] = stack[k]
  BY <1>1
<1>3. n - 1 \in 1..Len(s)
  BY <1>1, <1>2
<1>4. t = [s EXCEPT ![n - 1] = r]
  BY DEF Requested!Below
<1> HIDE DEF t, s, r
<1>5. /\ t \in Seq(S \cup {r}) /\ Len(t) = Len(s) /\ t # <<>>
      /\ t[n - 1] = r /\ \A k \in 1..Len(s) : k # n - 1 => t[k] = s[k]
  BY <1>2, <1>3, <1>4, ReplaceCall
<1>6. IsMethod(stack[1])
  BY <1>1, <1>3 DEF IsStack
<1>7. IsMethod(t[1])
  <2>1. CASE n - 1 = 1
    <3>1. s[1] = stack[1]
      BY <1>2, <2>1
    <3>2. r = [s[1] EXCEPT !.todo = before \o s[1].todo]
      BY <2>1 DEF r
    <3>3. IsMethod([s[1] EXCEPT !.todo = before \o s[1].todo])
      BY <1>6, <3>1, StillMethod
    <3>. QED
      BY <1>5, <2>1, <3>2, <3>3
  <2>2. CASE n - 1 # 1
    BY <1>2, <1>3, <1>5, <1>6, <2>2
  <2>. QED
    BY <2>1, <2>2
<1>8. IsStack(t) /\ t # <<>>
  BY <1>5, <1>7 DEF IsStack
<1>. QED
  BY <1>8 DEF t

(* Every step of a request keeps the invariant.                               *)
LEMMA MethodsStep == MethodsIInv /\ [Requested!Next]_methodVars => MethodsIInv'
<1> SUFFICES ASSUME MethodsIInv, [Requested!Next]_methodVars
             PROVE  MethodsIInv'
  OBVIOUS
<1>0. Requested!TypeOK /\ IsStack(stack)
  BY DEF MethodsIInv
<1>1. CASE UNCHANGED methodVars
  BY <1>0, <1>1 DEF methodVars, MethodsIInv, IsStack, Requested!TypeOK
<1>2. CASE Requested!Succeed
  <2>1. stack # <<>> /\ stack' = Requested!Advanced(<<>>) /\ outcome = "running"
        /\ UNCHANGED <<op, class, outcome>>
    BY <1>0, <1>2 DEF Requested!Succeed, Requested!Busy, Requested!TypeOK
  <2>2. IsStack(stack)' /\ stack' # <<>>
    BY <1>0, <2>1, AfterStep
  <2>3. agent' \in BOOLEAN
    BY <1>2 DEF Requested!Succeed
  <2>. QED
    BY <1>0, <2>1, <2>2, <2>3 DEF MethodsIInv, Requested!TypeOK
<1>3. CASE Requested!Branch
  <2>1. PICK p : stack' = Requested!Advanced(p)
    BY <1>3 DEF Requested!Branch
  <2>2. stack # <<>> /\ outcome = "running" /\ UNCHANGED <<op, class, agent, outcome>>
    BY <1>0, <1>3 DEF Requested!Branch, Requested!Busy, Requested!TypeOK
  <2>3. IsStack(stack)' /\ stack' # <<>>
    BY <1>0, <2>1, <2>2, AfterStep
  <2>. QED
    BY <1>0, <2>2, <2>3 DEF MethodsIInv, Requested!TypeOK
<1>4. CASE Requested!Call
  <2> DEFINE t == Requested!Advanced(<<>>)
             f == Requested!Frame(Requested!Next1.body, Requested!Next1.then,
                                  Requested!Next1.else, Requested!Next1.caught,
                                  Requested!Next1.undo)
  <2>1. stack # <<>> /\ outcome = "running" /\ UNCHANGED <<op, class, agent, outcome>>
        /\ stack' = Append(t, f)
    BY <1>0, <1>4 DEF Requested!Call, Requested!Busy, Requested!TypeOK
  <2>2. IsStack(t) /\ t # <<>>
    BY <1>0, <2>1, AfterStep
  <2> HIDE DEF t, f
  <2>3. IsStack(stack)' /\ stack' # <<>>
    <3>1. PICK S : t \in Seq(S)
      BY <2>2 DEF IsStack
    <3>2. /\ stack' \in Seq(S \cup {f}) /\ stack' # <<>> /\ stack'[1] = t[1]
      BY <2>1, <2>2, <3>1
    <3>. QED
      BY <2>2, <3>2 DEF IsStack
  <2>. QED
    BY <1>0, <2>1, <2>3 DEF MethodsIInv, Requested!TypeOK
<1>5. CASE Requested!Returned
  <2>1. /\ stack' = Requested!Below(Len(stack), stack[Len(stack)].then) /\ Len(stack) > 1
        /\ outcome = "running" /\ UNCHANGED <<op, class, agent, outcome>>
    BY <1>5 DEF Requested!Returned, Requested!Depth
  <2>2. Len(stack) \in 2..Len(stack)
    BY <1>0, <2>1 DEF IsStack
  <2>3. IsStack(stack)' /\ stack' # <<>>
    BY <1>0, <2>1, <2>2, AfterReturn
  <2>. QED
    BY <1>0, <2>1, <2>3 DEF MethodsIInv, Requested!TypeOK
<1>6. CASE Requested!Fails
  <2> DEFINE catching == {n \in 1..Len(stack) : stack[n].caught}
  <2>1. Requested!Busy /\ outcome = "running" /\ stack # <<>> /\ UNCHANGED <<op, class, agent>>
    BY <1>0, <1>6 DEF Requested!Fails, Requested!Busy, Requested!TypeOK
  <2>2. CASE catching = {}
    <3>1. stack' = <<>> /\ outcome' = "error"
      BY <1>6, <2>2 DEF Requested!Fails, Requested!Depth
    <3>2. IsStack(stack)'
      BY <3>1 DEF IsStack
    <3>. QED
      BY <1>0, <2>1, <3>1, <3>2 DEF MethodsIInv, Requested!TypeOK
  <2>3. CASE catching # {}
    <3> DEFINE left == CHOOSE n \in catching : \A k \in catching : k <= n
    <3>1. stack' = Requested!Below(left, stack[left].else) /\ UNCHANGED outcome
      BY <1>6, <2>3 DEF Requested!Fails, Requested!Depth
    <3>2. Len(stack) \in Nat /\ catching \subseteq 1..Len(stack)
      BY <1>0 DEF IsStack
    <3>3. left \in catching
      <4> HIDE DEF catching
      <4>. QED
        BY <2>3, <3>2, GreatestNumber
    <3>4. ~ stack[1].caught
      BY <1>0, <2>1, StillMethod DEF IsStack
    <3>5. left \in 2..Len(stack)
      BY <3>2, <3>3, <3>4
    <3> HIDE DEF left
    <3>6. IsStack(stack)' /\ stack' # <<>>
      BY <1>0, <3>1, <3>5, AfterReturn
    <3>. QED
      BY <1>0, <2>1, <3>1, <3>6 DEF MethodsIInv, Requested!TypeOK
  <2>. QED
    BY <2>2, <2>3
<1>7. CASE Requested!Answer
  <2>1. stack' = <<>> /\ outcome' \in {"ok", "error"} /\ UNCHANGED <<op, class, agent>>
    BY <1>7 DEF Requested!Answer
  <2>2. IsStack(stack)'
    BY <2>1 DEF IsStack
  <2>. QED
    BY <1>0, <2>1, <2>2 DEF MethodsIInv, Requested!TypeOK
<1>. QED
  BY <1>1, <1>2, <1>3, <1>4, <1>5, <1>6, <1>7 DEF Requested!Next

(* The invariant of Operations holds in every behaviour.                      *)
LEMMA MethodsInvariant == Spec => []MethodsIInv
<1>1. Init => MethodsIInv
  <2> SUFFICES ASSUME Requested!Init
               PROVE  MethodsIInv
    BY DEF Init
  <2> DEFINE f == Requested!Frame(Methods[class][op], <<>>, <<>>, FALSE, {})
  <2>1. stack = <<f>> /\ stack \in Seq({f}) /\ stack # <<>> /\ stack[1] = f
    BY DEF Requested!Init
  <2>2. IsMethod(f)
    BY DEF IsMethod
  <2>3. IsStack(stack)
    <3> HIDE DEF f
    <3>. QED
      BY <2>1, <2>2 DEF IsStack
  <2>. QED
    BY <2>1, <2>3 DEF Requested!Init, MethodsIInv, Requested!TypeOK
<1>2. MethodsIInv /\ [Next]_componentVars => MethodsIInv'
  <2> SUFFICES ASSUME MethodsIInv, [Next]_componentVars
               PROVE  MethodsIInv'
    OBVIOUS
  <2>1. [Requested!Next]_methodVars
    BY DEF Next, Others, componentVars
  <2>. QED
    BY <2>1, MethodsStep
<1>. QED
  BY <1>1, <1>2, PTL DEF Spec

(* TypeOK: the state of whichever component runs keeps its type; a request in *)
(* particular is running exactly as long as it has a call to go on with.      *)
THEOREM ComponentsTyped == Spec => []TypeOK
<1>1. /\ SocketIInv => Socket!TypeOK
      /\ AgentsIInv => Agents!TypeOK
      /\ MethodsIInv => Requested!TypeOK
  BY DEF SocketIInv, AgentsIInv, MethodsIInv
<1>5. StreamsP!IInv => Streams!TypeOK
  BY SameStreams, StreamsP!IInvTypeOK
<1>2. /\ ServersP!IInv => Servers!TypeOK
      /\ RecordingP!IInv => Recording!TypeOK
      /\ FlutterP!IInv => Flutter!TypeOK
  BY SameServers, SameRecording, SameFlutter DEF ServersP!IInv, RecordingP!IInv, FlutterP!IInv
<1>3. Spec => [](part \in Parts)
  <2> DEFINE Known == part \in Parts
  <2>1. Init => Known
    BY DEF Init
  <2>2. Known /\ [Next]_componentVars => Known'
    BY DEF Next, componentVars
  <2> HIDE DEF Known
  <2>3. Spec => []Known
    BY <2>1, <2>2, PTL DEF Spec
  <2>. QED
    BY <2>3 DEF Known
<1>4. /\ part \in Parts
      /\ Streams!TypeOK /\ Socket!TypeOK /\ Agents!TypeOK /\ Requested!TypeOK
      /\ Servers!TypeOK /\ Recording!TypeOK /\ Flutter!TypeOK
      => TypeOK
  BY PartsAssumed DEF TypeOK
<1>. QED
  BY <1>1, <1>2, <1>3, <1>4, <1>5, StreamsInvariant, SocketInvariant, AgentsInvariant,
     MethodsInvariant, ServersInvariant, RecordingInvariant, FlutterInvariant, PTL

===============================================================================
