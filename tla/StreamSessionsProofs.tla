-------------------------- MODULE StreamSessionsProofs --------------------------
(***************************************************************************)
(* Proofs about StreamSessions, for any number of tickets and viewers and  *)
(* any number of crashes of the daemon.  They show that IInv is inductive  *)
(* and implies the invariants of the component.                            *)
(***************************************************************************)
EXTENDS StreamSessions, SequenceTheorems, FiniteSetTheorems, TLAPS

(* What may be on its way in either direction.                             *)
ToDaemon == {<<>>, <<"request">>, <<"cancel">>, <<"request", "cancel">>, <<"cancel", "request">>}
ToClient == {<<>>, <<"chunk">>, <<"result">>, <<"error">>, <<"chunk", "result">>}

Types ==
  /\ sessions \in [Tickets -> {"absent", "free", "inUse"}]
  /\ kind \in [Tickets -> Kinds]
  /\ minted \in [Tickets -> BOOLEAN]
  /\ expired \in [Tickets -> BOOLEAN]
  /\ pc \in [Viewers -> {"idle", "mark", "done"} \cup Serving]
  /\ ticket \in [Viewers -> Tickets \cup {NoTicket}]
  /\ gone \in [Viewers -> BOOLEAN]
  /\ cancelSent \in [Viewers -> BOOLEAN]
  /\ outcome \in [Viewers -> {"none", "result", "error", "grace", "viewerGone"}]
  /\ admitted \in [Tickets -> SUBSET Viewers]
  /\ toDaemon \in [Viewers -> ToDaemon]
  /\ closed \in [Viewers -> BOOLEAN]
  /\ handler \in [Viewers -> {"none", "accepted", "running", "finished"}]
  /\ hctx \in [Viewers -> BOOLEAN]
  /\ swallowed \in [Viewers -> BOOLEAN]
  /\ toClient \in [Viewers -> ToClient]
  /\ crashes \in 0..MaxCrashes

(* A ticket that is free admitted nobody; the viewer it admitted is the    *)
(* only one, and holds it until it is done.                                *)
Claims ==
  /\ \A t \in Tickets :
       /\ ~minted[t] => sessions[t] = "absent" /\ admitted[t] = {}
       /\ sessions[t] = "free" => admitted[t] = {}
       /\ sessions[t] = "inUse" => \E v \in admitted[t] : pc[v] \in Serving
       /\ \A v, w \in admitted[t] : v = w
       /\ \A v \in admitted[t] : ticket[v] = t /\ pc[v] \in Serving \cup {"done"}
  /\ \A v \in Viewers :
       /\ pc[v] = "mark" => ticket[v] \in Tickets
       /\ pc[v] \in Serving => /\ ticket[v] \in Tickets
                               /\ v \in admitted[ticket[v]]
                               /\ sessions[ticket[v]] = "inUse"

(* How far a viewer's call and the daemon's handler of it can be apart.    *)
CallOf(v) ==
  /\ pc[v] \in {"idle", "mark", "dial"} => handler[v] = "none"
  /\ pc[v] \in OnCall => handler[v] # "none"
  /\ cancelSent[v] => pc[v] \in OnCall \cup {"remove"}
  /\ handler[v] = "none" => toDaemon[v] = <<>> /\ toClient[v] = <<>>
  /\ handler[v] = "accepted" =>
       /\ toClient[v] = <<>>
       /\ \/ pc[v] = "send" /\ ~cancelSent[v] /\ toDaemon[v] = <<>>
          \/ pc[v] = "send" /\ cancelSent[v] /\ toDaemon[v] = <<"cancel">>
          \/ pc[v] = "read" /\ ~cancelSent[v] /\ toDaemon[v] = <<"request">>
          \/ pc[v] = "read" /\ cancelSent[v]
               /\ toDaemon[v] \in {<<"request", "cancel">>, <<"cancel", "request">>}
  /\ handler[v] = "running" =>
       /\ pc[v] \in {"read", "remove", "done"}
       /\ toClient[v] \in {<<>>, <<"chunk">>}
       /\ toDaemon[v] \in {<<>>, <<"cancel">>}
       /\ pc[v] = "read" /\ ~cancelSent[v] => toDaemon[v] = <<>>
       /\ pc[v] = "read" /\ cancelSent[v] /\ ~hctx[v] /\ toDaemon[v] = <<>> => swallowed[v]

(* The client gave up on a handler that has never seen the cancel.         *)
GaveUp(v) ==
  outcome[v] = "grace" => swallowed[v] /\ handler[v] \in {"running", "finished"}

IInv ==
  /\ Types
  /\ Claims
  /\ \A v \in Viewers : CallOf(v) /\ GaveUp(v)

-----------------------------------------------------------------------------
(* Sequences of at most two frames.                                        *)

(* Two sequences of two are equal if their members are.                    *)
LEMMA EqualPairs ==
  ASSUME NEW S, NEW s \in Seq(S), NEW t \in Seq(S),
         Len(s) = 2, Len(t) = 2, s[1] = t[1], s[2] = t[2]
  PROVE  s = t
<1>1. \A i \in 1..Len(s) : s[i] = t[i]
  OBVIOUS
<1>. QED
  BY <1>1, SeqEqual

(* Two sequences of one are equal if their member is.                      *)
LEMMA EqualSingles ==
  ASSUME NEW S, NEW s \in Seq(S), NEW t \in Seq(S), Len(s) = 1, Len(t) = 1, s[1] = t[1]
  PROVE  s = t
<1>1. \A i \in 1..Len(s) : s[i] = t[i]
  OBVIOUS
<1>. QED
  BY <1>1, SeqEqual

(* The second frame to be sent follows the first.                          *)
LEMMA AppendSecond ==
  ASSUME NEW x, NEW y
  PROVE  Append(<<x>>, y) = <<x, y>>
<1>1. <<x, y>> \in Seq({x, y}) /\ Append(<<x>>, y) \in Seq({x, y})
  OBVIOUS
<1>2. /\ Len(Append(<<x>>, y)) = 2
      /\ Append(<<x>>, y)[1] = x /\ Append(<<x>>, y)[2] = y
  OBVIOUS
<1>3. Len(<<x, y>>) = 2 /\ <<x, y>>[1] = x /\ <<x, y>>[2] = y
  OBVIOUS
<1>. QED
  BY <1>1, <1>2, <1>3, EqualPairs

(* The first frame to be sent is alone.                                    *)
LEMMA AppendFirst ==
  ASSUME NEW x
  PROVE  Append(<<>>, x) = <<x>>
  OBVIOUS

(* Receiving the first of two frames leaves the second.                    *)
LEMMA DropFirst ==
  ASSUME NEW x, NEW y
  PROVE  SubSeq(<<x, y>>, 2, 2) = <<y>>
<1>1. <<y>> \in Seq({x, y})
  OBVIOUS
<1>2. /\ SubSeq(<<x, y>>, 2, 2) \in Seq({x, y})
      /\ Len(SubSeq(<<x, y>>, 2, 2)) = 1 /\ SubSeq(<<x, y>>, 2, 2)[1] = y
  OBVIOUS
<1>3. Len(<<y>>) = 1 /\ <<y>>[1] = y
  OBVIOUS
<1>. QED
  BY <1>1, <1>2, <1>3, EqualSingles

(* What handleConn reads, and what it leaves.                              *)
LEMMA ReadFrames ==
  ASSUME NEW f \in ToDaemon, NEW n \in 1..Len(f)
  PROVE  /\ n = 2 => Len(f) = 2 /\ SubSeq(f, n + 1, Len(f)) = <<>>
         /\ n = 1 /\ Len(f) = 1 => SubSeq(f, n + 1, Len(f)) = <<>>
         /\ n = 1 /\ Len(f) = 2 => SubSeq(f, n + 1, Len(f)) = <<f[2]>>
         /\ n \in {1, 2}
<1>1. Len(f) \in {0, 1, 2} /\ n \in {1, 2}
  <2>1. \/ f = <<>> \/ f = <<"request">> \/ f = <<"cancel">>
        \/ f = <<"request", "cancel">> \/ f = <<"cancel", "request">>
    BY DEF ToDaemon
  <2>2. Len(f) \in {0, 1, 2}
    BY <2>1
  <2>3. CASE Len(f) = 0
    BY <2>3
  <2>4. CASE Len(f) = 1
    BY <2>4
  <2>5. CASE Len(f) = 2
    BY <2>5
  <2>. QED
    BY <2>2, <2>3, <2>4, <2>5
<1>2. CASE n = 2
  <2>1. Len(f) = 2
    <3>1. CASE Len(f) = 1
      BY <1>2, <3>1
    <3>2. CASE Len(f) = 0
      BY <1>2, <3>2
    <3>. QED
      BY <1>1, <3>1, <3>2
  <2>2. SubSeq(f, 3, 2) = <<>>
    BY SubSeqEmpty
  <2>. QED
    BY <1>2, <2>1, <2>2
<1>3. CASE n = 1 /\ Len(f) = 1
  <2>1. SubSeq(f, 2, 1) = <<>>
    BY SubSeqEmpty
  <2>. QED
    BY <1>3, <2>1
<1>4. CASE n = 1 /\ Len(f) = 2
  <2>1. f \in {<<"request", "cancel">>, <<"cancel", "request">>}
    BY <1>4 DEF ToDaemon
  <2>2. SubSeq(f, 2, 2) = <<f[2]>>
    BY <2>1, DropFirst
  <2>. QED
    BY <1>4, <2>2
<1>. QED
  BY <1>1, <1>2, <1>3, <1>4

-----------------------------------------------------------------------------
(* The invariant holds when the server starts: no ticket, viewer or frame. *)
LEMMA InitIInv == SessionsAssumption /\ Init => IInv
  BY DEF SessionsAssumption, Init, IInv, Types, Claims, CallOf, GaveUp, Kinds, Serving, OnCall,
         ToDaemon, ToClient

(* Frames that are on their way, one by one.                               *)
LEMMA QueueCases ==
  /\ \A f \in ToDaemon : \/ f = <<>> \/ f = <<"request">> \/ f = <<"cancel">>
                         \/ f = <<"request", "cancel">> \/ f = <<"cancel", "request">>
  /\ \A f \in ToClient : \/ f = <<>> \/ f = <<"chunk">> \/ f = <<"result">> \/ f = <<"error">>
                         \/ f = <<"chunk", "result">>
  BY DEF ToDaemon, ToClient

(* What a step takes off a queue leaves a queue.                           *)
LEMMA TailOfQueue ==
  ASSUME NEW f \in ToClient, f # <<>>
  PROVE  Tail(f) \in ToClient
<1>1. CASE f = <<"chunk", "result">>
  <2>1. Tail(f) = <<"result">>
    BY <1>1
  <2>. QED
    BY <2>1 DEF ToClient
<1>2. CASE f \in {<<"chunk">>, <<"result">>, <<"error">>}
  <2>1. Tail(f) = <<>>
    BY <1>2, \A x : Tail(<<x>>) = <<>>
  <2>. QED
    BY <2>1 DEF ToClient
<1>. QED
  BY <1>1, <1>2, QueueCases

(* What a reader leaves of the frames to the daemon may be on its way there.*)
LEMMA RestOfQueue ==
  ASSUME NEW f \in ToDaemon, NEW n \in 1..Len(f)
  PROVE  SubSeq(f, n + 1, Len(f)) \in ToDaemon
<1>1. CASE f \in {<<"request">>, <<"cancel">>}
  <2>1. Len(f) = 1
    BY <1>1
  <2>. QED
    BY <2>1, ReadFrames DEF ToDaemon
<1>2. CASE f \in {<<"request", "cancel">>, <<"cancel", "request">>}
  <2>1. Len(f) = 2 /\ <<f[2]>> \in ToDaemon
    BY <1>2 DEF ToDaemon
  <2>. QED
    BY <2>1, ReadFrames DEF ToDaemon
<1>. QED
  BY <1>1, <1>2, QueueCases

(* The frames that a step writes fit the queue they are added to.          *)
LEMMA Frames ==
  /\ <<>> \in ToDaemon
  /\ {<<>>, <<"chunk">>} \subseteq ToClient
  /\ Append(<<>>, "request") \in ToDaemon /\ Append(<<>>, "cancel") \in ToDaemon
  /\ Append(<<"cancel">>, "request") \in ToDaemon
  /\ Append(<<"request">>, "cancel") \in ToDaemon
  /\ Append(<<>>, "error") \in ToClient
  /\ Append(<<>>, "result") \in ToClient /\ Append(<<"chunk">>, "result") \in ToClient
  BY AppendSecond DEF ToDaemon, ToClient

(* Every step keeps the variables in their types.                          *)
LEMMA TypesStep ==
  ASSUME SessionsAssumption, IInv, [Next]_vars
  PROVE  Types'
<1> USE Frames DEF IInv, Types, Kinds, Serving, OnCall, Goto,
                   ticketVars, wireVars, viewerVars
<1>1. ASSUME NEW t \in Tickets, Expire(t)
      PROVE  Types'
  BY <1>1 DEF Expire
<1>2. ASSUME NEW t \in Tickets, NEW k \in Kinds, Mint(t, k)
      PROVE  Types'
  BY <1>2 DEF Mint, Swept
<1>3. ASSUME NEW v \in Viewers, NEW t \in Tickets, NEW e \in Kinds, GetSession(v, t, e)
      PROVE  Types'
  BY <1>3 DEF GetSession
<1>4. ASSUME NEW v \in Viewers, Disconnect(v)
      PROVE  Types'
  BY <1>4 DEF Disconnect
<1>5. ASSUME NEW v \in Viewers, SendCancel(v)
      PROVE  Types'
  <2>1. DaemonAlive(v) => Append(toDaemon[v], "cancel") \in ToDaemon
    BY <1>5 DEF SendCancel, DaemonAlive, CallOf
  <2>. QED
    BY <1>5, <2>1 DEF SendCancel
<1>6. ASSUME NEW v \in Viewers, Grace(v)
      PROVE  Types'
  BY <1>6 DEF Grace, EndCall
<1>7. ASSUME NEW v \in Viewers, MarkInUse(v)
      PROVE  Types'
  <2>1. ticket[v] \in Tickets
    BY <1>7 DEF MarkInUse, Claims
  <2>. QED
    BY <1>7, <2>1 DEF MarkInUse
<1>8. ASSUME NEW v \in Viewers, Dial(v)
      PROVE  Types'
  BY <1>8 DEF Dial
<1>9. ASSUME NEW v \in Viewers, SendRequest(v)
      PROVE  Types'
  <2>1. DaemonAlive(v) => Append(toDaemon[v], "request") \in ToDaemon
    BY <1>9 DEF SendRequest, DaemonAlive, CallOf
  <2>2. \/ /\ toDaemon' = [toDaemon EXCEPT ![v] = Append(@, "request")] /\ Goto(v, "read")
           /\ DaemonAlive(v) /\ UNCHANGED <<outcome, closed, toClient>>
        \/ EndCall(v, "error") /\ UNCHANGED toDaemon
    BY <1>9, Zenon DEF SendRequest
  <2>3. UNCHANGED <<ticket, gone, cancelSent, admitted, ticketVars, handler, hctx, swallowed, crashes>>
    BY <1>9, Zenon DEF SendRequest
  <2>4. CASE EndCall(v, "error") /\ UNCHANGED toDaemon
    BY <2>3, <2>4 DEF EndCall
  <2>5. CASE /\ toDaemon' = [toDaemon EXCEPT ![v] = Append(@, "request")] /\ Goto(v, "read")
             /\ DaemonAlive(v) /\ UNCHANGED <<outcome, closed, toClient>>
    BY <2>1, <2>3, <2>5
  <2>. QED
    BY <2>2, <2>4, <2>5
<1>10. ASSUME NEW v \in Viewers, ReadChunk(v)
      PROVE  Types'
  <2>1. Tail(toClient[v]) \in ToClient
    BY <1>10, TailOfQueue DEF ReadChunk
  <2>2. CASE toClient' = [toClient EXCEPT ![v] = Tail(@)] /\ UNCHANGED <<pc, outcome, closed>>
    BY <1>10, <2>1, <2>2 DEF ReadChunk
  <2>3. ASSUME NEW how \in {"viewerGone", "error"}, EndCall(v, how)
        PROVE  Types'
    BY <1>10, <2>3 DEF ReadChunk, EndCall
  <2>. QED
    BY <1>10, <2>2, <2>3 DEF ReadChunk
<1>11. ASSUME NEW v \in Viewers, ReadResult(v)
      PROVE  Types'
  <2>1. Head(toClient[v]) \in {"result", "error"}
    BY <1>11 DEF ReadResult, ToClient
  <2>. QED
    BY <1>11, <2>1 DEF ReadResult, EndCall
<1>12. ASSUME NEW v \in Viewers, ReadEOF(v)
      PROVE  Types'
  BY <1>12 DEF ReadEOF, EndCall
<1>13. ASSUME NEW v \in Viewers, Remove(v)
      PROVE  Types'
  BY <1>13 DEF Remove
<1>14. ASSUME NEW v \in Viewers, Receive(v)
      PROVE  Types'
  <2>1. ASSUME NEW n \in 1..Len(toDaemon[v])
        PROVE  SubSeq(toDaemon[v], n + 1, Len(toDaemon[v])) \in ToDaemon
    <3>1. toDaemon[v] \in ToDaemon
      OBVIOUS
    <3>. QED
      BY <3>1, RestOfQueue
  <2>2. Append(toClient[v], "error") \in ToClient
    BY <1>14 DEF Receive, CallOf
  <2>3. toDaemon' \in [Viewers -> ToDaemon] /\ swallowed' \in [Viewers -> BOOLEAN]
    BY <1>14, <2>1 DEF Receive
  <2>4. toClient' \in [Viewers -> ToClient]
        /\ handler' \in [Viewers -> {"none", "accepted", "running", "finished"}]
    <3>1. \/ handler' = [handler EXCEPT ![v] = "running"] /\ UNCHANGED toClient
          \/ /\ handler' = [handler EXCEPT ![v] = "finished"]
             /\ toClient' = [toClient EXCEPT ![v] = IF closed[v] THEN <<>> ELSE Append(@, "error")]
      BY <1>14, Zenon DEF Receive
    <3>2. (IF closed[v] THEN <<>> ELSE Append(toClient[v], "error")) \in ToClient
      BY <2>2
    <3>3. toClient' \in [Viewers -> ToClient]
      <4>1. CASE UNCHANGED toClient
        BY <4>1
      <4>2. CASE toClient' = [toClient EXCEPT ![v] = IF closed[v] THEN <<>> ELSE Append(@, "error")]
        BY <3>2, <4>2, Zenon
      <4>. QED
        BY <3>1, <4>1, <4>2
    <3>4. handler' \in [Viewers -> {"none", "accepted", "running", "finished"}]
      BY <3>1
    <3>. QED
      BY <3>3, <3>4
  <2>6. UNCHANGED <<ticketVars, viewerVars, closed, hctx, crashes>>
    BY <1>14 DEF Receive
  <2>. QED
    BY <2>3, <2>4, <2>6
<1>15. ASSUME NEW v \in Viewers, Watch(v)
      PROVE  Types'
  BY <1>15 DEF Watch
<1>16. ASSUME NEW v \in Viewers, Emit(v)
      PROVE  Types'
  BY <1>16 DEF Emit
<1>17. ASSUME NEW v \in Viewers, Return(v)
      PROVE  Types'
  <2>1. Append(toClient[v], "result") \in ToClient
    BY <1>17 DEF Return, CallOf
  <2>. QED
    BY <1>17, <2>1 DEF Return
<1>18. CASE Crash
  BY <1>18 DEF Crash, SessionsAssumption
<1>19. CASE UNCHANGED vars
  BY <1>19 DEF vars
<1>. QED
  BY <1>1, <1>2, <1>3, <1>4, <1>5, <1>6, <1>7, <1>8, <1>9, <1>10, <1>11, <1>12, <1>13, <1>14,
     <1>15, <1>16, <1>17, <1>18, <1>19 DEF Next, Serve, Handle

(* A step of one viewer's call leaves the calls of the others alone.       *)
Call(w) == <<pc[w], cancelSent[w], outcome[w], toDaemon[w], handler[w], hctx[w], swallowed[w],
             toClient[w]>>

(* What is known of a call depends on its own state only.                  *)
LEMMA OthersCall ==
  ASSUME NEW w \in Viewers, CallOf(w), GaveUp(w), UNCHANGED Call(w)
  PROVE  CallOf(w)' /\ GaveUp(w)'
  BY DEF Call, CallOf, GaveUp

(* Every step keeps what is known of each call.                            *)
LEMMA CallStep ==
  ASSUME SessionsAssumption, IInv, [Next]_vars
  PROVE  \A w \in Viewers : CallOf(w)' /\ GaveUp(w)'
<1> SUFFICES ASSUME NEW w \in Viewers
             PROVE  CallOf(w)' /\ GaveUp(w)'
  OBVIOUS
<1>0. Types /\ CallOf(w) /\ GaveUp(w)
  BY DEF IInv
<1> USE <1>0 DEF Types, Goto, ticketVars, wireVars, viewerVars
<1>a. CASE UNCHANGED Call(w)
  BY <1>a, OthersCall
<1>1. ASSUME NEW t \in Tickets, Expire(t)
      PROVE  UNCHANGED Call(w)
  BY <1>1 DEF Expire, Call
<1>2. ASSUME NEW t \in Tickets, NEW k \in Kinds, Mint(t, k)
      PROVE  UNCHANGED Call(w)
  BY <1>2 DEF Mint, Call
<1>3. ASSUME NEW v \in Viewers, NEW t \in Tickets, NEW e \in Kinds, GetSession(v, t, e)
      PROVE  CallOf(w)' /\ GaveUp(w)'
  <2>1. CASE w = v
    BY <1>3, <2>1 DEF GetSession, CallOf, GaveUp, OnCall
  <2>2. CASE w # v
    BY <1>3, <2>2, <1>a DEF GetSession, Call
  <2>. QED
    BY <2>1, <2>2
<1>4. ASSUME NEW v \in Viewers, Disconnect(v)
      PROVE  CallOf(w)' /\ GaveUp(w)'
  <2>1. CASE w = v
    BY <1>4, <2>1 DEF Disconnect, CallOf, GaveUp, OnCall
  <2>2. CASE w # v
    BY <1>4, <2>2, <1>a DEF Disconnect, Call
  <2>. QED
    BY <2>1, <2>2
<1>5. ASSUME NEW v \in Viewers, SendCancel(v)
      PROVE  CallOf(w)' /\ GaveUp(w)'
  <2>1. CASE w = v
    <3>1. /\ pc[v] \in OnCall /\ ~cancelSent[v] /\ cancelSent'[v]
          /\ toDaemon'[v] = IF handler[v] # "finished" THEN Append(toDaemon[v], "cancel")
                                                      ELSE toDaemon[v]
          /\ UNCHANGED <<pc, outcome, handler, hctx, swallowed, toClient>>
      BY <1>5 DEF SendCancel, DaemonAlive
    <3>2. CASE handler[v] = "finished"
      BY <2>1, <3>1, <3>2 DEF CallOf, GaveUp
    <3>3. CASE handler[v] = "accepted"
      <4>1. /\ pc[v] = "send" => toDaemon'[v] = <<"cancel">>
            /\ pc[v] = "read" => toDaemon'[v] = <<"request", "cancel">>
        <5>1. /\ pc[v] = "send" => toDaemon[v] = <<>>
              /\ pc[v] = "read" => toDaemon[v] = <<"request">>
          BY <2>1, <3>1, <3>3 DEF CallOf
        <5>2. toDaemon'[v] = Append(toDaemon[v], "cancel")
          BY <3>1, <3>3
        <5>. QED
          BY <5>1, <5>2, AppendFirst, AppendSecond
      <4>. QED
        BY <2>1, <3>1, <3>3, <4>1 DEF CallOf, GaveUp, OnCall
    <3>4. CASE handler[v] = "running"
      <4>1. toDaemon'[v] = <<"cancel">>
        <5>1. toDaemon[v] = <<>>
          BY <2>1, <3>1, <3>4 DEF CallOf, OnCall
        <5>2. toDaemon'[v] = Append(toDaemon[v], "cancel")
          BY <3>1, <3>4
        <5>. QED
          BY <5>1, <5>2, AppendFirst
      <4>2. pc[v] = "read" /\ <<"cancel">> # <<>>
        BY <2>1, <3>1, <3>4 DEF CallOf, OnCall
      <4>. QED
        BY <2>1, <3>1, <3>4, <4>1, <4>2 DEF CallOf, GaveUp, OnCall
    <3>. QED
      BY <2>1, <3>1, <3>2, <3>3, <3>4 DEF CallOf
  <2>2. CASE w # v
    BY <1>5, <2>2, <1>a DEF SendCancel, DaemonAlive, Call
  <2>. QED
    BY <2>1, <2>2
<1>6. ASSUME NEW v \in Viewers, Grace(v)
      PROVE  CallOf(w)' /\ GaveUp(w)'
  <2>1. CASE w = v
    BY <1>6, <2>1 DEF Grace, EndCall, CallOf, GaveUp, OnCall
  <2>2. CASE w # v
    BY <1>6, <2>2, <1>a DEF Grace, EndCall, Call
  <2>. QED
    BY <2>1, <2>2
<1>7. ASSUME NEW v \in Viewers, MarkInUse(v)
      PROVE  CallOf(w)' /\ GaveUp(w)'
  <2>1. CASE w = v
    BY <1>7, <2>1 DEF MarkInUse, CallOf, GaveUp, OnCall
  <2>2. CASE w # v
    BY <1>7, <2>2, <1>a DEF MarkInUse, Call
  <2>. QED
    BY <2>1, <2>2
<1>8. ASSUME NEW v \in Viewers, Dial(v)
      PROVE  CallOf(w)' /\ GaveUp(w)'
  <2>1. CASE w = v
    BY <1>8, <2>1 DEF Dial, CallOf, GaveUp, OnCall
  <2>2. CASE w # v
    BY <1>8, <2>2, <1>a DEF Dial, Call
  <2>. QED
    BY <2>1, <2>2
<1>9. ASSUME NEW v \in Viewers, SendRequest(v)
      PROVE  CallOf(w)' /\ GaveUp(w)'
  <2>1. CASE w = v
    <3>1. pc[v] = "send" /\ handler[v] \in {"accepted", "finished"}
      BY <1>9, <2>1 DEF SendRequest, CallOf, OnCall
    <3>2. CASE handler[v] = "finished"
      BY <1>9, <2>1, <3>1, <3>2 DEF SendRequest, DaemonAlive, EndCall, CallOf, GaveUp, OnCall
    <3>3. CASE handler[v] = "accepted"
      <4>1. /\ toDaemon'[v] = Append(toDaemon[v], "request") /\ pc'[v] = "read"
            /\ UNCHANGED <<outcome, toClient, cancelSent, handler, hctx, swallowed>>
        BY <1>9, <3>3 DEF SendRequest, DaemonAlive
      <4>2. /\ ~cancelSent[v] => toDaemon'[v] = <<"request">>
            /\ cancelSent[v] => toDaemon'[v] = <<"cancel", "request">>
        <5>1. /\ ~cancelSent[v] => toDaemon[v] = <<>>
              /\ cancelSent[v] => toDaemon[v] = <<"cancel">>
          BY <2>1, <3>1, <3>3 DEF CallOf
        <5>. QED
          BY <4>1, <5>1, AppendFirst, AppendSecond
      <4>. QED
        BY <2>1, <3>1, <3>3, <4>1, <4>2 DEF CallOf, GaveUp, OnCall
    <3>. QED
      BY <3>1, <3>2, <3>3
  <2>2. CASE w # v
    BY <1>9, <2>2, <1>a DEF SendRequest, DaemonAlive, EndCall, Call
  <2>. QED
    BY <2>1, <2>2
<1>10. ASSUME NEW v \in Viewers, ReadChunk(v)
      PROVE  CallOf(w)' /\ GaveUp(w)'
  <2>1. CASE w = v
    <3>1. /\ pc[v] = "read" /\ handler[v] \in {"running", "finished"} /\ toClient[v] # <<>>
          /\ UNCHANGED <<cancelSent, toDaemon, handler, hctx, swallowed>>
      BY <1>10, <2>1 DEF ReadChunk, CallOf
    <3>2. ASSUME NEW how \in {"viewerGone", "error"}, EndCall(v, how)
          PROVE  CallOf(w)' /\ GaveUp(w)'
      BY <2>1, <3>1, <3>2 DEF EndCall, CallOf, GaveUp, OnCall
    <3>3. CASE toClient' = [toClient EXCEPT ![v] = Tail(@)] /\ UNCHANGED <<pc, outcome>>
      <4>1. handler[v] = "running" => toClient'[v] = <<>>
        <5>1. handler[v] = "running" => toClient[v] = <<"chunk">>
          BY <2>1, <3>1 DEF CallOf
        <5>2. toClient'[v] = Tail(toClient[v])
          BY <3>3
        <5>. QED
          BY <5>1, <5>2, \A x : Tail(<<x>>) = <<>>
      <4>. QED
        BY <2>1, <3>1, <3>3, <4>1 DEF CallOf, GaveUp
    <3>. QED
      BY <1>10, <3>2, <3>3 DEF ReadChunk
  <2>2. CASE w # v
    BY <1>10, <2>2, <1>a DEF ReadChunk, EndCall, Call
  <2>. QED
    BY <2>1, <2>2
<1>11. ASSUME NEW v \in Viewers, ReadResult(v)
      PROVE  CallOf(w)' /\ GaveUp(w)'
  <2>1. CASE w = v
    <3>1. /\ pc[v] = "read" /\ toClient[v] # <<>> /\ Head(toClient[v]) # "chunk"
          /\ EndCall(v, Head(toClient[v]))
          /\ UNCHANGED <<cancelSent, toDaemon, handler, hctx, swallowed>>
      BY <1>11 DEF ReadResult
    <3>2. Head(toClient[v]) \in {"result", "error"}
      BY <3>1, QueueCases
    <3>3. handler[v] = "finished"
      BY <2>1, <3>1 DEF CallOf
    <3>. QED
      BY <2>1, <3>1, <3>2, <3>3 DEF EndCall, CallOf, GaveUp, OnCall
  <2>2. CASE w # v
    BY <1>11, <2>2, <1>a DEF ReadResult, EndCall, Call
  <2>. QED
    BY <2>1, <2>2
<1>12. ASSUME NEW v \in Viewers, ReadEOF(v)
      PROVE  CallOf(w)' /\ GaveUp(w)'
  <2>1. CASE w = v
    BY <1>12, <2>1 DEF ReadEOF, EndCall, DaemonAlive, CallOf, GaveUp, OnCall
  <2>2. CASE w # v
    BY <1>12, <2>2, <1>a DEF ReadEOF, EndCall, DaemonAlive, Call
  <2>. QED
    BY <2>1, <2>2
<1>13. ASSUME NEW v \in Viewers, Remove(v)
      PROVE  CallOf(w)' /\ GaveUp(w)'
  <2>1. CASE w = v
    BY <1>13, <2>1 DEF Remove, CallOf, GaveUp, OnCall
  <2>2. CASE w # v
    BY <1>13, <2>2, <1>a DEF Remove, Call
  <2>. QED
    BY <2>1, <2>2
<1>14. ASSUME NEW v \in Viewers, Receive(v)
      PROVE  CallOf(w)' /\ GaveUp(w)'
  <2>1. CASE w = v
    <3>1. PICK n \in 1..Len(toDaemon[v]) :
            /\ toDaemon'[v] = SubSeq(toDaemon[v], n + 1, Len(toDaemon[v]))
            /\ swallowed'[v] = (n = 2)
      BY <1>14 DEF Receive
    <3>2. /\ handler[v] = "accepted" /\ toDaemon[v] # <<>> /\ outcome[v] # "grace"
          /\ UNCHANGED <<pc, cancelSent, outcome, hctx>>
      BY <1>14, <2>1 DEF Receive, GaveUp
    <3>3. CASE Head(toDaemon[v]) # "request"
      BY <1>14, <2>1, <3>2, <3>3 DEF Receive, CallOf, GaveUp, OnCall
    <3>4. CASE Head(toDaemon[v]) = "request"
      <4>1. handler'[v] = "running" /\ toClient'[v] = <<>> /\ pc[v] = "read"
        BY <1>14, <2>1, <3>2, <3>4 DEF Receive, CallOf
      <4>2. CASE ~cancelSent[v]
        <5>1. toDaemon[v] = <<"request">>
          BY <2>1, <3>2, <4>1, <4>2 DEF CallOf
        <5>2. toDaemon'[v] = <<>>
          BY <3>1, <5>1, ReadFrames
        <5>. QED
          BY <2>1, <3>2, <4>1, <4>2, <5>2 DEF CallOf, GaveUp, OnCall
      <4>3. CASE cancelSent[v]
        <5>1. toDaemon[v] = <<"request", "cancel">>
          BY <2>1, <3>2, <3>4, <4>1, <4>3 DEF CallOf
        <5>2. Len(toDaemon[v]) = 2 /\ toDaemon[v][2] = "cancel" /\ <<"cancel">> # <<>>
          BY <5>1
        <5>3. n \in {1, 2} /\ (n = 1 => SubSeq(toDaemon[v], n + 1, Len(toDaemon[v])) = <<toDaemon[v][2]>>)
              /\ (n = 2 => SubSeq(toDaemon[v], n + 1, Len(toDaemon[v])) = <<>>)
          BY <5>2, ReadFrames
        <5>4. toDaemon'[v] = <<"cancel">> \/ (swallowed'[v] /\ toDaemon'[v] = <<>>)
          BY <3>1, <5>2, <5>3
        <5>. QED
          BY <2>1, <3>2, <4>1, <4>3, <5>2, <5>4 DEF CallOf, GaveUp, OnCall
      <4>. QED
        BY <4>2, <4>3
    <3>. QED
      BY <3>3, <3>4
  <2>2. CASE w # v
    BY <1>14, <2>2, <1>a DEF Receive, Call
  <2>. QED
    BY <2>1, <2>2
<1>15. ASSUME NEW v \in Viewers, Watch(v)
      PROVE  CallOf(w)' /\ GaveUp(w)'
  <2>1. CASE w = v
    BY <1>15, <2>1 DEF Watch, CallOf, GaveUp, OnCall
  <2>2. CASE w # v
    BY <1>15, <2>2, <1>a DEF Watch, Call
  <2>. QED
    BY <2>1, <2>2
<1>16. ASSUME NEW v \in Viewers, Emit(v)
      PROVE  CallOf(w)' /\ GaveUp(w)'
  <2>1. CASE w = v
    BY <1>16, <2>1 DEF Emit, CallOf, GaveUp, OnCall
  <2>2. CASE w # v
    BY <1>16, <2>2, <1>a DEF Emit, Call
  <2>. QED
    BY <2>1, <2>2
<1>17. ASSUME NEW v \in Viewers, Return(v)
      PROVE  CallOf(w)' /\ GaveUp(w)'
  <2>1. CASE w = v
    BY <1>17, <2>1 DEF Return, CallOf, GaveUp, OnCall
  <2>2. CASE w # v
    BY <1>17, <2>2, <1>a DEF Return, Call
  <2>. QED
    BY <2>1, <2>2
<1>18. CASE Crash
  BY <1>18 DEF Crash, CallOf, GaveUp, OnCall
<1>19. CASE UNCHANGED vars
  BY <1>19, <1>a DEF vars, Call
<1>. QED
  BY <1>a, <1>1, <1>2, <1>3, <1>4, <1>5, <1>6, <1>7, <1>8, <1>9, <1>10, <1>11, <1>12, <1>13,
     <1>14, <1>15, <1>16, <1>17, <1>18, <1>19 DEF Next, Serve, Handle

(* A step that leaves the tickets alone, and every viewer being served     *)
(* that was.                                                               *)
LEMMA ClaimsKept ==
  ASSUME Types, Claims, UNCHANGED <<sessions, minted, admitted, ticket>>,
         \A w \in Viewers : pc'[w] = pc[w] \/ {pc[w], pc'[w]} \subseteq Serving
  PROVE  Claims'
<1>1. \A w \in Viewers : pc[w] \in Serving <=> pc'[w] \in Serving
  OBVIOUS
<1>2. \A t \in Tickets : \A v \in admitted[t] : v \in Viewers
  BY DEF Types
<1>3. "mark" \notin Serving /\ "done" \notin Serving
  BY DEF Serving
<1>. QED
  BY <1>1, <1>2, <1>3 DEF Claims

(* Every step keeps what is known of the tickets and of who claimed them.  *)
LEMMA ClaimsStep ==
  ASSUME SessionsAssumption, IInv, [Next]_vars
  PROVE  Claims'
<1>0. Types /\ Claims
  BY DEF IInv
<1> USE <1>0 DEF Types, Goto, ticketVars, wireVars, viewerVars
<1>1. ASSUME NEW t \in Tickets, Expire(t)
      PROVE  Claims'
  BY <1>1, ClaimsKept DEF Expire
<1>2. ASSUME NEW t \in Tickets, NEW k \in Kinds, Mint(t, k)
      PROVE  Claims'
  BY <1>2 DEF Mint, Swept, Claims
<1>3. ASSUME NEW v \in Viewers, NEW t \in Tickets, NEW e \in Kinds, GetSession(v, t, e)
      PROVE  Claims'
  BY <1>3 DEF GetSession, Claims, Serving
<1>4. ASSUME NEW v \in Viewers, MarkInUse(v)
      PROVE  Claims'
  <2>1. CASE Markable(ticket[v])
    <3>1. /\ pc[v] = "mark" /\ ticket[v] \in Tickets /\ sessions[ticket[v]] = "free"
          /\ sessions' = [sessions EXCEPT ![ticket[v]] = "inUse"]
          /\ admitted' = [admitted EXCEPT ![ticket[v]] = @ \cup {v}]
          /\ pc' = [pc EXCEPT ![v] = "dial"] /\ UNCHANGED <<minted, ticket>>
      BY <1>4, <2>1 DEF MarkInUse, Markable, Claims
    <3>2. admitted'[ticket[v]] = {v}
      BY <3>1 DEF Claims
    <3>3. \A w \in Viewers : w # v /\ pc[w] \in Serving => ticket[w] # ticket[v]
      BY <3>1 DEF Claims
    <3>. QED
      BY <3>1, <3>2, <3>3 DEF Claims, Serving
  <2>2. CASE ~Markable(ticket[v])
    BY <1>4, <2>2 DEF MarkInUse, Markable, Claims, Serving
  <2>. QED
    BY <2>1, <2>2
<1>5. ASSUME NEW v \in Viewers, Remove(v)
      PROVE  Claims'
  BY <1>5 DEF Remove, Claims, Serving
<1>6. ASSUME NEW v \in Viewers, Dial(v) \/ SendRequest(v) \/ ReadChunk(v) \/ ReadResult(v)
                                \/ ReadEOF(v) \/ Grace(v) \/ Disconnect(v) \/ SendCancel(v)
      PROVE  Claims'
  <2>1. UNCHANGED <<sessions, minted, admitted, ticket>>
    BY <1>6 DEF Dial, SendRequest, ReadChunk, ReadResult, ReadEOF, Grace, Disconnect, SendCancel
  <2>2. \/ UNCHANGED pc
        \/ pc[v] \in Serving /\ \E l \in Serving : pc' = [pc EXCEPT ![v] = l]
    BY <1>6, Zenon DEF Dial, SendRequest, ReadChunk, ReadResult, ReadEOF, Grace, Disconnect, SendCancel,
                EndCall, Serving
  <2>. QED
    BY <2>1, <2>2, ClaimsKept
<1>7. ASSUME NEW v \in Viewers, Receive(v) \/ Watch(v) \/ Emit(v) \/ Return(v)
      PROVE  Claims'
  BY <1>7, ClaimsKept DEF Receive, Watch, Emit, Return
<1>8. CASE Crash
  BY <1>8, ClaimsKept DEF Crash
<1>9. CASE UNCHANGED vars
  BY <1>9, ClaimsKept DEF vars
<1>. QED
  BY <1>1, <1>2, <1>3, <1>4, <1>5, <1>6, <1>7, <1>8, <1>9 DEF Next, Serve, Handle

(* IInv is inductive ...                                                   *)
LEMMA NextIInv == SessionsAssumption /\ IInv /\ [Next]_vars => IInv'
  BY TypesStep, ClaimsStep, CallStep DEF IInv

(* ... and implies the invariants.                                         *)
LEMMA IInvTypeOK == IInv => TypeOK
<1> SUFFICES ASSUME IInv
             PROVE  TypeOK
  OBVIOUS
<1>1. ASSUME NEW f \in ToDaemon
      PROVE  f \in Seq({"request", "cancel"}) /\ Len(f) <= 2
  <2>1. CASE f = <<>>
    BY <2>1
  <2>2. CASE f = <<"request">>
    BY <2>2
  <2>3. CASE f = <<"cancel">>
    BY <2>3
  <2>4. CASE f = <<"request", "cancel">>
    BY <2>4
  <2>5. CASE f = <<"cancel", "request">>
    BY <2>5
  <2>. QED
    BY <2>1, <2>2, <2>3, <2>4, <2>5, QueueCases
<1>2. ASSUME NEW f \in ToClient
      PROVE  f \in Seq({"chunk", "result", "error"}) /\ Len(f) <= 2
  <2>1. CASE f = <<>>
    BY <2>1
  <2>2. CASE f = <<"chunk">>
    BY <2>2
  <2>3. CASE f = <<"result">>
    BY <2>3
  <2>4. CASE f = <<"error">>
    BY <2>4
  <2>5. CASE f = <<"chunk", "result">>
    BY <2>5
  <2>. QED
    BY <2>1, <2>2, <2>3, <2>4, <2>5, QueueCases
<1>. QED
  BY <1>1, <1>2 DEF IInv, Types, TypeOK

(* The invariant implies that a ticket admits one viewer at a time.        *)
LEMMA IInvOneViewerPerClaim == IInv => OneViewerPerClaim
<1> SUFFICES ASSUME IInv, NEW t \in Tickets
             PROVE  /\ Cardinality(admitted[t]) <= 1
                    /\ (sessions[t] = "inUse") <=> \E v \in admitted[t] : pc[v] \in Serving
  BY DEF OneViewerPerClaim
<1>1. Cardinality(admitted[t]) <= 1
  <2>1. CASE admitted[t] = {}
    BY <2>1, FS_EmptySet
  <2>2. ASSUME NEW v \in admitted[t]
        PROVE  Cardinality(admitted[t]) <= 1
    <3>1. admitted[t] = {v}
      BY DEF IInv, Claims
    <3>. QED
      BY <3>1, FS_Singleton
  <2>. QED
    BY <2>1, <2>2
<1>2. \A v \in admitted[t] : pc[v] \in Serving => sessions[t] = "inUse"
  BY DEF IInv, Types, Claims
<1>. QED
  BY <1>1, <1>2 DEF IInv, Claims

(* The invariant implies that only a swallowed cancel makes a call give up.*)
LEMMA IInvCancelGetsResult == IInv => CancelGetsResult
  BY DEF IInv, GaveUp, CancelGetsResult

-----------------------------------------------------------------------------
(* No stream is stuck.                                                     *)

(* A call that is over, while the daemon still handles it, was hung up.    *)
HungUp(v) ==
  /\ gone[v] => pc[v] # "idle"
  /\ handler[v] = "running" /\ pc[v] # "read" => closed[v]

(* No viewer has begun.                                                   *)
LEMMA InitHungUp == Init => \A v \in Viewers : HungUp(v)
  BY DEF Init, HungUp

(* Every step hangs up when it leaves a call.                              *)
LEMMA NextHungUp ==
  ASSUME IInv, \A v \in Viewers : HungUp(v), [Next]_vars
  PROVE  \A v \in Viewers : HungUp(v)'
<1> DEFINE Kept(w) == gone'[w] = gone[w] /\ pc'[w] = pc[w] /\ handler'[w] = handler[w] /\ closed'[w] = closed[w]
<1>0. /\ DOMAIN pc = Viewers /\ DOMAIN gone = Viewers
      /\ DOMAIN handler = Viewers /\ DOMAIN closed = Viewers
  BY DEF IInv, Types
<1>1. CASE UNCHANGED <<gone, pc, handler, closed>>
  BY <1>1 DEF HungUp
<1>2. UNCHANGED vars \/ (\E t \in Tickets : Expire(t) \/ \E k \in Kinds : Mint(t, k))
        => UNCHANGED <<gone, pc, handler, closed>>
  BY DEF vars, Expire, Mint, viewerVars, wireVars
<1>3. CASE Crash
  <2>1. \A v \in Viewers : handler'[v] # "running"
    BY <1>3 DEF Crash
  <2>. QED
    BY <1>3, <2>1 DEF Crash, HungUp, viewerVars
<1>4. ASSUME NEW v \in Viewers, NEW w \in Viewers, w # v,
             \/ \E t \in Tickets, e \in Kinds : GetSession(v, t, e)
             \/ Disconnect(v) \/ SendCancel(v) \/ Grace(v) \/ Serve(v) \/ Handle(v)
             \/ Emit(v) \/ Return(v)
      PROVE  Kept(w)
  BY <1>0, <1>4 DEF GetSession, Disconnect, SendCancel, Grace, Serve, Handle, Emit, Return,
     MarkInUse, Dial, SendRequest, ReadChunk, ReadResult, ReadEOF, Remove, Receive, Watch, EndCall,
     Goto, viewerVars, wireVars
<1>5. ASSUME NEW v \in Viewers,
             \/ \E t \in Tickets, e \in Kinds : GetSession(v, t, e)
             \/ Disconnect(v) \/ SendCancel(v) \/ Grace(v) \/ Serve(v) \/ Handle(v)
             \/ Emit(v) \/ Return(v)
      PROVE  HungUp(v)'
  <2>0. HungUp(v) /\ CallOf(v)
    BY DEF IInv
  <2>1. CASE \E t \in Tickets, e \in Kinds : GetSession(v, t, e)
    BY <1>0, <2>0, <2>1 DEF GetSession, Goto, HungUp, CallOf, wireVars
  <2>2. CASE Disconnect(v) \/ SendCancel(v)
    BY <1>0, <2>0, <2>2 DEF Disconnect, SendCancel, HungUp, OnCall, wireVars
  <2>3. CASE Grace(v) \/ ReadChunk(v) \/ ReadResult(v) \/ ReadEOF(v)
    BY <1>0, <2>0, <2>3 DEF Grace, ReadChunk, ReadResult, ReadEOF, EndCall, Goto, HungUp
  <2>4. CASE MarkInUse(v) \/ Dial(v) \/ Remove(v)
    BY <1>0, <2>0, <2>4 DEF MarkInUse, Dial, Remove, Goto, HungUp, CallOf, wireVars
  <2>5. CASE SendRequest(v)
    BY <1>0, <2>0, <2>5 DEF SendRequest, EndCall, Goto, HungUp
  <2>6. CASE Receive(v)
    <3>1. toDaemon[v] = <<"cancel">> => Head(toDaemon[v]) # "request"
      OBVIOUS
    <3>2. CASE Head(toDaemon[v]) = "request"
      <4>1. pc[v] = "read" /\ UNCHANGED <<pc, gone>>
        BY <2>0, <2>6, <3>1, <3>2 DEF Receive, CallOf, viewerVars
      <4>. QED
        BY <2>0, <4>1 DEF HungUp
    <3>3. CASE Head(toDaemon[v]) # "request"
      <4>1. handler'[v] = "finished" /\ UNCHANGED <<pc, gone>>
        BY <1>0, <2>6, <3>3 DEF Receive, viewerVars
      <4>. QED
        BY <2>0, <4>1 DEF HungUp
    <3>. QED
      BY <3>2, <3>3
  <2>7. CASE Watch(v) \/ Emit(v) \/ Return(v)
    BY <1>0, <2>0, <2>7 DEF Watch, Emit, Return, HungUp, viewerVars
  <2>. QED
    BY <1>5, <2>1, <2>2, <2>3, <2>4, <2>5, <2>6, <2>7 DEF Serve, Handle
<1>6. ASSUME NEW v \in Viewers, NEW w \in Viewers, w # v, Kept(w)
      PROVE  HungUp(w)'
  BY <1>6 DEF HungUp
<1> HIDE DEF Kept
<1>7. ASSUME NEW v \in Viewers,
             \/ \E t \in Tickets, e \in Kinds : GetSession(v, t, e)
             \/ Disconnect(v) \/ SendCancel(v) \/ Grace(v) \/ Serve(v) \/ Handle(v)
             \/ Emit(v) \/ Return(v)
      PROVE  \A w \in Viewers : HungUp(w)'
  BY <1>4, <1>5, <1>6, <1>7
<1>. QED
  BY <1>1, <1>2, <1>3, <1>7 DEF Next

(* A viewer that has left is not waited for in vain.                       *)
LEMMA HungUpNoStreamIsStuck ==
  ASSUME IInv, \A v \in Viewers : HungUp(v)
  PROVE  NoStreamIsStuck
<1> SUFFICES ASSUME NEW v \in Viewers, gone[v] \/ pc[v] = "done",
                    ~(pc[v] = "done" /\ handler[v] \in {"none", "finished"})
             PROVE  Served(v) \/ Cancels(v) \/ RunsOut(v) \/ Handles(v)
  BY DEF NoStreamIsStuck
<1>1. CallOf(v) /\ HungUp(v)
  BY DEF IInv
<1>2. /\ pc[v] \in {"idle", "mark", "done"} \cup Serving
      /\ handler[v] \in {"none", "accepted", "running", "finished"}
      /\ hctx[v] \in BOOLEAN /\ toDaemon[v] \in ToDaemon
  BY DEF IInv, Types
<1>3. <<"request">> # <<>> /\ <<"request", "cancel">> # <<>> /\ <<"cancel", "request">> # <<>>
      /\ Len(<<>>) < 2 /\ Len(<<"chunk">>) < 2
  OBVIOUS
<1>4. CASE pc[v] \in {"mark", "dial", "send", "remove"}
  BY <1>4 DEF Served
<1>5. CASE pc[v] = "read"
  <2>1. CASE toClient[v] # <<>> \/ handler[v] = "finished"
    BY <1>5, <2>1 DEF Served, DaemonAlive
  <2>2. CASE gone[v] /\ ~cancelSent[v]
    BY <1>5, <2>2 DEF Cancels, OnCall
  <2>3. CASE cancelSent[v] /\ handler[v] = "accepted"
    BY <1>1, <1>3, <1>5, <2>3 DEF CallOf, Handles
  <2>4. CASE cancelSent[v] /\ handler[v] = "running" /\ toClient[v] = <<>>
    BY <1>3, <1>5, <2>4 DEF RunsOut, Handles
  <2>5. handler[v] # "none"
    BY <1>1, <1>5 DEF CallOf, OnCall
  <2>. QED
    BY <1>2, <1>5, <2>1, <2>2, <2>3, <2>4, <2>5
<1>6. CASE pc[v] = "done"
  <2>1. handler[v] = "running"
    BY <1>1, <1>2, <1>6 DEF CallOf
  <2>2. closed[v] /\ Len(toClient[v]) < 2
    BY <1>1, <1>3, <1>6, <2>1 DEF HungUp, CallOf
  <2>. QED
    BY <2>1, <2>2 DEF Handles
<1>. QED
  BY <1>1, <1>2, <1>4, <1>5, <1>6 DEF HungUp, Serving
=============================================================================
