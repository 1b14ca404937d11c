--------------------------- MODULE StreamSessions ---------------------------
(***************************************************************************)
(* Streams of the HTTP front: the tickets of SessionManager, the endpoints *)
(* /sessions/{id}/stream and /sessions/{id}/logs that redeem them, and the *)
(* streaming call each endpoint makes to the daemon over a connection of   *)
(* its own (daemon.CallStream, handleConn, cancelOnDisconnect).            *)
(*                                                                         *)
(* A ticket is a model value (the code's uuid is never minted twice).  A   *)
(* viewer is one HTTP request for a stream.  Payloads are abstracted to    *)
(* "chunk"; each direction of the connection is the sequence of frames     *)
(* that were written and not yet read.                                     *)
(***************************************************************************)
EXTENDS Naturals, Sequences, FiniteSets

CONSTANTS
  Tickets,      \* session ids that may be minted
  Viewers,      \* HTTP requests for a stream
  NoTicket,     \* a viewer that names no ticket yet
  MaxSessions,  \* the session limit (128 in the code)
  MaxCrashes    \* how often the daemon may die (a bound)

SessionsAssumption ==
  /\ NoTicket \notin Tickets
  /\ MaxSessions \in Nat \ {0}
  /\ MaxCrashes \in Nat

Kinds == {"stream", "logs"}

VARIABLES
  sessions,   \* the map of the manager: ticket -> "absent", "free", "inUse"
  kind,       \* ticket -> StreamSession.Type
  minted,     \* ticket -> it was handed to a client
  expired,    \* ticket -> its minute is over
  pc,         \* viewer -> where its HTTP handler is
  ticket,     \* viewer -> the ticket in its path
  gone,       \* viewer -> r.Context() is cancelled
  cancelSent, \* viewer -> the AfterFunc of its call has run
  outcome,    \* viewer -> how its streaming call ended
  admitted,   \* ticket -> viewers ever admitted with it (history)
  toDaemon,   \* viewer -> frames on the way to the daemon
  closed,     \* viewer -> the client closed its connection
  handler,    \* viewer -> the daemon's handler of its connection
  hctx,       \* viewer -> the handler's context is cancelled
  swallowed,  \* viewer -> its cancel was read with the request (history)
  toClient,   \* viewer -> frames on the way to the client
  crashes     \* how often the daemon died

ticketVars == <<sessions, kind, minted, expired>>
wireVars == <<toDaemon, closed, handler, hctx, swallowed, toClient, crashes>>
viewerVars == <<pc, ticket, gone, cancelSent, outcome, admitted>>
vars == <<ticketVars, wireVars, viewerVars>>

(* Between claimSession and the deferred RemoveSession.                    *)
Serving == {"dial", "send", "read", "remove"}
OnCall == {"send", "read"}

TypeOK ==
  /\ sessions \in [Tickets -> {"absent", "free", "inUse"}]
  /\ kind \in [Tickets -> Kinds]
  /\ minted \in [Tickets -> BOOLEAN]
  /\ expired \in [Tickets -> BOOLEAN]
  /\ pc \in [Viewers -> {"idle", "mark", "done"} \cup Serving]
  /\ ticket \in [Viewers -> Tickets \cup {NoTicket}]
  /\ gone \in [Viewers -> BOOLEAN]
  /\ cancelSent \in [Viewers -> BOOLEAN]
  /\ outcome \in [Viewers -> {"none", "result", "error", "grace", "viewerGone"}]
  /\ admitted \in [Tickets -> SUBSET Viewers]
  /\ toDaemon \in [Viewers -> Seq({"request", "cancel"})]
  /\ closed \in [Viewers -> BOOLEAN]
  /\ handler \in [Viewers -> {"none", "accepted", "running", "finished"}]
  /\ hctx \in [Viewers -> BOOLEAN]
  /\ swallowed \in [Viewers -> BOOLEAN]
  /\ toClient \in [Viewers -> Seq({"chunk", "result", "error"})]
  /\ \A v \in Viewers : Len(toDaemon[v]) <= 2 /\ Len(toClient[v]) <= 2
  /\ crashes \in 0..MaxCrashes

Init ==
  /\ sessions = [t \in Tickets |-> "absent"]
  /\ kind = [t \in Tickets |-> "stream"]
  /\ minted = [t \in Tickets |-> FALSE]
  /\ expired = [t \in Tickets |-> FALSE]
  /\ pc = [v \in Viewers |-> "idle"]
  /\ ticket = [v \in Viewers |-> NoTicket]
  /\ gone = [v \in Viewers |-> FALSE]
  /\ cancelSent = [v \in Viewers |-> FALSE]
  /\ outcome = [v \in Viewers |-> "none"]
  /\ admitted = [t \in Tickets |-> {}]
  /\ toDaemon = [v \in Viewers |-> <<>>]
  /\ closed = [v \in Viewers |-> FALSE]
  /\ handler = [v \in Viewers |-> "none"]
  /\ hctx = [v \in Viewers |-> FALSE]
  /\ swallowed = [v \in Viewers |-> FALSE]
  /\ toClient = [v \in Viewers |-> <<>>]
  /\ crashes = 0

-----------------------------------------------------------------------------
(* SessionManager: each operation is one critical section of its mutex.    *)

(* AddSession first drops the tickets that are expired and not in use.     *)
Swept == [t \in Tickets |->
            IF expired[t] /\ sessions[t] = "free" THEN "absent" ELSE sessions[t]]

Known(map) == {t \in Tickets : map[t] # "absent"}

(* fault: the limit is one too many.                                       *)
HasRoomForMore == Cardinality(Known(Swept)) <= MaxSessions

(* The session limit, after the sweep.                                     *)
HasRoom == Cardinality(Known(Swept)) < MaxSessions

(* handleScreenCaptureSession and handleLogsSession validate the request   *)
(* and resolve the device before they mint; a failure there changes        *)
(* nothing, nor does one at the limit, where the sweep found nothing.      *)
Mint(t, k) ==
  /\ ~minted[t]
  /\ HasRoom
  /\ sessions' = [Swept EXCEPT ![t] = "free"]
  /\ minted' = [minted EXCEPT ![t] = TRUE]
  /\ kind' = [kind EXCEPT ![t] = k]
  /\ UNCHANGED <<expired, viewerVars, wireVars>>

Expire(t) ==
  /\ minted[t] /\ ~expired[t]
  /\ expired' = [expired EXCEPT ![t] = TRUE]
  /\ UNCHANGED <<sessions, kind, minted, viewerVars, wireVars>>

(* GetSession: an expired ticket is known only while it is in use.         *)
Redeemable(t) == sessions[t] = "inUse" \/ (sessions[t] = "free" /\ ~expired[t])

(* fault: MarkInUse does not look at InUse.                                *)
MarkableTwice(t) == sessions[t] # "absent"

(* MarkInUse: the check and the update are one critical section.           *)
Markable(t) == sessions[t] = "free"

-----------------------------------------------------------------------------
(* The HTTP handlers handleStream and handleLogsStream.                    *)

Goto(v, l) == pc' = [pc EXCEPT ![v] = l]

(* A request for a stream and the first half of claimSession: 404 unless   *)
(* the ticket is redeemable at this endpoint.                              *)
GetSession(v, t, endpoint) ==
  /\ pc[v] = "idle" /\ minted[t]
  /\ IF Redeemable(t) /\ kind[t] = endpoint
       THEN Goto(v, "mark") /\ ticket' = [ticket EXCEPT ![v] = t]
       ELSE Goto(v, "done") /\ UNCHANGED ticket
  /\ UNCHANGED <<gone, cancelSent, outcome, admitted, ticketVars, wireVars>>

(* claimSession, second half: 409 unless nobody was quicker.               *)
MarkInUse(v) ==
  /\ pc[v] = "mark"
  /\ IF Markable(ticket[v])
       THEN /\ sessions' = [sessions EXCEPT ![ticket[v]] = "inUse"]
            /\ admitted' = [admitted EXCEPT ![ticket[v]] = @ \cup {v}]
            /\ Goto(v, "dial")
       ELSE Goto(v, "done") /\ UNCHANGED <<sessions, admitted>>
  /\ UNCHANGED <<kind, minted, expired, ticket, gone, cancelSent, outcome, wireVars>>

(* The client of the HTTP front goes away at any moment of its request.    *)
Disconnect(v) ==
  /\ pc[v] \in {"mark", "dial"} \cup OnCall /\ ~gone[v]
  /\ gone' = [gone EXCEPT ![v] = TRUE]
  /\ UNCHANGED <<pc, ticket, cancelSent, outcome, admitted, ticketVars, wireVars>>

(* streamFromDaemon: ensureDaemon and dial.                                *)
Dial(v) ==
  /\ pc[v] = "dial"
  /\ \/ /\ Goto(v, "send")
        /\ handler' = [handler EXCEPT ![v] = "accepted"]
        /\ UNCHANGED outcome
     \/ /\ Goto(v, "remove")
        /\ outcome' = [outcome EXCEPT ![v] = "error"]
        /\ UNCHANGED handler
  /\ UNCHANGED <<ticket, gone, cancelSent, admitted, ticketVars,
                 toDaemon, closed, hctx, swallowed, toClient, crashes>>

(* The deferred conn.Close and stop() of call.                             *)
EndCall(v, how) ==
  /\ outcome' = [outcome EXCEPT ![v] = how]
  /\ closed' = [closed EXCEPT ![v] = TRUE]
  /\ toClient' = [toClient EXCEPT ![v] = <<>>]
  /\ Goto(v, "remove")

DaemonAlive(v) == handler[v] # "finished"

(* sendRequest; the write fails when the daemon has died.                  *)
SendRequest(v) ==
  /\ pc[v] = "send"
  /\ IF DaemonAlive(v)
       THEN /\ toDaemon' = [toDaemon EXCEPT ![v] = Append(@, "request")]
            /\ Goto(v, "read")
            /\ UNCHANGED <<outcome, closed, toClient>>
       ELSE EndCall(v, "error") /\ UNCHANGED toDaemon
  /\ UNCHANGED <<ticket, gone, cancelSent, admitted, ticketVars,
                 handler, hctx, swallowed, crashes>>

(* fault: a cancelled call closes its connection at once.                  *)
HangUpOnCancel(v) ==
  /\ pc[v] \in OnCall /\ gone[v] /\ ~cancelSent[v]
  /\ cancelSent' = [cancelSent EXCEPT ![v] = TRUE]
  /\ EndCall(v, "grace")
  /\ UNCHANGED <<ticket, gone, admitted, ticketVars,
                 toDaemon, handler, hctx, swallowed, crashes>>

(* The AfterFunc of call: a goroutine of its own that may run before the   *)
(* request is written.  From here on the read has a deadline.              *)
SendCancel(v) ==
  /\ pc[v] \in OnCall /\ gone[v] /\ ~cancelSent[v]
  /\ cancelSent' = [cancelSent EXCEPT ![v] = TRUE]
  /\ toDaemon' = [toDaemon EXCEPT ![v] = IF DaemonAlive(v) THEN Append(@, "cancel") ELSE @]
  /\ UNCHANGED <<pc, ticket, gone, outcome, admitted, ticketVars,
                 closed, handler, hctx, swallowed, toClient, crashes>>

(* readResponse: a chunk is written to the viewer; the write fails when it *)
(* is gone or the endpoint's ten minutes are over.                         *)
ReadChunk(v) ==
  /\ pc[v] = "read" /\ toClient[v] # <<>> /\ Head(toClient[v]) = "chunk"
  /\ \/ /\ toClient' = [toClient EXCEPT ![v] = Tail(@)]
        /\ UNCHANGED <<pc, outcome, closed>>
     \/ EndCall(v, IF gone[v] THEN "viewerGone" ELSE "error")
  /\ UNCHANGED <<ticket, gone, cancelSent, admitted, ticketVars,
                 toDaemon, handler, hctx, swallowed, crashes>>

ReadResult(v) ==
  /\ pc[v] = "read" /\ toClient[v] # <<>> /\ Head(toClient[v]) # "chunk"
  /\ EndCall(v, Head(toClient[v]))
  /\ UNCHANGED <<ticket, gone, cancelSent, admitted, ticketVars,
                 toDaemon, handler, hctx, swallowed, crashes>>

(* The daemon died: the connection ends without a response.                *)
ReadEOF(v) ==
  /\ pc[v] = "read" /\ toClient[v] = <<>> /\ ~DaemonAlive(v)
  /\ EndCall(v, "error")
  /\ UNCHANGED <<ticket, gone, cancelSent, admitted, ticketVars,
                 toDaemon, handler, hctx, swallowed, crashes>>

(* fault: no deadline after a cancel.                                      *)
NoGrace(v) == FALSE /\ UNCHANGED vars

(* cancelGrace is over.  A handler that knows it is cancelled returns      *)
(* within the grace (its stop takes seconds), and the daemon's goroutines  *)
(* read and write at once: the deadline passes only when the handler was   *)
(* not told.                                                               *)
Grace(v) ==
  /\ pc[v] = "read" /\ cancelSent[v]
  /\ handler[v] = "running" /\ ~hctx[v] /\ toDaemon[v] = <<>>
  /\ EndCall(v, "grace")
  /\ UNCHANGED <<ticket, gone, cancelSent, admitted, ticketVars,
                 toDaemon, handler, hctx, swallowed, crashes>>

(* The deferred RemoveSession.                                             *)
Remove(v) ==
  /\ pc[v] = "remove"
  /\ sessions' = [sessions EXCEPT ![ticket[v]] = "absent"]
  /\ Goto(v, "done")
  /\ cancelSent' = [cancelSent EXCEPT ![v] = FALSE]
  /\ gone' = [gone EXCEPT ![v] = FALSE]
  /\ UNCHANGED <<kind, minted, expired, ticket, outcome, admitted, wireVars>>

-----------------------------------------------------------------------------
(* The daemon's side of a connection.                                      *)

(* handleConn reads the first frame with a buffered reader it then drops:  *)
(* frames that were already there go with it.  A cancel that comes first   *)
(* is taken for the request and answered "not found".                      *)
Receive(v) ==
  /\ handler[v] = "accepted" /\ toDaemon[v] # <<>>
  /\ \E n \in 1..Len(toDaemon[v]) :
       /\ toDaemon' = [toDaemon EXCEPT ![v] = SubSeq(@, n + 1, Len(@))]
       /\ swallowed' = [swallowed EXCEPT ![v] = n = 2]
  /\ IF Head(toDaemon[v]) = "request"
       THEN /\ handler' = [handler EXCEPT ![v] = "running"]
            /\ UNCHANGED toClient
       ELSE /\ handler' = [handler EXCEPT ![v] = "finished"]
            /\ toClient' = [toClient EXCEPT ![v] = IF closed[v] THEN <<>> ELSE Append(@, "error")]
  /\ UNCHANGED <<ticketVars, viewerVars, closed, hctx, crashes>>

(* cancelOnDisconnect: data or the end of the connection cancels.          *)
Watch(v) ==
  /\ handler[v] = "running" /\ ~hctx[v]
  /\ toDaemon[v] # <<>> \/ closed[v]
  /\ hctx' = [hctx EXCEPT ![v] = TRUE]
  /\ toDaemon' = [toDaemon EXCEPT ![v] = <<>>]
  /\ UNCHANGED <<ticketVars, viewerVars, closed, handler, swallowed, toClient, crashes>>

(* notify; streamScreenCapture sends no frame after the context is         *)
(* cancelled.                                                              *)
Emit(v) ==
  /\ handler[v] = "running" /\ ~hctx[v] /\ ~closed[v] /\ toClient[v] = <<>>
  /\ toClient' = [toClient EXCEPT ![v] = <<"chunk">>]
  /\ UNCHANGED <<ticketVars, viewerVars, toDaemon, closed, handler, hctx, swallowed, crashes>>

(* The handler returns: cancelled, at its limit, or because its source or  *)
(* its notify failed; handleConn writes the envelope.                      *)
Return(v) ==
  /\ handler[v] = "running" /\ Len(toClient[v]) < 2
  /\ handler' = [handler EXCEPT ![v] = "finished"]
  /\ toClient' = [toClient EXCEPT ![v] = IF closed[v] THEN <<>> ELSE Append(@, "result")]
  /\ toDaemon' = [toDaemon EXCEPT ![v] = <<>>]
  /\ hctx' = [hctx EXCEPT ![v] = FALSE]
  /\ UNCHANGED <<ticketVars, viewerVars, closed, swallowed, crashes>>

Crash ==
  /\ crashes < MaxCrashes
  /\ \E v \in Viewers : handler[v] \in {"accepted", "running"}
  /\ crashes' = crashes + 1
  /\ handler' = [v \in Viewers |-> IF handler[v] = "none" THEN "none" ELSE "finished"]
  /\ toDaemon' = [v \in Viewers |-> <<>>]
  /\ UNCHANGED <<ticketVars, viewerVars, closed, hctx, swallowed, toClient>>

-----------------------------------------------------------------------------
Serve(v) ==
  \/ MarkInUse(v) \/ Dial(v) \/ SendRequest(v)
  \/ ReadChunk(v) \/ ReadResult(v) \/ ReadEOF(v) \/ Remove(v)

(* Steps of the daemon's goroutines that nothing outside keeps waiting.    *)
Handle(v) ==
  \/ Receive(v) \/ Watch(v)
  \/ (hctx[v] /\ Return(v))

Next ==
  \/ \E t \in Tickets : Expire(t) \/ \E k \in Kinds : Mint(t, k)
  \/ \E v \in Viewers :
       \/ \E t \in Tickets, e \in Kinds : GetSession(v, t, e)
       \/ Disconnect(v) \/ SendCancel(v) \/ Grace(v) \/ Serve(v) \/ Handle(v) \/ Emit(v) \/ Return(v)
  \/ Crash

-----------------------------------------------------------------------------
(* A ticket admits one viewer ever, and it is in use exactly as long as    *)
(* that viewer is served: in-use tickets do not expire, so one left behind *)
(* would count against the limit for ever (server.go:151, 1582).           *)
OneViewerPerClaim ==
  \A t \in Tickets :
    /\ Cardinality(admitted[t]) <= 1
    /\ (sessions[t] = "inUse") <=> \E v \in admitted[t] : pc[v] \in Serving

(* A call that was cancelled still gets the handler's final result (client.go:59): *)
(* it gives up only when the daemon read the cancel together with the      *)
(* request and so never saw it.                                            *)
CancelGetsResult ==
  \A v \in Viewers : outcome[v] = "grace" => swallowed[v]

(* The steps that a viewer's goroutines, here and in the daemon, may take  *)
(* without anybody's help: Serve, SendCancel, Grace and Handle.            *)
Served(v) ==
  \/ pc[v] \in {"mark", "dial", "send", "remove"}
  \/ pc[v] = "read" /\ (toClient[v] # <<>> \/ ~DaemonAlive(v))
Cancels(v) == pc[v] \in OnCall /\ gone[v] /\ ~cancelSent[v]
RunsOut(v) ==
  pc[v] = "read" /\ cancelSent[v] /\ handler[v] = "running" /\ ~hctx[v] /\ toDaemon[v] = <<>>
Handles(v) ==
  \/ handler[v] = "accepted" /\ toDaemon[v] # <<>>
  \/ handler[v] = "running" /\ IF hctx[v] THEN Len(toClient[v]) < 2
                                           ELSE toDaemon[v] # <<>> \/ closed[v]

(* A viewer that has left is never waited for in vain: until its handlers  *)
(* here and in the daemon have ended, one of them has such a step, however *)
(* cancel, request, frames and a crash cross (daemon/client.go:59,         *)
(* daemon/server.go:239).                                                  *)
NoStreamIsStuck ==
  \A v \in Viewers :
    gone[v] \/ pc[v] = "done" =>
      \/ pc[v] = "done" /\ handler[v] \in {"none", "finished"}
      \/ Served(v) \/ Cancels(v) \/ RunsOut(v) \/ Handles(v)

(* A viewer that went away is let go of on all levels: the device stops    *)
(* streaming, the HTTP handler ends and its ticket is forgotten.           *)
StreamsEnd ==
  \A v \in Viewers :
    gone[v] ~> /\ pc[v] = "done"
               /\ handler[v] \in {"none", "finished"}
=============================================================================
