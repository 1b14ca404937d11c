------------------------------ MODULE WebSocket ------------------------------
(***************************************************************************)
(* One WebSocket connection of the HTTP front (websocket.go): the reader   *)
(* goroutine, at most MaxHandlers handler goroutines and the ping          *)
(* goroutine, all of which write under one mutex.                          *)
(*                                                                         *)
(* A message is known by its class, which is what the checks in            *)
(* readMessages, handleWSMessage and handleWSMethodCall tell apart: "bad"  *)
(* is binary, no JSON, or without version, id or method.                   *)
(***************************************************************************)
EXTENDS Naturals, Sequences, FiniteSets

CONSTANTS
  MaxMessages,  \* how many messages the client sends (a bound)
  MaxHandlers   \* wsMaxConcurrentHandlers (4 in the code)

WebSocketAssumption == MaxMessages \in Nat /\ MaxHandlers \in Nat \ {0}

Messages == 1..MaxMessages
Classes == {"bad", "unknown", "call"}
Running == {"dispatch", "reply", "release"}

VARIABLES
  inbox,    \* messages sent and not yet read
  pc,       \* message -> where its handling is
  slots,    \* entries in handlerSem
  answer,   \* message -> the reply chosen for it
  replies,  \* message -> replies the client has received
  broken,   \* a write has failed: gorilla fails every later one
  open,     \* the reader has not left its loop
  pinging   \* the ping goroutine lives

vars == <<inbox, pc, slots, answer, replies, broken, open, pinging>>

Init ==
  /\ inbox = <<>>
  /\ pc = [m \in Messages |-> "unsent"]
  /\ slots = 0
  /\ answer = [m \in Messages |-> "none"]
  /\ replies = [m \in Messages |-> 0]
  /\ broken = FALSE
  /\ open = TRUE
  /\ pinging = TRUE

TypeOK ==
  /\ inbox \in Seq([id : Messages, class : Classes])
  /\ pc \in [Messages -> {"unsent", "sent", "byReader", "done"} \cup Running]
  /\ slots \in 0..MaxHandlers
  /\ answer \in [Messages -> {"none", "refused", "busy", "result", "error", "panic"}]
  /\ replies \in [Messages -> 0..1]
  /\ {broken, open, pinging} \subseteq BOOLEAN

Send(m, c) ==
  /\ open /\ pc[m] = "unsent" /\ \A k \in 1..m-1 : pc[k] # "unsent"
  /\ inbox' = Append(inbox, [id |-> m, class |-> c])
  /\ pc' = [pc EXCEPT ![m] = "sent"]
  /\ UNCHANGED <<slots, answer, replies, broken, open, pinging>>

ReaderIsFree == \A m \in Messages : pc[m] # "byReader"

(* The reader answers m itself before it reads on.                         *)
ReaderAnswers(m, a) ==
  /\ answer' = [answer EXCEPT ![m] = a]
  /\ pc' = [pc EXCEPT ![m] = "byReader"]
  /\ UNCHANGED slots

(* fault: the limit is noticed one handler too late.                      *)
NoticedLate == slots > MaxHandlers

AllBusy == slots = MaxHandlers

(* readMessages, handleWSMessage, handleWSMethodCall: the slot is taken    *)
(* without waiting, or the request is refused.                             *)
Read ==
  /\ open /\ ReaderIsFree /\ inbox # <<>>
  /\ LET m == Head(inbox).id IN
       IF Head(inbox).class \in {"bad", "unknown"} THEN ReaderAnswers(m, "refused")
       ELSE IF AllBusy THEN ReaderAnswers(m, "busy")
       ELSE /\ slots' = slots + 1
            /\ pc' = [pc EXCEPT ![m] = "dispatch"]
            /\ UNCHANGED answer
  /\ inbox' = Tail(inbox)
  /\ UNCHANGED <<replies, broken, open, pinging>>

(* fault: a recovered panic is logged and not answered.                    *)
DispatchQuietly(m) ==
  /\ pc[m] = "dispatch"
  /\ \E a \in {"result", "error", "panic"} :
       /\ answer' = [answer EXCEPT ![m] = a]
       /\ pc' = [pc EXCEPT ![m] = IF a = "panic" THEN "release" ELSE "reply"]
  /\ UNCHANGED <<inbox, slots, replies, broken, open, pinging>>

(* dispatchRPC: an HTTP-only method runs here, any other is forwarded to   *)
(* the daemon, started if need be, with a timeout.  Either may fail or     *)
(* panic; the deferred recover turns a panic into an error reply.          *)
Dispatch(m) ==
  /\ pc[m] = "dispatch"
  /\ \E a \in {"result", "error", "panic"} : answer' = [answer EXCEPT ![m] = a]
  /\ pc' = [pc EXCEPT ![m] = "reply"]
  /\ UNCHANGED <<inbox, slots, replies, broken, open, pinging>>

WriteOutcomes == IF broken \/ ~open THEN {FALSE} ELSE BOOLEAN

(* sendJSON, by the handler or the reader, under the write mutex.  The     *)
(* write fails when its 10 s are over or the connection is closed; that is *)
(* only logged.                                                            *)
Reply(m) ==
  /\ pc[m] \in {"reply", "byReader"}
  /\ \E ok \in WriteOutcomes :
       /\ replies' = IF ok THEN [replies EXCEPT ![m] = @ + 1] ELSE replies
       /\ broken' = (broken \/ ~ok)
  /\ pc' = [pc EXCEPT ![m] = IF @ = "reply" THEN "release" ELSE "done"]
  /\ UNCHANGED <<inbox, slots, answer, open, pinging>>

(* pingLoop: a ping that cannot be written ends the pings.                 *)
Ping ==
  /\ pinging
  /\ \E ok \in WriteOutcomes : broken' = (broken \/ ~ok) /\ pinging' = ok
  /\ UNCHANGED <<inbox, pc, slots, answer, replies, open>>

(* fault: a handler that panicked keeps its slot.                          *)
ReleaseUnlessPanic(m) ==
  /\ pc[m] = "release"
  /\ pc' = [pc EXCEPT ![m] = "done"]
  /\ slots' = IF answer[m] = "panic" THEN slots ELSE slots - 1
  /\ UNCHANGED <<inbox, answer, replies, broken, open, pinging>>

(* The first of the handler's two defers: it runs after the reply.         *)
Release(m) ==
  /\ pc[m] = "release"
  /\ pc' = [pc EXCEPT ![m] = "done"]
  /\ slots' = slots - 1
  /\ UNCHANGED <<inbox, answer, replies, broken, open, pinging>>

(* ReadMessage fails: the client closes, or no pong came for wsPongWait.   *)
(* The connection is closed and the pings stop; handlers run on.           *)
ReaderEnds ==
  /\ open /\ ReaderIsFree
  /\ open' = FALSE
  /\ pinging' = FALSE
  /\ UNCHANGED <<inbox, pc, slots, answer, replies, broken>>

Handle(m) == Dispatch(m) \/ Reply(m) \/ Release(m)

Next ==
  \/ \E m \in Messages : Handle(m) \/ \E c \in Classes : Send(m, c)
  \/ Read \/ Ping \/ ReaderEnds

-----------------------------------------------------------------------------
(* The slots that are taken are those of the requests being handled, also  *)
(* after errors, panics and failed writes: none is lost, so a connection   *)
(* never ends up refusing everything (websocket.go:218).                   *)
SlotsAreHandlers == slots = Cardinality({m \in Messages : pc[m] \in Running})

(* Every message is answered, however handlers, pings and refusals compete *)
(* for the connection, unless the connection fails.                        *)
RequestsAreAnswered ==
  \A m \in Messages : pc[m] = "sent" ~> (replies[m] = 1 \/ broken \/ ~open)

(* A message that was sent is in the inbox until the reader takes it, and  *)
(* one whose handling is over was answered, unless a write has failed: no  *)
(* error, panic or refusal forgets it (websocket.go:210).                  *)
NoMessageIsForgotten ==
  \A m \in Messages :
    /\ pc[m] = "sent" => \E i \in 1..Len(inbox) : inbox[i].id = m
    /\ pc[m] \in {"release", "done"} => replies[m] = 1 \/ broken
=============================================================================
