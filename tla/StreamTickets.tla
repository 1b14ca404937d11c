----------------------------- MODULE StreamTickets -----------------------------
(***************************************************************************)
(* What the HTTP front promises of the tickets it hands out for streams,   *)
(* with no handler, daemon or connection: a ticket is offered once, lapses *)
(* or is claimed by one viewer, is in use as long as that viewer is served *)
(* and is then spent for ever; and there are never more than so many of    *)
(* them.  StreamSessions (server/server.go) is shown to implement it.      *)
(***************************************************************************)
EXTENDS Naturals, FiniteSets

CONSTANTS Ticket, Viewer, Limit

VARIABLES
  life,   \* ticket -> "new", "offered", "claimed" or "spent"
  served  \* ticket -> the viewers that are served with it

vars == <<life, served>>

Init ==
  /\ life = [t \in Ticket |-> "new"]
  /\ served = [t \in Ticket |-> {}]

(* Those that count against the limit.                                     *)
Known == {t \in Ticket : life[t] \in {"offered", "claimed"}}

(* A new ticket takes a place that is free, or that others that nobody has *)
(* claimed leave to it.                                                    *)
Offer(t, lapsed) ==
  /\ life[t] = "new"
  /\ \A l \in lapsed : life[l] = "offered"
  /\ Cardinality(Known \ lapsed) < Limit
  /\ life' = [l \in Ticket |-> IF l = t THEN "offered"
                               ELSE IF l \in lapsed THEN "spent" ELSE life[l]]
  /\ UNCHANGED served

(* Only the first viewer that claims a ticket is served.                   *)
Claim(t, v) ==
  /\ life[t] = "offered" /\ served[t] = {}
  /\ life' = [life EXCEPT ![t] = "claimed"]
  /\ served' = [served EXCEPT ![t] = {v}]

(* The viewer's request is over, and with it the ticket.                   *)
Release(t) ==
  /\ life[t] = "claimed" /\ served[t] # {}
  /\ life' = [life EXCEPT ![t] = "spent"]
  /\ served' = [served EXCEPT ![t] = {}]

Next ==
  \E t \in Ticket :
    \/ \E lapsed \in SUBSET Ticket : Offer(t, lapsed)
    \/ \E v \in Viewer : Claim(t, v)
    \/ Release(t)

Spec == Init /\ [][Next]_vars
=============================================================================
