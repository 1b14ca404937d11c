----------------------------- MODULE Procedures -----------------------------
(***************************************************************************)
(* A language for the straight-line code that serves one request: which    *)
(* steps it takes, in which order, what a failure undoes, and where an     *)
(* error is swallowed or answered by something else.  A procedure is a     *)
(* sequence of items; Operations executes it.  What a step says or carries *)
(* is abstracted to a label.                                               *)
(*                                                                         *)
(* "Taken" are the things only this request knows of (temporary files,     *)
(* processes, sessions) until the code removes them or tries to: a removal *)
(* that itself fails is only logged everywhere.                            *)
(***************************************************************************)
EXTENDS Naturals, Sequences

LOCAL Item(act, label) ==
  [do |-> act, what |-> label, of |-> {}, body |-> <<>>, then |-> <<>>, else |-> <<>>,
   caught |-> FALSE, undo |-> {}]

\* Nothing to do.
Skip == <<>>

\* First P, then Q.
P ** Q == P \o Q

\* One of Ps, as the request or what was read before has it.
OneOf(Ps) == <<[Item("choose", "") EXCEPT !.of = Ps]>>
P | Q == OneOf({P, Q})
Optional(P) == P | Skip

\* A condition on the request or on what was read; nothing is asked of the device.
Check(label) == <<Item("check", label)>>

\* The operation refuses the request: the error of an unsupported call.
Reject(label) == <<Item("reject", label)>>

\* A question to the device, the host or a service.
Ask(label) == <<Item("ask", label)>>

\* A command that changes what the user sees of the device (or the fleet).
Do(label) == <<Item("change", label)>>

\* StartAgent returned without an error; P goes through the agent, whose client
\* is nil until then.
AgentStarted == <<Item("agent", "started")>>
ViaAgent(P) == <<Item("needs agent", "client")>> ** P

\* Something is created that someone has to remove, removed, or handed to a
\* deferred call that removes it however the request ends, or to an owner that
\* outlives the request.
Take(thing) == <<Item("take", thing)>>
Drop(thing) == <<Item("drop", thing)>>
Defer(thing) == <<Item("defer", thing)>>
Keep(thing) == Drop(thing)

\* Something with a deferred removal.
Temp(thing) == Take(thing) ** Defer(thing)

\* P, then Q; if P fails, R instead, and P's error is gone.
Try(P, Q, R) ==
  <<[Item("try", "") EXCEPT !.body = P, !.then = Q, !.else = R, !.caught = TRUE]>>
OrElse(P, R) == Try(P, Skip, R)
Attempt(P) == Try(P, Skip, Skip)

\* A failure inside P removes the things R, or takes back the changes R, and fails.
Undoing(R, P) == <<[Item("try", "") EXCEPT !.body = P, !.undo = R]>>
=============================================================================
