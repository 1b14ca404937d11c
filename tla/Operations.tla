----------------------------- MODULE Operations -----------------------------
(***************************************************************************)
(* One request, from its parameters to its answer: the procedure of the    *)
(* method for the class of the device (ServerOps has them), executed step  *)
(* by step, with every failure each step may have.                         *)
(*                                                                         *)
(* A request runs on its own here.  A step that fails is taken as not      *)
(* having happened; AndroidServer has the calls whose outcome is unknown.  *)
(***************************************************************************)
EXTENDS Naturals, Sequences

CONSTANT Methods  \* class of device -> method -> procedure

VARIABLES
  op, class,  \* the method and the class of the device
  stack,      \* the calls: what is left to do in each, and what its failure does
  agent,      \* the agent was started by this request
  held,       \* things taken and not yet removed
  deferred,   \* things that deferred calls remove at the end
  changed,    \* what was changed on the device
  outcome     \* "running", "ok" or "error"
vars == <<op, class, stack, agent, held, deferred, changed, outcome>>

Frame(body, then, else, caught, undo) ==
  [todo |-> body, then |-> then, else |-> else, caught |-> caught, undo |-> undo]

Init ==
  /\ class \in DOMAIN Methods
  /\ op \in DOMAIN Methods[class]
  /\ stack = <<Frame(Methods[class][op], <<>>, <<>>, FALSE, {})>>
  /\ agent = FALSE
  /\ held = {} /\ deferred = {} /\ changed = {}
  /\ outcome = "running"

---------------------------------------------------------------------------
Depth == Len(stack)
Busy == outcome = "running" /\ Depth > 0 /\ stack[Depth].todo # <<>>
Next1 == Head(stack[Depth].todo)
Below(n, before) ==
  [SubSeq(stack, 1, n - 1) EXCEPT ![n - 1].todo = before \o @]
Advanced(before) == [stack EXCEPT ![Depth].todo = before \o Tail(@)]

\* A step that succeeds.
Succeed ==
  /\ Busy
  /\ Next1.do \notin {"choose", "try", "reject"}
  /\ stack' = Advanced(<<>>)
  /\ agent' = (agent \/ Next1.do = "agent")
  /\ held' = CASE Next1.do = "take" -> held \cup {Next1.what}
               [] Next1.do = "drop" -> held \ {Next1.what}
               [] OTHER -> held
  /\ deferred' = IF Next1.do = "defer" THEN deferred \cup {Next1.what} ELSE deferred
  /\ changed' = IF Next1.do = "change" THEN changed \cup {Next1.what} ELSE changed
  /\ UNCHANGED <<op, class, outcome>>

\* A branch, and the start of a call whose failure is dealt with here.
Branch ==
  /\ Busy
  /\ Next1.do = "choose"
  /\ \E p \in Next1.of : stack' = Advanced(p)
  /\ UNCHANGED <<op, class, agent, held, deferred, changed, outcome>>

Call ==
  /\ Busy
  /\ Next1.do = "try"
  /\ stack' = Append(Advanced(<<>>),
                     Frame(Next1.body, Next1.then, Next1.else, Next1.caught, Next1.undo))
  /\ UNCHANGED <<op, class, agent, held, deferred, changed, outcome>>

Returned ==
  /\ outcome = "running" /\ Depth > 1
  /\ stack[Depth].todo = <<>>
  /\ stack' = Below(Depth, stack[Depth].then)
  /\ UNCHANGED <<op, class, agent, held, deferred, changed, outcome>>

\* A step that fails: the calls it is in undo what they have to, up to the one
\* that has another way.
Fails ==
  /\ Busy
  /\ Next1.do \in {"check", "reject", "ask", "change", "take"}
  /\ LET catching == {n \in 1..Depth : stack[n].caught}
         left == IF catching = {} THEN 1 ELSE CHOOSE n \in catching : \A k \in catching : k <= n
         undone == UNION {stack[n].undo : n \in left..Depth}
     IN /\ held' = held \ undone
        /\ changed' = changed \ undone
        /\ IF catching = {}
           THEN stack' = <<>> /\ outcome' = "error"
           ELSE stack' = Below(left, stack[left].else) /\ UNCHANGED outcome
  /\ UNCHANGED <<op, class, agent, deferred>>

\* Deferred calls run however the request ends.
Answer ==
  /\ \/ outcome = "error" /\ stack = <<>> /\ deferred # {}
     \/ outcome = "running" /\ Depth = 1 /\ stack[1].todo = <<>>
  /\ held' = held \ deferred
  /\ deferred' = {}
  /\ stack' = <<>>
  /\ outcome' = IF outcome = "error" THEN "error" ELSE "ok"
  /\ UNCHANGED <<op, class, agent, changed>>

Next == Succeed \/ Branch \/ Call \/ Returned \/ Fails \/ Answer
Spec == Init /\ [][Next]_vars
---------------------------------------------------------------------------
Ended == outcome # "running" /\ deferred = {}

\* Only a request that ended has nothing left to do, and all calls are those
\* of a method of its class of device.
TypeOK ==
  /\ class \in DOMAIN Methods /\ op \in DOMAIN Methods[class]
  /\ agent \in BOOLEAN
  /\ outcome \in {"running", "ok", "error"}
  /\ (outcome = "running") = (stack # <<>>)

\* The agent is only used once StartAgent has set its client, whichever branch
\* led there: the code calls the client without looking whether it is nil.
AgentBeforeUse == Busy /\ Next1.do = "needs agent" => agent

\* What the code is known to leave: the forward to the agent injected into an
\* app of a real iOS device is never stopped; the others are missing clean-ups
\* of one failure each.
Leaks ==
  {"ios"} \X {"forward to the injected agent", "output file"}
    \cup {"android"} \X {"recording on the device", "file in /data/local/tmp"}
    \cup {"simulator"} \X {"unzipped app"}
    \cup {"remote"} \X {"remote recording", "partial download", "session"}

\* However a request ends, what it took for itself is gone: temporary files,
\* processes, connections and forwards, here and on the device; and a removal is
\* deferred only for what was taken and is still there.
NothingLeftBehind ==
  /\ deferred \subseteq held
  /\ Ended => \A thing \in held : <<class, thing>> \in Leaks

\* Requests of several changes keep the first ones when a later one fails.
Leftovers ==
  LET one(m, c, what) == {m} \X {c} \X what
      broadcast == {"capture app", "picker tap", "button", "bitrate"}
  IN one("apps_launch", "android", {"app locales"})
       \cup one("orientation_set", "android", {"auto-rotation off"})
       \cup one("settings_apply", "android",
                {"window animations", "transition animations", "animator duration"})
       \cup one("text", "android", {"clipboard"})
       \cup one("fs_push", "android", {"push"})
       \cup one("location_clear", "android", {"location off", "appop revoked"})
       \cup one("boot", "simulator", {"boot"})
       \cup one("reboot", "simulator", {"shutdown"})
       \cup one("apps_clear", "simulator", {"terminate", "first entries removed"})
       \cup {"agent_install"} \X {"ios", "simulator"} \X {"uninstall", "install"}
       \cup one("agent_install", "remote", {"install"})
       \cup {"screencapture", "screenrecord"} \X {"ios"} \X broadcast
       \cup {"webview_url", "webview_title", "webview_query", "webview_evaluate"}
              \X {"android", "ios", "simulator"} \X {"webview evaluate"}

\* A request that is answered with an error has changed nothing on the device,
\* except for the ones above: a mock location in particular takes its appop back.
FailedLeavesDevice ==
  Ended /\ outcome = "error" => \A what \in changed : <<op, class, what>> \in Leftovers
=============================================================================
