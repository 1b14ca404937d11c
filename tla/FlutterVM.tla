------------------------------ MODULE FlutterVM ------------------------------
(***************************************************************************)
(* The client of a Dart VM service that reads the render tree of a Flutter *)
(* app (android_flutter.go; the iOS paths reuse it): one goroutine per     *)
(* render object, calls over one WebSocket whose number is bounded, one    *)
(* read loop that hands out the answers.                                   *)
(*                                                                         *)
(* A step of a goroutine that makes several calls one after the other is   *)
(* one call here: each fails in the same ways and the first failure ends   *)
(* the step.  Main is the goroutine of dumpRenderTree.                     *)
(***************************************************************************)
EXTENDS Naturals, FiniteSets

CONSTANTS
  Nodes,     \* render objects
  Root,      \* the root render object
  Kids,      \* node -> its render children
  Main,      \* the goroutine of dumpRenderTree
  MaxCalls   \* maxConcurrentVMCalls (48 in the code)

(* The render objects are a tree: visit() keeps no set of the nodes it has *)
(* seen, and a node of two parents would have two goroutines.              *)
IsTree ==
  /\ \A n \in Nodes : Root \notin Kids[n]
  /\ \A m, n \in Nodes : Kids[m] \cap Kids[n] # {} => m = n
  /\ \A S \in SUBSET Nodes :
       S # {} /\ (\A n \in S : n = Root \/ \E p \in S : n \in Kids[p]) => Root \in S

FlutterAssumption ==
  /\ Root \in Nodes /\ Main \notin Nodes /\ IsFiniteSet(Nodes)
  /\ Kids \in [Nodes -> SUBSET Nodes] /\ IsTree
  /\ MaxCalls \in Nat \ {0}

Goroutines == Nodes \cup {Main}

VARIABLES
  step,     \* caller -> the step it is at
  call,     \* caller -> where its call is
  pending,  \* callers with an entry in vm.pending
  ch,       \* caller -> what is in the channel of its call
  slots,    \* entries in callSem
  conn,     \* "open", "dead", "closed"
  fatal,    \* vm.fatal is set
  err,      \* callers that return an error
  emitted,  \* nodes that gave an element
  cut,      \* nodes whose children or place were lost to the dead connection (history)
  handle,   \* the SemanticsHandle: "none", "held", "disposed", "unknown"
  report    \* what dumpFlutterTreeOverWS returned

vars == <<step, call, pending, ch, slots, conn, fatal, err, emitted, cut, handle, report>>

Bootstrap == {"isolate", "classes", "binding", "root", "zero"}
VisitSteps == {"semantics", "children", "rect", "text"}
Calling == Bootstrap \cup VisitSteps \cup {"dispose"}
Answers == {"ok", "refused", "lost"}

TypeOK ==
  /\ step \in [Goroutines -> Calling \cup {"idle", "unborn", "visit", "join", "done"}]
  /\ call \in [Goroutines -> {"entry", "slot", "sent", "ok", "refused", "lost", "dropped"}]
  /\ pending \subseteq Goroutines
  /\ ch \in [Goroutines -> Answers \cup {"empty"}]
  /\ slots \in 0..MaxCalls
  /\ conn \in {"open", "dead", "closed"}
  /\ fatal \in BOOLEAN
  /\ err \subseteq Goroutines /\ emitted \subseteq Nodes /\ cut \subseteq Nodes
  /\ handle \in {"none", "held", "disposed", "unknown"}
  /\ report \in {"none", "tree", "error"}

Init ==
  /\ step = [c \in Goroutines |-> IF c = Main THEN "idle" ELSE "unborn"]
  /\ call = [c \in Goroutines |-> "entry"]
  /\ pending = {}
  /\ ch = [c \in Goroutines |-> "empty"]
  /\ slots = 0
  /\ conn = "open"
  /\ fatal = FALSE
  /\ err = {} /\ emitted = {} /\ cut = {}
  /\ handle = "none"
  /\ report = "none"

wire == <<pending, ch, slots, conn, fatal>>
walk == <<err, emitted, cut, handle, report>>

-----------------------------------------------------------------------------
(* call(): a caller whose step is in Calling makes its call.               *)

(* The check for a dead connection, before anything else.                  *)
Enter(c) ==
  /\ step[c] \in Calling /\ call[c] = "entry"
  /\ call' = [call EXCEPT ![c] = IF fatal THEN "lost" ELSE "slot"]
  /\ UNCHANGED <<step, wire, walk>>

(* A slot is free: the call takes it and registers its channel.            *)
Register(c) ==
  /\ step[c] \in Calling /\ call[c] = "slot"
  /\ slots < MaxCalls
  /\ slots' = slots + 1
  /\ pending' = pending \cup {c}
  /\ ch' = [ch EXCEPT ![c] = "empty"]
  /\ call' = [call EXCEPT ![c] = "sent"]
  /\ UNCHANGED <<step, conn, fatal, walk>>

(* call() returns; the deferred receive gives the slot back.               *)
Hangup(c, how) ==
  /\ slots' = slots - 1
  /\ pending' = pending \ {c}
  /\ call' = [call EXCEPT ![c] = how]

(* WriteMessage fails: only a connection that is gone does that.           *)
WriteFails(c) ==
  /\ call[c] = "sent" /\ conn # "open"
  /\ Hangup(c, "dropped")
  /\ UNCHANGED <<step, ch, conn, fatal, walk>>

TakeAnswer(c) ==
  /\ call[c] = "sent" /\ ch[c] # "empty"
  /\ Hangup(c, ch[c])
  /\ UNCHANGED <<step, ch, conn, fatal, walk>>

(* 15 s are over: also when the answer is already in the channel.          *)
TimeOut(c) ==
  /\ call[c] = "sent"
  /\ Hangup(c, "refused")
  /\ UNCHANGED <<step, ch, conn, fatal, walk>>

(* readLoop: the answer to a call that is still registered.  A result of   *)
(* the wrong shape is an error of the caller, like a refusal.              *)
Answer(c, a) ==
  /\ conn = "open" /\ c \in pending /\ a # "lost"
  /\ pending' = pending \ {c}
  /\ ch' = [ch EXCEPT ![c] = a]
  /\ UNCHANGED <<step, call, slots, conn, fatal, walk>>

ConnectionDies ==
  /\ conn = "open" /\ report = "none" /\ step[Main] # "idle"
  /\ conn' = "dead"
  /\ UNCHANGED <<step, call, pending, ch, slots, fatal, walk>>

(* readLoop ends: failAll answers every call that is registered now.       *)
FailAll ==
  /\ conn # "open" /\ ~fatal
  /\ fatal' = TRUE
  /\ ch' = [c \in Goroutines |-> IF c \in pending THEN "lost" ELSE ch[c]]
  /\ pending' = {}
  /\ UNCHANGED <<step, call, slots, conn, walk>>

-----------------------------------------------------------------------------
(* dumpFlutterTreeOverWS, dumpRenderTree.                                  *)

Ended(c) == step[c] \in Calling /\ call[c] \in {"ok", "refused", "lost", "dropped"}

(* c is done with its step; the next one starts with a fresh call.         *)
Advance(c, next) ==
  /\ step' = [step EXCEPT ![c] = next]
  /\ call' = [call EXCEPT ![c] = "entry"]

Dial ==
  /\ step[Main] = "idle"
  /\ \/ Advance(Main, "isolate") /\ UNCHANGED <<conn, report>>
     \/ Advance(Main, "done") /\ conn' = "dead" /\ report' = "error"
  /\ UNCHANGED <<pending, ch, slots, fatal, err, emitted, cut, handle>>

(* vm.close and the return of the dump.                                    *)
Conclude(r) == report' = r /\ conn' = "closed"

(* The deferred disposeSemantics comes before the result is returned.      *)
GiveUp ==
  /\ err' = err \cup {Main}
  /\ IF handle = "held"
       THEN Advance(Main, "dispose") /\ UNCHANGED <<conn, report>>
       ELSE Advance(Main, "done") /\ Conclude("error")

(* getVM, getClassList, the instances of the root and of Offset.zero.      *)
Locate(s, next) ==
  /\ step[Main] = s /\ Ended(Main)
  /\ IF call[Main] = "ok" THEN Advance(Main, next) /\ UNCHANGED <<err, conn, report>>
     ELSE GiveUp
  /\ UNCHANGED <<pending, ch, slots, fatal, emitted, cut, handle>>

(* enableSemantics: already on, no binding, or a failure: nothing to       *)
(* dispose.  A call whose answer was lost may have taken effect.           *)
EnableSemantics ==
  /\ step[Main] = "binding" /\ Ended(Main)
  /\ handle' \in IF call[Main] = "ok" THEN {"none", "held"} ELSE {"none", "unknown"}
  /\ Advance(Main, "root")
  /\ UNCHANGED <<wire, err, emitted, cut, report>>

StartWalk ==
  /\ step[Main] = "zero" /\ Ended(Main)
  /\ IF call[Main] = "ok"
       THEN /\ step' = [step EXCEPT ![Main] = "join", ![Root] = "visit"]
            /\ UNCHANGED <<call, err, conn, report>>
       ELSE GiveUp
  /\ UNCHANGED <<pending, ch, slots, fatal, emitted, cut, handle>>

(* The walk's own error, the last look at vm.fatal, and an empty tree.     *)
WholeTree == Root \notin err /\ ~fatal /\ emitted # {}

EndWalk ==
  /\ step[Main] = "join" /\ step[Root] = "done"
  /\ err' = IF WholeTree THEN err ELSE err \cup {Main}
  /\ IF handle = "held"
       THEN Advance(Main, "dispose") /\ UNCHANGED <<conn, report>>
       ELSE Advance(Main, "done") /\ Conclude(IF WholeTree THEN "tree" ELSE "error")
  /\ UNCHANGED <<pending, ch, slots, fatal, emitted, cut, handle>>

(* Its outcome is ignored.                                                 *)
DisposeSemantics ==
  /\ step[Main] = "dispose" /\ Ended(Main)
  /\ handle' = IF call[Main] = "ok" THEN "disposed" ELSE "unknown"
  /\ Advance(Main, "done")
  /\ Conclude(IF Main \in err THEN "error" ELSE "tree")
  /\ UNCHANGED <<pending, ch, slots, fatal, err, emitted, cut>>

-----------------------------------------------------------------------------
(* visit(): the walk below one node.                                       *)

(* The read loop told the caller, or its own request could not be written. *)
NoteCut(n) == cut' = IF call[n] \in {"lost", "dropped"} THEN cut \cup {n} ELSE cut

Visit(n) ==
  /\ step[n] = "visit"
  /\ Advance(n, IF fatal THEN "done" ELSE "semantics")
  /\ err' = IF fatal THEN err \cup {n} ELSE err
  /\ UNCHANGED <<wire, emitted, cut, handle, report>>

(* readNodeSemantics: a control or a merging boundary is emitted as one;   *)
(* a node whose semantics cannot be read has none.                         *)
ReadSemantics(n) ==
  /\ step[n] = "semantics" /\ Ended(n)
  /\ \/ call[n] = "ok" /\ Advance(n, "rect")
     \/ Advance(n, "children")
  /\ UNCHANGED <<wire, err, emitted, cut, handle, report>>

(* fault: the goroutines of the children run while the parent keeps a slot. *)
ChildrenOfHoldingSlot(n) ==
  /\ step[n] = "children" /\ Ended(n)
  /\ IF call[n] = "ok" /\ Kids[n] # {}
       THEN /\ step' = [m \in Goroutines |-> IF m \in Kids[n] THEN "visit"
                                          ELSE IF m = n THEN "join" ELSE step[m]]
            /\ slots' = slots + 1
            /\ UNCHANGED call
       ELSE Advance(n, "rect") /\ UNCHANGED slots
  /\ NoteCut(n)
  /\ UNCHANGED <<pending, ch, conn, fatal, err, emitted, handle, report>>

(* childrenOf: a node that cannot describe its children is taken for a     *)
(* leaf; a wrapper starts a goroutine per child.                           *)
ChildrenOf(n) ==
  /\ step[n] = "children" /\ Ended(n)
  /\ IF call[n] = "ok" /\ Kids[n] # {}
       THEN /\ step' = [m \in Goroutines |-> IF m \in Kids[n] THEN "visit"
                                          ELSE IF m = n THEN "join" ELSE step[m]]
            /\ UNCHANGED call
       ELSE Advance(n, "rect")
  /\ NoteCut(n)
  /\ UNCHANGED <<wire, err, emitted, handle, report>>

Join(n) ==
  /\ step[n] = "join" /\ \A k \in Kids[n] : step[k] = "done"
  /\ Advance(n, "done")
  /\ err' = IF Kids[n] \cap err = {} THEN err ELSE err \cup {n}
  /\ UNCHANGED <<wire, emitted, cut, handle, report>>

(* emitLeaf: without a rectangle, or an empty one, there is no element.    *)
GlobalRect(n) ==
  /\ step[n] = "rect" /\ Ended(n)
  /\ \/ /\ call[n] = "ok"
        /\ emitted' = emitted \cup {n}
        /\ Advance(n, "text")
     \/ Advance(n, "done") /\ UNCHANGED emitted
  /\ NoteCut(n)
  /\ UNCHANGED <<wire, err, handle, report>>

(* extractText: an element whose text cannot be read has none.             *)
ExtractText(n) ==
  /\ step[n] = "text" /\ Ended(n)
  /\ Advance(n, "done")
  /\ UNCHANGED <<wire, err, emitted, cut, handle, report>>

Calls(c) ==
  Enter(c) \/ Register(c) \/ WriteFails(c) \/ TakeAnswer(c) \/ TimeOut(c)

MainStep ==
  \/ Dial \/ Locate("isolate", "classes") \/ Locate("classes", "binding")
  \/ EnableSemantics \/ Locate("root", "zero") \/ StartWalk \/ EndWalk \/ DisposeSemantics

VisitStep(n) ==
  \/ Visit(n) \/ ReadSemantics(n) \/ ChildrenOf(n) \/ Join(n) \/ GlobalRect(n) \/ ExtractText(n)

Run(c) == IF c = Main THEN Calls(c) \/ MainStep ELSE Calls(c) \/ VisitStep(c)

Next ==
  \/ \E c \in Goroutines : Run(c) \/ \E a \in Answers : Answer(c, a)
  \/ ConnectionDies \/ FailAll

-----------------------------------------------------------------------------
(* What is reported as the whole tree has no node whose children or whose  *)
(* place on the screen were lost to the end of the connection: "it must    *)
(* not masquerade as an empty subtree" (android_flutter.go:623).           *)
ThinTreeIsReported == report = "tree" => cut = {}

(* A goroutine has a step to take: it may start, its call gets a slot or   *)
(* its answer, or those it waits for are done.                             *)
CanRun(c) ==
  \/ step[c] \in {"idle", "visit"}
  \/ step[c] \in Calling /\ (call[c] = "slot" => slots < MaxCalls)
  \/ step[c] = "join" /\ \A k \in (IF c = Main THEN {Root} ELSE Kids[c]) : step[k] = "done"

(* Until the dump has returned some goroutine can go on: however few slots *)
(* there are, those who hold them never wait for those who want one        *)
(* (android_flutter.go:145, 236).                                          *)
WalkGoesOn == report = "none" => \E c \in Goroutines : CanRun(c)

(* The dump ends, whatever the shape of the tree and however few slots     *)
(* there are, also when calls register behind the read loop's back and     *)
(* nobody answers them (android_flutter.go:232).                           *)
WalkEnds == <>(report # "none")
=============================================================================
