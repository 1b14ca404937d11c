---------------------------- MODULE FlutterVMProofs ----------------------------
(***************************************************************************)
(* Proofs about FlutterVM, for any render tree and any number of slots.    *)
(***************************************************************************)
EXTENDS FlutterVM, FiniteSetTheorems, TLAPS

Alive(n) == step[n] \notin {"unborn", "done"}

(* Whoever hears of the dead connection, or did, does so after failAll.    *)
LostIsFatal ==
  \A c \in Goroutines : call[c] = "lost" \/ ch[c] = "lost" => fatal

(* A node is visited while its parent waits for it, and no node before the *)
(* walk begins or after it.                                                *)
Walk ==
  /\ \A n \in Nodes : Alive(n) => n = Root \/ \E p \in Nodes : n \in Kids[p] /\ step[p] = "join"
  /\ \A n \in Nodes : step[n] \notin {"join", "done"} => \A k \in Kids[n] : step[k] = "unborn"
  /\ step[Main] \in Bootstrap \cup {"idle"} => \A n \in Nodes : step[n] = "unborn"
  /\ step[Main] \in {"dispose", "done"} => \A n \in Nodes : ~Alive(n)

(* Nothing is reported before Main is done.                                *)
Outcome == report # "none" => step[Main] = "done"

Senders == {c \in Goroutines : call[c] = "sent"}

(* The slots are those of the calls that wait for their answers.           *)
Slots ==
  /\ slots = Cardinality(Senders)
  /\ \A c \in Goroutines : call[c] = "sent" => step[c] \in Calling

IInv == TypeOK /\ LostIsFatal /\ Walk /\ Outcome /\ Slots

-----------------------------------------------------------------------------
States == Calling \cup {"idle", "unborn", "visit", "join", "done"}
CallStates == {"entry", "slot", "sent", "ok", "refused", "lost", "dropped"}

(* The invariant holds before the dump.                                    *)
LEMMA InitIInv == FlutterAssumption /\ Init => IInv
<1> SUFFICES ASSUME FlutterAssumption, Init
             PROVE  IInv
  OBVIOUS
<1> USE DEF FlutterAssumption, Init, Goroutines
<1>1. TypeOK
  <2>1. /\ step \in [Goroutines -> States] /\ call \in [Goroutines -> CallStates]
        /\ ch \in [Goroutines -> Answers \cup {"empty"}]
    BY DEF States, CallStates
  <2>2. /\ pending \subseteq Goroutines /\ slots \in 0..MaxCalls
        /\ conn \in {"open", "dead", "closed"}
    OBVIOUS
  <2>3. /\ err \subseteq Goroutines /\ emitted \subseteq Nodes /\ cut \subseteq Nodes
        /\ handle \in {"none", "held", "disposed", "unknown"}
        /\ report \in {"none", "tree", "error"}
    OBVIOUS
  <2>4. fatal \in BOOLEAN
    OBVIOUS
  <2>. QED
    BY <2>1, <2>2, <2>3, <2>4 DEF TypeOK, States, CallStates
<1>2. LostIsFatal
  BY DEF LostIsFatal
<1>3. Walk
  BY DEF Walk, Alive, Bootstrap
<1>4. Outcome
  BY DEF Outcome
<1>5. Slots
  <2>1. Senders = {}
    BY DEF Senders
  <2>. QED
    BY <2>1, FS_EmptySet DEF Slots
<1>. QED
  BY <1>1, <1>2, <1>3, <1>4, <1>5 DEF IInv

(* Once its root is done nobody is visited: the ancestors of a node that   *)
(* is visited wait for it, up to the root.                                 *)
LEMMA RootLast ==
  ASSUME FlutterAssumption, Walk, ~Alive(Root)
  PROVE  \A n \in Nodes : ~Alive(n)
<1> DEFINE S == {n \in Nodes : Alive(n)}
<1>1. \A n \in S : n = Root \/ \E p \in S : n \in Kids[p]
  <2>1. \A p \in Nodes : step[p] = "join" => p \in S
    BY DEF Alive
  <2>. QED
    BY <2>1 DEF Walk
<1>2. Root \notin S /\ S \in SUBSET Nodes
  OBVIOUS
<1> HIDE DEF S
<1>3. S = {}
  BY <1>1, <1>2 DEF FlutterAssumption, IsTree
<1>. QED
  BY <1>3 DEF S

(* The calls that wait for answers are finitely many.                      *)
LEMMA SendersAreFinite == FlutterAssumption => IsFiniteSet(Senders)
<1> SUFFICES ASSUME FlutterAssumption
             PROVE  IsFiniteSet(Senders)
  OBVIOUS
<1>1. IsFiniteSet(Goroutines)
  BY FS_AddElement DEF FlutterAssumption, Goroutines
<1>. QED
  BY <1>1, FS_Subset DEF Senders

(* The slots follow the calls: one is taken and given back with each.      *)
LEMMA SlotsFollow ==
  ASSUME FlutterAssumption, IInv, NEW c \in Goroutines, NEW w,
         call' = [call EXCEPT ![c] = w],
         slots' = slots + (IF w = "sent" THEN 1 ELSE 0) - (IF call[c] = "sent" THEN 1 ELSE 0)
  PROVE  slots' = Cardinality(Senders') /\ slots' \in Nat
<1>1. /\ IsFiniteSet(Senders) /\ slots = Cardinality(Senders) /\ slots \in Nat
      /\ DOMAIN call = Goroutines
  BY SendersAreFinite DEF IInv, TypeOK, Slots, FlutterAssumption
<1>2. CASE w = "sent" /\ call[c] # "sent"
  <2>1. Senders' = Senders \cup {c} /\ c \notin Senders
    BY <1>1, <1>2 DEF Senders
  <2>. QED
    BY <1>1, <1>2, <2>1, FS_AddElement
<1>3. CASE w # "sent" /\ call[c] = "sent"
  <2>1. Senders' = Senders \ {c} /\ c \in Senders
    BY <1>1, <1>3 DEF Senders
  <2>2. Cardinality(Senders') \in Nat /\ Cardinality(Senders') = slots - 1
    BY <1>1, <2>1, FS_RemoveElement, FS_CardinalityType
  <2>. QED
    BY <1>1, <1>3, <2>2
<1>4. CASE w = "sent" <=> call[c] = "sent"
  <2>1. Senders' = Senders
    BY <1>1, <1>4 DEF Senders
  <2>. QED
    BY <1>1, <1>4, <2>1
<1>. QED
  BY <1>2, <1>3, <1>4

(* A step of call() of a goroutine c, up to w.                             *)
LEMMA CallMoves ==
  ASSUME FlutterAssumption, IInv, NEW c \in Goroutines, NEW w \in CallStates,
         call' = [call EXCEPT ![c] = w],
         w = "sent" => step[c] \in Calling /\ slots < MaxCalls,
         slots' = slots + (IF w = "sent" THEN 1 ELSE 0) - (IF call[c] = "sent" THEN 1 ELSE 0),
         w = "lost" => fatal,
         pending' \subseteq Goroutines, ch' \in [Goroutines -> Answers \cup {"empty"}],
         \A d \in Goroutines : ch'[d] = "lost" => ch[d] = "lost",
         UNCHANGED <<step, conn, fatal, walk>>
  PROVE  IInv'
<1> USE DEF IInv
<1>1. UNCHANGED <<err, emitted, cut, handle, report>>
  BY DEF walk
<1>2. slots' = Cardinality(Senders') /\ slots' \in Nat /\ MaxCalls \in Nat /\ slots \in 0..MaxCalls
  BY SlotsFollow DEF FlutterAssumption, TypeOK
<1>3. slots' \in 0..MaxCalls
  BY <1>2
<1>4. TypeOK'
  <2>1. call' \in [Goroutines -> CallStates]
    BY DEF TypeOK, CallStates
  <2>2. step' \in [Goroutines -> States]
    BY DEF TypeOK, States
  <2>3. /\ conn' \in {"open", "dead", "closed"} /\ fatal' \in BOOLEAN
        /\ err' \subseteq Goroutines /\ emitted' \subseteq Nodes /\ cut' \subseteq Nodes
        /\ handle' \in {"none", "held", "disposed", "unknown"}
        /\ report' \in {"none", "tree", "error"}
    BY <1>1 DEF TypeOK
  <2>. QED
    BY <1>3, <2>1, <2>2, <2>3 DEF TypeOK, States, CallStates, Goroutines, Answers, Calling
<1>5. LostIsFatal'
  BY <1>1 DEF LostIsFatal, TypeOK, Goroutines
<1>6. Walk' /\ Outcome'
  BY <1>1 DEF Walk, Outcome, Alive, Bootstrap
<1>7. Slots'
  BY <1>2 DEF Slots, TypeOK, Goroutines, Calling
<1>. QED
  BY <1>4, <1>5, <1>6, <1>7

(* call(), and the read loop with the connection it reads from.            *)
LEMMA WireStep ==
  ASSUME FlutterAssumption, IInv,
         \/ \E c \in Goroutines : Calls(c) \/ \E a \in Answers : Answer(c, a)
         \/ ConnectionDies \/ FailAll
  PROVE  IInv'
<1>0. TypeOK /\ LostIsFatal /\ slots \in Nat
  BY DEF IInv, TypeOK, FlutterAssumption
<1>1. ASSUME NEW c \in Goroutines, Calls(c)
      PROVE  IInv'
  <2>0. /\ call[c] \in CallStates /\ pending \subseteq Goroutines
        /\ ch \in [Goroutines -> Answers \cup {"empty"}]
    BY <1>0 DEF TypeOK, CallStates
  <2>1. CASE Enter(c)
    <3>1. PICK w \in {"lost", "slot"} : call' = [call EXCEPT ![c] = w] /\ (w = "lost" => fatal)
      BY <2>1 DEF Enter
    <3>2. call[c] = "entry" /\ UNCHANGED <<step, pending, ch, slots, conn, fatal, walk>>
      BY <2>1 DEF Enter, wire
    <3>3. slots' = slots + (IF w = "sent" THEN 1 ELSE 0) - (IF call[c] = "sent" THEN 1 ELSE 0)
      BY <1>0, <3>1, <3>2
    <3>4. w \in CallStates /\ w # "sent" /\ pending' \subseteq Goroutines
          /\ ch' \in [Goroutines -> Answers \cup {"empty"}]
          /\ \A d \in Goroutines : ch'[d] = "lost" => ch[d] = "lost"
      BY <2>0, <3>1, <3>2 DEF CallStates
    <3>. QED
      BY <3>1, <3>2, <3>3, <3>4, CallMoves
  <2>2. CASE Register(c)
    <3>1. /\ call' = [call EXCEPT ![c] = "sent"] /\ call[c] = "slot" /\ slots' = slots + 1
          /\ step[c] \in Calling /\ slots < MaxCalls /\ pending' \subseteq Goroutines
          /\ ch' \in [Goroutines -> Answers \cup {"empty"}]
          /\ \A d \in Goroutines : ch'[d] = "lost" => ch[d] = "lost"
          /\ UNCHANGED <<step, conn, fatal, walk>>
      BY <2>0, <2>2 DEF Register
    <3>2. slots' = slots + (IF "sent" = "sent" THEN 1 ELSE 0) - (IF call[c] = "sent" THEN 1 ELSE 0)
      BY <1>0, <3>1
    <3>3. "sent" \in CallStates /\ "sent" # "lost"
      BY DEF CallStates
    <3>. QED
      BY <3>1, <3>2, <3>3, CallMoves
  <2>3. ASSUME NEW w \in {"dropped", "ok", "refused", "lost"}, w = "lost" => fatal,
               call[c] = "sent", Hangup(c, w), UNCHANGED <<step, ch, conn, fatal, walk>>
        PROVE  IInv'
    <3>1. /\ call' = [call EXCEPT ![c] = w] /\ slots' = slots - 1 /\ pending' \subseteq Goroutines
      BY <2>0, <2>3 DEF Hangup
    <3>2. slots' = slots + (IF w = "sent" THEN 1 ELSE 0) - (IF call[c] = "sent" THEN 1 ELSE 0)
      BY <1>0, <2>3, <3>1
    <3>3. w \in CallStates /\ w # "sent"
          /\ ch' \in [Goroutines -> Answers \cup {"empty"}]
          /\ \A d \in Goroutines : ch'[d] = "lost" => ch[d] = "lost"
      BY <2>0, <2>3 DEF CallStates
    <3>. QED
      BY <2>3, <3>1, <3>2, <3>3, CallMoves
  <2>4. CASE WriteFails(c)
    BY <2>3, <2>4 DEF WriteFails
  <2>5. CASE TakeAnswer(c)
    <3>1. ch[c] \in {"ok", "refused", "lost"} /\ (ch[c] = "lost" => fatal)
      BY <1>0, <2>0, <2>5 DEF TakeAnswer, LostIsFatal, Answers
    <3>. QED
      BY <2>3, <2>5, <3>1 DEF TakeAnswer
  <2>6. CASE TimeOut(c)
    BY <2>3, <2>6 DEF TimeOut
  <2>. QED
    BY <1>1, <2>1, <2>2, <2>4, <2>5, <2>6 DEF Calls
<1>2. ASSUME pending' \subseteq Goroutines, ch' \in [Goroutines -> Answers \cup {"empty"}],
             conn' \in {"open", "dead", "closed"}, fatal' \in BOOLEAN, fatal => fatal',
             \A c \in Goroutines : ch'[c] = "lost" => fatal' \/ ch[c] = "lost",
             UNCHANGED <<step, call, slots, walk>>
      PROVE  IInv'
  <2>1. UNCHANGED <<err, emitted, cut, handle, report>>
    BY <1>2 DEF walk
  <2>2. TypeOK'
    BY <1>0, <1>2, <2>1 DEF TypeOK, Goroutines, Answers, Calling
  <2>3. LostIsFatal'
    BY <1>0, <1>2, <2>1 DEF LostIsFatal, Goroutines
  <2>4. Walk' /\ Outcome' /\ Slots'
    BY <1>2, <2>1 DEF IInv, Walk, Outcome, Slots, Senders, Alive, Bootstrap, Goroutines, Calling
  <2>. QED
    BY <2>2, <2>3, <2>4 DEF IInv
<1>3. ASSUME NEW c \in Goroutines, NEW a \in Answers, Answer(c, a)
      PROVE  IInv'
  BY <1>0, <1>2, <1>3 DEF Answer, TypeOK
<1>4. CASE ConnectionDies
  BY <1>0, <1>2, <1>4 DEF ConnectionDies, TypeOK
<1>5. CASE FailAll
  <2>1. /\ ch' \in [Goroutines -> Answers \cup {"empty"}] /\ pending' = {} /\ fatal' = TRUE
        /\ conn' \in {"open", "dead", "closed"} /\ UNCHANGED <<step, call, slots, conn, walk>>
    BY <1>0, <1>5 DEF FailAll, TypeOK, Answers
  <2>. QED
    BY <1>2, <1>5, <2>1 DEF FailAll
<1>. QED
  BY <1>1, <1>3, <1>4, <1>5

(* A goroutine goes on between calls, or starts others that have not made  *)
(* any: whatever it decides, types and slots are kept.                     *)
LEMMA Marches ==
  ASSUME FlutterAssumption, IInv,
         step' \in [Goroutines -> States], call' \in [Goroutines -> CallStates],
         \A c \in Goroutines : call'[c] = call[c] \/ (call'[c] = "entry" /\ call[c] # "sent"),
         \A c \in Goroutines : call[c] = "sent" => step'[c] = step[c],
         UNCHANGED <<pending, ch, slots, fatal>>, conn' \in {"open", "dead", "closed"},
         err' \subseteq Goroutines, emitted' \subseteq Nodes, cut' \subseteq Nodes,
         handle' \in {"none", "held", "disposed", "unknown"},
         report' \in {"none", "tree", "error"}
  PROVE  TypeOK' /\ LostIsFatal' /\ Slots'
<1>0. TypeOK /\ LostIsFatal /\ Slots
  BY DEF IInv
<1>1. TypeOK'
  <2>1. /\ pending' \subseteq Goroutines /\ ch' \in [Goroutines -> Answers \cup {"empty"}]
        /\ slots' \in 0..MaxCalls
    BY <1>0 DEF TypeOK
  <2>2. fatal' \in BOOLEAN
    BY <1>0 DEF TypeOK
  <2>. QED
    BY <2>1, <2>2 DEF TypeOK, States, CallStates, Goroutines, Answers, Calling
<1>2. LostIsFatal'
  BY <1>0 DEF LostIsFatal, Goroutines
<1>3. Slots'
  <2>1. Senders' = Senders
    BY DEF Senders, Goroutines
  <2>. QED
    BY <1>0, <2>1 DEF Slots, Goroutines, Calling, Senders
<1>. QED
  BY <1>1, <1>2, <1>3

(* The same for the one step of a goroutine that has no call out.          *)
LEMMA Advances ==
  ASSUME FlutterAssumption, IInv, NEW c \in Goroutines, NEW next \in States,
         Advance(c, next), step[c] \notin Calling \/ Ended(c),
         UNCHANGED <<pending, ch, slots, fatal>>, conn' \in {"open", "dead", "closed"},
         err' \subseteq Goroutines, emitted' \subseteq Nodes, cut' \subseteq Nodes,
         handle' \in {"none", "held", "disposed", "unknown"},
         report' \in {"none", "tree", "error"}
  PROVE  /\ TypeOK' /\ LostIsFatal' /\ Slots'
         /\ step'[c] = next /\ \A d \in Goroutines : d # c => step'[d] = step[d]
<1>1. step \in [Goroutines -> States] /\ call \in [Goroutines -> CallStates] /\ call[c] # "sent"
  BY DEF IInv, TypeOK, Slots, States, CallStates, Ended
<1>2. /\ step' = [step EXCEPT ![c] = next] /\ call' = [call EXCEPT ![c] = "entry"]
  BY DEF Advance
<1>3. /\ step' \in [Goroutines -> States] /\ call' \in [Goroutines -> CallStates]
      /\ \A d \in Goroutines : call'[d] = call[d] \/ (call'[d] = "entry" /\ call[d] # "sent")
      /\ \A d \in Goroutines : call[d] = "sent" => step'[d] = step[d]
  BY <1>1, <1>2 DEF CallStates
<1>4. step'[c] = next /\ \A d \in Goroutines : d # c => step'[d] = step[d]
  BY <1>1, <1>2
<1>. QED
  BY <1>3, <1>4, Marches

(* The steps of dumpRenderTree before the walk.                            *)
LEMMA BeforeWalk ==
  ASSUME FlutterAssumption, IInv,
         \/ Dial \/ EnableSemantics
         \/ \E s \in Bootstrap, next \in Bootstrap : Locate(s, next)
         \/ StartWalk /\ call[Main] # "ok"
  PROVE  IInv'
<1>0. /\ TypeOK /\ LostIsFatal /\ Walk /\ Outcome /\ Main \in Goroutines /\ Nodes \subseteq Goroutines
      /\ Main \notin Nodes
  BY DEF IInv, Goroutines, FlutterAssumption
<1>1. /\ step[Main] \in Bootstrap \cup {"idle"} /\ (step[Main] \notin Calling \/ Ended(Main))
      /\ UNCHANGED <<pending, ch, slots, fatal, emitted, cut>>
      /\ step[Main] \in {"binding", "idle"} \/ UNCHANGED handle
      /\ handle' \in {"none", "held", "disposed", "unknown"}
  <2>0. handle \in {"none", "held", "disposed", "unknown"}
    BY <1>0 DEF TypeOK
  <2>1. CASE Dial
    BY <2>0, <2>1 DEF Dial, Bootstrap, Calling, VisitSteps
  <2>2. CASE EnableSemantics
    BY <2>2 DEF EnableSemantics, Bootstrap, wire
  <2>3. ASSUME NEW s \in Bootstrap, NEW next \in Bootstrap, Locate(s, next)
        PROVE  /\ step[Main] \in Bootstrap /\ Ended(Main)
               /\ UNCHANGED <<pending, ch, slots, fatal, emitted, cut, handle>>
    BY <2>3 DEF Locate
  <2>4. CASE StartWalk
    BY <2>0, <2>4 DEF StartWalk, Bootstrap
  <2>. QED
    BY <2>0, <2>1, <2>2, <2>3, <2>4
<1>2. \A n \in Nodes : step[n] = "unborn"
  BY <1>0, <1>1 DEF Walk
<1> DEFINE Decides(next) ==
             /\ Advance(Main, next)
             /\ err' = err \/ err' = err \cup {Main}
             /\ next = "dispose" => err' = err \cup {Main}
             /\ next = "done" => report' = "error" /\ conn' \in {"dead", "closed"}
             /\ next # "done" => UNCHANGED <<conn, report>>
<1>3. PICK next \in Bootstrap \cup {"dispose", "done"} : Decides(next)
  <2>1. CASE Dial
    <3>1. Decides("isolate") \/ Decides("done")
      BY <2>1 DEF Dial
    <3>. QED
      BY <3>1 DEF Bootstrap
  <2>2. CASE EnableSemantics
    <3>1. Decides("root")
      BY <2>2 DEF EnableSemantics, wire
    <3>. QED
      BY <3>1 DEF Bootstrap
  <2>3. ASSUME GiveUp
        PROVE  Decides("dispose") \/ Decides("done")
    BY <2>3 DEF GiveUp, Conclude
  <2>4. ASSUME NEW s \in Bootstrap, NEW n \in Bootstrap, Locate(s, n)
        PROVE  Decides(n) \/ GiveUp
    BY <2>4 DEF Locate, Bootstrap
  <2>5. StartWalk /\ call[Main] # "ok" => GiveUp
    BY DEF StartWalk
  <2> HIDE DEF Decides
  <2>. QED
    BY <2>1, <2>2, <2>3, <2>4, <2>5
<1>4. /\ err' \subseteq Goroutines /\ emitted' \subseteq Nodes /\ cut' \subseteq Nodes
      /\ conn' \in {"open", "dead", "closed"} /\ report' \in {"none", "tree", "error"}
  BY <1>0, <1>1, <1>3 DEF TypeOK, LostIsFatal
<1>5. next \in States
  BY <1>3 DEF States, Calling
<1>6. /\ TypeOK' /\ LostIsFatal' /\ Slots'
      /\ step'[Main] = next /\ \A d \in Goroutines : d # Main => step'[d] = step[d]
  BY <1>0, <1>1, <1>3, <1>4, <1>5, Advances
<1>7. \A n \in Nodes : step'[n] = "unborn"
  BY <1>0, <1>2, <1>6
<1>8. Walk'
  <2>1. Kids \in [Nodes -> SUBSET Nodes]
    BY DEF FlutterAssumption
  <2>. QED
    BY <1>7, <2>1 DEF Walk, Alive
<1>9. Outcome'
  BY <1>0, <1>1, <1>3, <1>6 DEF Outcome, Bootstrap
<1>. QED
  BY <1>6, <1>8, <1>9 DEF IInv

(* dumpRenderTree starts the walk, and concludes from what it left.        *)
LEMMA AroundWalk ==
  ASSUME FlutterAssumption, IInv,
         (StartWalk /\ call[Main] = "ok") \/ EndWalk \/ DisposeSemantics
  PROVE  IInv'
<1>0. /\ TypeOK /\ LostIsFatal /\ Walk /\ Outcome /\ Main \in Goroutines /\ Nodes \subseteq Goroutines
      /\ Main \notin Nodes /\ Root \in Nodes /\ Kids \in [Nodes -> SUBSET Nodes]
      /\ Goroutines = Nodes \cup {Main}
  BY DEF IInv, Goroutines, FlutterAssumption
<1>1. CASE StartWalk /\ call[Main] = "ok"
  <2>1. /\ step[Main] = "zero" /\ Ended(Main) /\ \A n \in Nodes : step[n] = "unborn"
        /\ step' = [step EXCEPT ![Main] = "join", ![Root] = "visit"]
        /\ UNCHANGED <<call, err, conn, report, pending, ch, slots, fatal, emitted, cut, handle>>
    BY <1>0, <1>1 DEF StartWalk, Walk, Bootstrap
  <2>2. /\ step' \in [Goroutines -> States] /\ step'[Main] = "join" /\ step'[Root] = "visit"
        /\ \A c \in Goroutines : c \notin {Main, Root} => step'[c] = step[c]
    BY <1>0, <2>1 DEF TypeOK, States
  <2>3. \A c \in Goroutines : call[c] = "sent" => step'[c] = step[c]
    BY <1>0, <2>1, <2>2 DEF IInv, Slots, Calling, Bootstrap, VisitSteps, Ended
  <2>4. TypeOK' /\ LostIsFatal' /\ Slots'
    <3>1. call' \in [Goroutines -> CallStates]
      BY <1>0, <2>1 DEF TypeOK, CallStates
    <3>. QED
      BY <1>0, <2>1, <2>2, <2>3, <3>1, Marches DEF TypeOK, LostIsFatal
  <2>5. Walk'
    <3>1. \A n \in Nodes : step'[n] = IF n = Root THEN "visit" ELSE "unborn"
      BY <1>0, <2>1, <2>2
    <3>2. \A n \in Nodes : \A k \in Kids[n] : k \in Nodes /\ k # Root
      BY <1>0 DEF FlutterAssumption, IsTree
    <3>. QED
      BY <2>2, <3>1, <3>2 DEF Walk, Alive, Bootstrap
  <2>6. Outcome'
    BY <1>0, <2>1, <2>2 DEF Outcome
  <2>. QED
    BY <2>4, <2>5, <2>6 DEF IInv
<1>2. ASSUME NEW next \in {"dispose", "done"}, Advance(Main, next),
             step[Main] \notin Calling \/ Ended(Main), \A n \in Nodes : ~Alive(n),
             step[Main] \in {"join", "dispose"},
             UNCHANGED <<pending, ch, slots, fatal, emitted, cut>>,
             handle' \in {"none", "held", "disposed", "unknown"},
             err' = err \/ err' = err \cup {Main}, conn' \in {"open", "dead", "closed"},
             IF next = "dispose" THEN UNCHANGED report ELSE report' \in {"tree", "error"}
      PROVE  IInv'
  <2>1. /\ err' \subseteq Goroutines /\ emitted' \subseteq Nodes /\ cut' \subseteq Nodes
          /\ report' \in {"none", "tree", "error"} /\ next \in States
    BY <1>0, <1>2 DEF TypeOK, LostIsFatal, States, Calling
  <2>2. /\ TypeOK' /\ LostIsFatal' /\ Slots'
        /\ step'[Main] = next /\ \A d \in Goroutines : d # Main => step'[d] = step[d]
    BY <1>0, <1>2, <2>1, Advances
  <2>3. \A n \in Nodes : step'[n] = step[n]
    BY <1>0, <2>2
  <2>4. Walk'
    <3>1. \A n \in Nodes : \A k \in Kids[n] : k \in Nodes
      BY <1>0
    <3>. QED
      BY <1>0, <1>2, <2>2, <2>3, <3>1 DEF Walk, Alive, Bootstrap
  <2>5. Outcome'
    BY <1>0, <1>2, <2>2 DEF Outcome
  <2>. QED
    BY <2>2, <2>4, <2>5 DEF IInv
<1>3. CASE EndWalk
  <2>1. /\ step[Main] = "join" /\ step[Root] = "done"
        /\ err' = IF WholeTree THEN err ELSE err \cup {Main}
        /\ UNCHANGED <<pending, ch, slots, fatal, emitted, cut, handle>>
    BY <1>3 DEF EndWalk
  <2>2. \A n \in Nodes : ~Alive(n)
    BY <1>0, <2>1, RootLast DEF Alive
  <2>3. step[Main] \notin Calling /\ report = "none"
    BY <1>0, <2>1 DEF Calling, Bootstrap, VisitSteps, Outcome
  <2>5. CASE handle = "held"
    <3>1. Advance(Main, "dispose") /\ UNCHANGED <<conn, report>>
      BY <1>3, <2>5 DEF EndWalk
    <3>. QED
      BY <1>0, <1>2, <2>1, <2>2, <2>3, <3>1 DEF TypeOK
  <2>6. CASE handle # "held"
    <3>1. /\ Advance(Main, "done") /\ conn' = "closed"
          /\ report' = IF WholeTree THEN "tree" ELSE "error"
      BY <1>3, <2>6 DEF EndWalk, Conclude
    <3>. QED
      BY <1>0, <1>2, <2>1, <2>2, <2>3, <3>1 DEF TypeOK
  <2>. QED
    BY <2>5, <2>6
<1>4. CASE DisposeSemantics
  <2>1. /\ step[Main] = "dispose" /\ Ended(Main) /\ Advance(Main, "done") /\ conn' = "closed"
        /\ report' = IF Main \in err THEN "error" ELSE "tree"
        /\ handle' \in {"disposed", "unknown"}
        /\ UNCHANGED <<pending, ch, slots, fatal, err, emitted, cut>>
    BY <1>4 DEF DisposeSemantics, Conclude
  <2>2. \A n \in Nodes : ~Alive(n)
    BY <1>0, <2>1 DEF Walk
  <2>. QED
    BY <1>0, <1>2, <2>1, <2>2 DEF TypeOK
<1>. QED
  BY <1>1, <1>3, <1>4

(* visit() below one node.                                                 *)
LEMMA VisitKeeps ==
  ASSUME FlutterAssumption, IInv, NEW n \in Nodes, VisitStep(n)
  PROVE  IInv'
<1>0. /\ TypeOK /\ LostIsFatal /\ Walk /\ Outcome /\ Main \in Goroutines /\ Nodes \subseteq Goroutines
      /\ Main \notin Nodes /\ n \in Goroutines /\ Kids \in [Nodes -> SUBSET Nodes] /\ Kids[n] \subseteq Nodes
  BY DEF IInv, Goroutines, FlutterAssumption
<1>1. /\ Alive(n) /\ (step[n] \notin Calling \/ Ended(n))
      /\ UNCHANGED <<pending, ch, slots, fatal, conn, handle, report>>
  BY DEF VisitStep, Visit, ReadSemantics, ChildrenOf, Join, GlobalRect, ExtractText, Alive,
     Calling, Bootstrap, VisitSteps, wire
<1>2. /\ err' \subseteq Goroutines /\ emitted' \subseteq Nodes
  BY <1>0 DEF VisitStep, Visit, ReadSemantics, ChildrenOf, Join, GlobalRect, ExtractText, TypeOK
<1>3. cut' \subseteq Nodes
  BY <1>0 DEF VisitStep, Visit, ReadSemantics, ChildrenOf, Join, GlobalRect, ExtractText, NoteCut,
     TypeOK, LostIsFatal
<1>4. /\ conn' \in {"open", "dead", "closed"} /\ report' \in {"none", "tree", "error"}
      /\ handle' \in {"none", "held", "disposed", "unknown"}
  BY <1>0, <1>1 DEF TypeOK
<1>5. step[Main] \notin Bootstrap \cup {"idle", "dispose", "done"} /\ report' = "none"
  BY <1>0, <1>1 DEF Walk, Outcome, Alive, TypeOK
<1>6. ASSUME NEW next \in VisitSteps \cup {"done"}, Advance(n, next),
             step[n] = "join" => next = "done" /\ \A k \in Kids[n] : step[k] = "done"
      PROVE  IInv'
  <2>1. /\ TypeOK' /\ LostIsFatal' /\ Slots'
        /\ step'[n] = next /\ \A d \in Goroutines : d # n => step'[d] = step[d]
    BY <1>0, <1>1, <1>2, <1>3, <1>4, <1>6, Advances DEF States, Calling
  <2>2. step'[Main] = step[Main] /\ \A m \in Nodes : m # n => step'[m] = step[m]
    BY <1>0, <2>1
  <2>3. ASSUME NEW m \in Nodes, Alive(m)'
        PROVE  m = Root \/ \E p \in Nodes : m \in Kids[p] /\ step'[p] = "join"
    <3>1. Alive(m)
      BY <1>1, <2>2, <2>3 DEF Alive
    <3>2. CASE m # Root
      <4>1. PICK p \in Nodes : m \in Kids[p] /\ step[p] = "join"
        BY <1>0, <3>1, <3>2 DEF Walk
      <4>2. p # n
        <5>1. CASE m = n
          BY <1>6, <2>1, <2>3, <4>1, <5>1 DEF Alive
        <5>2. CASE m # n
          BY <1>6, <3>1, <4>1 DEF Alive
        <5>. QED
          BY <5>1, <5>2
      <4>. QED
        BY <2>2, <4>1, <4>2
    <3>. QED
      BY <3>2
  <2>4. ASSUME NEW m \in Nodes, step'[m] \notin {"join", "done"}, NEW k \in Kids[m]
        PROVE  step'[k] = "unborn"
    <3>1. step[m] \notin {"join", "done"}
      BY <1>1, <1>6, <2>1, <2>2, <2>4 DEF Alive
    <3>2. step[k] = "unborn" /\ k \in Nodes
      BY <1>0, <3>1 DEF Walk
    <3>. QED
      BY <1>1, <2>2, <3>2 DEF Alive
  <2>5. Walk' /\ Outcome'
    BY <1>5, <2>2, <2>3, <2>4 DEF Walk, Outcome, Alive
  <2>. QED
    BY <2>1, <2>5 DEF IInv
<1>7. CASE ChildrenOf(n) /\ call[n] = "ok" /\ Kids[n] # {}
  <2>1. /\ step[n] = "children" /\ UNCHANGED call
        /\ step' = [m \in Goroutines |-> IF m \in Kids[n] THEN "visit"
                                         ELSE IF m = n THEN "join" ELSE step[m]]
    BY <1>7 DEF ChildrenOf
  <2>2. \A k \in Kids[n] : step[k] = "unborn" /\ k \in Nodes
    BY <1>0, <2>1 DEF Walk
  <2>3. n \notin Kids[n] /\ Main \notin Kids[n]
    BY <1>0, <2>1, <2>2
  <2>4. /\ step'[n] = "join" /\ \A k \in Kids[n] : step'[k] = "visit"
        /\ \A m \in Goroutines : m # n /\ m \notin Kids[n] => step'[m] = step[m]
        /\ step' \in [Goroutines -> States]
    <3>1. step \in [Goroutines -> States] /\ {"visit", "join"} \subseteq States
      BY <1>0 DEF TypeOK, States
    <3>. QED
      BY <1>0, <2>1, <2>2, <2>3, <3>1
  <2>5. \A c \in Goroutines : call[c] = "sent" => step'[c] = step[c]
    BY <1>0, <1>7, <2>2, <2>4 DEF IInv, Slots, Calling, Bootstrap, VisitSteps
  <2>6. TypeOK' /\ LostIsFatal' /\ Slots'
    <3>1. call' \in [Goroutines -> CallStates] /\ \A c \in Goroutines : call'[c] = call[c]
      BY <1>0, <2>1 DEF TypeOK, CallStates
    <3>. QED
      BY <1>1, <1>2, <1>3, <1>4, <2>4, <2>5, <3>1, Marches
  <2>7. ASSUME NEW m \in Nodes, Alive(m)'
        PROVE  m = Root \/ \E p \in Nodes : m \in Kids[p] /\ step'[p] = "join"
    <3>1. CASE m \in Kids[n]
      BY <2>4, <3>1
    <3>2. CASE m \notin Kids[n] /\ m # Root
      <4>1. Alive(m)
        BY <1>0, <1>1, <2>4, <2>7, <3>2 DEF Alive
      <4>2. PICK p \in Nodes : m \in Kids[p] /\ step[p] = "join"
        BY <1>0, <3>2, <4>1 DEF Walk
      <4>3. p \notin Kids[n]
        BY <2>2, <4>2
      <4>. QED
        BY <1>0, <2>4, <4>2, <4>3
    <3>. QED
      BY <3>1, <3>2
  <2>8. ASSUME NEW m \in Nodes, step'[m] \notin {"join", "done"}, NEW k \in Kids[m]
        PROVE  step'[k] = "unborn"
    <3>1. m # n /\ step[m] \notin {"join", "done"}
      BY <1>0, <2>2, <2>4, <2>8
    <3>2. step[k] = "unborn" /\ k \in Nodes
      BY <1>0, <3>1 DEF Walk
    <3>3. k \notin Kids[n]
      BY <3>1 DEF FlutterAssumption, IsTree
    <3>. QED
      BY <1>0, <2>1, <2>4, <3>2, <3>3
  <2>9. step'[Main] = step[Main]
    BY <1>0, <2>3, <2>4
  <2>10. Walk' /\ Outcome'
    BY <1>5, <2>7, <2>8, <2>9 DEF Walk, Outcome, Alive
  <2>. QED
    BY <2>6, <2>10 DEF IInv
<1>8. CASE Visit(n) \/ ReadSemantics(n) \/ GlobalRect(n) \/ ExtractText(n)
  BY <1>6, <1>8 DEF Visit, ReadSemantics, GlobalRect, ExtractText, VisitSteps
<1>9. CASE Join(n)
  BY <1>6, <1>9 DEF Join
<1>10. CASE ChildrenOf(n) /\ ~(call[n] = "ok" /\ Kids[n] # {})
  BY <1>6, <1>10 DEF ChildrenOf, VisitSteps
<1>. QED
  BY <1>7, <1>8, <1>9, <1>10 DEF VisitStep

(* Every step keeps the invariant.                                         *)
LEMMA NextIInv == FlutterAssumption /\ IInv /\ [Next]_vars => IInv'
<1> SUFFICES ASSUME FlutterAssumption, IInv, [Next]_vars
             PROVE  IInv'
  OBVIOUS
<1>1. CASE MainStep
  BY <1>1, BeforeWalk, AroundWalk DEF MainStep, Bootstrap
<1>2. CASE UNCHANGED vars
  BY <1>2 DEF vars, IInv, TypeOK, LostIsFatal, Walk, Outcome, Slots, Senders, Alive
<1>3. ASSUME NEW c \in Goroutines, Run(c)
      PROVE  Calls(c) \/ MainStep \/ (c \in Nodes /\ VisitStep(c))
  BY <1>3 DEF Run, Goroutines
<1>. QED
  BY <1>1, <1>2, <1>3, WireStep, VisitKeeps DEF Next

(* The invariant contains the type of the state.                           *)
LEMMA IInvTypeOK == IInv => TypeOK
  BY DEF IInv

-----------------------------------------------------------------------------
(* The dump does not get stuck.                                            *)

(* Each goroutine is at a step of its own kind, and those that somebody    *)
(* waits for have been started.                                            *)
Begun ==
  /\ step[Main] \in Bootstrap \cup {"idle", "join", "dispose", "done"}
  /\ \A n \in Nodes : step[n] \in VisitSteps \cup {"unborn", "visit", "join", "done"}
  /\ step[Main] = "join" => step[Root] # "unborn"
  /\ \A n \in Nodes : step[n] = "join" => \A k \in Kids[n] : step[k] # "unborn"
  /\ step[Main] = "done" => report # "none"

(* No goroutine has begun.                                                 *)
LEMMA InitBegun == FlutterAssumption /\ Init => Begun
  BY DEF FlutterAssumption, Init, Begun, Goroutines, Bootstrap

(* dumpRenderTree goes on to a step of its own.                            *)
LEMMA MainBegun ==
  ASSUME FlutterAssumption, IInv, Begun, MainStep
  PROVE  Begun'
<1>0. /\ Main \in Goroutines /\ Nodes \subseteq Goroutines /\ Main \notin Nodes /\ Root \in Nodes
      /\ DOMAIN step = Goroutines /\ Kids \in [Nodes -> SUBSET Nodes]
  BY DEF IInv, TypeOK, Goroutines, FlutterAssumption
<1>1. CASE StartWalk /\ call[Main] = "ok"
  <2>1. step' = [step EXCEPT ![Main] = "join", ![Root] = "visit"] /\ UNCHANGED report
    BY <1>1 DEF StartWalk
  <2>2. /\ step'[Main] = "join" /\ step'[Root] = "visit"
        /\ \A n \in Nodes : n # Root => step'[n] = step[n]
    BY <1>0, <2>1
  <2>. QED
    BY <1>0, <2>2 DEF Begun
<1>2. ASSUME NEW next \in Bootstrap \cup {"dispose", "done"}, Advance(Main, next),
             next = "done" => report' # "none"
      PROVE  Begun'
  <2>1. step'[Main] = next /\ \A n \in Nodes : step'[n] = step[n]
    BY <1>0, <1>2 DEF Advance
  <2>2. \A n \in Nodes : \A k \in Kids[n] : k \in Nodes
    BY <1>0
  <2>. QED
    BY <1>2, <2>1, <2>2 DEF Begun, Bootstrap
<1>3. CASE GiveUp
  BY <1>2, <1>3 DEF GiveUp, Conclude
<1>4. CASE Dial \/ EnableSemantics \/ EndWalk \/ DisposeSemantics
  BY <1>2, <1>4 DEF Dial, EnableSemantics, EndWalk, DisposeSemantics, Conclude, Bootstrap
<1>5. ASSUME NEW at \in Bootstrap, NEW next \in Bootstrap, Locate(at, next)
      PROVE  Begun'
  BY <1>2, <1>3, <1>5 DEF Locate, Bootstrap
<1>. QED
  BY <1>1, <1>3, <1>4, <1>5 DEF MainStep, StartWalk, Bootstrap

(* A visit goes on to a step of its own, and starts those it waits for.    *)
LEMMA VisitBegun ==
  ASSUME FlutterAssumption, IInv, Begun, NEW n \in Nodes, VisitStep(n)
  PROVE  Begun'
<1>0. /\ Nodes \subseteq Goroutines /\ Main \notin Nodes /\ DOMAIN step = Goroutines
      /\ Kids \in [Nodes -> SUBSET Nodes] /\ Root \in Nodes /\ Main \in Goroutines
  BY DEF IInv, TypeOK, Goroutines, FlutterAssumption
<1>1. UNCHANGED report
  BY DEF VisitStep, Visit, ReadSemantics, ChildrenOf, Join, GlobalRect, ExtractText
<1>2. CASE ChildrenOf(n) /\ call[n] = "ok" /\ Kids[n] # {}
  <2>1. step' = [m \in Goroutines |-> IF m \in Kids[n] THEN "visit"
                                      ELSE IF m = n THEN "join" ELSE step[m]]
    BY <1>2 DEF ChildrenOf
  <2>2. /\ step'[Main] = step[Main]
        /\ \A m \in Nodes : step'[m] \in {"visit", "join", step[m]}
    BY <1>0, <2>1
  <2>3. ASSUME NEW m \in Nodes, step'[m] = "join", NEW k \in Kids[m]
        PROVE  step'[k] # "unborn"
    <3>1. k \in Nodes
      BY <1>0
    <3>2. CASE m = n
      BY <1>0, <2>1, <3>1, <3>2
    <3>3. CASE m # n
      <4>1. step[m] = "join"
        BY <1>0, <2>1, <2>3, <3>3
      <4>. QED
        BY <2>2, <3>1, <4>1 DEF Begun
    <3>. QED
      BY <3>2, <3>3
  <2>. QED
    BY <1>0, <1>1, <2>2, <2>3 DEF Begun
<1>3. ASSUME NEW next \in VisitSteps \cup {"done"}, Advance(n, next)
      PROVE  Begun'
  <2>1. /\ step'[n] = next /\ step'[Main] = step[Main]
        /\ \A m \in Nodes : m # n => step'[m] = step[m]
    BY <1>0, <1>3 DEF Advance
  <2>2. \A m \in Nodes : \A k \in Kids[m] : k \in Nodes
    BY <1>0
  <2>. QED
    BY <1>0, <1>1, <1>3, <2>1, <2>2 DEF Begun, VisitSteps
<1>4. CASE Visit(n) \/ ReadSemantics(n) \/ GlobalRect(n) \/ ExtractText(n) \/ Join(n)
  BY <1>3, <1>4 DEF Visit, ReadSemantics, GlobalRect, ExtractText, Join, VisitSteps
<1>5. CASE ChildrenOf(n) /\ ~(call[n] = "ok" /\ Kids[n] # {})
  BY <1>3, <1>5 DEF ChildrenOf, VisitSteps
<1>. QED
  BY <1>2, <1>4, <1>5 DEF VisitStep

(* Every step keeps the dump begun, and the parents of whatever is visited at work. *)
LEMMA NextBegun == FlutterAssumption /\ IInv /\ Begun /\ [Next]_vars => Begun'
<1> SUFFICES ASSUME FlutterAssumption, IInv, Begun, [Next]_vars
             PROVE  Begun'
  OBVIOUS
<1>1. CASE UNCHANGED <<step, report>>
  BY <1>1 DEF Begun
<1>2. UNCHANGED vars => UNCHANGED <<step, report>>
  BY DEF vars
<1>3. \A c \in Goroutines : Calls(c) => UNCHANGED <<step, report>>
  BY DEF Calls, Enter, Register, WriteFails, TakeAnswer, TimeOut, walk
<1>4. (\E c \in Goroutines, a \in Answers : Answer(c, a)) \/ ConnectionDies \/ FailAll
        => UNCHANGED <<step, report>>
  BY DEF Answer, ConnectionDies, FailAll, walk
<1>. QED
  BY <1>1, <1>2, <1>3, <1>4, MainBegun, VisitBegun DEF Next, Run, Goroutines

(* Somebody who holds a slot is not waiting for one: its call is answered  *)
(* or times out.                                                           *)
LEMMA SlotHolderRuns ==
  ASSUME FlutterAssumption, IInv, ~(slots < MaxCalls)
  PROVE  \E c \in Goroutines : CanRun(c)
<1>1. slots # 0 /\ slots = Cardinality(Senders)
  BY DEF IInv, TypeOK, Slots, FlutterAssumption
<1>2. PICK c \in Goroutines : call[c] = "sent"
  <2>1. Senders # {}
    BY <1>1, FS_EmptySet
  <2>. QED
    BY <2>1 DEF Senders
<1>3. step[c] \in Calling
  BY <1>2 DEF IInv, Slots
<1>. QED
  BY <1>2, <1>3 DEF CanRun

(* Not all nodes that are visited wait for others: the one each of them    *)
(* waits for would be another one's child and never the root, and there    *)
(* are as many of those as there are nodes that wait, less the root.       *)
LEMMA SomebodyIsNotJoining ==
  ASSUME FlutterAssumption, Begun, Alive(Root)
  PROVE  \E n \in Nodes : Alive(n) /\ (step[n] = "join" => \A k \in Kids[n] : step[k] = "done")
<1> DEFINE A == {n \in Nodes : Alive(n)}
           f == [n \in A |-> CHOOSE k \in Kids[n] : Alive(k)]
<1> SUFFICES ASSUME \A n \in A : step[n] = "join" /\ \E k \in Kids[n] : step[k] # "done"
             PROVE  FALSE
  OBVIOUS
<1>1. Root \in A /\ IsFiniteSet(A)
  BY FS_Subset DEF FlutterAssumption
<1>2. \A n \in A : \E k \in Kids[n] : Alive(k)
  BY DEF Begun, Alive
<1>3. \A n \in A : f[n] \in Kids[n] /\ Alive(f[n])
  BY <1>2
<1>4. f \in [A -> A \ {Root}]
  <2>1. \A n \in A : f[n] \in A /\ f[n] # Root
    BY <1>3 DEF FlutterAssumption, IsTree
  <2>. QED
    BY <2>1
<1> HIDE DEF f, A
<1>5. Cardinality(A \ {Root}) < Cardinality(A) /\ IsFiniteSet(A \ {Root})
  <2>1. IsFiniteSet(A \ {Root}) /\ Cardinality(A \ {Root}) = Cardinality(A) - 1
    BY <1>1, FS_RemoveElement
  <2>2. Cardinality(A) \in Nat
    BY <1>1, FS_CardinalityType
  <2>. QED
    BY <2>1, <2>2
<1>6. PICK m, n \in A : m # n /\ f[m] = f[n]
  BY <1>1, <1>4, <1>5, FS_PigeonHole
<1>7. m \in Nodes /\ n \in Nodes
  BY DEF A
<1>. QED
  BY <1>3, <1>6, <1>7 DEF FlutterAssumption, IsTree

(* Until the dump has returned some goroutine can go on, for every tree    *)
(* and however few slots there are (android_flutter.go:145).               *)
LEMMA BegunWalkGoesOn == FlutterAssumption /\ IInv /\ Begun => WalkGoesOn
<1> SUFFICES ASSUME FlutterAssumption, IInv, Begun, report = "none"
             PROVE  \E c \in Goroutines : CanRun(c)
  BY DEF WalkGoesOn
<1>1. CASE ~(slots < MaxCalls)
  BY <1>1, SlotHolderRuns
<1>2. CASE slots < MaxCalls /\ step[Main] # "join"
  <2>1. step[Main] \in Calling \cup {"idle"}
    BY <1>2 DEF Begun, Calling
  <2>. QED
    BY <1>2, <2>1 DEF CanRun, Goroutines
<1>3. CASE step[Main] = "join" /\ step[Root] = "done"
  BY <1>3 DEF CanRun, Goroutines
<1>4. CASE slots < MaxCalls /\ step[Main] = "join" /\ step[Root] # "done"
  <2>1. Alive(Root)
    BY <1>4 DEF Begun, Alive
  <2>2. PICK n \in Nodes : Alive(n) /\ (step[n] = "join" => \A k \in Kids[n] : step[k] = "done")
    BY <2>1, SomebodyIsNotJoining
  <2>3. step[n] \in Calling \cup {"visit", "join"} /\ n # Main /\ n \in Goroutines
    BY <2>2 DEF Begun, Alive, Calling, Goroutines, FlutterAssumption
  <2>. QED
    BY <1>4, <2>2, <2>3 DEF CanRun
<1>. QED
  BY <1>1, <1>2, <1>3, <1>4
================================================================================
