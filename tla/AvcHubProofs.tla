----------------------------- MODULE AvcHubProofs -----------------------------
(* Theorems about AvcHub, for any number of clients, chunks and calls. *)
EXTENDS AvcHub, TLAPS

\* The capacity of a queue is a positive number.
LEMMA QueueCapIsNat == QueueCap \in Nat /\ QueueCap > 0
  BY AvcHubAssumption

\* Every step of a client keeps every variable in its type.
LEMMA ClientStepType ==
  ASSUME TypeOK, NEW c \in Client, Subscribe(c) \/ Cancel(c) \/ ClientStep(c)
  PROVE  TypeOK'
<1> USE DEF TypeOK, PC, Reason, Channel, Closed, hub, subscriber, goroutine, history, source,
            Goto, Fail, Wake
<1>1. CASE Subscribe(c)
  BY <1>1 DEF Subscribe
<1>2. CASE Cancel(c)
  BY <1>2 DEF Cancel
<1>3. CASE AttachBusy(c)
  BY <1>3 DEF AttachBusy, BusyChannel
<1>4. CASE GiveUp(c)
  BY <1>4 DEF GiveUp
<1>5. CASE AttachJoin(c)
  BY <1>5 DEF AttachJoin
<1>6. CASE AttachStart(c)
  BY <1>6 DEF AttachStart
<1>7. CASE StartSucceeds(c)
  BY <1>7 DEF StartSucceeds
<1>8. CASE StartFails(c)
  BY <1>8 DEF StartFails
<1>9. CASE ReportStartFailure(c)
  BY <1>9 DEF ReportStartFailure, Finish
<1>10. CASE Install(c)
  BY <1>10 DEF Install
<1>11. CASE FindEnded(c)
  BY <1>11 DEF FindEnded, Finish
<1>12. CASE StopEnded(c)
  BY <1>12 DEF StopEnded
<1>13. CASE Joined(c)
  BY <1>13 DEF Joined
<1>14. CASE KeyFrameTimeout(c)
  BY <1>14 DEF KeyFrameTimeout
<1>15. CASE AwaitCancelled(c)
  BY <1>15 DEF AwaitCancelled
<1>16. CASE Ready(c)
  BY <1>16 DEF Ready
<1>17. CASE Consume(c)
  <2>1. queued[c] - 1 \in 0..QueueCap
    BY <1>17, QueueCapIsNat DEF Consume
  <2>. QED
    BY <1>17, <2>1 DEF Consume
<1>18. CASE Leave(c)
  BY <1>18 DEF Leave
<1>19. CASE Detach(c)
  <2> USE <1>19 DEF Detach, Finish, TakeStopIfIdle
  <2>1. /\ subs' \subseteq Client /\ waiting' \subseteq Client
        /\ subErr' \in [Client -> Reason] /\ UNCHANGED <<queued, late, dropped>>
    OBVIOUS
  <2>2. cause' \in [Client -> Reason]
    BY <2>1
  <2>3. pc' \in [Client -> PC] /\ at' \in [Client -> Nat]
    BY <2>1
  <2>4. /\ stop' \in Nat /\ stopping' \in Nat /\ epoch' \in Nat
        /\ sets' \subseteq {"sps", "pps"} /\ tail' \subseteq NalUnit
    <3>1. CASE Taken(subs')
      BY <3>1
    <3>2. CASE ~Taken(subs')
      BY <3>2
    <3>. QED
      BY <3>1, <3>2
  <2>. QED
    BY <2>1, <2>2, <2>3, <2>4
<1>20. CASE StopReturns(c)
  BY <1>20 DEF StopReturns
<1>21. CASE ReleaseHub(c)
  BY <1>21 DEF ReleaseHub
<1>22. CASE Return(c)
  <2>1. 0 \in 0..QueueCap
    BY QueueCapIsNat
  <2>. QED
    BY <1>22, <2>1 DEF Return
<1>. QED
  BY <1>1, <1>2, <1>3, <1>4, <1>5, <1>6, <1>7, <1>8, <1>9, <1>10, <1>11, <1>12, <1>13,
     <1>14, <1>15, <1>16, <1>17, <1>18, <1>19, <1>20, <1>21, <1>22 DEF ClientStep

\* The lock section of publish keeps the types, and what it cannot touch.
LEMMA DeliverType ==
  ASSUME TypeOK, NEW e \in Nat, NEW chunk \in Chunks, Deliver(e, chunk)
  PROVE  /\ subs' \subseteq Client /\ waiting' \subseteq Client /\ dropped' \subseteq Client
         /\ queued' \in [Client -> 0..QueueCap]
         /\ subErr' \in [Client -> Reason]
         /\ first' \in [Client -> SUBSET NalUnit]
         /\ from' \in [Client -> Nat]
         /\ sets' \subseteq {"sps", "pps"} /\ tail' \subseteq NalUnit
         /\ stop' \in Nat /\ stopping' \in Nat /\ epoch' \in Nat
         /\ tearing' \subseteq Nat
<1> DEFINE slow == {c \in subs : Overflows(c, chunk)}
           fed  == {c \in subs \ slow : Sends(c, chunk) > 0}
<1>1. chunk \subseteq NalUnit
  BY AvcHubAssumption
<1>2. Buffer(chunk) \subseteq NalUnit /\ CachedSets(chunk) \subseteq {"sps", "pps"}
  BY <1>1 DEF TypeOK, Buffer, CachedSets
<1>3. KeptTail(chunk) \subseteq NalUnit /\ JoinerGets(chunk) \subseteq NalUnit
  BY <1>2 DEF KeptTail, JoinerGets, NalUnit
<1>4. \A c \in Client : Sends(c, chunk) \in Nat
  BY DEF Sends
<1>5. \A c \in fed : queued[c] + Sends(c, chunk) \in 0..QueueCap
  BY <1>4, QueueCapIsNat DEF TypeOK, Overflows
<1>6. queued' \in [Client -> 0..QueueCap]
  <2>1. queued' = [c \in Client |-> IF c \in slow THEN QueueCap
                                   ELSE IF c \in fed THEN queued[c] + Sends(c, chunk)
                                   ELSE queued[c]]
    BY DEF Deliver
  <2>2. QueueCap \in 0..QueueCap
    BY QueueCapIsNat
  <2> HIDE DEF slow, fed
  <2>. QED
    BY <2>1, <2>2, <1>5 DEF TypeOK
<1>7. /\ subs' \subseteq Client /\ waiting' \subseteq Client /\ dropped' \subseteq Client
      /\ subErr' \in [Client -> Reason]
      /\ from' \in [Client -> Nat]
      /\ tearing' \subseteq Nat
  BY DEF Deliver, TypeOK, Reason
<1>8. first' \in [Client -> SUBSET NalUnit]
  <2>1. first' = [c \in Client |-> IF c \in late \intersect fed /\ first[c] = {}
                                  THEN IF c \in waiting THEN JoinerGets(chunk) ELSE chunk
                                  ELSE first[c]]
    BY DEF Deliver
  <2> HIDE DEF fed
  <2>. QED
    BY <2>1, <1>1, <1>3 DEF TypeOK
<1>9. /\ sets' \subseteq {"sps", "pps"} /\ tail' \subseteq NalUnit
      /\ stop' \in Nat /\ stopping' \in Nat /\ epoch' \in Nat
  <2>1. TakeStopIfIdle(subs', CachedSets(chunk), KeptTail(chunk))
    BY DEF Deliver
  <2>2. CASE Taken(subs')
    BY <2>1, <2>2 DEF TakeStopIfIdle, TypeOK
  <2>3. CASE ~Taken(subs')
    BY <2>1, <2>3, <1>2, <1>3 DEF TakeStopIfIdle, TypeOK
  <2>. QED
    BY <2>2, <2>3
<1>. QED
  BY <1>6, <1>7, <1>8, <1>9

\* Every step of a source's reader goroutine keeps every variable in its type.
LEMMA ReaderStepType ==
  ASSUME TypeOK, NEW e \in Nat, ReaderStep(e)
  PROVE  TypeOK'
<1> USE DEF hub, subscriber, goroutine, history, source
<1>1. CASE \E chunk \in Chunks : Publish(e, chunk)
  <2>1. PICK chunk \in Chunks : Publish(e, chunk)
    BY <1>1
  <2>2. Deliver(e, chunk)
    BY <2>1 DEF Current, Publish
  <2>. QED
    BY <2>1, <2>2, DeliverType DEF Current, Publish, TypeOK
<1>2. CASE ReaderStopReturns(e)
  BY <1>2 DEF ReaderStopReturns, TypeOK
<1>3. CASE ReaderReleaseHub(e)
  BY <1>3 DEF ReaderReleaseHub, TypeOK, Wake
<1>4. CASE SourceDies(e)
  BY <1>4 DEF SourceDies, TypeOK
<1>5. CASE \E reason \in Ends : SourceEnded(e, reason)
  <2>1. PICK reason \in Ends : SourceEnded(e, reason)
    BY <1>5
  <2>2. reason \in Reason
    BY AvcHubAssumption DEF Reason
  <2>3. CASE e = epoch
    BY <2>1, <2>2, <2>3 DEF Current, SourceEnded, Finish, TypeOK
  <2>4. CASE e # epoch
    BY <2>1, <2>4 DEF Current, SourceEnded, TypeOK
  <2>. QED
    BY <2>3, <2>4
<1>. QED
  BY <1>1, <1>2, <1>3, <1>4, <1>5 DEF ReaderStep

\* Every variable of the hub, its clients and its sources keeps its type.
THEOREM TypeCorrect == Spec => []TypeOK
<1>1. Init => TypeOK
  <2>1. 0 \in 0..QueueCap
    BY QueueCapIsNat
  <2>. QED
    BY <2>1 DEF Init, TypeOK, PC, Reason
<1>2. TypeOK /\ [Next]_vars => TypeOK'
  <2> SUFFICES ASSUME TypeOK, [Next]_vars PROVE TypeOK'
    OBVIOUS
  <2>1. CASE UNCHANGED vars
    BY <2>1 DEF vars, hub, subscriber, goroutine, history, source, TypeOK
  <2>2. ASSUME NEW c \in Client, Subscribe(c) \/ Cancel(c) \/ ClientStep(c)
        PROVE  TypeOK'
    BY <2>2, ClientStepType
  <2>3. ASSUME NEW e \in reading \union tearing \union closed, ReaderStep(e)
        PROVE  TypeOK'
    <3>1. e \in Nat
      BY DEF TypeOK
    <3>. QED
      BY <3>1, <2>3, ReaderStepType
  <2>. QED
    BY <2>1, <2>2, <2>3 DEF Next
<1>. QED
  BY <1>1, <1>2, PTL DEF Spec

-------------------------------------------------------------------------------

\* A client's step keeps the marks and their owners in order.
LEMMA ClientStepSafe ==
  ASSUME TypeOK, IInv, NEW c \in Client, Subscribe(c) \/ Cancel(c) \/ ClientStep(c)
  PROVE  IInv'
<1> USE DEF TypeOK, IInv, OneMark, MarkOwner, EndedIsGone, SomebodyDetaches,
            Starters, Stoppers, Attached, hub, subscriber, goroutine, history, source,
            Goto, Fail, PC
<1>1. CASE Subscribe(c)
  BY <1>1 DEF Subscribe
<1>2. CASE Cancel(c)
  BY <1>2 DEF Cancel
<1>3. CASE AttachBusy(c)
  BY <1>3 DEF AttachBusy, Looks, HubBusy
<1>4. CASE GiveUp(c)
  BY <1>4 DEF GiveUp
<1>5. CASE AttachJoin(c)
  BY <1>5 DEF AttachJoin, Looks, HubBusy
<1>6. CASE AttachStart(c)
  BY <1>6 DEF AttachStart, Looks, HubBusy
<1>7. CASE StartSucceeds(c)
  BY <1>7 DEF StartSucceeds
<1>8. CASE StartFails(c)
  <2>1. OneMark'
    BY <1>8 DEF StartFails
  <2>2. MarkOwner'
    BY <1>8 DEF StartFails
  <2>3. EndedIsGone'
    BY <1>8 DEF StartFails
  <2>4. SomebodyDetaches'
    BY <1>8 DEF StartFails
  <2>. QED
    BY <2>1, <2>2, <2>3, <2>4
<1>9. CASE ReportStartFailure(c)
  BY <1>9 DEF ReportStartFailure, Finish
<1>10. CASE Install(c)
  BY <1>10 DEF Install
<1>11. CASE FindEnded(c)
  BY <1>11 DEF FindEnded, Finish
<1>12. CASE StopEnded(c)
  <2>1. OneMark'
    BY <1>12 DEF StopEnded, Wake
  <2>2. MarkOwner'
    BY <1>12 DEF StopEnded, Wake
  <2>3. EndedIsGone'
    BY <1>12 DEF StopEnded, Wake
  <2>4. SomebodyDetaches'
    BY <1>12 DEF StopEnded, Wake
  <2>. QED
    BY <2>1, <2>2, <2>3, <2>4
<1>13. CASE Joined(c)
  BY <1>13 DEF Joined
<1>14. CASE KeyFrameTimeout(c)
  BY <1>14 DEF KeyFrameTimeout
<1>15. CASE AwaitCancelled(c)
  BY <1>15 DEF AwaitCancelled
<1>16. CASE Ready(c)
  BY <1>16 DEF Ready
<1>17. CASE Consume(c)
  BY <1>17 DEF Consume
<1>18. CASE Leave(c)
  BY <1>18 DEF Leave
<1>19. CASE Detach(c)
  <2>1. OneMark'
    BY <1>19 DEF Detach, Finish, TakeStopIfIdle, Taken
  <2>2. MarkOwner'
    <3>1. /\ pc[c] = "detach" /\ c \notin Starters \union Stoppers
          /\ UNCHANGED <<starting, live, tearing>>
      BY <1>19 DEF Detach
    <3>2. CASE Taken(subs')
      <4>1. /\ pc' = [pc EXCEPT ![c] = "stop"] /\ at' = [at EXCEPT ![c] = stop]
            /\ stopping' = stop /\ stop # 0
        BY <1>19, <3>2 DEF Detach, TakeStopIfIdle, Taken
      <4>2. Stoppers = {} /\ tearing = {} /\ Starters = {}
        BY <4>1
      <4>. QED
        BY <3>1, <4>1, <4>2
    <3>3. CASE ~Taken(subs')
      <4>1. /\ pc' = [pc EXCEPT ![c] = "return"] /\ at' = [at EXCEPT ![c] = 0]
            /\ stopping' = stopping
        BY <1>19, <3>3 DEF Detach, TakeStopIfIdle
      <4>. QED
        BY <3>1, <4>1
    <3>. QED
      BY <3>2, <3>3
  <2>3. EndedIsGone'
    BY <1>19 DEF Detach, Finish, TakeStopIfIdle, Taken
  <2>4. SomebodyDetaches'
    BY <1>19 DEF Detach, Finish, TakeStopIfIdle, Taken
  <2>. QED
    BY <2>1, <2>2, <2>3, <2>4
<1>20. CASE StopReturns(c)
  <2>1. OneMark'
    BY <1>20 DEF StopReturns
  <2>2. MarkOwner'
    BY <1>20 DEF StopReturns
  <2>3. EndedIsGone'
    BY <1>20 DEF StopReturns
  <2>4. SomebodyDetaches'
    BY <1>20 DEF StopReturns
  <2>. QED
    BY <2>1, <2>2, <2>3, <2>4
<1>21. CASE ReleaseHub(c)
  BY <1>21 DEF ReleaseHub
<1>22. CASE Return(c)
  BY <1>22 DEF Return
<1>. QED
  BY <1>1, <1>2, <1>3, <1>4, <1>5, <1>6, <1>7, <1>8, <1>9, <1>10, <1>11, <1>12, <1>13, <1>14,
     <1>15, <1>16, <1>17, <1>18, <1>19, <1>20, <1>21, <1>22 DEF ClientStep

\* A step of a source's reader goroutine does so too.
LEMMA ReaderStepSafe ==
  ASSUME TypeOK, IInv, NEW e \in Nat, ReaderStep(e)
  PROVE  IInv'
<1> USE DEF TypeOK, IInv, OneMark, MarkOwner, EndedIsGone, SomebodyDetaches,
            Starters, Stoppers, Attached, hub, subscriber, goroutine, history, source
<1>1. CASE \E chunk \in Chunks : Publish(e, chunk)
  <2>1. PICK chunk \in Chunks : Publish(e, chunk)
    BY <1>1
  <2>2. /\ e \in reading \ tearing /\ e = epoch
        /\ UNCHANGED <<starting, goroutine, live, reading, closed>>
    BY <2>1 DEF Current, Publish
  <2>3. /\ subs' \subseteq subs
        /\ tearing' = IF Taken(subs') THEN tearing \union {e} ELSE tearing
        /\ TakeStopIfIdle(subs', CachedSets(chunk), KeptTail(chunk))
    BY <2>1 DEF Current, Publish, Deliver
  <2>4. CASE Taken(subs')
    <3>1. /\ stopping' = stop /\ stop' = 0 /\ epoch' = epoch + 1 /\ subs' = {}
          /\ tearing' = tearing \union {e} /\ stop # 0
      BY <2>3, <2>4 DEF TakeStopIfIdle, Taken
    <3>2. stop = e /\ starting = 0 /\ Stoppers = {} /\ Starters = {} /\ tearing = {}
      BY <3>1, <2>2
    <3>. QED
      BY <2>2, <3>1, <3>2
  <2>5. CASE ~Taken(subs')
    <3>1. UNCHANGED <<stop, stopping, epoch, tearing>>
      BY <2>3, <2>5 DEF TakeStopIfIdle
    <3>. QED
      BY <2>2, <2>3, <3>1
  <2>. QED
    BY <2>4, <2>5
<1>2. CASE ReaderStopReturns(e)
  BY <1>2 DEF ReaderStopReturns
<1>3. CASE ReaderReleaseHub(e)
  BY <1>3 DEF ReaderReleaseHub
<1>4. CASE SourceDies(e)
  BY <1>4 DEF SourceDies
<1>5. CASE \E reason \in Ends : SourceEnded(e, reason)
  <2>1. PICK reason \in Ends : SourceEnded(e, reason)
    BY <1>5
  <2>2. CASE e = epoch
    <3>1. /\ subs' = {} /\ stop' = 0 /\ epoch' = epoch + 1 /\ e \notin live
          /\ closed' = closed \ {e}
          /\ UNCHANGED <<starting, stopping, goroutine, live, reading, tearing>>
      BY <2>1, <2>2 DEF Current, SourceEnded, Finish
    <3>. QED
      BY <2>2, <3>1
  <2>3. CASE e # epoch
    BY <2>1, <2>3 DEF Current, SourceEnded
  <2>. QED
    BY <2>2, <2>3
<1>. QED
  BY <1>1, <1>2, <1>3, <1>4, <1>5 DEF ReaderStep

\* The hub's marks, their owners and the sources they name are always in order.
THEOREM HubInvariant == Spec => []IInv
<1>1. Init => IInv
  BY DEF Init, IInv, OneMark, MarkOwner, EndedIsGone, SomebodyDetaches,
         Starters, Stoppers, Attached
<1>2. TypeOK /\ IInv /\ [Next]_vars => IInv'
  <2> SUFFICES ASSUME TypeOK, IInv, [Next]_vars PROVE IInv'
    OBVIOUS
  <2>1. CASE UNCHANGED vars
    BY <2>1 DEF vars, hub, subscriber, goroutine, history, source, IInv, OneMark, MarkOwner,
                EndedIsGone, SomebodyDetaches, Starters, Stoppers, Attached
  <2>2. ASSUME NEW c \in Client, Subscribe(c) \/ Cancel(c) \/ ClientStep(c)
        PROVE  IInv'
    BY <2>2, ClientStepSafe
  <2>3. ASSUME NEW e \in reading \union tearing \union closed, ReaderStep(e)
        PROVE  IInv'
    <3>1. e \in Nat
      BY DEF TypeOK
    <3>. QED
      BY <3>1, <2>3, ReaderStepSafe
  <2>. QED
    BY <2>1, <2>2, <2>3 DEF Next
<1>. QED
  BY <1>1, <1>2, TypeCorrect, PTL DEF Spec

\* One encoder session per device, for any number of captures that come and go.
THEOREM SingleSource == Spec => []OneLiveSource
<1>1. IInv => OneLiveSource
  BY DEF IInv, OneMark, OneLiveSource
<1>. QED
  BY <1>1, HubInvariant, PTL

\* Nobody is subscribed while a source is torn down.
THEOREM UnwatchedTeardown == Spec => []TeardownIsUnwatched
<1>1. IInv => TeardownIsUnwatched
  BY DEF IInv, OneMark, TeardownIsUnwatched
<1>. QED
  BY <1>1, HubInvariant, PTL

\* A source that holds the device always has somebody who will let it go.
THEOREM NobodyLeavesASourceRunning == Spec => []NoOrphanSource
<1>1. IInv => NoOrphanSource
  BY DEF IInv, OneMark, SomebodyDetaches, Attached, NoOrphanSource
<1>. QED
  BY <1>1, HubInvariant, PTL

-------------------------------------------------------------------------------
(* What a subscriber is handed, and what it is told when it was dropped.       *)

\* A client that has not attached yet carries nothing over from an earlier call.
Untouched ==
    \A c \in Client : pc[c] \in {"idle", "attach", "wait"} =>
        from[c] = 0 /\ first[c] = {} /\ c \notin late /\ c \notin dropped

\* Who is subscribed watches a source, and one that starts only its starter.
Watched ==
    /\ subs # {} => stop # 0 \/ starting # 0
    /\ starting # 0 => subs \subseteq Starters

\* A late joiner that was handed nothing yet waits for its key frame.
JoinersWait == \A c \in subs \intersect late : first[c] = {} => c \in waiting

\* Who was dropped is no longer subscribed and has the reason at hand.
DroppedKnow ==
    /\ \A c \in dropped : c \notin subs /\ subErr[c] = "slow"
    /\ \A c \in Client : pc[c] = "early" => cause[c] # "nil"
    /\ \A c \in dropped : pc[c] \in {"stop", "unstop", "return"} => cause[c] # "nil"

DInv == Untouched /\ Watched /\ JoinersWait /\ DroppedKnow /\ NoStaleBytes

\* A parameter set that waits for its picture has the other one with it, and
\* joiners were handed both.
JoinersDecode == ("sps" \in tail => "pps" \in tail) /\ LateJoinerDecodes

\* A client's step keeps the subscriptions in order.
LEMMA ClientStepDelivers ==
  ASSUME TypeOK, IInv, DInv, NEW c \in Client, Subscribe(c) \/ Cancel(c) \/ ClientStep(c)
  PROVE  DInv'
<1> USE DEF TypeOK, DInv, Untouched, Watched, JoinersWait, DroppedKnow, NoStaleBytes,
            Starters, hub, subscriber, goroutine, history, source, Goto, Fail, PC
<1>0. subs \subseteq Starters \union Attached
  BY DEF IInv, SomebodyDetaches
<1>1. CASE Subscribe(c)
  BY <1>1 DEF Subscribe
<1>2. CASE Cancel(c)
  BY <1>2 DEF Cancel
<1>3. CASE AttachBusy(c)
  BY <1>3 DEF AttachBusy, Looks
<1>4. CASE GiveUp(c)
  BY <1>4 DEF GiveUp
<1>5. CASE AttachJoin(c)
  BY <1>5 DEF AttachJoin, Looks, HubBusy
<1>6. CASE AttachStart(c)
  BY <1>6 DEF AttachStart, Looks, HubBusy
<1>7. CASE StartSucceeds(c)
  BY <1>7 DEF StartSucceeds
<1>8. CASE StartFails(c)
  BY <1>8 DEF StartFails
<1>9. CASE ReportStartFailure(c)
  BY <1>9 DEF ReportStartFailure, Finish, IInv, MarkOwner
<1>10. CASE Install(c)
  BY <1>10 DEF Install, IInv, MarkOwner
<1>11. CASE FindEnded(c)
  BY <1>11 DEF FindEnded, Finish, IInv, MarkOwner
<1>12. CASE StopEnded(c)
  BY <1>12 DEF StopEnded
<1>13. CASE Joined(c)
  BY <1>13 DEF Joined
<1>14. CASE KeyFrameTimeout(c)
  BY <1>14 DEF KeyFrameTimeout
<1>15. CASE AwaitCancelled(c)
  BY <1>15 DEF AwaitCancelled
<1>16. CASE Ready(c)
  BY <1>16 DEF Ready
<1>17. CASE Consume(c)
  BY <1>17 DEF Consume
<1>18. CASE Leave(c)
  BY <1>18 DEF Leave
<1>19. CASE Detach(c)
  BY <1>19 DEF Detach, Finish, TakeStopIfIdle, Taken
<1>20. CASE StopReturns(c)
  BY <1>20 DEF StopReturns
<1>21. CASE ReleaseHub(c)
  BY <1>21 DEF ReleaseHub
<1>22. CASE Return(c)
  BY <1>0, <1>22 DEF Return, Attached
<1>. QED
  BY <1>1, <1>2, <1>3, <1>4, <1>5, <1>6, <1>7, <1>8, <1>9, <1>10, <1>11, <1>12, <1>13, <1>14,
     <1>15, <1>16, <1>17, <1>18, <1>19, <1>20, <1>21, <1>22 DEF ClientStep

\* What is sent to a joiner that waits for its key frame holds one.
LEMMA JoinersGetAKeyFrame ==
  ASSUME NEW chunk, NEW c \in waiting, Sends(c, chunk) > 0
  PROVE  "idr" \in JoinerGets(chunk) /\ Decodable(chunk)
BY DEF Sends, JoinerGets, Decodable

\* Publishing a chunk of the current source keeps the subscriptions in order.
LEMMA DeliverDelivers ==
  ASSUME TypeOK, IInv, DInv, NEW chunk \in Chunks, Publish(epoch, chunk)
  PROVE  DInv'
<1> DEFINE slow == {c \in subs : Overflows(c, chunk)}
           fed  == {c \in subs \ slow : Sends(c, chunk) > 0}
<1>1. /\ subs' = subs \ slow
      /\ dropped' = dropped \union slow
      /\ subErr' = [c \in Client |-> IF c \in slow THEN "slow" ELSE subErr[c]]
      /\ waiting' = waiting \ (slow \union fed)
      /\ first' = [c \in Client |-> IF c \in late \intersect fed /\ first[c] = {}
                                    THEN IF c \in waiting THEN JoinerGets(chunk) ELSE chunk
                                    ELSE first[c]]
      /\ from' = [c \in Client |-> IF c \in fed THEN epoch ELSE from[c]]
      /\ TakeStopIfIdle(subs', CachedSets(chunk), KeptTail(chunk))
      /\ UNCHANGED <<starting, late, pc, cause>>
  BY DEF Publish, Deliver, goroutine
<1>2. \A c \in fed : c \in waiting => JoinerGets(chunk) # {}
  BY JoinersGetAKeyFrame
<1>3. subs' # {} => UNCHANGED <<stop, epoch>>
  BY <1>1 DEF TakeStopIfIdle, Taken
<1>4. slow \subseteq subs /\ fed \subseteq subs \ slow
  OBVIOUS
<1>5. subs \subseteq Starters \union Attached
  BY DEF IInv, SomebodyDetaches
<1> HIDE DEF slow, fed
<1>6. Untouched'
  BY <1>1, <1>4, <1>5 DEF DInv, Untouched, Starters, Attached
<1>7. Watched'
  BY <1>1, <1>3, <1>4 DEF DInv, Watched, Starters
<1>8. JoinersWait'
  BY <1>1, <1>2, <1>4 DEF DInv, JoinersWait, TypeOK
<1>9. DroppedKnow'
  BY <1>1, <1>4, <1>5 DEF DInv, DroppedKnow, TypeOK, Starters, Attached
<1>10. NoStaleBytes'
  BY <1>1, <1>3, <1>4 DEF DInv, NoStaleBytes, TypeOK
<1>. QED
  BY <1>6, <1>7, <1>8, <1>9, <1>10 DEF DInv

\* So does every other step of a source's reader.
LEMMA ReaderStepDelivers ==
  ASSUME TypeOK, IInv, DInv, NEW e \in Nat, ReaderStep(e)
  PROVE  DInv'
<1>1. CASE \E chunk \in Chunks : Publish(e, chunk)
  <2>1. PICK chunk \in Chunks : Publish(e, chunk)
    BY <1>1
  <2>2. e = epoch
    BY <2>1 DEF Publish, Current
  <2>. QED
    BY <2>1, <2>2, DeliverDelivers
<1> USE DEF TypeOK, DInv, Untouched, Watched, JoinersWait, DroppedKnow, NoStaleBytes,
            Starters, hub, subscriber, goroutine, history, source
<1>2. CASE ReaderStopReturns(e)
  BY <1>2 DEF ReaderStopReturns
<1>3. CASE ReaderReleaseHub(e)
  BY <1>3 DEF ReaderReleaseHub
<1>4. CASE SourceDies(e)
  BY <1>4 DEF SourceDies
<1>5. CASE \E reason \in Ends : SourceEnded(e, reason)
  <2>1. PICK reason \in Ends : SourceEnded(e, reason)
    BY <1>5
  <2>2. CASE e = epoch
    <3>1. /\ subs' = {} /\ \A c \in dropped : subErr'[c] = subErr[c]
          /\ UNCHANGED <<starting, goroutine, late, dropped, history>>
      BY <2>1, <2>2 DEF Current, SourceEnded, Finish
    <3>. QED
      BY <3>1
  <2>3. CASE e # epoch
    BY <2>1, <2>3 DEF Current, SourceEnded
  <2>. QED
    BY <2>2, <2>3
<1>. QED
  BY <1>1, <1>2, <1>3, <1>4, <1>5 DEF ReaderStep

\* The subscriptions are in order in every behaviour.
LEMMA DeliveryInvariant == Spec => []DInv
<1>1. Init => DInv
  BY DEF Init, DInv, Untouched, Watched, JoinersWait, DroppedKnow, NoStaleBytes
<1>2. TypeOK /\ IInv /\ DInv /\ [Next]_vars => DInv'
  <2> SUFFICES ASSUME TypeOK, IInv, DInv, [Next]_vars PROVE DInv'
    OBVIOUS
  <2>1. CASE UNCHANGED vars
    BY <2>1 DEF vars, hub, subscriber, goroutine, history, source, DInv, Untouched, Watched,
                JoinersWait, DroppedKnow, NoStaleBytes, Starters
  <2>2. ASSUME NEW c \in Client, Subscribe(c) \/ Cancel(c) \/ ClientStep(c)
        PROVE  DInv'
    BY <2>2, ClientStepDelivers
  <2>3. ASSUME NEW e \in reading \union tearing \union closed, ReaderStep(e)
        PROVE  DInv'
    <3>1. e \in Nat
      BY DEF TypeOK
    <3>. QED
      BY <3>1, <2>3, ReaderStepDelivers
  <2>. QED
    BY <2>1, <2>2, <2>3 DEF Next
<1>. QED
  BY <1>1, <1>2, TypeCorrect, HubInvariant, PTL DEF Spec

\* Whoever is attached was handed bytes of the current source only, however many
\* sources came and went.
THEOREM OnlyCurrentBytes == Spec => []NoStaleBytes
<1>1. DInv => NoStaleBytes
  BY DEF DInv
<1>. QED
  BY <1>1, DeliveryInvariant, PTL

\* A subscriber that was dropped for falling behind does not return a success,
\* whichever way it leaves.
THEOREM DroppedIsAnError == Spec => []TruncationIsReported
<1>1. DInv => TruncationIsReported
  BY DEF DInv, DroppedKnow, TruncationIsReported
<1>. QED
  BY <1>1, DeliveryInvariant, PTL

-------------------------------------------------------------------------------
(* Late joiners can decode what they get, if no chunk brings an SPS alone.     *)

SetsTogether == \A chunk \in Chunks : "sps" \in chunk => "pps" \in chunk

\* The buffer a key frame is found in holds both parameter sets or none.
LEMMA BufferIsWhole ==
  ASSUME SetsTogether, "sps" \in tail => "pps" \in tail, NEW chunk \in Chunks
  PROVE  /\ "sps" \in Buffer(chunk) => "pps" \in Buffer(chunk)
         /\ "sps" \in KeptTail(chunk) => "pps" \in KeptTail(chunk)
         /\ Decodable(chunk) => {"sps", "pps", "idr"} \subseteq JoinerGets(chunk)
BY DEF SetsTogether, Buffer, KeptTail, Decodable, JoinerGets

\* Publishing a chunk keeps what joiners were handed decodable.
LEMMA DeliverDecodes ==
  ASSUME TypeOK, DInv, JoinersDecode, SetsTogether, NEW chunk \in Chunks, Publish(epoch, chunk)
  PROVE  JoinersDecode'
<1> DEFINE slow == {c \in subs : Overflows(c, chunk)}
           fed  == {c \in subs \ slow : Sends(c, chunk) > 0}
<1>1. /\ first' = [c \in Client |-> IF c \in late \intersect fed /\ first[c] = {}
                                    THEN IF c \in waiting THEN JoinerGets(chunk) ELSE chunk
                                    ELSE first[c]]
      /\ TakeStopIfIdle(subs', CachedSets(chunk), KeptTail(chunk))
      /\ UNCHANGED late
  BY DEF Publish, Deliver
<1>2. tail' = {} \/ tail' = KeptTail(chunk)
  BY <1>1 DEF TakeStopIfIdle
<1>3. \A c \in late \intersect fed : first[c] = {} =>
        c \in waiting /\ {"sps", "pps", "idr"} \subseteq JoinerGets(chunk)
  BY BufferIsWhole, JoinersGetAKeyFrame DEF DInv, JoinersWait, JoinersDecode
<1> HIDE DEF fed
<1>4. LateJoinerDecodes'
  BY <1>1, <1>3 DEF JoinersDecode, LateJoinerDecodes, TypeOK
<1>5. "sps" \in tail' => "pps" \in tail'
  BY <1>2, BufferIsWhole DEF JoinersDecode
<1>. QED
  BY <1>4, <1>5 DEF JoinersDecode

\* Every other step leaves the unfinished head alone or drops it.
LEMMA OthersDecode ==
  ASSUME TypeOK, JoinersDecode, DInv, tail' \in {tail, {}},
         \A c \in late' : first'[c] = first[c] \/ first'[c] = {},
         \A c \in late' : c \in late \/ first'[c] = {}
  PROVE  JoinersDecode'
BY DEF JoinersDecode, LateJoinerDecodes

\* A client's step keeps what joiners were handed decodable.
LEMMA ClientStepDecodes ==
  ASSUME TypeOK, DInv, JoinersDecode, NEW c \in Client, Subscribe(c) \/ Cancel(c) \/ ClientStep(c)
  PROVE  JoinersDecode'
<1> USE DEF hub, subscriber, goroutine, history, source
<1>1. CASE AttachJoin(c)
  <2>1. first[c] = {} /\ late' = late \union {c} /\ UNCHANGED <<tail, first>>
    BY <1>1 DEF AttachJoin, Looks, DInv, Untouched
  <2>. QED
    BY <2>1, OthersDecode
<1>2. CASE Return(c)
  <2>1. late' = late \ {c} /\ first' = [first EXCEPT ![c] = {}] /\ UNCHANGED tail
    BY <1>2 DEF Return
  <2>. QED
    BY <2>1, OthersDecode DEF TypeOK
<1>3. CASE Detach(c)
  <2>1. tail' \in {tail, {}} /\ UNCHANGED <<first, late>>
    BY <1>3 DEF Detach, Finish, TakeStopIfIdle
  <2>. QED
    BY <2>1, OthersDecode
<1>4. CASE Subscribe(c) \/ Cancel(c) \/ AttachBusy(c) \/ GiveUp(c) \/ AttachStart(c)
           \/ StartSucceeds(c) \/ StartFails(c) \/ ReportStartFailure(c) \/ Install(c)
           \/ FindEnded(c) \/ StopEnded(c) \/ Joined(c) \/ KeyFrameTimeout(c)
           \/ AwaitCancelled(c) \/ Ready(c) \/ Consume(c) \/ Leave(c) \/ StopReturns(c)
           \/ ReleaseHub(c)
  <2>1. UNCHANGED <<first, late, tail>>
    BY <1>4 DEF Subscribe, Cancel, AttachBusy, GiveUp, AttachStart, StartSucceeds, StartFails,
       ReportStartFailure, Install, FindEnded, StopEnded, Joined, KeyFrameTimeout,
       AwaitCancelled, Ready, Consume, Leave, StopReturns, ReleaseHub, Finish
  <2>. QED
    BY <2>1, OthersDecode
<1>. QED
  BY <1>1, <1>2, <1>3, <1>4 DEF ClientStep

\* A late joiner is never handed a picture it cannot decode, of an encoder that does
\* not send an SPS without its PPS; one that repeats the SPS alone is not covered.
THEOREM LateJoinersDecode ==
  ASSUME SetsTogether
  PROVE  Spec => []LateJoinerDecodes
<1>1. Init => JoinersDecode
  BY DEF Init, JoinersDecode, LateJoinerDecodes
<1>2. TypeOK /\ DInv /\ JoinersDecode /\ [Next]_vars => JoinersDecode'
  <2> SUFFICES ASSUME TypeOK, DInv, JoinersDecode, [Next]_vars
               PROVE  JoinersDecode'
    OBVIOUS
  <2> USE DEF hub, subscriber, goroutine, history, source
  <2>1. CASE UNCHANGED vars
    BY <2>1, OthersDecode DEF vars
  <2>2. ASSUME NEW c \in Client, Subscribe(c) \/ Cancel(c) \/ ClientStep(c)
        PROVE  JoinersDecode'
    BY <2>2, ClientStepDecodes
  <2>3. ASSUME NEW e, NEW chunk \in Chunks, Publish(e, chunk)
        PROVE  JoinersDecode'
    <3>1. e = epoch
      BY <2>3 DEF Publish, Current
    <3>. QED
      BY <2>3, <3>1, DeliverDecodes
  <2>4. ASSUME NEW e, ReaderStopReturns(e) \/ ReaderReleaseHub(e) \/ SourceDies(e)
                      \/ \E reason \in Ends : SourceEnded(e, reason)
        PROVE  JoinersDecode'
    <3>1. tail' \in {tail, {}} /\ UNCHANGED <<first, late>>
      BY <2>4 DEF ReaderStopReturns, ReaderReleaseHub, SourceDies, SourceEnded, Finish
    <3>. QED
      BY <3>1, OthersDecode
  <2>. QED
    BY <2>1, <2>2, <2>3, <2>4 DEF Next, ReaderStep
<1>3. JoinersDecode => LateJoinerDecodes
  BY DEF JoinersDecode
<1>. QED
  BY <1>1, <1>2, <1>3, TypeCorrect, DeliveryInvariant, PTL DEF Spec

-------------------------------------------------------------------------------
(* AvcHub implements SharedStream: what each step is to the viewers.            *)

\* A step that changes neither the viewers nor what they watch.
LEMMA Stutters ==
  ASSUME UNCHANGED <<subs, live, epoch, from>>
  PROVE  [Shared!Next]_Shared!vars
BY DEF Shared!vars

\* Some subscribers go, and nobody is handed anything.
LEMMA SomeGo ==
  ASSUME TypeOK, NEW gone \in SUBSET subs, subs' = subs \ gone, UNCHANGED <<live, epoch, from>>
  PROVE  Shared!Next
<1>1. Shared!Show({}, gone)
  BY DEF Shared!Show, TypeOK
<1>2. {} \in SUBSET (subs \ gone)
  OBVIOUS
<1>. QED
  BY <1>1, <1>2 DEF Shared!Next

\* The hub turns to its next source, with nobody left.
LEMMA Retires ==
  ASSUME subs' = {}, epoch' = epoch + 1, UNCHANGED <<live, from>>
  PROVE  Shared!Next
BY DEF Shared!Next, Shared!Retire

\* A source lets go of the device, if it held it.
LEMMA LetsGo ==
  ASSUME TypeOK, IInv, NEW e, live' = live \ {e}, UNCHANGED <<subs, epoch, from>>
  PROVE  [Shared!Next]_Shared!vars
<1>1. CASE e \in live
  <2>1. live = {e}
    BY <1>1 DEF IInv, OneMark
  <2>. QED
    BY <2>1 DEF Shared!Next, Shared!Close
<1>2. CASE e \notin live
  BY <1>2, Stutters
<1>. QED
  BY <1>1, <1>2

\* Every step of a client is one of the shared stream or none.
LEMMA ClientStepShared ==
  ASSUME TypeOK, IInv, DInv, NEW c \in Client, Subscribe(c) \/ Cancel(c) \/ ClientStep(c)
  PROVE  [Shared!Next]_Shared!vars
<1> USE DEF hub, subscriber, goroutine, history, source
<1>1. CASE Subscribe(c) \/ Cancel(c) \/ AttachBusy(c) \/ GiveUp(c) \/ StartSucceeds(c)
           \/ Install(c) \/ Joined(c) \/ KeyFrameTimeout(c) \/ AwaitCancelled(c) \/ Ready(c)
           \/ Consume(c) \/ Leave(c) \/ ReleaseHub(c)
  <2>1. UNCHANGED <<subs, live, epoch, from>>
    BY <1>1 DEF Subscribe, Cancel, AttachBusy, GiveUp, StartSucceeds, Install, Joined,
       KeyFrameTimeout, AwaitCancelled, Ready, Consume, Leave, ReleaseHub
  <2>. QED
    BY <2>1, Stutters
<1>2. CASE StartFails(c) \/ StopEnded(c) \/ StopReturns(c)
  <2>1. live' = live \ {at[c]} /\ UNCHANGED <<subs, epoch, from>>
    BY <1>2 DEF StartFails, StopEnded, StopReturns
  <2>. QED
    BY <2>1, LetsGo
<1>3. CASE ReportStartFailure(c) \/ FindEnded(c)
  <2>1. subs' = subs \ ({c} \intersect subs) /\ UNCHANGED <<live, epoch, from>>
    BY <1>3 DEF ReportStartFailure, FindEnded, Finish
  <2>. QED
    BY <2>1, SomeGo
<1>4. CASE AttachJoin(c)
  <2>1. c \notin subs
    BY <1>4 DEF AttachJoin, Looks, IInv, SomebodyDetaches, Starters, Attached
  <2>2. Shared!Join(c)
    BY <1>4, <2>1 DEF AttachJoin, Shared!Join
  <2>. QED
    BY <2>2 DEF Shared!Next
<1>5. CASE AttachStart(c)
  <2>1. subs = {} /\ live = {}
    BY <1>5 DEF AttachStart, HubBusy, IInv, OneMark, DInv, Watched
  <2>2. Shared!Open(c)
    BY <1>5, <2>1 DEF AttachStart, Shared!Open
  <2>. QED
    BY <2>2 DEF Shared!Next
<1>6. CASE Detach(c)
  <2>1. subs' = subs \ ({c} \intersect subs) /\ UNCHANGED <<live, from>>
        /\ TakeStopIfIdle(subs', sets, tail)
    BY <1>6 DEF Detach, Finish
  <2>2. CASE Taken(subs')
    BY <2>1, <2>2, Retires DEF TakeStopIfIdle, Taken
  <2>3. CASE ~Taken(subs')
    BY <2>1, <2>3, SomeGo DEF TakeStopIfIdle
  <2>. QED
    BY <2>2, <2>3
<1>7. CASE Return(c)
  <2>1. c \notin subs
    BY <1>7 DEF Return, IInv, SomebodyDetaches, Starters, Attached
  <2>2. Shared!Forget(c)
    BY <1>7, <2>1 DEF Return, Shared!Forget
  <2>. QED
    BY <2>2 DEF Shared!Next
<1>. QED
  BY <1>1, <1>2, <1>3, <1>4, <1>5, <1>6, <1>7 DEF ClientStep

\* So is every step of a source's reader.
LEMMA ReaderStepShared ==
  ASSUME TypeOK, IInv, DInv, NEW e, ReaderStep(e)
  PROVE  [Shared!Next]_Shared!vars
<1> USE DEF hub, subscriber, goroutine, history, source
<1>1. ASSUME NEW chunk \in Chunks, Publish(e, chunk)
      PROVE  [Shared!Next]_Shared!vars
  <2> DEFINE slow == {c \in subs : Overflows(c, chunk)}
             fed  == {c \in subs \ slow : Sends(c, chunk) > 0}
  <2>1. /\ subs' = subs \ slow /\ e = epoch /\ UNCHANGED live
        /\ from' = [c \in Client |-> IF c \in fed THEN epoch ELSE from[c]]
        /\ TakeStopIfIdle(subs', CachedSets(chunk), KeptTail(chunk))
    BY <1>1 DEF Publish, Current, Deliver
  <2>2. slow \in SUBSET subs /\ fed \in SUBSET (subs \ slow)
    OBVIOUS
  <2> HIDE DEF slow, fed
  <2>3. CASE Taken(subs')
    <3>1. subs' = {} /\ fed = {} /\ epoch' = epoch + 1
      BY <2>1, <2>2, <2>3 DEF TakeStopIfIdle, Taken
    <3>2. from' = from
      BY <2>1, <3>1 DEF TypeOK
    <3>. QED
      BY <2>1, <3>1, <3>2, Retires
  <2>4. CASE ~Taken(subs')
    <3>1. Shared!Show(fed, slow)
      BY <2>1, <2>4 DEF TakeStopIfIdle, Shared!Show
    <3>. QED
      BY <2>2, <3>1 DEF Shared!Next
  <2>. QED
    BY <2>3, <2>4
<1>2. CASE ReaderStopReturns(e) \/ SourceDies(e)
  <2>1. live' = live \ {e} /\ UNCHANGED <<subs, epoch, from>>
    BY <1>2 DEF ReaderStopReturns, SourceDies
  <2>. QED
    BY <2>1, LetsGo
<1>3. CASE ReaderReleaseHub(e)
  BY <1>3, Stutters DEF ReaderReleaseHub
<1>4. ASSUME NEW reason \in Ends, SourceEnded(e, reason)
      PROVE  [Shared!Next]_Shared!vars
  <2>1. CASE e = epoch
    BY <1>4, <2>1, Retires DEF SourceEnded, Current, Finish
  <2>2. CASE e # epoch
    BY <1>4, <2>2, Stutters DEF SourceEnded, Current
  <2>. QED
    BY <2>1, <2>2
<1>. QED
  BY <1>1, <1>2, <1>3, <1>4 DEF ReaderStep

\* The hub implements the shared stream: no source is opened over another, and
\* viewers are handed bytes of the current one, whatever is dropped, late or dying.
THEOREM ImplementsSharedStream == Spec => SharedSpec
<1>1. Init => Shared!Init
  BY DEF Init, Shared!Init
<1>2. TypeOK /\ IInv /\ DInv /\ [Next]_vars => [Shared!Next]_Shared!vars
  <2> SUFFICES ASSUME TypeOK, IInv, DInv, [Next]_vars
               PROVE  [Shared!Next]_Shared!vars
    OBVIOUS
  <2>1. CASE UNCHANGED vars
    BY <2>1, Stutters DEF vars, hub, history, source
  <2>. QED
    BY <2>1, ClientStepShared, ReaderStepShared DEF Next
<1>. QED
  BY <1>1, <1>2, TypeCorrect, HubInvariant, DeliveryInvariant, PTL DEF Spec, SharedSpec, Shared!Spec
-------------------------------------------------------------------------------
(* Wake-ups.                                                                   *)
StartPlaces == {"start", "failed", "started", "early"}
StopPlaces == {"stop", "unstop"}

\* What it takes to be a channel that somebody has yet to close.
LEMMA WakersAre ==
  \A ch : ch \in Wakers <=>
    \/ \E d \in Client : pc[d] \in StartPlaces /\ ch = <<"starting", at[d]>>
    \/ \E d \in Client : pc[d] \in StopPlaces /\ ch = <<"stopping", at[d]>>
    \/ \E e \in tearing : ch = <<"stopping", e>>
  BY DEF Wakers, Starters, Stoppers, StartPlaces, StopPlaces

\* The same of the next state.
LEMMA WakersAreNext ==
  \A ch : ch \in Wakers' <=>
    \/ \E d \in Client : pc'[d] \in StartPlaces /\ ch = <<"starting", at'[d]>>
    \/ \E d \in Client : pc'[d] \in StopPlaces /\ ch = <<"stopping", at'[d]>>
    \/ \E e \in tearing' : ch = <<"stopping", e>>
  BY DEF Wakers, Starters, Stoppers, StartPlaces, StopPlaces

\* A step that makes client c close a channel or none: others' channels are still
\* to be closed.
LEMMA OthersWake ==
  ASSUME TypeOK, NEW c \in Client, NEW l, NEW a, NEW gone,
         pc' = [pc EXCEPT ![c] = l], at' = [at EXCEPT ![c] = a], tearing \subseteq tearing',
         pc[c] \in StartPlaces /\ ~(l \in StartPlaces /\ a = at[c]) => gone = <<"starting", at[c]>>,
         pc[c] \in StopPlaces /\ ~(l \in StopPlaces /\ a = at[c]) => gone = <<"stopping", at[c]>>
  PROVE  \A ch \in Wakers : ch \in Wakers' \/ ch = gone
<1> SUFFICES ASSUME NEW ch \in Wakers, ch # gone
             PROVE  ch \in Wakers'
  OBVIOUS
<1> USE DEF TypeOK
<1>1. CASE \E d \in Client : pc[d] \in StartPlaces /\ ch = <<"starting", at[d]>>
  <2>1. PICK d \in Client : pc[d] \in StartPlaces /\ ch = <<"starting", at[d]>>
    BY <1>1
  <2>2. CASE d = c
    BY <2>1, <2>2, WakersAreNext
  <2>3. CASE d # c
    BY <2>1, <2>3, WakersAreNext
  <2>. QED
    BY <2>2, <2>3
<1>2. CASE \E d \in Client : pc[d] \in StopPlaces /\ ch = <<"stopping", at[d]>>
  <2>1. PICK d \in Client : pc[d] \in StopPlaces /\ ch = <<"stopping", at[d]>>
    BY <1>2
  <2>2. CASE d = c
    BY <2>1, <2>2, WakersAreNext
  <2>3. CASE d # c
    BY <2>1, <2>3, WakersAreNext
  <2>. QED
    BY <2>2, <2>3
<1>3. CASE \E e \in tearing : ch = <<"stopping", e>>
  BY <1>3, WakersAreNext
<1>. QED
  BY <1>1, <1>2, <1>3, WakersAre

\* If those who wait for the channel that is closed are woken, nobody's wake-up is lost.
Woken == \A d \in Client : pc[d] = "wait" => busy[d] \in Wakers \cup {Closed}

\* A step that takes away no other waker than the one whose channel it closes, and wakes
\* those who wait for that, loses no wake-up.
LEMMA StillWoken ==
  ASSUME Woken, NEW gone,
         \A ch \in Wakers : ch \in Wakers' \/ ch = gone,
         \A d \in Client : pc'[d] = "wait" =>
            busy'[d] = Closed \/ busy'[d] \in Wakers'
              \/ (pc[d] = "wait" /\ busy'[d] = busy[d] /\ (busy[d] # gone \/ gone = Closed))
  PROVE  Woken'
<1>1. \A d \in Client : pc'[d] = "wait" => busy'[d] \in Wakers' \/ busy'[d] = Closed
  BY DEF Woken
<1>2. Closed' = Closed
  BY DEF Closed
<1>. QED
  BY <1>1, <1>2 DEF Woken

\* A client's step loses no wake-up: it closes its channel as it lets go of the mark.
LEMMA ClientStepWakes ==
  ASSUME TypeOK, IInv, Woken, starting # 0 => Starters # {},
         stopping # 0 => Stoppers # {} \/ tearing # {},
         NEW c \in Client, Subscribe(c) \/ Cancel(c) \/ ClientStep(c)
  PROVE  Woken'
<1>0. /\ pc \in [Client -> PC] /\ at \in [Client -> Nat]
      /\ busy \in [Client -> Channel \cup {Closed}]
      /\ \A n : <<"starting", n>> # Closed /\ <<"stopping", n>> # Closed
  BY DEF TypeOK, Closed
<1>1. Closed \notin Wakers
  BY <1>0, WakersAre
<1>2. ASSUME NEW l, pc' = [pc EXCEPT ![c] = l], UNCHANGED at
      PROVE  at' = [at EXCEPT ![c] = at[c]]
  BY <1>0, <1>2
<1>3. ASSUME NEW l, NEW a, pc' = [pc EXCEPT ![c] = l], at' = [at EXCEPT ![c] = a],
             pc[c] \notin StartPlaces \cup StopPlaces, l # "wait",
             tearing \subseteq tearing', \A d \in Client \ {c} : busy'[d] = busy[d]
      PROVE  Woken'
  <2>1. \A ch \in Wakers : ch \in Wakers' \/ ch = Closed
    BY <1>3, OthersWake
  <2>2. \A d \in Client : pc'[d] = "wait" => pc[d] = "wait" /\ busy'[d] = busy[d]
    BY <1>0, <1>3
  <2>. QED
    BY <2>1, <2>2, StillWoken
<1>4. CASE \/ Subscribe(c) \/ GiveUp(c) \/ AttachJoin(c) \/ Joined(c) \/ KeyFrameTimeout(c)
           \/ AwaitCancelled(c) \/ Ready(c) \/ Leave(c)
  <2>1. \E l : /\ pc' = [pc EXCEPT ![c] = l] /\ l # "wait" /\ UNCHANGED <<at, tearing>>
               /\ pc[c] \notin StartPlaces \cup StopPlaces
               /\ \A d \in Client \ {c} : busy'[d] = busy[d]
    BY <1>0, <1>4 DEF Subscribe, GiveUp, AttachJoin, Joined, KeyFrameTimeout, AwaitCancelled,
       Ready, Leave, Goto, Looks, StartPlaces, StopPlaces, source, goroutine
  <2>. QED
    BY <1>2, <1>3, <2>1
<1>5. CASE Cancel(c)
  <2>1. UNCHANGED <<pc, at, busy, tearing>>
    BY <1>5 DEF Cancel, source
  <2>. QED
    BY <2>1 DEF Woken, Wakers, Closed, Starters, Stoppers
<1>6. CASE AttachBusy(c)
  <2>1. /\ pc' = [pc EXCEPT ![c] = "wait"] /\ busy' = [busy EXCEPT ![c] = BusyChannel]
        /\ pc[c] \notin StartPlaces \cup StopPlaces /\ HubBusy
        /\ UNCHANGED <<at, tearing>>
    BY <1>6 DEF AttachBusy, Goto, Looks, StartPlaces, StopPlaces, source
  <2>2. \A ch \in Wakers : ch \in Wakers' \/ ch = Closed
    BY <1>2, <2>1, OthersWake
  <2>3. BusyChannel \in Wakers'
    <3>1. BusyChannel \in Wakers
      BY <2>1, WakersAre DEF HubBusy, BusyChannel, Starters, Stoppers, StartPlaces, StopPlaces,
         IInv, MarkOwner
    <3>. QED
      BY <1>1, <2>2, <3>1
  <2>4. \A d \in Client : pc'[d] = "wait" =>
            busy'[d] \in Wakers' \/ (pc[d] = "wait" /\ busy'[d] = busy[d])
    BY <1>0, <2>1, <2>3
  <2>. QED
    BY <2>2, <2>4, StillWoken
<1>7. CASE AttachStart(c)
  <2>1. /\ pc' = [pc EXCEPT ![c] = "start"] /\ at' = [at EXCEPT ![c] = epoch + 1]
        /\ pc[c] \notin StartPlaces \cup StopPlaces
        /\ UNCHANGED <<busy, tearing>>
    BY <1>7 DEF AttachStart, Goto, Looks, StartPlaces, StopPlaces
  <2>. QED
    BY <1>3, <2>1
<1>8. ASSUME NEW l \in StartPlaces, pc' = [pc EXCEPT ![c] = l], pc[c] \in StartPlaces,
             UNCHANGED <<at, busy, tearing>>
      PROVE  Woken'
  <2>1. \A ch \in Wakers : ch \in Wakers' \/ ch = Closed
    BY <1>2, <1>8, OthersWake DEF StartPlaces, StopPlaces
  <2>2. \A d \in Client : pc'[d] = "wait" => pc[d] = "wait" /\ busy'[d] = busy[d]
    BY <1>0, <1>8 DEF StartPlaces
  <2>. QED
    BY <2>1, <2>2, StillWoken
<1>9. CASE StartSucceeds(c) \/ StartFails(c) \/ FindEnded(c)
  <2>1. \E l \in StartPlaces : /\ pc' = [pc EXCEPT ![c] = l] /\ pc[c] \in StartPlaces
                               /\ UNCHANGED <<at, busy, tearing>>
    BY <1>9 DEF StartSucceeds, StartFails, FindEnded, Goto, StartPlaces, source
  <2>. QED
    BY <1>8, <2>1
<1>10. ASSUME NEW l, l \notin StartPlaces \cup StopPlaces, l # "wait",
              pc' = [pc EXCEPT ![c] = l], UNCHANGED <<at, tearing>>, NEW gone, Wake(gone),
              \/ pc[c] \in StartPlaces /\ gone = <<"starting", at[c]>>
              \/ pc[c] \in StopPlaces /\ gone = <<"stopping", at[c]>>
       PROVE  Woken'
  <2>1. \A ch \in Wakers : ch \in Wakers' \/ ch = gone
    <3>1. pc[c] \in StartPlaces => pc[c] \notin StopPlaces
      BY DEF StartPlaces, StopPlaces
    <3>. QED
      BY <1>2, <1>10, <3>1, OthersWake
  <2>2. \A d \in Client : pc'[d] = "wait" =>
            busy'[d] = Closed \/ (pc[d] = "wait" /\ busy'[d] = busy[d] /\ busy[d] # gone)
    BY <1>0, <1>10 DEF Wake
  <2>. QED
    BY <2>1, <2>2, StillWoken
<1>11. CASE ReportStartFailure(c) \/ Install(c) \/ StopEnded(c)
  <2>1. \E l : /\ l \notin StartPlaces \cup StopPlaces /\ l # "wait"
               /\ pc' = [pc EXCEPT ![c] = l]
    BY <1>11 DEF ReportStartFailure, Install, StopEnded, Goto, Fail, StartPlaces, StopPlaces
  <2>2. /\ pc[c] \in StartPlaces /\ Wake(<<"starting", at[c]>>) /\ UNCHANGED <<at, tearing>>
    BY <1>11 DEF ReportStartFailure, Install, StopEnded, StartPlaces, source
  <2>. QED
    BY <1>10, <2>1, <2>2
<1>12. CASE ReleaseHub(c)
  <2>1. /\ pc' = [pc EXCEPT ![c] = "return"] /\ pc[c] \in StopPlaces
        /\ Wake(<<"stopping", at[c]>>) /\ UNCHANGED <<at, tearing>>
    BY <1>12 DEF ReleaseHub, Goto, StopPlaces, source
  <2>. QED
    BY <1>10, <2>1 DEF StartPlaces, StopPlaces
<1>13. CASE StopReturns(c)
  <2>1. /\ pc' = [pc EXCEPT ![c] = "unstop"] /\ pc[c] = "stop" /\ UNCHANGED <<at, busy, tearing>>
    BY <1>13 DEF StopReturns, Goto
  <2>2. \A ch \in Wakers : ch \in Wakers' \/ ch = Closed
    BY <1>2, <2>1, OthersWake DEF StartPlaces, StopPlaces
  <2>3. \A d \in Client : pc'[d] = "wait" => pc[d] = "wait" /\ busy'[d] = busy[d]
    BY <1>0, <2>1
  <2>. QED
    BY <2>2, <2>3, StillWoken
<1>14. CASE Consume(c)
  <2>1. CASE UNCHANGED pc
    <3>1. UNCHANGED <<pc, at, busy, tearing>>
      BY <1>14, <2>1 DEF Consume, source
    <3>. QED
      BY <3>1 DEF Woken, Wakers, Closed, Starters, Stoppers
  <2>2. CASE pc' = [pc EXCEPT ![c] = "detach"]
    <3>1. pc[c] \notin StartPlaces \cup StopPlaces /\ UNCHANGED <<at, busy, tearing>>
      BY <1>14 DEF Consume, StartPlaces, StopPlaces, source
    <3>. QED
      BY <1>2, <1>3, <2>2, <3>1
  <2>. QED
    BY <1>14, <2>1, <2>2 DEF Consume, Goto
<1>15. CASE Detach(c) \/ Return(c)
  <2>1. \E l, a : /\ pc' = [pc EXCEPT ![c] = l] /\ l # "wait" /\ at' = [at EXCEPT ![c] = a]
    BY <1>15 DEF Detach, Return, Goto
  <2>2. pc[c] \notin StartPlaces \cup StopPlaces /\ UNCHANGED <<busy, tearing>>
    BY <1>15 DEF Detach, Return, StartPlaces, StopPlaces, source
  <2>. QED
    BY <1>3, <2>1, <2>2
<1>. QED
  BY <1>4, <1>5, <1>6, <1>7, <1>9, <1>11, <1>12, <1>13, <1>14, <1>15 DEF ClientStep

\* Nor does a step of a reader goroutine.
LEMMA ReaderStepWakes ==
  ASSUME TypeOK, IInv, Woken, NEW e \in Nat, ReaderStep(e)
  PROVE  Woken'
<1>1. CASE ReaderReleaseHub(e)
  <2>1. UNCHANGED <<pc, at>> /\ tearing' = tearing \ {e} /\ Wake(<<"stopping", e>>)
    BY <1>1 DEF ReaderReleaseHub
  <2>2. \A ch \in Wakers : ch \in Wakers' \/ ch = <<"stopping", e>>
    BY <2>1, WakersAre, WakersAreNext
  <2>3. \A d \in Client : pc'[d] = "wait" =>
            busy'[d] = Closed \/ (pc[d] = "wait" /\ busy'[d] = busy[d] /\ busy[d] # <<"stopping", e>>)
    BY <2>1 DEF Wake, TypeOK
  <2>. QED
    BY <2>2, <2>3, StillWoken
<1>2. CASE ~ReaderReleaseHub(e)
  <2>1. UNCHANGED <<pc, at, busy>> /\ tearing \subseteq tearing'
    BY <1>2 DEF ReaderStep, Publish, Deliver, ReaderStopReturns, SourceDies, SourceEnded,
       goroutine, source
  <2>2. \A ch \in Wakers : ch \in Wakers' \/ ch = Closed
    BY <2>1, WakersAre, WakersAreNext
  <2>. QED
    BY <2>1, <2>2, StillWoken
<1>. QED
  BY <1>1, <1>2

\* A reserved hub has somebody who will let go of it.
Owned == /\ starting # 0 => Starters # {}
         /\ stopping # 0 => Stoppers # {} \/ tearing # {}

\* A client that lets go of its start or stop clears the hub's mark in the same step,
\* or it was not the hub's any more.
LEMMA ClientStepOwned ==
  ASSUME TypeOK, IInv, Owned, NEW c \in Client, Subscribe(c) \/ Cancel(c) \/ ClientStep(c)
  PROVE  Owned'
<1> USE DEF TypeOK, Owned, Starters, Stoppers, Goto, Fail, hub, source, goroutine
<1>1. CASE \/ Subscribe(c) \/ Cancel(c) \/ AttachBusy(c) \/ GiveUp(c) \/ AttachJoin(c)
           \/ Joined(c) \/ KeyFrameTimeout(c) \/ AwaitCancelled(c) \/ Ready(c)
           \/ Consume(c) \/ Leave(c) \/ Return(c) \/ StopEnded(c)
  <2>1. /\ UNCHANGED <<starting, stopping, tearing>>
        /\ \A d \in Starters \cup Stoppers : pc'[d] = pc[d]
    BY <1>1 DEF Subscribe, Cancel, AttachBusy, GiveUp, AttachJoin, Joined, KeyFrameTimeout,
       AwaitCancelled, Ready, Consume, Leave, Return, StopEnded, Looks
  <2>. QED
    BY <2>1
<1>2. CASE AttachStart(c)
  <2>1. pc'[c] = "start" /\ UNCHANGED <<stopping, tearing>>
        /\ \A d \in Stoppers : pc'[d] = pc[d]
    BY <1>2 DEF AttachStart, Looks
  <2>. QED
    BY <2>1
<1>3. CASE StartSucceeds(c) \/ StartFails(c) \/ StopReturns(c)
  <2>1. /\ UNCHANGED <<starting, stopping, tearing>>
        /\ \A d \in Starters : d \in Starters'
        /\ \A d \in Stoppers : d \in Stoppers'
    BY <1>3 DEF StartSucceeds, StartFails, StopReturns
  <2>. QED
    BY <2>1
<1>4. CASE ReportStartFailure(c) \/ Install(c) \/ FindEnded(c)
  <2>1. /\ starting' = 0 /\ UNCHANGED <<stopping, tearing>>
        /\ \A d \in Stoppers : pc'[d] = pc[d]
    BY <1>4 DEF ReportStartFailure, Install, FindEnded
  <2>. QED
    BY <2>1
<1>5. CASE Detach(c)
  <2>1. /\ UNCHANGED <<starting, tearing>>
        /\ \A d \in Starters \cup Stoppers : pc'[d] = pc[d]
        /\ pc'[c] = "stop" \/ stopping' = stopping
    BY <1>5 DEF Detach, TakeStopIfIdle
  <2>. QED
    BY <2>1
<1>6. CASE ReleaseHub(c)
  <2>1. stopping' = 0 /\ UNCHANGED starting
    BY <1>6 DEF ReleaseHub, IInv, MarkOwner
  <2>2. \A d \in Starters : pc'[d] = pc[d]
    BY <1>6 DEF ReleaseHub
  <2>. QED
    BY <2>1, <2>2
<1>. QED
  BY <1>1, <1>2, <1>3, <1>4, <1>5, <1>6 DEF ClientStep

\* The reader that stops its own source does likewise.
LEMMA ReaderStepOwned ==
  ASSUME TypeOK, IInv, Owned, NEW e \in Nat, ReaderStep(e)
  PROVE  Owned'
<1> USE DEF Owned, Starters, Stoppers, hub, source, goroutine
<1>1. CASE \E chunk \in Chunks : Publish(e, chunk)
  <2>1. PICK chunk \in Chunks : Publish(e, chunk)
    BY <1>1
  <2>2. UNCHANGED <<pc, starting>> /\ tearing \subseteq tearing'
        /\ (stopping' = stopping \/ e \in tearing')
    BY <2>1 DEF Publish, Deliver, TakeStopIfIdle
  <2>. QED
    BY <2>2
<1>2. CASE ReaderStopReturns(e) \/ SourceDies(e)
  BY <1>2 DEF ReaderStopReturns, SourceDies
<1>3. CASE ReaderReleaseHub(e)
  BY <1>3 DEF ReaderReleaseHub, IInv, MarkOwner
<1>4. CASE \E reason \in Ends : SourceEnded(e, reason)
  BY <1>4 DEF SourceEnded
<1>. QED
  BY <1>1, <1>2, <1>3, <1>4 DEF ReaderStep

\* No wake-up of the hub is lost, for any number of captures and sources: every
\* channel that a capture waits for has somebody who will close it, and the hub is
\* reserved only while somebody starts or stops a source.
THEOREM EveryWaiterHasAWaker == Spec => []NoLostWakeup
<1> DEFINE Inv == Woken /\ Owned
<1>1. Init => Inv
  BY DEF Init, Woken, Owned
<1>2. TypeOK /\ IInv /\ Inv /\ [Next]_vars => Inv'
  <2> SUFFICES ASSUME TypeOK, IInv, Woken, Owned, [Next]_vars PROVE Woken' /\ Owned'
    OBVIOUS
  <2>1. CASE UNCHANGED vars
    BY <2>1 DEF vars, hub, subscriber, goroutine, history, source, Woken, Owned, Wakers,
                Starters, Stoppers, Closed
  <2>2. ASSUME NEW c \in Client, Subscribe(c) \/ Cancel(c) \/ ClientStep(c)
        PROVE  Woken' /\ Owned'
    BY <2>2, ClientStepWakes, ClientStepOwned DEF Owned
  <2>3. ASSUME NEW e \in reading \union tearing \union closed, ReaderStep(e)
        PROVE  Woken' /\ Owned'
    <3>1. e \in Nat
      BY DEF TypeOK
    <3>. QED
      BY <3>1, <2>3, ReaderStepWakes, ReaderStepOwned
  <2>. QED
    BY <2>1, <2>2, <2>3 DEF Next
<1>3. Inv => NoLostWakeup
  BY DEF Woken, Owned, NoLostWakeup
<1>. QED
  BY <1>1, <1>2, <1>3, TypeCorrect, HubInvariant, PTL DEF Spec
===============================================================================
