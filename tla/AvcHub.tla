-------------------------------- MODULE AvcHub --------------------------------
(***************************************************************************)
(* devices/avc_hub.go: one H.264 source per iOS device, fanned out to      *)
(* every concurrent capture.  A client is a goroutine inside subscribe();  *)
(* a source is known by the epoch it was started with.  Each action is one *)
(* stretch of code under h.mu, or one call made without it (src.start, the *)
(* source's stop, src.ready, a receive from the subscriber's channel).     *)
(***************************************************************************)
EXTENDS Naturals, FiniteSets

CONSTANTS
    Client,    \* the goroutines that subscribe
    QueueCap,  \* avcSubscriberQueue: chunks a subscriber may fall behind
    Chunks,    \* what an emitted chunk may complete: sets of NAL unit kinds
    Ends,      \* what a source that ends by itself may report
    MaxCalls   \* bound: calls of subscribe in a behaviour

NalUnit == {"sps", "pps", "idr", "slice"}

\* The reasons a subscription returns.
Reason == {"nil", "slow", "noKeyFrame", "sourceEnded", "lost", "startFailed"}

ASSUME AvcHubAssumption ==
    /\ QueueCap \in Nat \ {0}
    /\ Chunks \subseteq SUBSET NalUnit
    /\ Ends \subseteq {"nil", "lost"}
    /\ MaxCalls \in Nat

VARIABLES
    \* the avcHub
    subs, stop, starting, stopping, endErr, epoch, sets, tail,
    \* each client's avcSubscriber
    queued, waiting, late, dropped, subErr,
    \* each client's goroutine
    pc, at, busy, cause, cancelled, calls,
    \* history of a subscription: what a late joiner was handed first, whose bytes
    \* came last, who was told that its capture is live
    first, from, readied,
    \* the sources: which hold the device, and where their reader goroutines are
    live, reading, tearing, closed

hub == <<subs, stop, starting, stopping, endErr, epoch, sets, tail>>
subscriber == <<queued, waiting, late, dropped, subErr>>
goroutine == <<pc, at, busy, cause, cancelled, calls>>
history == <<first, from, readied>>
source == <<live, reading, tearing, closed>>
vars == <<hub, subscriber, goroutine, history, source>>

PC == {"idle", "attach", "wait", "start", "failed", "started", "early",
       "await", "ready", "stream", "detach", "stop", "unstop", "return"}

Channel == {"starting", "stopping"} \X Nat
Closed == <<"closed", 0>>

TypeOK ==
    /\ subs \subseteq Client /\ waiting \subseteq Client /\ late \subseteq Client
    /\ dropped \subseteq Client /\ cancelled \subseteq Client /\ readied \subseteq Client
    /\ stop \in Nat /\ starting \in Nat /\ stopping \in Nat /\ epoch \in Nat
    /\ endErr \in Reason
    /\ sets \subseteq {"sps", "pps"} /\ tail \subseteq NalUnit
    /\ queued \in [Client -> 0..QueueCap]
    /\ subErr \in [Client -> Reason]
    /\ cause \in [Client -> Reason]
    /\ pc \in [Client -> PC]
    /\ at \in [Client -> Nat]
    /\ busy \in [Client -> Channel \union {Closed}]
    /\ calls \in Nat
    /\ first \in [Client -> SUBSET NalUnit]
    /\ from \in [Client -> Nat]
    /\ live \subseteq Nat /\ reading \subseteq Nat
    /\ tearing \subseteq Nat /\ closed \subseteq Nat

Init ==
    /\ subs = {} /\ stop = 0 /\ starting = 0 /\ stopping = 0
    /\ endErr = "nil" /\ epoch = 0 /\ sets = {} /\ tail = {}
    /\ queued = [c \in Client |-> 0]
    /\ waiting = {} /\ late = {} /\ dropped = {}
    /\ subErr = [c \in Client |-> "nil"]
    /\ pc = [c \in Client |-> "idle"]
    /\ at = [c \in Client |-> 0]
    /\ busy = [c \in Client |-> Closed]
    /\ cause = [c \in Client |-> "nil"]
    /\ cancelled = {} /\ calls = 0
    /\ first = [c \in Client |-> {}] /\ from = [c \in Client |-> 0] /\ readied = {}
    /\ live = {} /\ reading = {} /\ tearing = {} /\ closed = {}

-------------------------------------------------------------------------------
(* Steps that several operations share *)

Goto(c, label) == pc' = [pc EXCEPT ![c] = label]

\* The error subscribe is about to return to its caller.
Fail(c, reason) ==
    /\ Goto(c, "return")
    /\ cause' = [cause EXCEPT ![c] = reason]

\* Fault: the last reason wins, registered or not.
FinishAgain(S, reason) ==
    /\ subs' = subs \ S
    /\ subErr' = [c \in Client |-> IF c \in S THEN reason ELSE subErr[c]]
    /\ waiting' = waiting \ S
    /\ UNCHANGED <<queued, late, dropped>>

\* finishLocked for every client of S: only one still registered is ended.
Finish(S, reason) ==
    LET ended == S \intersect subs IN
    /\ subs' = subs \ ended
    /\ subErr' = [c \in Client |-> IF c \in ended THEN reason ELSE subErr[c]]
    /\ waiting' = waiting \ ended
    /\ UNCHANGED <<queued, late, dropped>>

\* takeStopIfIdleLocked once only `remaining` are subscribed, the parsed
\* stream state being s and t: the last one leaving takes the source's stop
\* func, and reserves the hub until it has returned.
TakenByAnyone(remaining) == stop # 0  \* fault: the first one to leave stops the source
NeverTaken(remaining) == FALSE        \* fault: nobody does
Taken(remaining) == stop # 0 /\ remaining = {}

\* Fault: the hub is not reserved while stop() runs.
TakeStopUnreserved(remaining, s, t) ==
    /\ IF Taken(remaining)
       THEN stop' = 0 /\ sets' = {} /\ tail' = {} /\ epoch' = epoch + 1
       ELSE sets' = s /\ tail' = t /\ UNCHANGED <<stop, epoch>>
    /\ UNCHANGED stopping

TakeStopIfIdle(remaining, s, t) ==
    IF Taken(remaining)
    THEN /\ stopping' = stop /\ stop' = 0
         /\ sets' = {} /\ tail' = {}
         /\ epoch' = epoch + 1
    ELSE /\ sets' = s /\ tail' = t
         /\ UNCHANGED <<stop, stopping, epoch>>

\* close(ch): everyone blocked on ch may go on.
WakeNobody(ch) == UNCHANGED busy  \* fault: the channel is never closed
Wake(ch) == busy' = [c \in Client |-> IF busy[c] = ch THEN Closed ELSE busy[c]]

-------------------------------------------------------------------------------
(* Attaching *)

\* A capture calls subscribe, with a cancel channel of its own.
Subscribe(c) ==
    /\ pc[c] = "idle"
    /\ calls < MaxCalls
    /\ calls' = calls + 1
    /\ Goto(c, "attach")
    /\ UNCHANGED <<hub, subscriber, at, busy, cause, cancelled, history, source>>

\* subscribe returns, and its subscriber and cancel channel with it.
Return(c) ==
    /\ pc[c] = "return"
    /\ Goto(c, "idle")
    /\ at' = [at EXCEPT ![c] = 0]
    /\ cause' = [cause EXCEPT ![c] = "nil"]
    /\ cancelled' = cancelled \ {c}
    /\ queued' = [queued EXCEPT ![c] = 0]
    /\ late' = late \ {c} /\ dropped' = dropped \ {c}
    /\ subErr' = [subErr EXCEPT ![c] = "nil"]
    /\ first' = [first EXCEPT ![c] = {}]
    /\ from' = [from EXCEPT ![c] = 0]
    /\ readied' = readied \ {c}
    /\ UNCHANGED <<hub, waiting, busy, calls, source>>

\* watchStop closes the cancel channel: Ctrl+C or the caller's stop channel.
\* Past the last select that looks at it, it makes no difference.
Cancel(c) ==
    /\ pc[c] \notin {"idle", "detach", "stop", "unstop", "return"}
    /\ c \notin cancelled
    /\ cancelled' = cancelled \union {c}
    /\ UNCHANGED <<hub, subscriber, pc, at, busy, cause, calls, history, source>>

\* A client looks at the hub, at first and whenever the channel it waited for
\* was closed.
Looks(c) == pc[c] = "attach" \/ (pc[c] = "wait" /\ busy[c] = Closed)

\* busyLocked: the channel of the stop or the start in flight.
BusyChannel == IF stopping # 0 THEN <<"stopping", stopping>> ELSE <<"starting", starting>>
BusyStarting == starting # 0  \* fault: a stop in flight is not waited for
HubBusy == stopping # 0 \/ starting # 0

AttachBusy(c) ==
    /\ Looks(c) /\ HubBusy
    /\ busy' = [busy EXCEPT ![c] = BusyChannel]
    /\ Goto(c, "wait")
    /\ UNCHANGED <<hub, subscriber, at, cause, cancelled, calls, history, source>>

\* waitOrCancel: the caller cancelled, and attach returns (nil, nil).
GiveUp(c) ==
    /\ pc[c] = "wait" /\ c \in cancelled
    /\ Goto(c, "return")
    /\ busy' = [busy EXCEPT ![c] = Closed]
    /\ UNCHANGED <<hub, subscriber, at, cause, cancelled, calls, history, source>>

\* Join the running source as a late joiner.
AttachJoin(c) ==
    /\ Looks(c) /\ ~HubBusy /\ stop # 0
    /\ subs' = subs \union {c}
    /\ waiting' = waiting \union {c} /\ late' = late \union {c}
    /\ Goto(c, "await")
    /\ UNCHANGED <<stop, starting, stopping, endErr, epoch, sets, tail,
                   queued, dropped, subErr,
                   at, busy, cause, cancelled, calls, history, source>>

\* Reserve the hub and call src.start, which takes hold of the device.
AttachStart(c) ==
    /\ Looks(c) /\ ~HubBusy /\ stop = 0
    /\ epoch' = epoch + 1
    /\ starting' = epoch + 1
    /\ subs' = subs \union {c}
    /\ at' = [at EXCEPT ![c] = epoch + 1]
    /\ Goto(c, "start")
    /\ live' = live \union {epoch + 1}
    /\ UNCHANGED <<stop, stopping, endErr, sets, tail, subscriber,
                   busy, cause, cancelled, calls, history, reading, tearing, closed>>

-------------------------------------------------------------------------------
(* src.start and what follows it *)

\* src.start succeeds: its reader goroutine runs before start has returned.
StartSucceeds(c) ==
    /\ pc[c] = "start"
    /\ Goto(c, "started")
    /\ reading' = reading \union {at[c]}
    /\ UNCHANGED <<hub, subscriber, at, busy, cause, cancelled, calls, history,
                   live, tearing, closed>>

\* src.start fails, leaving nothing behind on the device.
StartFails(c) ==
    /\ pc[c] = "start"
    /\ Goto(c, "failed")
    /\ live' = live \ {at[c]}
    /\ UNCHANGED <<hub, subscriber, at, busy, cause, cancelled, calls, history,
                   reading, tearing, closed>>

\* startSource after an error: the starter fails, one of the waiters tries next.
\* Closing `started` right after the unlock is part of the step: a waiter that
\* may run need not run.
ReportStartFailure(c) ==
    /\ pc[c] = "failed"
    /\ starting' = 0
    /\ Finish({c}, "startFailed")
    /\ Wake(<<"starting", at[c]>>)
    /\ Fail(c, "startFailed")
    /\ UNCHANGED <<stop, stopping, endErr, epoch, sets, tail,
                   at, cancelled, calls, history, source>>

\* startSource installs the stop func of the source it started.
Install(c) ==
    /\ pc[c] = "started" /\ epoch = at[c]
    /\ starting' = 0
    /\ stop' = at[c]
    /\ Wake(<<"starting", at[c]>>)
    /\ Goto(c, "ready")
    /\ UNCHANGED <<subs, stopping, endErr, epoch, sets, tail, subscriber,
                   at, cause, cancelled, calls, history, source>>

\* startSource finds that the source ended while it was still starting.
FindEnded(c) ==
    /\ pc[c] = "started" /\ epoch # at[c]
    /\ LET reason == IF endErr = "nil" THEN "sourceEnded" ELSE endErr IN
       /\ Finish({c}, reason)
       /\ cause' = [cause EXCEPT ![c] = reason]
    /\ starting' = 0
    /\ Goto(c, "early")
    /\ UNCHANGED <<stop, stopping, endErr, epoch, sets, tail,
                   at, busy, cancelled, calls, history, source>>

\* ... and calls its stop func, the hub not reserved, before it lets waiters go.
StopEnded(c) ==
    /\ pc[c] = "early"
    /\ live' = live \ {at[c]}
    /\ Wake(<<"starting", at[c]>>)
    /\ Goto(c, "return")
    /\ UNCHANGED <<hub, subscriber, at, cause, cancelled, calls, history,
                   reading, tearing, closed>>

-------------------------------------------------------------------------------
(* A late joiner waits for its first key frame (awaitFirstChunk); asking the *)
(* encoder for one, once or repeatedly, changes no state of the hub.         *)

Joined(c) ==
    /\ pc[c] = "await" /\ c \notin waiting
    /\ Goto(c, "ready")
    /\ UNCHANGED <<hub, subscriber, at, busy, cause, cancelled, calls, history, source>>

KeyFrameTimeout(c) ==
    /\ pc[c] = "await"
    /\ Goto(c, "detach")
    /\ cause' = [cause EXCEPT ![c] = "noKeyFrame"]
    /\ UNCHANGED <<hub, subscriber, at, busy, cancelled, calls, history, source>>

AwaitCancelled(c) ==
    /\ pc[c] = "await" /\ c \in cancelled
    /\ Goto(c, "detach")
    /\ UNCHANGED <<hub, subscriber, at, busy, cause, cancelled, calls, history, source>>

\* src.ready tells the caller that its capture is live.
Ready(c) ==
    /\ pc[c] = "ready"
    /\ readied' = readied \union {c}
    /\ Goto(c, "stream")
    /\ UNCHANGED <<hub, subscriber, at, busy, cause, cancelled, calls,
                   first, from, source>>

-------------------------------------------------------------------------------
(* The subscriber's loop and its detach *)

\* A chunk is received and handed to onData, which may say it was the last.
Consume(c) ==
    /\ pc[c] = "stream" /\ queued[c] > 0
    /\ queued' = [queued EXCEPT ![c] = @ - 1]
    /\ \/ c \notin dropped /\ UNCHANGED pc
       \/ Goto(c, "detach")
    /\ UNCHANGED <<hub, waiting, late, dropped, subErr,
                   at, busy, cause, cancelled, calls, history, source>>

\* Fault: the loop does not look at the cancel channel.
LeaveWhenClosed(c) ==
    /\ pc[c] = "stream" /\ c \notin subs /\ queued[c] = 0
    /\ Goto(c, "detach")
    /\ UNCHANGED <<hub, subscriber, at, busy, cause, cancelled, calls, history, source>>

\* The channel was closed and is drained, or the caller cancelled.
Leave(c) ==
    /\ pc[c] = "stream"
    /\ c \in cancelled \/ (c \notin subs /\ queued[c] = 0)
    /\ Goto(c, "detach")
    /\ UNCHANGED <<hub, subscriber, at, busy, cause, cancelled, calls, history, source>>

Detach(c) ==
    /\ pc[c] = "detach"
    /\ Finish({c}, cause[c])
    /\ TakeStopIfIdle(subs', sets, tail)
    /\ at' = [at EXCEPT ![c] = IF Taken(subs') THEN stop ELSE 0]
    /\ cause' = [cause EXCEPT ![c] = subErr'[c]]
    /\ Goto(c, IF Taken(subs') THEN "stop" ELSE "return")
    /\ UNCHANGED <<starting, endErr, busy, cancelled, calls, history, source>>

\* runStop: stop() returns once the source has let go of the device ...
StopReturns(c) ==
    /\ pc[c] = "stop"
    /\ live' = live \ {at[c]}
    /\ Goto(c, "unstop")
    /\ UNCHANGED <<hub, subscriber, at, busy, cause, cancelled, calls, history,
                   reading, tearing, closed>>

\* ... and the hub is free for the next subscriber, unless it is reserved anew.
ReleaseHub(c) ==
    /\ pc[c] = "unstop"
    /\ stopping' = IF stopping = at[c] THEN 0 ELSE stopping
    /\ Wake(<<"stopping", at[c]>>)
    /\ Goto(c, "return")
    /\ UNCHANGED <<subs, stop, starting, endErr, epoch, sets, tail, subscriber,
                   at, cause, cancelled, calls, history, source>>

-------------------------------------------------------------------------------
(* The source's reader goroutine *)

\* What a source says counts only while it is the hub's current one.
AnyEpoch(e) == TRUE  \* fault: leftovers of a stopped source count too
Current(e) == e = epoch

\* The bytes scanLocked works on: an unfinished picture's head, then the chunk.
Buffer(chunk) == tail \union chunk
CachedSets(chunk) == sets \union (Buffer(chunk) \intersect {"sps", "pps"})

\* What is left for the next chunk: a head whose slice has not come yet.
KeptTail(chunk) == IF Buffer(chunk) \intersect {"idr", "slice"} # {} THEN {} ELSE Buffer(chunk)

\* A late joiner may start in this buffer: both parameter sets are cached and
\* it holds a key frame.
AnyKeyFrame(chunk) == "idr" \in Buffer(chunk)  \* fault: parameter sets or not
Decodable(chunk) == "idr" \in Buffer(chunk) /\ CachedSets(chunk) = {"sps", "pps"}

\* The pieces sent to a joiner: the cached sets unless the key frame brings an
\* SPS of its own, then the buffer from the head of that picture.
JoinerGets(chunk) ==
    Buffer(chunk) \union (IF "sps" \in Buffer(chunk) THEN {} ELSE CachedSets(chunk))

\* How many pieces sendLocked is asked to queue for c.
Sends(c, chunk) ==
    IF c \notin waiting THEN 1
    ELSE IF ~Decodable(chunk) THEN 0
    ELSE IF "sps" \in Buffer(chunk) THEN 1 ELSE 2

NeverOverflows(c, chunk) == FALSE  \* fault: the queue grows without limit
Overflows(c, chunk) == queued[c] + Sends(c, chunk) > QueueCap

\* publish under the lock, for a chunk of the current source.
Deliver(e, chunk) ==
    LET slow == {c \in subs : Overflows(c, chunk)}
        fed  == {c \in subs \ slow : Sends(c, chunk) > 0} IN
    /\ subs' = subs \ slow
    /\ queued' = [c \in Client |-> IF c \in slow THEN QueueCap
                                   ELSE IF c \in fed THEN queued[c] + Sends(c, chunk)
                                   ELSE queued[c]]
    /\ dropped' = dropped \union slow
    /\ subErr' = [c \in Client |-> IF c \in slow THEN "slow" ELSE subErr[c]]
    /\ waiting' = waiting \ (slow \union fed)
    /\ first' = [c \in Client |-> IF c \in late \intersect fed /\ first[c] = {}
                                  THEN IF c \in waiting THEN JoinerGets(chunk) ELSE chunk
                                  ELSE first[c]]
    /\ from' = [c \in Client |-> IF c \in fed THEN e ELSE from[c]]
    /\ TakeStopIfIdle(subs', CachedSets(chunk), KeptTail(chunk))
    /\ tearing' = IF Taken(subs') THEN tearing \union {e} ELSE tearing

\* emit: the reader of source e publishes a chunk; one of an older source has
\* no effect.  The reader itself runs the stop of a source it dropped the last
\* subscriber of.
Publish(e, chunk) ==
    /\ e \in reading \ tearing
    /\ Current(e)
    /\ Deliver(e, chunk)
    /\ UNCHANGED <<starting, endErr, late, goroutine, readied, live, reading, closed>>

\* runStop on the reader goroutine.
ReaderStopReturns(e) ==
    /\ e \in tearing /\ e \in live
    /\ live' = live \ {e}
    /\ UNCHANGED <<hub, subscriber, goroutine, history, reading, tearing, closed>>

ReaderReleaseHub(e) ==
    /\ e \in tearing /\ e \notin live
    /\ tearing' = tearing \ {e}
    /\ stopping' = IF stopping = e THEN 0 ELSE stopping
    /\ Wake(<<"stopping", e>>)
    /\ UNCHANGED <<subs, stop, starting, endErr, epoch, sets, tail, subscriber,
                   pc, at, cause, cancelled, calls, history, live, reading, closed>>

\* The reader meets the end of the stream, or its conn was closed by stop: it
\* completes the teardown before it calls ended.
SourceDies(e) ==
    /\ e \in reading \ tearing
    /\ reading' = reading \ {e}
    /\ closed' = closed \union {e}
    /\ live' = live \ {e}
    /\ UNCHANGED <<hub, subscriber, goroutine, history, tearing>>

\* sourceEnded: every subscriber fails with the source's error, and the next
\* subscribe starts afresh; the end of an older source means nothing.
SourceEnded(e, reason) ==
    /\ e \in closed
    /\ closed' = closed \ {e}
    /\ IF Current(e)
       THEN /\ Finish(subs, reason)
            /\ endErr' = reason
            /\ stop' = 0 /\ sets' = {} /\ tail' = {}
            /\ epoch' = epoch + 1
            /\ UNCHANGED <<starting, stopping>>
       ELSE UNCHANGED <<hub, subscriber>>
    /\ UNCHANGED <<goroutine, history, live, reading, tearing>>

-------------------------------------------------------------------------------

ClientStep(c) ==
    \/ AttachBusy(c) \/ GiveUp(c) \/ AttachJoin(c) \/ AttachStart(c)
    \/ StartSucceeds(c) \/ StartFails(c) \/ ReportStartFailure(c)
    \/ Install(c) \/ FindEnded(c) \/ StopEnded(c)
    \/ Joined(c) \/ KeyFrameTimeout(c) \/ AwaitCancelled(c) \/ Ready(c)
    \/ Consume(c) \/ Leave(c) \/ Detach(c)
    \/ StopReturns(c) \/ ReleaseHub(c) \/ Return(c)

ReaderStep(e) ==
    \/ \E chunk \in Chunks : Publish(e, chunk)
    \/ ReaderStopReturns(e) \/ ReaderReleaseHub(e)
    \/ SourceDies(e)
    \/ \E reason \in Ends : SourceEnded(e, reason)

Next ==
    \/ \E c \in Client : Subscribe(c) \/ Cancel(c) \/ ClientStep(c)
    \/ \E e \in reading \union tearing \union closed : ReaderStep(e)

\* Every started call of src.start and of stop returns and onData returns; a
\* goroutine that can run does, and select does not ignore a ready cancel
\* forever.  Nobody has to subscribe or cancel, and no source has to emit.
Epochs == 1..(2 * MaxCalls)
Fairness ==
    /\ \A c \in Client : WF_vars(ClientStep(c)) /\ WF_vars(Leave(c))
    /\ \A e \in Epochs :
          /\ WF_vars(ReaderStopReturns(e) \/ ReaderReleaseHub(e))
          /\ WF_vars(e \notin live /\ SourceDies(e))
          /\ WF_vars(\E reason \in Ends : SourceEnded(e, reason))

Spec == Init /\ [][Next]_vars
FairSpec == Spec /\ Fairness

-------------------------------------------------------------------------------
(* Properties *)

\* One encoder session per device: a second dial would steal the broadcast
\* extension's stream (comments of avcSource and attach).
OneLiveSource == \A e, f \in live : e = f

\* While a source is torn down nobody is subscribed, so no viewer is cut off by
\* another one's leaving and none can be handed bytes of the dying source.
TeardownIsUnwatched == stopping # 0 => subs = {} /\ stop = 0 /\ starting = 0

\* A source that holds the device has somebody who will let it go: the hub is
\* starting or stopping it, or it is installed and a subscriber has yet to detach.
NoOrphanSource ==
    \A e \in live :
        \/ starting = e \/ stopping = e
        \/ stop = e /\ \E c \in Client : pc[c] \in {"await", "ready", "stream", "detach"}

\* A late joiner is never handed a picture it cannot decode: parameter sets and
\* a key frame come before any slice (publish, "never hand a late joiner...").
LateJoinerDecodes ==
    \A c \in late : first[c] # {} => {"sps", "pps", "idr"} \subseteq first[c]

\* Every subscriber still attached is handed bytes of the current source only.
NoStaleBytes == \A c \in subs : from[c] \in {0, epoch}

\* A subscriber the hub dropped for falling behind has lost bytes: whichever way
\* it leaves, cancelled or not, its capture is not reported as a success.
TruncationIsReported == \A c \in dropped : pc[c] = "return" => cause[c] # "nil"

\* src.ready tells the caller that bytes it can decode are coming: it is called
\* for a late joiner only once its key frame is queued (subscribe's comment; the
\* test "a late joiner was reported ready before its first key frame").
ReadyHasKeyFrame == \A c \in late \intersect readied : "idr" \in first[c]

\* A cancelled subscription returns, whatever the others do.
CancelReturns == \A c \in Client : c \in cancelled /\ pc[c] # "idle" ~> pc[c] = "idle"

\* Nobody waits for ever on another subscriber's start or stop.
WaitersAreReleased == \A c \in Client : pc[c] = "wait" ~> pc[c] # "wait"

\* Once everyone has left, the device is let go.
IdleHubLetsGo == (\A c \in Client : pc[c] = "idle") ~> (live = {} \/ \E c \in Client : pc[c] # "idle")

-------------------------------------------------------------------------------
(* The inductive invariant behind OneLiveSource, TeardownIsUnwatched and     *)
(* NoOrphanSource: at most one of starting, stop and stopping is set, and    *)
(* what holds the device is the source it names.                             *)

Starters == {c \in Client : pc[c] \in {"start", "failed", "started"}}
Stoppers == {c \in Client : pc[c] \in {"stop", "unstop"}}
Attached == {c \in Client : pc[c] \in {"await", "ready", "stream", "detach"}}

\* The hub's three marks exclude one another.
OneMark ==
    /\ starting # 0 => stop = 0 /\ stopping = 0
    /\ stop # 0 => stopping = 0 /\ stop = epoch
    /\ live \subseteq {starting, stop, stopping} \ {0}
    /\ stopping # 0 => subs = {}

\* Whoever starts or stops a source is alone, and the hub says which source.
MarkOwner ==
    /\ \A c, d \in Starters : c = d
    /\ \A c, d \in Stoppers : c = d
    /\ \A c \in Starters : starting = at[c] /\ starting # 0
    /\ \A c \in Stoppers : stopping = at[c] /\ stopping # 0
    /\ tearing \subseteq {stopping} \ {0}
    /\ tearing # {} => Stoppers = {}
    /\ \A c \in Client : pc[c] \in {"failed", "unstop"} => at[c] \notin live

\* A source that ended, or is about to say so, has let go of the device.
EndedIsGone ==
    /\ closed \intersect live = {}
    /\ starting # 0 /\ starting # epoch => starting \notin live
    /\ starting <= epoch
    /\ \A e \in reading \union closed : e <= epoch

\* A subscriber has a goroutine that will detach it; an installed source has one.
SomebodyDetaches ==
    /\ subs \subseteq Starters \union Attached
    /\ stop # 0 => Attached # {}

IInv == OneMark /\ MarkOwner /\ EndedIsGone /\ SomebodyDetaches

-------------------------------------------------------------------------------
\* A channel that somebody has yet to close: the starter, also of a source that
\* ended meanwhile, or whoever runs the stop.
Wakers ==
    {<<"starting", at[d]>> : d \in Starters \union {c \in Client : pc[c] = "early"}}
    \union {<<"stopping", at[d]>> : d \in Stoppers}
    \union {<<"stopping", e>> : e \in tearing}

\* Who waits for a start or a stop waits for somebody who has yet to close its
\* channel, and a hub is reserved for a start or a stop that is under way: no
\* wake-up is lost, and the hub never stays reserved (attach, startSource, runStop).
NoLostWakeup ==
    /\ \A c \in Client : pc[c] = "wait" => busy[c] \in Wakers \union {Closed}
    /\ starting # 0 => Starters # {}
    /\ stopping # 0 => Stoppers # {} \/ tearing # {}

Shared == INSTANCE SharedStream WITH
    Viewer <- Client, viewers <- subs, source <- live, current <- epoch, screen <- from

\* The hub implements the shared stream: whatever the interleaving, no source is
\* opened over another, and viewers see bytes of the current one only.
SharedSpec == Shared!Spec
===============================================================================
