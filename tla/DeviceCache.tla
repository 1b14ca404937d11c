----------------------------- MODULE DeviceCache -----------------------------
(***************************************************************************)
(* The daemon's cache of device objects and the requests that share it:    *)
(* commands/commands.go (look-up, auto-selection, caching, eviction),      *)
(* commands/devices.go (listings evict), commands/location.go (overrides   *)
(* that keep the daemon alive) and devices/ios_location.go (the connection *)
(* that an override of iOS 17+ lives on). A scan makes a fresh object for  *)
(* each device it sees; only one that is put into the cache outlives its   *)
(* request, so objects are the numbered copies of a device, and a copy's   *)
(* number is used again once nothing refers to it.                         *)
(***************************************************************************)
EXTENDS Naturals, FiniteSets

CONSTANTS
    Request,     \* goroutines that serve requests of clients
    Local,       \* devices the local platforms list
    Remote,      \* devices of the fleet service
    Tethered,    \* local iOS 17+ devices: an override ends with its connection
    NoId,        \* the empty device id of a request
    MaxCopies,   \* bound: objects of one device alive at once
    MaxMishaps   \* bound: devices coming and going, and scans that fail

Device == Local \union Remote
Copy == 1..MaxCopies

ASSUME CacheAssumption ==
    /\ Local \intersect Remote = {} /\ Tethered \subseteq Local
    /\ NoId \notin Device
    /\ MaxCopies \in Nat \ {0} /\ MaxMishaps \in Nat

VARIABLES
    present,  \* what each device is: gone, known but not running, online
    cache,    \* deviceCache: the copy it holds of each device, 0 if none
    service,  \* locationSimulationService of each copy of a tethered device
    held,     \* heldLocationOverrides: ids as clients gave them
    todo, req,  \* each request's progress, and what it knows
    missed,   \* devices that once were not online or that a scan missed
    serial,   \* clients override locations one at a time
    mishaps   \* mishaps so far

overrides == <<service, held>>
world == <<present, missed, serial, mishaps>>
cacheVars == <<cache, overrides, todo, req, world>>

Blank == [op |-> "none", id |-> NoId, target |-> NoId, copy |-> 0, seen |-> {},
          offline |-> FALSE, filtered |-> FALSE, remoteFailed |-> FALSE]

Location == {"set", "clear"}
Using(r) == todo[r] \in {"have", "noteSet", "noteClear"}

CacheTypeOK ==
    /\ present \in [Device -> {"absent", "offline", "online"}]
    /\ cache \in [Device -> 0..MaxCopies]
    /\ service \in [Tethered \X Copy -> {"nil", "open", "stale"}]
    /\ held \subseteq Device \union {NoId}
    /\ todo \in [Request -> {"idle", "lookup", "scan", "fetch", "recheck",
                           "cache", "evict", "have", "noteSet", "noteClear"}]
    /\ req \in [Request -> [op : Location \union {"none", "drive", "list"},
                            id : Device \union {NoId}, target : Device \union {NoId},
                            copy : 0..MaxCopies, seen : SUBSET Device,
                            offline : BOOLEAN, filtered : BOOLEAN, remoteFailed : BOOLEAN]]
    /\ \A r \in Request : Using(r) => req[r].target \in Device /\ req[r].copy \in Copy
    /\ missed \subseteq Device /\ serial \in BOOLEAN /\ mishaps \in 0..MaxMishaps

CacheInit ==
    /\ present \in [Device -> {"absent", "online"}]
    /\ cache = [d \in Device |-> 0]
    /\ service = [s \in Tethered \X Copy |-> "nil"]
    /\ held = {}
    /\ todo = [r \in Request |-> "idle"] /\ req = [r \in Request |-> Blank]
    /\ missed = {d \in Device : present[d] # "online"}
    /\ serial \in BOOLEAN
    /\ mishaps = 0

-----------------------------------------------------------------------------
(* Requests.                                                               *)

Become(r, step, what) == todo' = [todo EXCEPT ![r] = step] /\ req' = [req EXCEPT ![r] = what]
Go(r, step) == todo' = [todo EXCEPT ![r] = step] /\ UNCHANGED req
Respond(r) == Become(r, "idle", Blank)
Take(r, d, n) == Become(r, "have", [req[r] EXCEPT !.target = d, !.copy = n, !.seen = {}])

\* A command on a device, or a listing with its options.
Call(r, op, id, offline, filtered) ==
    /\ todo[r] = "idle"
    /\ serial /\ op \in Location => \A q \in Request : req[q].op \notin Location
    /\ op = "list" => id = NoId
    /\ op # "list" => ~filtered /\ offline = (id # NoId)
    /\ Become(r, IF id = NoId THEN "scan" ELSE "lookup",
              [Blank EXCEPT !.op = op, !.id = id, !.offline = offline, !.filtered = filtered])
    /\ UNCHANGED <<cache, overrides, world>>

\* FindDevice: the cached object serves without asking whether the device is there.
Lookup(r) ==
    LET d == req[r].id IN
    /\ todo[r] = "lookup"
    /\ IF cache[d] # 0 THEN Take(r, d, cache[d]) ELSE Go(r, "scan")
    /\ UNCHANGED <<cache, overrides, world>>

\* Mishaps that a scan may meet: platforms that do not answer.
Spend(n) == mishaps + n <= MaxMishaps /\ mishaps' = mishaps + n

\* Local devices a scan reports unless their platform failed.
Reported(offline) ==
    {d \in Local : present[d] = "online" \/ (offline /\ present[d] = "offline")}

\* GetAllControllableDevices logs a platform's failure and goes on without it;
\* a listing's filters leave some of the others out.
ScanLocal(r) ==
    /\ todo[r] = "scan"
    /\ \E failed, kept \in SUBSET Local :
         /\ ~req[r].filtered => kept = Local
         /\ Spend(IF failed = {} THEN 0 ELSE 1)
         /\ missed' = missed \union failed
         /\ Become(r, "fetch", [req[r] EXCEPT !.offline = FALSE,
                !.seen = (Reported(req[r].offline) \ failed) \intersect kept])
    /\ UNCHANGED <<cache, overrides, present, serial>>

\* Fleet devices among those a request goes on with.
Fleet(r) ==
    {d \in Remote : IF req[r].op # "list" /\ req[r].id = NoId
                    THEN present[d] = "online" ELSE present[d] # "absent"}

\* FindDevice's device if the scan saw it.
ChooseById(r, seen) ==
    LET d == req[r].id IN
    IF d \in seen THEN Become(r, "cache", [req[r] EXCEPT !.target = d, !.seen = {}])
                  ELSE Respond(r)

\* FindDeviceOrAutoSelect's device if exactly one was online when scanned.
AutoSelect(r, seen) ==
    \/ \E d \in Device :
         seen = {d} /\ Become(r, "recheck", [req[r] EXCEPT !.target = d, !.seen = {}])
    \/ Cardinality(seen) # 1 /\ Respond(r)

\* The fleet service answers, or fails: look-ups ignore that, listings note it.
FetchRemote(r) ==
    /\ todo[r] = "fetch"
    /\ \E ok \in BOOLEAN :
         /\ Remote = {} => ok
         /\ Spend(IF ok THEN 0 ELSE 1)
         /\ LET seen == IF ok THEN req[r].seen \union Fleet(r) ELSE req[r].seen IN
            IF req[r].op = "list"
            THEN Become(r, "evict", [req[r] EXCEPT !.seen = seen, !.remoteFailed = ~ok])
            ELSE IF req[r].id = NoId THEN AutoSelect(r, seen) ELSE ChooseById(r, seen)
    /\ UNCHANGED <<cache, overrides, present, missed, serial>>

\* NoId-selection looks into the cache before it offers its own object.
Recheck(r) ==
    LET d == req[r].target IN
    /\ todo[r] = "recheck"
    /\ IF cache[d] # 0 THEN Take(r, d, cache[d]) ELSE Go(r, "cache")
    /\ UNCHANGED <<cache, overrides, world>>
-----------------------------------------------------------------------------
(* The cache.                                                              *)

\* Copies that no request, cache entry or open connection refers to.
Fresh(d) ==
    {n \in Copy :
        /\ cache[d] # n
        /\ \A r \in Request : req[r].target = d => req[r].copy # n
        /\ d \in Tethered => service[<<d, n>>] = "nil"}

\* fault: the look-up that ends last overwrites the entry.
Overwritten(d) == {n \in Fresh(d) : \A m \in Fresh(d) : n <= m}

\* The copy cacheDevice leaves in the cache: one found there stays.
Kept(d) == IF cache[d] # 0 THEN {cache[d]}
           ELSE {n \in Fresh(d) : \A m \in Fresh(d) : n <= m}

CacheDevice(r) ==
    LET d == req[r].target IN
    /\ todo[r] = "cache"
    /\ \E n \in Kept(d) : cache' = [cache EXCEPT ![d] = n] /\ Take(r, d, n)
    /\ UNCHANGED <<overrides, world>>

\* fault: filtered listings evict, too.
FilterIgnored(r) == ~req[r].remoteFailed

\* shouldEvictAfterListing: a failed local platform does not count.
ShouldEvict(r) == ~req[r].filtered /\ ~req[r].remoteFailed

\* EvictDevicesNotIn: what the listing did not report, whoever uses it.
Evict(r) ==
    /\ todo[r] = "evict"
    /\ cache' = IF ShouldEvict(r)
                THEN [d \in Device |-> IF d \in req[r].seen THEN cache[d] ELSE 0]
                ELSE cache
    /\ Respond(r)
    /\ UNCHANGED <<overrides, world>>
-----------------------------------------------------------------------------
(* What requests do with a device.                                         *)

\* Any other command: it holds on to the object until the device answered.
Drive(r) ==
    /\ todo[r] = "have" /\ req[r].op = "drive"
    /\ Respond(r)
    /\ UNCHANGED <<cache, overrides, world>>

SetService(s, state) == service' = [service EXCEPT ![s] = state]

\* LocationSetCommand up to the device's answer. On a tethered device the
\* connection is kept; one that fails is dropped even if no other opens.
SetLocation(r) ==
    LET s == <<req[r].target, req[r].copy>> IN
    /\ todo[r] = "have" /\ req[r].op = "set"
    /\ \/ /\ present[req[r].target] = "online" /\ Go(r, "noteSet")
          /\ IF req[r].target \in Tethered THEN SetService(s, "open") ELSE UNCHANGED service
       \/ /\ Respond(r)
          /\ UNCHANGED service \/ (req[r].target \in Tethered /\ SetService(s, "nil"))
    /\ UNCHANGED <<cache, held, world>>

NoteSet(r) ==
    /\ todo[r] = "noteSet"
    /\ held' = held \union {req[r].id}
    /\ Respond(r)
    /\ UNCHANGED <<cache, service, world>>

\* LocationClearCommand up to the device's answer. A tethered device's object
\* that holds no connection refuses; so does a stale one, and stays as it is.
ClearLocation(r) ==
    LET s == <<req[r].target, req[r].copy>> IN
    /\ todo[r] = "have" /\ req[r].op = "clear"
    /\ \/ /\ present[req[r].target] = "online" /\ Go(r, "noteClear")
          /\ IF req[r].target \in Tethered
             THEN service[s] = "open" /\ SetService(s, "nil")
             ELSE UNCHANGED service
       \/ Respond(r) /\ UNCHANGED service
    /\ UNCHANGED <<cache, held, world>>

\* fault: one cleared override counts for all.
ClearedAll(r) == Device \union {NoId}

\* The key a successful clear removes from heldLocationOverrides.
Cleared(r) == {req[r].id}

NoteClear(r) ==
    /\ todo[r] = "noteClear"
    /\ held' = held \ Cleared(r)
    /\ Respond(r)
    /\ UNCHANGED <<cache, service, world>>

\* A device comes or goes; its connections do not outlive its absence.
Change(d, state) ==
    /\ present[d] # state
    /\ d \in Tethered => state # "offline"
    /\ Spend(1)
    /\ present' = [present EXCEPT ![d] = state]
    /\ missed' = IF state = "online" THEN missed ELSE missed \union {d}
    /\ service' = [s \in Tethered \X Copy |->
                     IF s[1] = d /\ service[s] = "open" THEN "stale" ELSE service[s]]
    /\ UNCHANGED <<cache, held, todo, req, serial>>
-----------------------------------------------------------------------------
Step(r) ==
    \/ Lookup(r) \/ ScanLocal(r) \/ FetchRemote(r)
    \/ Recheck(r) \/ CacheDevice(r) \/ Evict(r)
    \/ Drive(r) \/ SetLocation(r) \/ NoteSet(r) \/ ClearLocation(r) \/ NoteClear(r)

CacheNext ==
    \/ \E r \in Request, op \in Location \union {"drive", "list"},
          id \in Device \union {NoId}, offline, filtered \in BOOLEAN :
            Call(r, op, id, offline, filtered)
    \/ \E r \in Request : Step(r)
    \/ \E d \in Device, state \in {"absent", "offline", "online"} : Change(d, state)

CacheSpec == CacheInit /\ [][CacheNext]_cacheVars
-----------------------------------------------------------------------------
(* Properties.                                                             *)

\* A device that was online and listed ever since is driven through one
\* object, the cached one: its mutexes and its AVC hub guard every request.
OneInstanceWhileSeen ==
    \A r \in Request :
        Using(r) /\ req[r].target \notin missed => req[r].copy = cache[req[r].target]

\* As long as a device was seen by every scan, the object that keeps an
\* override alive is the one a request to clear it will find.
OverrideIsReachable ==
    \A s \in Tethered \X Copy :
        service[s] = "open" /\ s[1] \notin missed => cache[s[1]] = s[2]

\* Clients that override locations one at a time: while no such request is
\* running, an override that lives in the daemon keeps it from idling out.
BusyWhileHeld ==
    serial /\ (\A r \in Request : req[r].op \notin Location) =>
        \A s \in Tethered \X Copy :
            service[s] = "open" /\ s[1] \notin missed => held # {}

\* The same without regard for how requests overlap: "the daemon must not idle
\* out while any is held" (commands/location.go:115-117).
HeldKeepsBusy ==
    (\A r \in Request : req[r].op \notin Location) =>
        \A s \in Tethered \X Copy : service[s] = "open" => held # {}

\* "Every caller must end up with the same instance" (commands/commands.go:200).
OneInstance ==
    \A q, r \in Request :
        Using(q) /\ Using(r) /\ req[q].target = req[r].target => req[q].copy = req[r].copy
=============================================================================
