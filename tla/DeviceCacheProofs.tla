--------------------------- MODULE DeviceCacheProofs ---------------------------
(***************************************************************************)
(* Proofs about DeviceCache, for any number of requests, devices and       *)
(* copies: its state keeps its type, and its three safety properties.      *)
(***************************************************************************)
EXTENDS DeviceCache, FiniteSetTheorems, TLAPS

\* Devices that were online, and that every scan saw, ever since the start.
Steady == Device \ missed

\* Where a request is tells what it knows: the device it asked for or the only one
\* it saw, and what a scan without filters must have seen.
Knows(r) ==
    /\ req[r].op # "list" => ~req[r].filtered
    /\ todo[r] = "lookup" => req[r].id \in Device
    /\ todo[r] \in {"recheck", "cache", "have", "noteSet", "noteClear"} =>
          /\ req[r].target \in Device
          /\ \/ req[r].id = req[r].target
             \/ req[r].id = NoId /\ Local \intersect Steady \subseteq {req[r].target}
    /\ todo[r] = "noteSet" => req[r].op = "set"
    /\ todo[r] = "noteClear" => req[r].op = "clear"
    /\ todo[r] \in {"fetch", "evict"} /\ ~req[r].filtered =>
          Local \intersect Steady \subseteq req[r].seen
    /\ todo[r] = "evict" /\ ShouldEvict(r) => Steady \subseteq req[r].seen

\* An override of a steady device that lives in the daemon.
OpenAt(d, n) == d \in Tethered /\ n \in Copy /\ service[<<d, n>>] = "open" /\ d \notin missed

\* With overrides one at a time, one that is open is noted under its device or under
\* the empty id, or is about to be; one about to be taken off the notes is closed.
Noted ==
    /\ \A q, r \in Request : req[q].op \in Location /\ req[r].op \in Location => q = r
    /\ \A d \in Tethered, n \in Copy : OpenAt(d, n) =>
          \/ d \in held \/ NoId \in held
          \/ \E r \in Request : todo[r] = "noteSet" /\ req[r].target = d
    /\ \A r \in Request, n \in Copy : todo[r] = "noteClear" => ~OpenAt(req[r].target, n)

IInv ==
    /\ CacheTypeOK
    /\ \A d \in Steady : present[d] = "online"
    /\ \A r \in Request : Knows(r)
    /\ OneInstanceWhileSeen
    /\ OverrideIsReachable
    /\ serial => Noted

-----------------------------------------------------------------------------
Steps == {"idle", "lookup", "scan", "fetch", "recheck",
          "cache", "evict", "have", "noteSet", "noteClear"}
Knowledge == [op : Location \union {"none", "drive", "list"},
              id : Device \union {NoId}, target : Device \union {NoId},
              copy : 0..MaxCopies, seen : SUBSET Device,
              offline : BOOLEAN, filtered : BOOLEAN, remoteFailed : BOOLEAN]

\* The changes of what a request knows: it begins, it takes an object, it chooses a
\* device, it has scanned the platforms and asked the fleet.
Called(x, o, d, b, c) == [x EXCEPT !.op = o, !.id = d, !.offline = b, !.filtered = c]
Taking(x, d, n) == [x EXCEPT !.target = d, !.copy = n, !.seen = {}]
Chosen(x, d) == [x EXCEPT !.target = d, !.seen = {}]
Scanned(x, s) == [x EXCEPT !.offline = FALSE, !.seen = s]
Fetched(x, s, b) == [x EXCEPT !.seen = s, !.remoteFailed = b]

\* What Called changes, and what it leaves.
LEMMA EditCalled ==
  ASSUME NEW x \in Knowledge, NEW o \in Location \union {"none", "drive", "list"},
         NEW d \in Device \union {NoId}, NEW b, NEW c, {b, c} \subseteq BOOLEAN
  PROVE  /\ Called(x, o, d, b, c) \in Knowledge
         /\ Called(x, o, d, b, c).op = o
         /\ Called(x, o, d, b, c).id = d
         /\ Called(x, o, d, b, c).filtered = c
  BY DEF Knowledge, Called

\* What Taking changes, and what it leaves.
LEMMA EditTaking ==
  ASSUME NEW x \in Knowledge, NEW d \in Device \union {NoId}, NEW n \in 0..MaxCopies
  PROVE  /\ Taking(x, d, n) \in Knowledge
         /\ Taking(x, d, n).target = d
         /\ Taking(x, d, n).copy = n
         /\ Taking(x, d, n).op = x.op
         /\ Taking(x, d, n).id = x.id
         /\ Taking(x, d, n).filtered = x.filtered
  BY DEF Knowledge, Taking

\* What Chosen changes, and what it leaves.
LEMMA EditChosen ==
  ASSUME NEW x \in Knowledge, NEW d \in Device \union {NoId}
  PROVE  /\ Chosen(x, d) \in Knowledge
         /\ Chosen(x, d).target = d
         /\ Chosen(x, d).op = x.op
         /\ Chosen(x, d).id = x.id
         /\ Chosen(x, d).filtered = x.filtered
  BY DEF Knowledge, Chosen

\* What Scanned changes, and what it leaves.
LEMMA EditScanned ==
  ASSUME NEW x \in Knowledge, NEW s \in SUBSET Device
  PROVE  /\ Scanned(x, s) \in Knowledge
         /\ Scanned(x, s).seen = s
         /\ Scanned(x, s).op = x.op
         /\ Scanned(x, s).id = x.id
         /\ Scanned(x, s).filtered = x.filtered
  BY DEF Knowledge, Scanned

\* What Fetched changes, and what it leaves.
LEMMA EditFetched ==
  ASSUME NEW x \in Knowledge, NEW s \in SUBSET Device, NEW b, {b} \subseteq BOOLEAN
  PROVE  /\ Fetched(x, s, b) \in Knowledge
         /\ Fetched(x, s, b).seen = s
         /\ Fetched(x, s, b).remoteFailed = b
         /\ Fetched(x, s, b).op = x.op
         /\ Fetched(x, s, b).id = x.id
         /\ Fetched(x, s, b).filtered = x.filtered
  BY DEF Knowledge, Fetched

\* Knowledge of a request that has not begun.
LEMMA BlankIsKnowledge == Blank \in Knowledge
  BY CacheAssumption DEF Blank, Knowledge

\* The invariant holds when the daemon starts.
LEMMA InitIInv == CacheInit => IInv
<1> SUFFICES ASSUME CacheInit
             PROVE  IInv
  OBVIOUS
<1>1. CacheTypeOK
  <2>1. /\ present \in [Device -> {"absent", "offline", "online"}]
        /\ service \in [Tethered \X Copy -> {"nil", "open", "stale"}]
    BY DEF CacheInit
  <2>2. cache \in [Device -> 0..MaxCopies] /\ mishaps \in 0..MaxMishaps
    BY CacheAssumption DEF CacheInit
  <2>3. todo \in [Request -> Steps] /\ req \in [Request -> Knowledge] /\ \A r \in Request : ~Using(r)
    BY BlankIsKnowledge DEF CacheInit, Steps, Using
  <2>4. missed \subseteq Device /\ serial \in BOOLEAN /\ held \subseteq Device \union {NoId}
    BY DEF CacheInit
  <2>. QED
    BY <2>1, <2>2, <2>3, <2>4 DEF CacheTypeOK, Steps, Knowledge
<1>2. \A d \in Steady : present[d] = "online"
  BY DEF CacheInit, Steady
<1>3. ASSUME NEW r \in Request
      PROVE  Knows(r)
  BY DEF CacheInit, Knows, Blank
<1>4. OneInstanceWhileSeen
  BY DEF CacheInit, OneInstanceWhileSeen, Using
<1>5. OverrideIsReachable
  BY DEF CacheInit, OverrideIsReachable
<1>6. Noted
  <2>1. \A d \in Tethered, n \in Copy : ~OpenAt(d, n)
    BY DEF CacheInit, OpenAt
  <2>. QED
    BY <2>1 DEF CacheInit, Noted, Blank, Location
<1>. QED
  BY <1>1, <1>2, <1>3, <1>4, <1>5, <1>6 DEF IInv

\* What a request that moves on does to todo and req.
LEMMA Moves ==
  ASSUME CacheTypeOK, NEW r \in Request, NEW step \in Steps, NEW what \in Knowledge,
         Become(r, step, what),
         step \in {"have", "noteSet", "noteClear"} => what.target \in Device /\ what.copy \in Copy
  PROVE  /\ todo' \in [Request -> Steps] /\ req' \in [Request -> Knowledge]
         /\ todo'[r] = step /\ req'[r] = what
         /\ \A q \in Request : q # r => todo'[q] = todo[q] /\ req'[q] = req[q]
         /\ \A q \in Request : Using(q)' => req'[q].target \in Device /\ req'[q].copy \in Copy
<1>1. todo \in [Request -> Steps] /\ req \in [Request -> Knowledge]
  BY DEF CacheTypeOK, Steps, Knowledge
<1>2. todo' = [todo EXCEPT ![r] = step] /\ req' = [req EXCEPT ![r] = what]
  BY DEF Become
<1>3. todo' \in [Request -> Steps] /\ req' \in [Request -> Knowledge]
  BY <1>1, <1>2
<1>4. /\ todo'[r] = step /\ req'[r] = what
      /\ \A q \in Request : q # r => todo'[q] = todo[q] /\ req'[q] = req[q]
  BY <1>1, <1>2
<1>5. \A q \in Request : Using(q)' => req'[q].target \in Device /\ req'[q].copy \in Copy
  BY <1>4 DEF CacheTypeOK, Using
<1>. QED
  BY <1>3, <1>4, <1>5

\* Going on with the same knowledge.
LEMMA GoBecomes ==
  ASSUME CacheTypeOK, NEW r \in Request, NEW step, Go(r, step)
  PROVE  Become(r, step, req[r]) /\ req[r] \in Knowledge
<1>1. req \in [Request -> Knowledge]
  BY DEF CacheTypeOK, Knowledge
<1>2. req = [req EXCEPT ![r] = req[r]]
  BY <1>1
<1>. QED
  BY <1>1, <1>2 DEF Go, Become

\* What a step of request r has to respect for the properties that need no order.
Respects(r) ==
    /\ \A q \in Request : q # r => todo'[q] = todo[q] /\ req'[q] = req[q]
    /\ missed \subseteq missed'
    /\ \A d \in Device : d \notin missed /\ cache[d] # 0 => cache'[d] = cache[d]
    /\ \A s \in Tethered \X Copy : service'[s] = "open" =>
          service[s] = "open" \/ (Using(r) /\ s[1] = req[r].target /\ s[2] = req[r].copy)
    /\ \A d \in Device : d \notin missed' => present'[d] = present[d]

\* Then it keeps them, provided that its own request fares well.
LEMMA RespectKeeps ==
  ASSUME IInv, NEW r \in Request, Respects(r), Knows(r)',
         Using(r)' /\ req'[r].target \notin missed' => req'[r].copy = cache'[req'[r].target]
  PROVE  /\ \A d \in Steady' : present'[d] = "online"
         /\ \A q \in Request : Knows(q)'
         /\ OneInstanceWhileSeen' /\ OverrideIsReachable'
<1>0. CacheTypeOK /\ Tethered \subseteq Device /\ 0 \notin Copy
  BY CacheAssumption DEF IInv, Device, Copy
<1>1. \A d \in Steady' : present'[d] = "online"
  BY DEF IInv, Respects, Steady, Device
<1>2. ASSUME NEW q \in Request, q # r
      PROVE  Knows(q)'
  <2>1. Knows(q) /\ todo'[q] = todo[q] /\ req'[q] = req[q] /\ missed \subseteq missed'
    BY <1>2 DEF IInv, Respects
  <2>2. Steady' \subseteq Steady
    BY <2>1 DEF Steady, Device
  <2>. QED
    BY <2>1, <2>2 DEF Knows, ShouldEvict
<1>3. OneInstanceWhileSeen'
  <2>1. ASSUME NEW q \in Request, q # r, Using(q)', req'[q].target \notin missed'
        PROVE  req'[q].copy = cache'[req'[q].target]
    <3>1. todo'[q] = todo[q] /\ req'[q] = req[q] /\ req[q].target \notin missed
      BY <2>1 DEF Respects
    <3>2. Using(q) /\ req[q].target \in Device /\ req[q].copy \in Copy
      BY <1>0, <2>1, <3>1 DEF Using, CacheTypeOK
    <3>3. req[q].copy = cache[req[q].target]
      BY <3>1, <3>2 DEF IInv, OneInstanceWhileSeen
    <3>. QED
      BY <1>0, <3>1, <3>2, <3>3 DEF Respects
  <2>. QED
    BY <2>1 DEF OneInstanceWhileSeen
<1>4. OverrideIsReachable'
  <2>1. ASSUME NEW s \in Tethered \X Copy, service'[s] = "open", s[1] \notin missed'
        PROVE  cache'[s[1]] = s[2]
    <3>1. s[1] \in Device /\ s[1] \notin missed /\ s[2] \in Copy
      BY <1>0, <2>1 DEF Respects
    <3>2. cache[s[1]] = s[2]
      BY <2>1, <3>1 DEF Respects, IInv, OneInstanceWhileSeen, OverrideIsReachable
    <3>. QED
      BY <1>0, <3>1, <3>2 DEF Respects
  <2>. QED
    BY <2>1 DEF OverrideIsReachable, Device, Copy
<1>. QED
  BY <1>1, <1>2, <1>3, <1>4

\* A request that neither begins nor ends a note, and opens no connection.
LEMMA NotedKept ==
  ASSUME CacheTypeOK, Noted, NEW r \in Request,
         todo[r] \notin {"noteSet", "noteClear"}, todo'[r] \notin {"noteSet", "noteClear"},
         \A q \in Request : q # r => todo'[q] = todo[q] /\ req'[q] = req[q],
         \A q \in Request : req'[r].op \in Location /\ req[q].op \in Location => q = r,
         missed \subseteq missed',
         \A s \in Tethered \X Copy : service'[s] = "open" => service[s] = "open",
         UNCHANGED held
  PROVE  Noted'
<1>1. \A d \in Tethered, n \in Copy : OpenAt(d, n)' => OpenAt(d, n)
  BY DEF OpenAt, Copy
<1>2. \A q1, q2 \in Request : req'[q1].op \in Location /\ req'[q2].op \in Location => q1 = q2
  BY DEF Noted
<1>3. ASSUME NEW d \in Tethered, NEW n \in Copy, OpenAt(d, n)'
      PROVE  d \in held' \/ NoId \in held' \/ \E q \in Request : todo'[q] = "noteSet" /\ req'[q].target = d
  BY <1>1, <1>3 DEF Noted
<1>4. ASSUME NEW q \in Request, NEW n \in Copy, todo'[q] = "noteClear"
      PROVE  ~OpenAt(req[q].target, n)'
  <2>1. todo[q] = "noteClear" /\ req'[q] = req[q]
    BY <1>4
  <2>2. ~OpenAt(req[q].target, n)
    BY <2>1 DEF Noted
  <2>. QED
    BY <1>1, <2>1, <2>2 DEF OpenAt
<1>. QED
  BY <1>2, <1>3, <1>4 DEF Noted, Copy

-----------------------------------------------------------------------------
\* A step of request r that neither begins nor ends a note and that leaves the
\* connections, the notes and the devices alone.
LEMMA PlainStep ==
  ASSUME IInv, NEW r \in Request, NEW step \in Steps \ {"noteSet", "noteClear"},
         NEW what \in Knowledge, Become(r, step, what),
         todo[r] \notin {"noteSet", "noteClear"},
         what.op \in Location =>
            req[r].op = what.op \/ (serial => \A q \in Request : req[q].op \notin Location),
         UNCHANGED <<service, held, present, serial>>, mishaps' \in 0..MaxMishaps,
         missed \subseteq missed', missed' \subseteq Device,
         cache' \in [Device -> 0..MaxCopies],
         \A d \in Device : d \notin missed /\ cache[d] # 0 => cache'[d] = cache[d],
         step = "have" => /\ what.target \in Device /\ what.copy \in Copy
                          /\ what.copy = cache'[what.target],
         Knows(r)'
  PROVE  IInv'
<1>0. CacheTypeOK
  BY DEF IInv
<1>1. /\ todo' \in [Request -> Steps] /\ req' \in [Request -> Knowledge]
      /\ todo'[r] = step /\ req'[r] = what
      /\ \A q \in Request : q # r => todo'[q] = todo[q] /\ req'[q] = req[q]
      /\ \A q \in Request : Using(q)' => req'[q].target \in Device /\ req'[q].copy \in Copy
  BY <1>0, Moves DEF Steps
<1>2. CacheTypeOK'
  <2>1. /\ present' \in [Device -> {"absent", "offline", "online"}]
        /\ service' \in [Tethered \X Copy -> {"nil", "open", "stale"}]
        /\ held' \subseteq Device \union {NoId} /\ serial' \in BOOLEAN
    BY <1>0 DEF CacheTypeOK
  <2>. QED
    BY <1>1, <2>1 DEF CacheTypeOK, Steps, Knowledge, Device, Copy
<1>3. Respects(r)
  BY <1>1 DEF Respects
<1>4. Using(r)' /\ req'[r].target \notin missed' => req'[r].copy = cache'[req'[r].target]
  BY <1>1 DEF Using
<1>5. /\ \A d \in Steady' : present'[d] = "online"
      /\ \A q \in Request : Knows(q)'
      /\ OneInstanceWhileSeen' /\ OverrideIsReachable'
  BY <1>3, <1>4, RespectKeeps
<1>6. ASSUME serial'
      PROVE  Noted'
  <2>1. Noted
    BY <1>6 DEF IInv
  <2>2. \A q \in Request : req'[r].op \in Location /\ req[q].op \in Location => q = r
    BY <1>1, <1>6, <2>1 DEF Noted
  <2>. QED
    BY <1>0, <1>1, <2>1, <2>2, NotedKept
<1>. QED
  BY <1>2, <1>5, <1>6 DEF IInv

\* The call of a request, and its look-up.
LEMMA CallStep ==
  ASSUME IInv, NEW r \in Request, NEW op \in Location \union {"drive", "list"},
         NEW id \in Device \union {NoId}, NEW offline \in BOOLEAN, NEW filtered \in BOOLEAN,
         Call(r, op, id, offline, filtered)
  PROVE  IInv'
<1> DEFINE step == IF id = NoId THEN "scan" ELSE "lookup"
           what == Called(Blank, op, id, offline, filtered)
<1>0. CacheTypeOK
  BY DEF IInv
<1>1. /\ todo[r] = "idle" /\ Become(r, step, what)
      /\ op # "list" => ~filtered
      /\ serial /\ op \in Location => \A q \in Request : req[q].op \notin Location
      /\ UNCHANGED <<cache, service, held, present, missed, serial, mishaps>>
  BY DEF Call, Called, overrides, world
<1>2. /\ what \in Knowledge /\ what.op = op /\ what.id = id /\ what.filtered = filtered
      /\ step \in {"scan", "lookup"} /\ (step = "lookup" => id \in Device)
  <2>1. /\ Blank \in Knowledge /\ 0 \in 0..MaxCopies /\ {} \in SUBSET Device
        /\ op \in Location \union {"none", "drive", "list"}
        /\ {offline, filtered} \subseteq BOOLEAN
    BY BlankIsKnowledge, CacheAssumption
  <2>2. what \in Knowledge /\ what.op = op /\ what.id = id /\ what.filtered = filtered
    BY <2>1, EditCalled
  <2>. QED
    BY <2>2
<1> HIDE DEF step, what
<1>3. Knows(r)'
  <2>1. todo'[r] = step /\ req'[r] = what
    BY <1>0, <1>1, <1>2, Moves DEF Steps
  <2>. QED
    BY <1>1, <1>2, <2>1 DEF Knows, Device
<1>. QED
  BY <1>0, <1>1, <1>2, <1>3, PlainStep DEF CacheTypeOK, Steps

\* What a request knows is of its type.
LEMMA KnowledgeOf ==
  ASSUME CacheTypeOK, NEW r \in Request
  PROVE  /\ req[r] \in Knowledge
         /\ req[r].op \in Location \union {"none", "drive", "list"}
         /\ req[r].id \in Device \union {NoId} /\ req[r].target \in Device \union {NoId}
         /\ req[r].copy \in 0..MaxCopies /\ req[r].seen \subseteq Device
         /\ req[r].offline \in BOOLEAN /\ req[r].filtered \in BOOLEAN
         /\ req[r].remoteFailed \in BOOLEAN
  BY DEF CacheTypeOK, Knowledge

\* A request that takes an object of a device knows which.
LEMMA Taken ==
  ASSUME CacheTypeOK, NEW r \in Request, NEW d \in Device, NEW n \in Copy, Take(r, d, n)
  PROVE  \E what \in Knowledge :
            /\ Become(r, "have", what) /\ todo'[r] = "have" /\ req'[r] = what
            /\ what.target = d /\ what.copy = n
            /\ what.op = req[r].op /\ what.id = req[r].id /\ what.filtered = req[r].filtered
<1> DEFINE what == Taking(req[r], d, n)
<1>1. /\ what \in Knowledge /\ what.target = d /\ what.copy = n
      /\ what.op = req[r].op /\ what.id = req[r].id /\ what.filtered = req[r].filtered
  <2>1. req[r] \in Knowledge /\ n \in 0..MaxCopies
    BY KnowledgeOf DEF Copy
  <2>. QED
    BY <2>1, EditTaking
<1>2. Become(r, "have", what)
  BY DEF Take, Taking
<1> HIDE DEF what
<1>3. todo'[r] = "have" /\ req'[r] = what
  BY <1>1, <1>2, Moves DEF Steps
<1>. QED
  BY <1>1, <1>2, <1>3

\* A request that ends knows nothing any more.
LEMMA Finished ==
  ASSUME CacheTypeOK, NEW r \in Request, Respond(r)
  PROVE  /\ Become(r, "idle", Blank) /\ Blank \in Knowledge /\ Blank.op \notin Location
         /\ todo'[r] = "idle" /\ req'[r] = Blank /\ Knows(r)'
<1>1. todo'[r] = "idle" /\ req'[r] = Blank
  BY BlankIsKnowledge, Moves DEF Respond, Steps
<1>2. Knows(r)'
  BY <1>1 DEF Knows, Blank
<1>. QED
  BY <1>1, <1>2, BlankIsKnowledge DEF Respond, Blank, Location

\* FindDevice and FindDeviceOrAutoSelect: a request goes on with the object that the
\* cache holds, or with the device it has chosen.
LEMMA TakeStep ==
  ASSUME IInv, NEW r \in Request, NEW d \in Device, Take(r, d, cache'[d]),
         todo[r] \in {"lookup", "recheck", "cache"},
         IF todo[r] = "lookup" THEN d = req[r].id ELSE d = req[r].target,
         cache' \in [Device -> 0..MaxCopies], cache'[d] # 0,
         \A e \in Device : cache[e] # 0 => cache'[e] = cache[e],
         UNCHANGED <<overrides, world>>
  PROVE  IInv'
<1>0. CacheTypeOK /\ cache'[d] \in Copy
  BY DEF IInv, Copy
<1>1. PICK what \in Knowledge :
            /\ Become(r, "have", what) /\ todo'[r] = "have" /\ req'[r] = what
            /\ what.target = d /\ what.copy = cache'[d]
            /\ what.op = req[r].op /\ what.id = req[r].id /\ what.filtered = req[r].filtered
  BY <1>0, Taken
<1>2. Knows(r) /\ UNCHANGED <<service, held, present, missed, serial, mishaps>>
  BY DEF IInv, overrides, world
<1>3. Knows(r)'
  BY <1>1, <1>2 DEF Knows, Steady
<1>. QED
  BY <1>0, <1>1, <1>2, <1>3, PlainStep DEF Steps, CacheTypeOK

\* The steps that look into the cache, and put the chosen device there.
LEMMA LookupStep ==
  ASSUME IInv, NEW r \in Request, Lookup(r) \/ Recheck(r) \/ CacheDevice(r)
  PROVE  IInv'
<1>0. CacheTypeOK /\ Knows(r) /\ cache \in [Device -> 0..MaxCopies]
  BY DEF IInv, CacheTypeOK
<1>1. UNCHANGED <<overrides, world>>
  BY DEF Lookup, Recheck, CacheDevice
<1>2. ASSUME NEW step \in {"scan", "cache"}, Go(r, step), UNCHANGED cache,
             todo[r] \notin {"noteSet", "noteClear"}, step = "cache" => todo[r] = "recheck"
      PROVE  IInv'
  <2>1. Become(r, step, req[r]) /\ req[r] \in Knowledge
    BY <1>0, <1>2, GoBecomes
  <2>2. todo'[r] = step /\ req'[r] = req[r]
    BY <1>0, <2>1, <1>2, Moves DEF Steps
  <2>3. Knows(r)'
    BY <1>0, <1>1, <1>2, <2>2 DEF Knows, Steady, world
  <2>. QED
    BY <1>0, <1>1, <1>2, <2>1, <2>3, PlainStep DEF Steps, CacheTypeOK, overrides, world
<1>3. CASE Lookup(r)
  <2>1. todo[r] = "lookup" /\ req[r].id \in Device /\ UNCHANGED cache
    BY <1>0, <1>3 DEF Lookup, Knows
  <2>2. CASE cache[req[r].id] = 0
    BY <1>2, <1>3, <2>1, <2>2 DEF Lookup
  <2>3. CASE cache[req[r].id] # 0
    BY <1>0, <1>1, <1>3, <2>1, <2>3, TakeStep DEF Lookup
  <2>. QED
    BY <2>2, <2>3
<1>4. CASE Recheck(r)
  <2>1. todo[r] = "recheck" /\ req[r].target \in Device /\ UNCHANGED cache
    BY <1>0, <1>4 DEF Recheck, Knows
  <2>2. CASE cache[req[r].target] = 0
    BY <1>2, <1>4, <2>1, <2>2 DEF Recheck
  <2>3. CASE cache[req[r].target] # 0
    BY <1>0, <1>1, <1>4, <2>1, <2>3, TakeStep DEF Recheck
  <2>. QED
    BY <2>2, <2>3
<1>5. CASE CacheDevice(r)
  <2>1. todo[r] = "cache" /\ req[r].target \in Device
    BY <1>0, <1>5 DEF CacheDevice, Knows
  <2>2. PICK n \in Kept(req[r].target) : /\ cache' = [cache EXCEPT ![req[r].target] = n]
                                         /\ Take(r, req[r].target, n)
    BY <1>5 DEF CacheDevice
  <2>3. n \in Copy /\ n \in 0..MaxCopies /\ n # 0
        /\ (cache[req[r].target] # 0 => n = cache[req[r].target])
    BY <1>0, <2>1 DEF Kept, Fresh, Copy
  <2>4. /\ cache' \in [Device -> 0..MaxCopies] /\ cache'[req[r].target] = n
        /\ \A e \in Device : cache[e] # 0 => cache'[e] = cache[e]
    BY <1>0, <2>1, <2>2, <2>3
  <2>. QED
    BY <1>1, <2>1, <2>2, <2>3, <2>4, TakeStep
<1>. QED
  BY <1>3, <1>4, <1>5

\* The scan of the local platforms sees every steady device that it lists.
LEMMA ScanStep ==
  ASSUME IInv, NEW r \in Request, ScanLocal(r)
  PROVE  IInv'
<1>0. CacheTypeOK /\ Knows(r) /\ todo[r] = "scan" /\ Local \subseteq Device
  BY DEF IInv, ScanLocal, Device
<1>1. PICK failed \in SUBSET Local, kept \in SUBSET Local :
        /\ ~req[r].filtered => kept = Local
        /\ Spend(IF failed = {} THEN 0 ELSE 1)
        /\ missed' = missed \union failed
        /\ Become(r, "fetch", Scanned(req[r], (Reported(req[r].offline) \ failed) \intersect kept))
  BY DEF ScanLocal, Scanned
<1> DEFINE seen == (Reported(req[r].offline) \ failed) \intersect kept
           what == Scanned(req[r], seen)
<1>2. /\ seen \in SUBSET Device
      /\ ~req[r].filtered => Local \intersect (Device \ missed') \subseteq seen
  BY <1>0, <1>1 DEF Reported, IInv, Steady
<1> HIDE DEF seen
<1>3. /\ what \in Knowledge /\ what.seen = seen
      /\ what.op = req[r].op /\ what.id = req[r].id /\ what.filtered = req[r].filtered
  BY <1>0, <1>2, KnowledgeOf, EditScanned
<1>4. Become(r, "fetch", what)
  BY <1>1 DEF seen
<1> HIDE DEF what
<1>5. UNCHANGED <<cache, service, held, present, serial>>
  BY DEF ScanLocal, overrides
<1>6. mishaps' \in 0..MaxMishaps /\ missed \subseteq missed' /\ missed' \subseteq Device
  BY <1>0, <1>1, CacheAssumption DEF Spend, CacheTypeOK
<1>7. Knows(r)'
  <2>1. todo'[r] = "fetch" /\ req'[r] = what
    BY <1>0, <1>3, <1>4, Moves DEF Steps
  <2>. QED
    BY <1>0, <1>2, <1>3, <2>1 DEF Knows, Steady
<1>. QED
  BY <1>0, <1>3, <1>4, <1>5, <1>6, <1>7, PlainStep DEF Steps, CacheTypeOK

\* The answer of the fleet service: what a request makes of all it has seen.
LEMMA FetchStep ==
  ASSUME IInv, NEW r \in Request, FetchRemote(r)
  PROVE  IInv'
<1>0. /\ CacheTypeOK /\ Knows(r) /\ todo[r] = "fetch" /\ Remote \subseteq Device /\ Local \subseteq Device
      /\ NoId \notin Device
  BY CacheAssumption DEF IInv, FetchRemote, Device
<1>1. PICK ok \in BOOLEAN :
        /\ Spend(IF ok THEN 0 ELSE 1)
        /\ LET seen == IF ok THEN req[r].seen \union Fleet(r) ELSE req[r].seen IN
           IF req[r].op = "list"
           THEN Become(r, "evict", Fetched(req[r], seen, ~ok))
           ELSE IF req[r].id = NoId THEN AutoSelect(r, seen) ELSE ChooseById(r, seen)
  BY DEF FetchRemote, Fetched
<1> DEFINE seen == IF ok THEN req[r].seen \union Fleet(r) ELSE req[r].seen
<1>2. /\ UNCHANGED <<cache, service, held, present, missed, serial>>
      /\ mishaps' \in 0..MaxMishaps
  BY <1>0, <1>1, CacheAssumption DEF FetchRemote, Spend, CacheTypeOK, overrides
<1>3. /\ seen \in SUBSET Device /\ req[r].seen \subseteq seen
      /\ ok /\ req[r].op = "list" => Fleet(r) \subseteq seen
  BY <1>0, KnowledgeOf DEF Fleet
<1>4. ~req[r].filtered => Local \intersect Steady \subseteq seen
  BY <1>0, <1>3 DEF Knows
<1>5. CASE req[r].op = "list"
  <2> DEFINE failed == ~ok
             what == Fetched(req[r], seen, failed)
  <2>1. Become(r, "evict", what)
    BY <1>1, <1>5
  <2> HIDE DEF seen
  <2>2. /\ what \in Knowledge /\ what.seen = seen /\ what.remoteFailed = failed
        /\ what.op = req[r].op /\ what.id = req[r].id /\ what.filtered = req[r].filtered
    <3>1. req[r] \in Knowledge /\ {failed} \subseteq BOOLEAN
      BY <1>0, KnowledgeOf
    <3> HIDE DEF failed
    <3>. QED
      BY <1>3, <3>1, EditFetched DEF seen
  <2> HIDE DEF what
  <2>3. todo'[r] = "evict" /\ req'[r] = what
    BY <1>0, <2>1, <2>2, Moves DEF Steps
  <2>4. ok /\ ~req[r].filtered => Steady \subseteq seen
    <3>1. ok => \A d \in Remote : d \in Steady => d \in seen
      BY <1>0, <1>3, <1>5 DEF IInv, Fleet
    <3>. QED
      BY <1>4, <3>1 DEF Steady, Device
  <2>5. Knows(r)'
    <3>1. ShouldEvict(r)' => ok /\ ~req[r].filtered
      BY <2>2, <2>3 DEF ShouldEvict
    <3>2. Steady' = Steady
      BY <1>2 DEF Steady
    <3>. QED
      BY <1>0, <1>4, <1>5, <2>2, <2>3, <2>4, <3>1, <3>2 DEF Knows
  <2>. QED
    BY <1>0, <1>2, <2>1, <2>2, <2>5, PlainStep DEF Steps, CacheTypeOK
<1>6. ASSUME NEW d \in Device, NEW step \in {"recheck", "cache"}, Become(r, step, Chosen(req[r], d)),
             req[r].op # "list", d = req[r].id \/ (req[r].id = NoId /\ seen = {d})
      PROVE  IInv'
  <2> DEFINE what == Chosen(req[r], d)
  <2>1. /\ what \in Knowledge /\ what.target = d
        /\ what.op = req[r].op /\ what.id = req[r].id /\ what.filtered = req[r].filtered
    BY <1>0, <1>6, KnowledgeOf, EditChosen
  <2> HIDE DEF what, seen
  <2>2. todo'[r] = step /\ req'[r] = what
    BY <1>0, <1>6, <2>1, Moves DEF Steps, what
  <2>3. Knows(r)'
    <3>1. Steady' = Steady
      BY <1>2 DEF Steady
    <3>. QED
      BY <1>0, <1>4, <1>6, <2>1, <2>2, <3>1 DEF Knows
  <2>. QED
    BY <1>0, <1>2, <1>6, <2>1, <2>3, PlainStep DEF Steps, CacheTypeOK, what
<1>7. CASE Respond(r)
  BY <1>0, <1>2, <1>7, Finished, PlainStep DEF Steps, CacheTypeOK
<1>8. CASE req[r].op # "list" /\ req[r].id = NoId
  BY <1>1, <1>6, <1>7, <1>8 DEF AutoSelect, Chosen
<1>9. CASE req[r].op # "list" /\ req[r].id # NoId
  BY <1>1, <1>3, <1>6, <1>7, <1>9 DEF ChooseById, Chosen
<1>. QED
  BY <1>5, <1>8, <1>9

\* A listing evicts only what it did not see, so nothing steady.
LEMMA EvictStep ==
  ASSUME IInv, NEW r \in Request, Evict(r)
  PROVE  IInv'
<1>1. CacheTypeOK /\ Knows(r) /\ todo[r] = "evict" /\ Respond(r) /\ cache \in [Device -> 0..MaxCopies]
  BY DEF IInv, Evict, CacheTypeOK
<1>2. UNCHANGED <<service, held, present, missed, serial, mishaps>>
  BY DEF Evict, overrides, world
<1>3. cache' = IF ShouldEvict(r)
               THEN [d \in Device |-> IF d \in req[r].seen THEN cache[d] ELSE 0]
               ELSE cache
  BY DEF Evict
<1>4. cache' \in [Device -> 0..MaxCopies]
  BY <1>1, <1>3, CacheAssumption
<1>5. \A d \in Device : d \notin missed /\ cache[d] # 0 => cache'[d] = cache[d]
  BY <1>1, <1>3 DEF Knows, Steady
<1>. QED
  BY <1>1, <1>2, <1>4, <1>5, Finished, PlainStep DEF Steps, CacheTypeOK

-----------------------------------------------------------------------------
\* A request that has its object and sets or clears a location with it.
LEMMA OverrideStep ==
  ASSUME IInv, NEW r \in Request, Using(r), NEW step \in {"idle", "noteSet", "noteClear"},
         IF step = "idle" THEN Respond(r) ELSE Go(r, step),
         step = "noteSet" => req[r].op = "set", step = "noteClear" => req[r].op = "clear",
         UNCHANGED <<cache, world>>, held' \subseteq Device \union {NoId},
         service' \in [Tethered \X Copy -> {"nil", "open", "stale"}],
         \A s \in Tethered \X Copy : service'[s] = "open" =>
            service[s] = "open" \/ (s[1] = req[r].target /\ s[2] = req[r].copy),
         serial => Noted'
  PROVE  IInv'
<1>0. CacheTypeOK /\ Knows(r)
  BY DEF IInv
<1>1. PICK what \in Knowledge : /\ Become(r, step, what)
                                /\ step # "idle" => what = req[r]
                                /\ step = "idle" => what = Blank
  BY <1>0, GoBecomes, Finished
<1>2. /\ todo' \in [Request -> Steps] /\ req' \in [Request -> Knowledge]
      /\ todo'[r] = step /\ req'[r] = what
      /\ \A q \in Request : q # r => todo'[q] = todo[q] /\ req'[q] = req[q]
      /\ \A q \in Request : Using(q)' => req'[q].target \in Device /\ req'[q].copy \in Copy
  <2>1. step \in {"have", "noteSet", "noteClear"} => what.target \in Device /\ what.copy \in Copy
    BY <1>0, <1>1 DEF CacheTypeOK
  <2>. QED
    BY <1>0, <1>1, <2>1, Moves DEF Steps
<1>3. CacheTypeOK'
  <2>1. /\ present' \in [Device -> {"absent", "offline", "online"}]
        /\ cache' \in [Device -> 0..MaxCopies]
        /\ missed' \subseteq Device /\ serial' \in BOOLEAN /\ mishaps' \in 0..MaxMishaps
    BY <1>0 DEF CacheTypeOK, world
  <2>. QED
    BY <1>2, <2>1 DEF CacheTypeOK, Steps, Knowledge, Device, Copy
<1>4. Respects(r)
  BY <1>2 DEF Respects, world
<1>5. Knows(r)'
  <2>1. CASE step = "idle"
    BY <1>1, <1>2, <2>1 DEF Knows, Blank
  <2>2. CASE step # "idle"
    BY <1>0, <1>1, <1>2, <2>2 DEF Knows, Using, Steady, world
  <2>. QED
    BY <2>1, <2>2
<1>6. Using(r)' /\ req'[r].target \notin missed' => req'[r].copy = cache'[req'[r].target]
  BY <1>1, <1>2 DEF IInv, OneInstanceWhileSeen, Using, world
<1>7. /\ \A d \in Steady' : present'[d] = "online"
      /\ \A q \in Request : Knows(q)'
      /\ OneInstanceWhileSeen' /\ OverrideIsReachable'
  BY <1>4, <1>5, <1>6, RespectKeeps
<1>. QED
  BY <1>3, <1>7 DEF IInv, world

\* What a request that sets or clears a location knows when it ends or goes on.
LEMMA OverrideMoves ==
  ASSUME CacheTypeOK, NEW r \in Request, Using(r), NEW step \in {"idle", "noteSet", "noteClear"},
         IF step = "idle" THEN Respond(r) ELSE Go(r, step)
  PROVE  /\ todo'[r] = step
         /\ req'[r] = IF step = "idle" THEN Blank ELSE req[r]
         /\ \A q \in Request : q # r => todo'[q] = todo[q] /\ req'[q] = req[q]
<1>1. CASE step = "idle"
  <2>1. Become(r, "idle", Blank) /\ Blank \in Knowledge
    BY <1>1, Finished
  <2>. QED
    BY <1>1, <2>1, Moves DEF Steps
<1>2. CASE step # "idle"
  <2>1. Become(r, step, req[r]) /\ req[r] \in Knowledge
    BY <1>2, GoBecomes
  <2>2. req[r].target \in Device /\ req[r].copy \in Copy
    BY DEF CacheTypeOK
  <2>. QED
    BY <1>2, <2>1, <2>2, Moves DEF Steps
<1>. QED
  BY <1>1, <1>2

\* LocationSetCommand and LocationClearCommand up to the device's answer.
LEMMA LocationStep ==
  ASSUME IInv, NEW r \in Request, SetLocation(r) \/ ClearLocation(r)
  PROVE  IInv'
<1> DEFINE s == <<req[r].target, req[r].copy>>
<1>0. /\ CacheTypeOK /\ Knows(r) /\ todo[r] = "have" /\ Using(r) /\ req[r].op \in Location
      /\ req[r].target \in Device /\ req[r].copy \in Copy
      /\ service \in [Tethered \X Copy -> {"nil", "open", "stale"}]
      /\ UNCHANGED <<cache, held, world>> /\ held \subseteq Device \union {NoId}
  BY DEF IInv, CacheTypeOK, SetLocation, ClearLocation, Using, Location
<1>1. ASSUME NEW step \in {"idle", "noteSet", "noteClear"},
             IF step = "idle" THEN Respond(r) ELSE Go(r, step),
             step = "noteSet" => req[r].op = "set", step = "noteClear" => req[r].op = "clear",
             \/ UNCHANGED service
             \/ /\ req[r].target \in Tethered
                /\ service' = [service EXCEPT ![s] = IF step = "noteSet" THEN "open" ELSE "nil"],
             step = "noteClear" /\ req[r].target \in Tethered => service' = [service EXCEPT ![s] = "nil"]
      PROVE  IInv'
  <2>1. /\ service' \in [Tethered \X Copy -> {"nil", "open", "stale"}]
        /\ \A t \in Tethered \X Copy : service'[t] = "open" =>
              service[t] = "open" \/ (step = "noteSet" /\ t = s)
    BY <1>0, <1>1
  <2>2. \A t \in Tethered \X Copy : t = s => t[1] = req[r].target /\ t[2] = req[r].copy
    OBVIOUS
  <2>3. /\ todo'[r] = step
        /\ req'[r] = IF step = "idle" THEN Blank ELSE req[r]
        /\ \A q \in Request : q # r => todo'[q] = todo[q] /\ req'[q] = req[q]
    BY <1>0, <1>1, OverrideMoves
  <2>4. ASSUME serial
        PROVE  Noted'
    <3>0. Noted
      BY <2>4 DEF IInv
    <3>1. \A q \in Request : todo[q] \in {"noteSet", "noteClear"} => FALSE
      BY <1>0, <3>0 DEF Noted, IInv, Knows, Location
    <3>2. \A p, q \in Request : req'[p].op \in Location /\ req'[q].op \in Location => p = q
      BY <1>0, <2>3, <3>0 DEF Noted, Blank, Location
    <3>3. \A d \in Tethered, n \in Copy : OpenAt(d, n)' =>
             OpenAt(d, n) \/ (step = "noteSet" /\ d = req[r].target)
      BY <1>0, <2>1 DEF OpenAt, world, Copy
    <3>4. ASSUME NEW d \in Tethered, NEW n \in Copy, OpenAt(d, n)'
          PROVE  d \in held' \/ NoId \in held' \/ \E q \in Request : todo'[q] = "noteSet" /\ req'[q].target = d
      BY <1>0, <2>3, <3>0, <3>1, <3>3, <3>4 DEF Noted
    <3>5. ASSUME NEW q \in Request, NEW n \in Copy, todo'[q] = "noteClear"
          PROVE  ~OpenAt(req[q].target, n)' /\ req'[q] = req[q]
      <4>1. q = r /\ step = "noteClear" /\ req'[q] = req[q]
        BY <2>3, <3>1, <3>5
      <4>2. ASSUME OpenAt(req[r].target, n)'
            PROVE  FALSE
        <5>1. req[r].target \in Tethered /\ service'[<<req[r].target, n>>] = "open"
              /\ req[r].target \notin missed
          BY <1>0, <4>1, <4>2 DEF OpenAt, world
        <5>2. <<req[r].target, n>> \in Tethered \X Copy
          BY <5>1
        <5>3. service' = [service EXCEPT ![s] = "nil"] /\ s \in Tethered \X Copy
          BY <1>0, <1>1, <4>1, <5>1
        <5>4. n # req[r].copy
          BY <1>0, <5>1, <5>2, <5>3
        <5>5. service[<<req[r].target, n>>] = "open"
          BY <4>1, <2>1, <5>1, <5>2
        <5>6. n = cache[req[r].target] /\ req[r].copy = cache[req[r].target]
          BY <1>0, <5>1, <5>2, <5>5 DEF IInv, OverrideIsReachable, OneInstanceWhileSeen
        <5>. QED
          BY <5>4, <5>6
      <4>. QED
        BY <4>1, <4>2
    <3>. QED
      BY <3>2, <3>4, <3>5 DEF Noted, Copy
  <2>. QED
    BY <1>0, <1>1, <2>1, <2>2, <2>4, OverrideStep
<1>2. CASE SetLocation(r)
  BY <1>1, <1>2 DEF SetLocation, SetService
<1>3. CASE ClearLocation(r)
  BY <1>1, <1>3 DEF ClearLocation, SetService
<1>. QED
  BY <1>2, <1>3

\* noteLocationOverride, forgetLocationOverride, and what ends any other command.
LEMMA NoteStep ==
  ASSUME IInv, NEW r \in Request, NoteSet(r) \/ NoteClear(r) \/ Drive(r)
  PROVE  IInv'
<1>0. /\ CacheTypeOK /\ Knows(r) /\ Using(r) /\ Respond(r)
      /\ service \in [Tethered \X Copy -> {"nil", "open", "stale"}]
      /\ UNCHANGED <<cache, service, world>> /\ held \subseteq Device \union {NoId}
      /\ req[r].id \in Device \union {NoId} /\ NoId \notin Device
      /\ Tethered \subseteq Local /\ Tethered \subseteq Device
  BY CacheAssumption, KnowledgeOf
     DEF IInv, CacheTypeOK, NoteSet, NoteClear, Drive, Using, overrides, Device
<1>1. /\ todo'[r] = "idle" /\ req'[r] = Blank
      /\ \A q \in Request : q # r => todo'[q] = todo[q] /\ req'[q] = req[q]
  BY <1>0, OverrideMoves
<1>2. \A d \in Tethered, n \in Copy : OpenAt(d, n)' <=> OpenAt(d, n)
  BY <1>0 DEF OpenAt, world, Copy
<1>3. ASSUME serial, held' \subseteq Device \union {NoId},
             \A d \in Tethered, n \in Copy : OpenAt(d, n)
                /\ (d \in held \/ NoId \in held \/ (todo[r] = "noteSet" /\ req[r].target = d))
                => d \in held' \/ NoId \in held'
      PROVE  Noted'
  <2>0. Noted
    BY <1>3 DEF IInv
  <2>1. \A p, q \in Request : req'[p].op \in Location /\ req'[q].op \in Location => p = q
    BY <1>1, <2>0 DEF Noted, Blank, Location
  <2>2. ASSUME NEW d \in Tethered, NEW n \in Copy, OpenAt(d, n)'
        PROVE  d \in held' \/ NoId \in held' \/ \E q \in Request : todo'[q] = "noteSet" /\ req'[q].target = d
    BY <1>1, <1>2, <1>3, <2>0, <2>2 DEF Noted
  <2>3. ASSUME NEW q \in Request, NEW n \in Copy, todo'[q] = "noteClear"
        PROVE  ~OpenAt(req[q].target, n)'
    <3>1. todo[q] = "noteClear" /\ req'[q] = req[q] /\ ~OpenAt(req[q].target, n)
      BY <1>1, <2>0, <2>3 DEF Noted
    <3>. QED
      BY <1>0, <3>1 DEF OpenAt, world
  <2>. QED
    BY <2>1, <2>2, <2>3 DEF Noted, Copy
<1>4. held' \subseteq Device \union {NoId}
  BY <1>0 DEF NoteSet, NoteClear, Drive, Cleared, overrides
<1>5. ASSUME serial
      PROVE  Noted'
  <2>1. CASE NoteSet(r)
    <3>1. held' = held \union {req[r].id} /\ todo[r] = "noteSet"
      BY <2>1 DEF NoteSet
    <3>2. req[r].id = req[r].target \/ req[r].id = NoId
      BY <1>0, <3>1 DEF Knows
    <3>. QED
      BY <1>3, <1>4, <1>5, <3>1, <3>2
  <2>2. CASE NoteClear(r)
    <3>1. held' = held \ {req[r].id} /\ todo[r] = "noteClear"
      BY <2>2 DEF NoteClear, Cleared
    <3>2. \A n \in Copy : ~OpenAt(req[r].target, n)
      BY <1>5, <3>1 DEF IInv, Noted
    <3>3. CASE req[r].id = req[r].target
      <4>1. req[r].id # NoId
        BY <1>0, <3>1, <3>3 DEF Knows
      <4>. QED
        BY <1>3, <1>4, <1>5, <3>1, <3>2, <3>3, <4>1
    <3>4. CASE Local \intersect Steady \subseteq {req[r].target}
      <4>1. \A d \in Tethered, n \in Copy : ~OpenAt(d, n)
        BY <1>0, <3>2, <3>4 DEF OpenAt, Steady
      <4>. QED
        BY <1>3, <1>4, <1>5, <4>1
    <3>. QED
      BY <1>0, <3>1, <3>3, <3>4 DEF Knows
  <2>3. CASE Drive(r)
    <3>1. UNCHANGED held /\ todo[r] # "noteSet"
      BY <2>3 DEF Drive, overrides
    <3>. QED
      BY <1>3, <1>4, <1>5, <3>1
  <2>. QED
    BY <2>1, <2>2, <2>3
<1>. QED
  BY <1>0, <1>4, <1>5, OverrideStep

\* A device that comes or goes, with its connections.
LEMMA ChangeStep ==
  ASSUME IInv, NEW d \in Device, NEW state \in {"absent", "offline", "online"}, Change(d, state)
  PROVE  IInv'
<1>0. CacheTypeOK
  BY DEF IInv
<1>1. /\ present' = [present EXCEPT ![d] = state]
      /\ missed \subseteq missed' /\ missed' \subseteq Device
      /\ state # "online" => d \in missed'
      /\ mishaps' \in 0..MaxMishaps
      /\ UNCHANGED <<cache, held, todo, req, serial>>
  BY <1>0, CacheAssumption DEF Change, Spend, CacheTypeOK
<1>2. /\ service' \in [Tethered \X Copy -> {"nil", "open", "stale"}]
      /\ \A s \in Tethered \X Copy : service'[s] = "open" => service[s] = "open"
  BY <1>0 DEF Change, CacheTypeOK
<1>3. CacheTypeOK'
  BY <1>0, <1>1, <1>2 DEF CacheTypeOK, Using, Device, Copy, Location
<1>4. \A e \in Steady' : present'[e] = "online"
  BY <1>0, <1>1 DEF IInv, Steady, CacheTypeOK, Device
<1>5. ASSUME NEW r \in Request
      PROVE  Knows(r)'
  <2>1. Steady' \subseteq Steady /\ Knows(r) /\ todo'[r] = todo[r] /\ req'[r] = req[r]
    BY <1>1 DEF IInv, Steady, Device
  <2>. QED
    BY <2>1 DEF Knows, ShouldEvict
<1>6. OneInstanceWhileSeen' /\ OverrideIsReachable'
  BY <1>1, <1>2 DEF IInv, OneInstanceWhileSeen, OverrideIsReachable, Using, Copy
<1>7. ASSUME serial'
      PROVE  Noted'
  <2>0. Noted
    BY <1>1, <1>7 DEF IInv
  <2>1. \A e \in Tethered, n \in Copy : OpenAt(e, n)' => OpenAt(e, n)
    BY <1>1, <1>2 DEF OpenAt, Copy
  <2>2. ASSUME NEW r \in Request, NEW n \in Copy, todo'[r] = "noteClear"
        PROVE  ~OpenAt(req[r].target, n)'
    <3>1. ~OpenAt(req[r].target, n)
      BY <1>1, <2>0, <2>2 DEF Noted
    <3>. QED
      BY <1>1, <1>2, <3>1 DEF OpenAt, Copy
  <2>. QED
    BY <1>1, <2>0, <2>1, <2>2 DEF Noted, Copy
<1>. QED
  BY <1>3, <1>4, <1>5, <1>6, <1>7 DEF IInv

\* Every step keeps the invariant.
LEMMA NextIInv == IInv /\ [CacheNext]_cacheVars => IInv'
<1> SUFFICES ASSUME IInv, [CacheNext]_cacheVars
             PROVE  IInv'
  OBVIOUS
<1>1. ASSUME NEW r \in Request, Step(r)
      PROVE  IInv'
  BY <1>1, LookupStep, ScanStep, FetchStep, EvictStep, LocationStep, NoteStep DEF Step
<1>2. ASSUME NEW r \in Request, NEW op \in Location \union {"drive", "list"},
             NEW id \in Device \union {NoId}, NEW offline \in BOOLEAN, NEW filtered \in BOOLEAN,
             Call(r, op, id, offline, filtered)
      PROVE  IInv'
  BY <1>2, CallStep
<1>3. ASSUME NEW d \in Device, NEW state \in {"absent", "offline", "online"}, Change(d, state)
      PROVE  IInv'
  BY <1>3, ChangeStep
<1>4. CASE UNCHANGED cacheVars
  <2>1. UNCHANGED <<present, cache, service, held, todo, req, missed, serial, mishaps>>
    BY <1>4 DEF cacheVars, overrides, world
  <2>2. CacheTypeOK'
    BY <2>1 DEF IInv, CacheTypeOK, Using, Device, Copy, Location
  <2>3. /\ \A d \in Steady' : present'[d] = "online"
        /\ \A r \in Request : Knows(r)'
    BY <2>1 DEF IInv, Steady, Knows, ShouldEvict
  <2>4. OneInstanceWhileSeen' /\ OverrideIsReachable'
    BY <2>1 DEF IInv, OneInstanceWhileSeen, OverrideIsReachable, Using, Copy
  <2>5. serial' => Noted'
    BY <2>1 DEF IInv, Noted, OpenAt, Copy
  <2>. QED
    BY <2>2, <2>3, <2>4, <2>5 DEF IInv
<1>. QED
  BY <1>1, <1>2, <1>3, <1>4 DEF CacheNext

\* The invariant holds in every behaviour.
LEMMA Invariant == CacheSpec => []IInv
  BY InitIInv, NextIInv, PTL DEF CacheSpec

-----------------------------------------------------------------------------
\* The state keeps its type: a request that uses a device has an object of it.
THEOREM TypeCorrect == CacheSpec => []CacheTypeOK
<1>1. IInv => CacheTypeOK
  BY DEF IInv
<1>. QED
  BY <1>1, Invariant, PTL

\* A device that every scan saw is driven through one object, the cached one,
\* however look-ups, selections and listings overlap (commands/commands.go:200).
THEOREM SteadyDeviceHasOneInstance == CacheSpec => []OneInstanceWhileSeen
<1>1. IInv => OneInstanceWhileSeen
  BY DEF IInv
<1>. QED
  BY <1>1, Invariant, PTL

\* The object that keeps an override of such a device alive is the one a request to
\* clear it will find.
THEOREM SteadyOverrideIsReachable == CacheSpec => []OverrideIsReachable
<1>1. IInv => OverrideIsReachable
  BY DEF IInv
<1>. QED
  BY <1>1, Invariant, PTL

\* With overrides one at a time, one that lives in the daemon is noted as soon as no
\* such request runs: the daemon does not idle out (commands/location.go:115).
THEOREM NotedWhileOpen == CacheSpec => []BusyWhileHeld
<1>1. IInv => BusyWhileHeld
  <2> SUFFICES ASSUME IInv, serial, \A r \in Request : req[r].op \notin Location,
                      NEW s \in Tethered \X Copy, service[s] = "open", s[1] \notin missed
               PROVE  held # {}
    BY DEF BusyWhileHeld, Copy
  <2>1. s[1] \in Tethered /\ s[2] \in Copy /\ OpenAt(s[1], s[2])
    BY DEF OpenAt
  <2>2. \A r \in Request : todo[r] # "noteSet"
    BY DEF IInv, Knows, Location
  <2>. QED
    BY <2>1, <2>2 DEF IInv, Noted
<1>. QED
  BY <1>1, Invariant, PTL
================================================================================
