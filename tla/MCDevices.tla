------------------------------ MODULE MCDevices -------------------------------
(***************************************************************************)
(* Two sides of the objects that stand for devices in the daemon: which    *)
(* object a request drives its device through (DeviceCache), and how the   *)
(* captures of one object share its encoder (AvcHub).  They share no       *)
(* state, so a behaviour is one of the cache or one of a hub, while the    *)
(* other stays in its initial state and has nothing to show.               *)
(***************************************************************************)
EXTENDS AvcHub, DeviceCache, TLC

VARIABLE side   \* whose behaviour this is

\* The cache begins in several ways, when it is its turn.
DevicesInit ==
    /\ side \in {"cache", "hub"}
    /\ Init /\ CacheInit
    /\ side = "hub" => serial /\ missed = {}

DevicesNext ==
    /\ UNCHANGED side
    /\ \/ side = "cache" /\ CacheNext /\ UNCHANGED vars
       \/ side = "hub" /\ Next /\ UNCHANGED cacheVars

DevicesSpec == DevicesInit /\ [][DevicesNext]_<<side, vars, cacheVars>>

\* An encoder that sends parameter sets as a chunk of their own, some pictures
\* later a key frame, and slices in between.
SeparateSets == {{"sps", "pps"}, {"idr"}, {"slice"}}

Symmetry == Permutations(Request) \union Permutations(Client)
===============================================================================
