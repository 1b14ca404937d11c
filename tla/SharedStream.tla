----------------------------- MODULE SharedStream -----------------------------
(***************************************************************************)
(* What a device's shared H.264 stream promises its viewers, with none of  *)
(* the machinery: one source at a time, opened when nobody watches and no  *)
(* older source holds the encoder, and bytes that always come from the     *)
(* current source.  AvcHub (devices/avc_hub.go) is shown to implement it.  *)
(***************************************************************************)
EXTENDS Naturals

CONSTANT Viewer

VARIABLES
    viewers,  \* who is attached to the stream
    source,   \* the sources that hold the device's encoder
    current,  \* the number of the source whose bytes count
    screen    \* screen[v]: the source whose bytes v was handed last, 0 if none

vars == <<viewers, source, current, screen>>

Init ==
    /\ viewers = {}
    /\ source = {}
    /\ current = 0
    /\ screen = [v \in Viewer |-> 0]

\* A viewer finds nobody watching and the encoder free, and opens a source.
Open(v) ==
    /\ viewers = {} /\ source = {}
    /\ viewers' = {v}
    /\ current' = current + 1
    /\ source' = {current'}
    /\ UNCHANGED screen

\* A viewer joins those who are watching, or have only just left.
Join(v) ==
    /\ v \notin viewers
    /\ viewers' = viewers \union {v}
    /\ UNCHANGED <<source, current, screen>>

\* Some viewers are handed bytes of the current source; others leave or are dropped.
Show(lucky, gone) ==
    /\ screen' = [v \in Viewer |-> IF v \in lucky THEN current ELSE screen[v]]
    /\ viewers' = viewers \ gone
    /\ UNCHANGED <<source, current>>

\* Everybody is gone, and what the source still sends counts for nothing.
Retire ==
    /\ viewers' = {}
    /\ current' = current + 1
    /\ UNCHANGED <<source, screen>>

\* The source lets go of the encoder.
Close ==
    /\ source # {} /\ source' = {}
    /\ UNCHANGED <<viewers, current, screen>>

\* A former viewer starts over.
Forget(v) ==
    /\ v \notin viewers
    /\ screen' = [screen EXCEPT ![v] = 0]
    /\ UNCHANGED <<viewers, source, current>>

Next ==
    \/ \E v \in Viewer : Open(v) \/ Join(v) \/ Forget(v)
    \/ \E gone \in SUBSET viewers : \E lucky \in SUBSET (viewers \ gone) : Show(lucky, gone)
    \/ Retire \/ Close

Spec == Init /\ [][Next]_vars
===============================================================================
