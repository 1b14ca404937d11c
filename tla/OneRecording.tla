----------------------------- MODULE OneRecording -----------------------------
(***************************************************************************)
(* What the daemon promises of screen recordings, with no channel and no   *)
(* handler: one recording at a time uses the device, each with a number of *)
(* its own, and the daemon's life does not end before it.  It promises so  *)
(* to clients that ask one thing at a time, of recorders that are prompt.  *)
(* Recorder (server/recording.go) is shown to implement it.                *)
(***************************************************************************)
EXTENDS Naturals

VARIABLES
    using,   \* the recordings that use the device or write their file
    last,    \* the number of the last recording
    up,      \* the daemon has not exited
    orderly  \* clients and recorders are such that the promise holds

vars == <<using, last, up, orderly>>

Init ==
    /\ using = {} /\ last = 0 /\ up = TRUE
    /\ orderly \in BOOLEAN

\* A recording begins when no other one uses the device.
Begin ==
    /\ up /\ using = {}
    /\ last' = last + 1
    /\ using' = {last'}
    /\ UNCHANGED up

\* It ends: its file is complete, or it failed.
End ==
    /\ using # {} /\ using' = {}
    /\ UNCHANGED <<last, up>>

\* The daemon exits when nothing is recorded.
Exit ==
    /\ up /\ using = {}
    /\ up' = FALSE
    /\ UNCHANGED <<using, last>>

Next ==
    /\ UNCHANGED orderly
    /\ orderly => Begin \/ End \/ Exit

Spec == Init /\ [][Next]_vars
===============================================================================
