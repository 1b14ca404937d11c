--------------------------- MODULE MCDaemonLifecycle ---------------------------
(* Small instances of DaemonLifecycle for TLC. *)
EXTENDS DaemonLifecycle, TLC

Symmetry == Permutations(Client) \union Permutations(Version)
===============================================================================
