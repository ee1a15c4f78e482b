---------------------------- MODULE MCConnection ----------------------------
(* Instances of Connection for TLC. *)
EXTENDS ConnectionLifecycle, TLC

\* Calls of one kind are interchangeable: used for safety runs only.
Symmetry == Permutations(Connectors) \cup Permutations(Cmds)
=============================================================================
