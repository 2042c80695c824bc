---------------------------- MODULE MCEventCache ----------------------------
(* Small instances of EventCache for TLC.                                  *)
EXTENDS EventCache, TLC

Symmetry == Permutations(Events) \cup Permutations(Requests)
=============================================================================
