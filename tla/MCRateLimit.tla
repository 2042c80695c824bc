---------------------------- MODULE MCRateLimit ----------------------------
(* Small instances of RateLimit for TLC.                                   *)
EXTENDS RateLimit, TLC

Symmetry == Permutations(IPs) \cup Permutations(Limiters) \cup
            Permutations(Requests)
=============================================================================
