-------------------------- MODULE MCRefreshTokens --------------------------
(* Small instances of RefreshTokens for TLC.                               *)
EXTENDS RefreshTokens, TLC

\* Everything is interchangeable but the clock.  Safety only.
Symmetry == Permutations(Users) \cup Permutations(Devices) \cup
            Permutations(Tokens) \cup Permutations(Requests)
=============================================================================
