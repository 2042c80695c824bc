--------------------------- MODULE MCAccessTokens ---------------------------
(* Small instances of AccessTokens for TLC.                                *)
EXTENDS AccessTokens, TLC

Symmetry == Permutations(Users) \cup Permutations(Jtis) \cup
            Permutations(Requests)
=============================================================================
