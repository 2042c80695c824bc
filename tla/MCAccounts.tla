----------------------------- MODULE MCAccounts -----------------------------
(* Small instances of Accounts for TLC.                                    *)
EXTENDS Accounts, TLC

Symmetry == Permutations(Users) \cup Permutations(Devices) \cup
            Permutations(Tokens) \cup Permutations(Requests)
=============================================================================
