----------------------------- MODULE MCStoreToken -----------------------------
(* Instances of StoreToken for TLC: tokens change hands in one workload, the store *)
(* is switched in the other.                                                      *)
EXTENDS StoreToken, TLC

TokensAndStore == {{"revoke", "rotate", "expire"}, {"edit", "deactivate"}}
RevokeOnly     == {{"revoke"}}

Symmetry == Permutations(Token) \union Permutations(Request) \union Permutations(Owner)
            \union Permutations(Editor)
================================================================================
