------------------------------- MODULE MCCharge -------------------------------
(* Instances of Charge for TLC.                                            *)
EXTENDS Charge, TLC

\* Requests, keys, orders and bodies are interchangeable.
Symmetry == Permutations(Request) \union Permutations(Key)
            \union Permutations(Order) \union Permutations(Body)
================================================================================
