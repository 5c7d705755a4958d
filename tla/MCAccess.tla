------------------------------ MODULE MCAccess ------------------------------
(* Two users, one a merchant, two session ids, a key, two calls.            *)
EXTENDS Access, TLC

Symmetry == Permutations(Sids) \cup Permutations(Calls)
=============================================================================
