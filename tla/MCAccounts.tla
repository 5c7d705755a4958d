----------------------------- MODULE MCAccounts -----------------------------
(* A user and an administrator, two addresses, two calls, two wallets and   *)
(* two merchants.                                                           *)
EXTENDS Accounts, TLC

Symmetry == Permutations(Addresses) \cup Permutations(Calls)
=============================================================================
