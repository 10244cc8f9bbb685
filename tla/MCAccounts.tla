---- MODULE MCAccounts ----
(* Instances of the accounts service for TLC. *)
EXTENDS Accounts, TLC

Symmetry == Permutations(Calls) \cup Permutations(Passwords) \cup Permutations(Browsers)
====
