---- MODULE MCOrderPlacement ----
EXTENDS OrderPlacement, TLC

Symmetry == Permutations(Requests) \cup Permutations(Users)
====
