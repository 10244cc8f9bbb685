---- MODULE MCCartService ----
EXTENDS CartService, TLC

Symmetry == Permutations(Calls)
====
