---- MODULE MCBuyPath ----
EXTENDS BuyPath, TLC

Symmetry == Permutations(Checkouts) \cup Permutations(Shopping)
====
