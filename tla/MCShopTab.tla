---- MODULE MCShopTab ----
EXTENDS ShopTab, TLC

Symmetry == Permutations(Users)
====
