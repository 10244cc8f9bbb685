---- MODULE Sums ----
(***************************************************************************)
(* Sums over finite sets.                                                  *)
(***************************************************************************)
EXTENDS Naturals, Functions

\* The sum of the weights of S; w is a function, so that facts about every sum can
\* be stated without an operator as a parameter.
SumOver(w, S) == FoldFunctionOnSet(+, 0, w, S)
====
