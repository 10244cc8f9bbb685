---- MODULE Lists ----
(***************************************************************************)
(* Sorting and filtering, as sort and filter do it in the programs.  The   *)
(* standard library's SortSeq and SelectSeq cannot be expanded in a proof. *)
(***************************************************************************)
EXTENDS Integers, SequencesExt

\* The elements of S, each once, those before others first.
Sorted(S, before(_, _)) == CHOOSE l \in SetToSeqs(S) : IsSorted(l, before)

\* The elements of s that are in T, in the order of s.
OnlyIn(s, T) ==
    LET at == Sorted({i \in DOMAIN s : s[i] \in T}, <)
    IN [k \in 1..Len(at) |-> s[at[k]]]
====
