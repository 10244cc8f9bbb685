---- MODULE ListTheorems ----
(***************************************************************************)
(* What sorting, filtering, flattening and cutting a list give.            *)
(***************************************************************************)
EXTENDS Lists, FiniteSetTheorems, FunctionTheorems, SequenceTheorems,
        WellFoundedInduction, TLAPS

-----------------------------------------------------------------------------
(* Sorting.  A relation is a set of pairs, so that facts about every order *)
(* can be stated without an operator as a parameter.                       *)

StrictOrder(R, S) ==
    /\ \A x \in S : <<x, x>> \notin R
    /\ \A x, y \in S : x # y => <<x, y>> \in R \/ <<y, x>> \in R
    /\ \A x, y, z \in S : <<x, y>> \in R /\ <<y, z>> \in R => <<x, z>> \in R

Below(R, S, x) == {y \in S : <<y, x>> \in R}

Increasing(R, l) == \A i, j \in DOMAIN l : i < j => <<l[i], l[j]>> \in R

LEMMA UpTo == \A n \in Nat : IsFiniteSet(1..n) /\ Cardinality(1..n) = n
<1> SUFFICES ASSUME NEW n \in Nat PROVE IsFiniteSet(1..n) /\ Cardinality(1..n) = n
  OBVIOUS
<1> QED BY FS_Interval

LEMMA BelowGrows ==
  ASSUME NEW S, IsFiniteSet(S), NEW R, StrictOrder(R, S), NEW x \in S, NEW y \in S, <<x, y>> \in R
  PROVE  Cardinality(Below(R, S, x)) < Cardinality(Below(R, S, y))
<1>1. Below(R, S, x) \subseteq Below(R, S, y) /\ x \in Below(R, S, y) /\ x \notin Below(R, S, x)
  BY DEF StrictOrder, Below
<1>2. IsFiniteSet(Below(R, S, y))
  BY FS_Subset DEF Below
<1>3. /\ Cardinality(Below(R, S, x)) <= Cardinality(Below(R, S, y))
      /\ Cardinality(Below(R, S, x)) # Cardinality(Below(R, S, y))
      /\ IsFiniteSet(Below(R, S, x))
  BY <1>1, <1>2, FS_Subset
<1> QED BY <1>2, <1>3, FS_CardinalityType

\* A finite set has a list in every strict order: an element's place is the number
\* of those below it.
LEMMA SortedExists ==
  ASSUME NEW S, IsFiniteSet(S), NEW R, StrictOrder(R, S)
  PROVE  \E l \in SetToSeqs(S) : \A i, j \in 1..Len(l) : i < j => <<l[i], l[j]>> \in R
<1> DEFINE n == Cardinality(S)
           place == [x \in S |-> Cardinality(Below(R, S, x)) + 1]
<1>0. n \in Nat
  BY FS_CardinalityType
<1>1. ASSUME NEW x \in S PROVE place[x] \in 1..n
  <2>1. Below(R, S, x) \subseteq S \ {x}
    BY DEF StrictOrder, Below
  <2>2. IsFiniteSet(S \ {x}) /\ Cardinality(S \ {x}) = n - 1
    BY FS_RemoveElement
  <2>3. IsFiniteSet(Below(R, S, x)) /\ Cardinality(Below(R, S, x)) <= n - 1
    BY <2>1, <2>2, FS_Subset
  <2> QED BY <1>0, <2>3, FS_CardinalityType
<1>2. ASSUME NEW x \in S, NEW y \in S, <<x, y>> \in R PROVE place[x] < place[y]
  <2>1. Cardinality(Below(R, S, x)) < Cardinality(Below(R, S, y))
    BY <1>2, BelowGrows
  <2>2. IsFiniteSet(Below(R, S, x)) /\ IsFiniteSet(Below(R, S, y))
    BY FS_Subset DEF Below
  <2> QED BY <2>1, <2>2, FS_CardinalityType
<1> HIDE DEF place
<1>3. ASSUME NEW x \in S, NEW y \in S, place[x] = place[y] PROVE x = y
  <2> SUFFICES ASSUME x # y PROVE FALSE
    OBVIOUS
  <2>1. place[x] < place[y] \/ place[y] < place[x]
    BY <1>2 DEF StrictOrder
  <2> QED BY <1>0, <1>1, <1>3, <2>1
<1>4. place \in Injection(S, 1..n)
  <2>1. place \in [S -> 1..n]
    BY <1>1 DEF place
  <2> QED BY <1>3, <2>1, Fun_IsInj
<1>5. IsFiniteSet(1..n) /\ Cardinality(1..n) = n
  BY <1>0, UpTo
<1>6. place \in Surjection(S, 1..n)
  BY <1>4, <1>5, FS_Injection
<1>7. \A i \in 1..n : \E x \in S : place[x] = i
  BY <1>6 DEF Surjection
<1> DEFINE l == [i \in 1..n |-> CHOOSE x \in S : place[x] = i]
<1>8. \A i \in 1..n : l[i] \in S /\ place[l[i]] = i
  BY <1>7
<1>9. l \in [1..n -> S] /\ \A i, j \in 1..n : i # j => l[i] # l[j]
  BY <1>8
<1> HIDE DEF l
<1>10. l \in SetToSeqs(S) /\ Len(l) = n
  <2>1. l \in Seq(S) /\ DOMAIN l = 1..n
    BY <1>0, <1>9
  <2> QED BY <1>0, <1>9, <2>1, LenProperties DEF SetToSeqs
<1>11. ASSUME NEW i \in 1..n, NEW j \in 1..n, i < j PROVE <<l[i], l[j]>> \in R
  <2>1. i # j /\ l[i] \in S /\ l[j] \in S /\ l[i] # l[j]
    BY <1>0, <1>8, <1>9, <1>11
  <2>2. ASSUME <<l[j], l[i]>> \in R PROVE FALSE
    <3>1. place[l[j]] < place[l[i]]
      BY <1>2, <2>1, <2>2
    <3>2. j < i
      BY <1>8, <3>1
    <3> QED BY <1>0, <1>11, <3>2
  <2> QED BY <2>1, <2>2 DEF StrictOrder
<1> QED BY <1>10, <1>11

\* What a list of a set is.
LEMMA ListOfSet ==
  ASSUME NEW S, IsFiniteSet(S), NEW l \in SetToSeqs(S)
  PROVE  /\ l \in Seq(S) /\ Len(l) = Cardinality(S) /\ DOMAIN l = 1..Len(l)
         /\ ToSet(l) = S
         /\ \A i, j \in DOMAIN l : l[i] = l[j] => i = j
<1> DEFINE n == Cardinality(S)
<1>0. n \in Nat
  BY FS_CardinalityType
<1>1. l \in [1..n -> S] /\ \A i, j \in 1..n : i # j => l[i] # l[j]
  BY DEF SetToSeqs
<1>2. l \in Seq(S) /\ DOMAIN l = 1..n
  BY <1>0, <1>1
<1>3. Len(l) = n
  BY <1>0, <1>2, LenProperties
<1>4. l \in Injection(1..n, S)
  BY <1>1, Fun_IsInj
<1>5. IsFiniteSet(1..n) /\ Cardinality(1..n) = n
  BY <1>0, UpTo
<1>6. l \in Surjection(1..n, S)
  BY <1>4, <1>5, FS_Injection
<1>7. \A x \in S : \E i \in 1..n : l[i] = x
  BY <1>6 DEF Surjection
<1> HIDE DEF n
<1>8. ToSet(l) = S
  BY <1>1, <1>2, <1>7 DEF ToSet
<1> QED BY <1>1, <1>2, <1>3, <1>8 DEF n

\* In a list of S in order, the i-th element has i - 1 others of S below it.
LEMMA PlaceInOrder ==
  ASSUME NEW S, IsFiniteSet(S), NEW R, StrictOrder(R, S),
         NEW l \in Seq(S), ToSet(l) = S, Increasing(R, l),
         NEW i \in 1..Len(l)
  PROVE  Cardinality(Below(R, S, l[i])) = i - 1
<1>0. Len(l) \in Nat /\ DOMAIN l = 1..Len(l) /\ \A j \in 1..Len(l) : l[j] \in S
  BY LenProperties
<1>1. \A j, k \in 1..Len(l) : <<l[j], l[k]>> \in R => j < k
  <2> SUFFICES ASSUME NEW j \in 1..Len(l), NEW k \in 1..Len(l), <<l[j], l[k]>> \in R, ~(j < k)
               PROVE  FALSE
    OBVIOUS
  <2>1. CASE j = k
    BY <1>0, <2>1 DEF StrictOrder
  <2>2. CASE k < j
    <3>1. <<l[k], l[j]>> \in R
      BY <1>0, <2>2 DEF Increasing
    <3>2. <<l[k], l[k]>> \in R
      BY <1>0, <3>1 DEF StrictOrder
    <3> QED BY <1>0, <3>2 DEF StrictOrder
  <2> QED BY <1>0, <2>1, <2>2
<1> DEFINE first == [j \in 1..(i - 1) |-> l[j]]
           B == Below(R, S, l[i])
<1>2. \A j \in 1..(i - 1) : j \in 1..Len(l) /\ first[j] \in B
  BY <1>0 DEF Increasing, Below
<1>3. \A j, k \in 1..(i - 1) : first[j] = first[k] => j = k
  <2> SUFFICES ASSUME NEW j \in 1..(i - 1), NEW k \in 1..(i - 1), l[j] = l[k], j < k PROVE FALSE
    BY <1>0
  <2>1. <<l[j], l[k]>> \in R
    BY <1>0, <1>2 DEF Increasing
  <2> QED BY <1>0, <1>2, <2>1 DEF StrictOrder
<1>4. \A x \in B : \E j \in 1..(i - 1) : first[j] = x
  <2> SUFFICES ASSUME NEW x \in B PROVE \E j \in 1..(i - 1) : l[j] = x
    OBVIOUS
  <2>1. PICK j \in 1..Len(l) : l[j] = x
    BY <1>0 DEF Below, ToSet
  <2>2. j < i
    BY <1>1, <2>1 DEF Below
  <2> QED BY <1>0, <2>1, <2>2
<1>5. first \in [1..(i - 1) -> B]
  BY <1>2
<1> HIDE DEF first, B
<1>6. first \in Bijection(1..(i - 1), B)
  BY <1>3, <1>4, <1>5, Fun_IsBij
<1>7. ExistsBijection(1..(i - 1), B)
  BY <1>6 DEF ExistsBijection
<1>8. i - 1 \in Nat
  BY <1>0
<1>9. Cardinality(B) = i - 1
  BY <1>7, <1>8, FS_CountingElements
<1> QED BY <1>9 DEF B

-----------------------------------------------------------------------------
(* Filtering: the positions that stay, in ascending order.                 *)

Ascending == {p \in Int \X Int : p[1] < p[2]}

LEMMA AscendingOrders == \A S : S \subseteq Int => StrictOrder(Ascending, S)
BY DEF StrictOrder, Ascending

LEMMA SortedNumbers ==
  ASSUME NEW S, S \subseteq Int, IsFiniteSet(S)
  PROVE  /\ Sorted(S, <) \in SetToSeqs(S)
         /\ \A i, j \in 1..Len(Sorted(S, <)) : i < j => Sorted(S, <)[i] < Sorted(S, <)[j]
<1>1. \E l \in SetToSeqs(S) : IsSorted(l, <)
  <2>1. PICK l \in SetToSeqs(S) : \A i, j \in 1..Len(l) : i < j => <<l[i], l[j]>> \in Ascending
    BY SortedExists, AscendingOrders
  <2> QED BY <2>1 DEF IsSorted, Ascending
<1> QED BY <1>1 DEF Sorted, IsSorted

LEMMA OnlyInIs ==
  ASSUME NEW S, NEW s \in Seq(S), NEW T
  PROVE  /\ OnlyIn(s, T) \in Seq(S)
         /\ Len(OnlyIn(s, T)) <= Len(s)
         /\ ToSet(OnlyIn(s, T)) = ToSet(s) \cap T
         /\ \A R : Increasing(R, s) => Increasing(R, OnlyIn(s, T))
         /\ (\A i, j \in DOMAIN s : s[i] = s[j] => i = j) =>
              Len(OnlyIn(s, T)) = Cardinality(ToSet(s) \cap T)
<1> DEFINE D == {i \in DOMAIN s : s[i] \in T}
           at == Sorted(D, <)
           l == OnlyIn(s, T)
<1>0. Len(s) \in Nat /\ DOMAIN s = 1..Len(s) /\ \A i \in 1..Len(s) : s[i] \in S
  BY LenProperties
<1>1. IsFiniteSet(D) /\ Cardinality(D) <= Len(s) /\ D \subseteq Int /\ Cardinality(D) \in Nat
  <2>1. IsFiniteSet(1..Len(s)) /\ Cardinality(1..Len(s)) = Len(s)
    BY <1>0, UpTo
  <2>2. D \subseteq 1..Len(s)
    BY <1>0
  <2> HIDE DEF D
  <2>3. D \in SUBSET (1..Len(s))
    BY <2>2
  <2>4. IsFiniteSet(D) /\ Cardinality(D) <= Len(s)
    BY <2>1, <2>3, FS_Subset
  <2>5. D \subseteq Int
    BY <1>0, <2>2
  <2> QED BY <2>4, <2>5, FS_CardinalityType
<1>2. at \in SetToSeqs(D) /\ \A i, j \in 1..Len(at) : i < j => at[i] < at[j]
  BY <1>1, SortedNumbers
<1>3. l = [k \in 1..Len(at) |-> s[at[k]]]
  BY DEF OnlyIn
<1>d. \A i : i \in D <=> i \in 1..Len(s) /\ s[i] \in T
  BY <1>0
<1> HIDE DEF D, l
<1>e. at = Sorted(D, <)
  OBVIOUS
<1> HIDE DEF at
<1>4. /\ at \in Seq(D) /\ Len(at) = Cardinality(D) /\ ToSet(at) = D
      /\ \A i, j \in DOMAIN at : at[i] = at[j] => i = j
  BY <1>1, <1>2, ListOfSet
<1>5. Len(at) \in Nat /\ DOMAIN at = 1..Len(at) /\ \A k \in 1..Len(at) : at[k] \in D
  BY <1>4, LenProperties
<1>6. \A k \in 1..Len(at) : at[k] \in 1..Len(s) /\ s[at[k]] \in S /\ s[at[k]] \in T
  BY <1>0, <1>5, <1>d
<1>7. l \in [1..Len(at) -> S] /\ l \in Seq(S)
  BY <1>3, <1>5, <1>6
<1>8. DOMAIN l = 1..Len(at) /\ Len(l) = Len(at) /\ \A k \in 1..Len(at) : l[k] = s[at[k]]
  BY <1>3, <1>5, <1>7, LenProperties
<1>9. ToSet(l) = ToSet(s) \cap T
  <2>1. ASSUME NEW x \in ToSet(l) PROVE x \in ToSet(s) \cap T
    BY <1>0, <1>6, <1>8, <2>1 DEF ToSet
  <2>2. ASSUME NEW x \in ToSet(s), x \in T PROVE x \in ToSet(l)
    <3>1. PICK i \in 1..Len(s) : s[i] = x
      BY <1>0 DEF ToSet
    <3>2. i \in D
      BY <1>d, <2>2, <3>1
    <3>3. PICK k \in 1..Len(at) : at[k] = i
      BY <1>4, <1>5, <3>2 DEF ToSet
    <3> QED BY <1>8, <3>1, <3>3 DEF ToSet
  <2> QED BY <2>1, <2>2
<1>10. ASSUME NEW R, Increasing(R, s) PROVE Increasing(R, l)
  <2> SUFFICES ASSUME NEW i \in 1..Len(at), NEW j \in 1..Len(at), i < j PROVE <<l[i], l[j]>> \in R
    BY <1>8 DEF Increasing
  <2>1. at[i] < at[j] /\ at[i] \in DOMAIN s /\ at[j] \in DOMAIN s
    BY <1>0, <1>2, <1>6
  <2> QED BY <1>8, <1>10, <2>1 DEF Increasing
<1>11. ASSUME \A i, j \in DOMAIN s : s[i] = s[j] => i = j
       PROVE  Len(l) = Cardinality(ToSet(s) \cap T)
  <2>1. \A i, j \in 1..Len(at) : l[i] = l[j] => i = j
    <3> SUFFICES ASSUME NEW i \in 1..Len(at), NEW j \in 1..Len(at), l[i] = l[j] PROVE i = j
      OBVIOUS
    <3>1. at[i] = at[j]
      BY <1>0, <1>6, <1>8, <1>11
    <3> QED BY <1>4, <1>5, <3>1
  <2>2. l \in [1..Len(at) -> ToSet(l)] /\ \A x \in ToSet(l) : \E k \in 1..Len(at) : l[k] = x
    BY <1>7, <1>8 DEF ToSet
  <2>3. l \in Bijection(1..Len(at), ToSet(l))
    BY <2>1, <2>2, Fun_IsBij
  <2>4. ExistsBijection(1..Len(at), ToSet(l))
    BY <2>3 DEF ExistsBijection
  <2>5. Cardinality(ToSet(l)) = Len(at)
    BY <1>5, <2>4, FS_CountingElements
  <2> QED BY <1>8, <1>9, <2>5
<1> QED BY <1>1, <1>4, <1>7, <1>8, <1>9, <1>10, <1>11 DEF l

-----------------------------------------------------------------------------
(* Cutting: the n elements that follow the first a, as far as there are.   *)

Cut(s, a, n) == SubSeq(s, a + 1, IF a + n > Len(s) THEN Len(s) ELSE a + n)

LEMMA CutIs ==
  ASSUME NEW S, NEW s \in Seq(S), NEW a \in Nat, NEW n \in Nat
  PROVE  /\ Cut(s, a, n) \in Seq(S) /\ Len(Cut(s, a, n)) <= n
         /\ \A x : x \in ToSet(Cut(s, a, n)) <=> \E i \in DOMAIN s : a < i /\ i <= a + n /\ s[i] = x
         /\ n > 0 => (Cut(s, a, n) = <<>> <=> Len(s) <= a)
         /\ a = 0 /\ Len(s) <= n => Cut(s, a, n) = s
<1> DEFINE b == IF a + n > Len(s) THEN Len(s) ELSE a + n
           c == Cut(s, a, n)
<1>0. Len(s) \in Nat /\ DOMAIN s = 1..Len(s) /\ \A i \in 1..Len(s) : s[i] \in S
  BY LenProperties
<1>1. b \in Int /\ b <= Len(s) /\ b <= a + n
  BY <1>0
<1>2. \A i \in (a + 1)..b : s[i] \in S
  BY <1>0, <1>1
<1>3. c = SubSeq(s, a + 1, b)
  BY DEF Cut
<1>b. \A j \in 1..Len(s) : j <= b <=> j <= a + n
  BY <1>0
<1>c. n > 0 => (b <= a <=> Len(s) <= a)
  BY <1>0
<1>f. Len(s) <= a + n => b = Len(s)
  <2> SUFFICES ASSUME NEW m \in Nat PROVE m <= a + n => (IF a + n > m THEN m ELSE a + n) = m
    BY <1>0
  <2> QED OBVIOUS
<1> HIDE DEF b, c
<1>4. /\ c \in Seq(S)
      /\ Len(c) = IF a + 1 <= b THEN b - (a + 1) + 1 ELSE 0
      /\ \A i \in 1..(b - (a + 1) + 1) : c[i] = s[(a + 1) + i - 1]
  BY <1>1, <1>2, <1>3, SubSeqProperties
<1>5. DOMAIN c = 1..Len(c)
  BY <1>4, LenProperties
<1>6. \A i \in 1..Len(c) : c[i] = s[a + i] /\ a + i \in 1..Len(s) /\ a + i <= b
  BY <1>0, <1>1, <1>4
<1>7. \A x : x \in ToSet(c) <=> \E i \in DOMAIN s : a < i /\ i <= a + n /\ s[i] = x
  <2>1. ASSUME NEW i \in DOMAIN c
        PROVE  \E k \in DOMAIN s : a < k /\ k <= a + n /\ s[k] = c[i]
    <3>1. i \in 1..Len(c) /\ c[i] = s[a + i] /\ a + i \in DOMAIN s /\ a + i <= b
      BY <1>0, <1>5, <1>6
    <3>2. a < a + i /\ a + i <= a + n
      BY <1>0, <1>5, <1>b, <3>1, <1>4, LenProperties
    <3> QED BY <3>1, <3>2
  <2>2. ASSUME NEW j \in DOMAIN s, a < j, j <= a + n PROVE s[j] \in ToSet(c)
    <3>1. j - a \in 1..Len(c) /\ a + (j - a) = j
      BY <1>0, <1>1, <1>4, <1>b, <2>2
    <3> QED BY <1>5, <1>6, <3>1 DEF ToSet
  <2>3. \A x \in ToSet(c) : \E i \in DOMAIN c : c[i] = x
    BY DEF ToSet
  <2>4. ASSUME NEW x \in ToSet(c) PROVE \E i \in DOMAIN s : a < i /\ i <= a + n /\ s[i] = x
    BY <2>1, <2>3
  <2>5. ASSUME NEW x, \E i \in DOMAIN s : a < i /\ i <= a + n /\ s[i] = x PROVE x \in ToSet(c)
    BY <2>2, <2>5
  <2> QED BY <2>4, <2>5
<1>8. Len(c) <= n
  BY <1>1, <1>4
<1>9. ASSUME n > 0 PROVE c = <<>> <=> Len(s) <= a
  <2>1. c = <<>> <=> Len(c) = 0
    BY <1>4, EmptySeq
  <2>2. Len(c) = 0 <=> b <= a
    BY <1>1, <1>4
  <2> QED BY <1>9, <1>c, <2>1, <2>2
<1>10. ASSUME a = 0, Len(s) <= n PROVE c = s
  <2>1. c = SubSeq(s, 1, Len(s))
    <3>1. a + 1 = 1 /\ Len(s) <= a + n
      BY <1>0, <1>10
    <3>2. b = Len(s)
      BY <1>f, <3>1
    <3> QED BY <1>3, <3>1, <3>2
  <2> QED BY <2>1, SubSeqFull
<1> QED BY <1>4, <1>7, <1>8, <1>9, <1>10 DEF c

-----------------------------------------------------------------------------
(* Flattening.                                                             *)

\* Induction over the natural numbers; the induction hypothesis is a set.
LEMMA NatSetInduction ==
  ASSUME NEW C, 0 \in C, \A n \in Nat : n \in C => n + 1 \in C
  PROVE  Nat \subseteq C
<1> SUFFICES ASSUME NEW m \in Nat, m \notin C PROVE FALSE
  OBVIOUS
<1> DEFINE Bad == {n \in Nat : n \notin C}
<1>1. Bad \subseteq Nat /\ Bad # {}
  OBVIOUS
<1> HIDE DEF Bad
<1>2. \E n \in Bad : \A k \in Bad : ~ (<<k, n>> \in OpToRel(<, Nat))
  BY <1>1, NatLessThanWellFounded, WFMin
<1>3. PICK n \in Bad : \A k \in Bad : ~ (<<k, n>> \in OpToRel(<, Nat))
  BY <1>2
<1>4. n \in Nat /\ n \notin C /\ n # 0
  BY DEF Bad
<1>5. n - 1 \in Nat /\ <<n - 1, n>> \in OpToRel(<, Nat)
  BY <1>4 DEF OpToRel
<1>6. n - 1 \in C
  BY <1>3, <1>5 DEF Bad
<1>7. (n - 1) + 1 \in C
  BY <1>5, <1>6
<1> QED BY <1>4, <1>7

\* f flattens the first n of ss.
Flattens(ss, n, f) == f = [i \in 1..n |-> IF i = 1 THEN ss[i] ELSE f[i - 1] \o ss[i]]

LEMMA FlattensExist == \A ss : \A n \in Nat : \E f : Flattens(ss, n, f)
<1> SUFFICES ASSUME NEW ss PROVE \A n \in Nat : \E f : Flattens(ss, n, f)
  OBVIOUS
<1> DEFINE C == {n \in Nat : \E f : Flattens(ss, n, f)}
<1>1. 0 \in C
  <2>1. Flattens(ss, 0, [i \in 1..0 |-> ss])
    BY DEF Flattens
  <2> QED BY <2>1
<1>2. ASSUME NEW n \in Nat, n \in C PROVE n + 1 \in C
  <2>1. PICK f : Flattens(ss, n, f)
    BY <1>2
  <2> DEFINE g == [i \in 1..(n + 1) |-> IF i \in 1..n THEN f[i]
                                       ELSE IF i = 1 THEN ss[i] ELSE f[i - 1] \o ss[i]]
  <2>2. ASSUME NEW i \in 1..(n + 1)
        PROVE  g[i] = IF i = 1 THEN ss[i] ELSE g[i - 1] \o ss[i]
    <3>1. i # 1 => i - 1 \in 1..n /\ g[i - 1] = f[i - 1]
      OBVIOUS
    <3>2. CASE i \in 1..n
      <4>1. f[i] = IF i = 1 THEN ss[i] ELSE f[i - 1] \o ss[i]
        BY <2>1, <3>2 DEF Flattens
      <4> QED BY <3>1, <3>2, <4>1
    <3>3. CASE i \notin 1..n
      BY <3>1, <3>3
    <3> QED BY <3>2, <3>3
  <2>3. g = [i \in 1..(n + 1) |-> g[i]]
    OBVIOUS
  <2> HIDE DEF g
  <2>4. Flattens(ss, n + 1, g)
    BY <2>2, <2>3 DEF Flattens
  <2> QED BY <2>4
<1> HIDE DEF C
<1>3. Nat \subseteq C
  BY <1>1, <1>2, NatSetInduction
<1> QED BY <1>3 DEF C

\* Induction along the lists that are put one after the other.
LEMMA FlattenSeqBy ==
  ASSUME NEW S, NEW ss \in Seq(Seq(S)), ss # <<>>, NEW C,
         ss[1] \in C[1],
         \A k \in Nat \ {0} : \A l \in C[k] : k < Len(ss) => l \o ss[k + 1] \in C[k + 1]
  PROVE  FlattenSeq(ss) \in C[Len(ss)]
<1> DEFINE n == Len(ss)
<1>0. n \in Nat /\ n # 0
  BY LenProperties, EmptySeq
<1>1. FlattenSeq(ss) = (CHOOSE f : Flattens(ss, n, f))[n]
  BY <1>0 DEF FlattenSeq, Flattens
<1>2. PICK f : f = (CHOOSE g : Flattens(ss, n, g))
  OBVIOUS
<1>3. Flattens(ss, n, f)
  BY <1>0, <1>2, FlattensExist
<1>4. \A k \in Nat \ {0} : \A l \in C[k] : k < n => l \o ss[k + 1] \in C[k + 1]
  OBVIOUS
<1> HIDE DEF n
<1>5. \A i \in 1..n : f[i] = IF i = 1 THEN ss[i] ELSE f[i - 1] \o ss[i]
  BY <1>3 DEF Flattens
<1> DEFINE D == {k \in Nat : k + 1 \in 1..n => f[k + 1] \in C[k + 1]}
<1>6. 0 \in D
  BY <1>5
<1>7. ASSUME NEW k \in Nat, k \in D PROVE k + 1 \in D
  <2> SUFFICES ASSUME (k + 1) + 1 \in 1..n PROVE f[(k + 1) + 1] \in C[(k + 1) + 1]
    OBVIOUS
  <2>1. k + 1 \in Nat \ {0} /\ k + 1 < n /\ f[k + 1] \in C[k + 1]
    BY <1>0, <1>7
  <2>2. f[(k + 1) + 1] = f[k + 1] \o ss[(k + 1) + 1]
    <3>1. (k + 1) + 1 # 1 /\ ((k + 1) + 1) - 1 = k + 1
      OBVIOUS
    <3> QED BY <1>5, <3>1
  <2> QED BY <1>4, <2>1, <2>2
<1>8. \A k \in D : k + 1 \in 1..n => f[k + 1] \in C[k + 1]
  OBVIOUS
<1> HIDE DEF D
<1>9. Nat \subseteq D
  BY <1>6, <1>7, NatSetInduction
<1>10. n - 1 \in D /\ (n - 1) + 1 = n /\ n \in 1..n
  BY <1>0, <1>9
<1>11. f[n] \in C[n]
  BY <1>8, <1>10
<1> QED BY <1>1, <1>2, <1>11 DEF n

====
