---- MODULE SumTheorems ----
(***************************************************************************)
(* What sums over finite sets are, from the recursion of the fold they are *)
(* defined by: they do not depend on the order of their elements.          *)
(***************************************************************************)
EXTENDS Sums, FiniteSetTheorems, WellFoundedInduction, TLAPS

-----------------------------------------------------------------------------
(* Induction over the subsets of a finite set.  The induction hypothesis   *)
(* is a set of sets.                                                       *)

LEMMA StrongSetInduction ==
  ASSUME NEW S, IsFiniteSet(S), NEW C,
         \A T \in SUBSET S : (\A U \in SUBSET T : U # T => U \in C) => T \in C
  PROVE  \A T \in SUBSET S : T \in C
<1> DEFINE Bad == {T \in SUBSET S : T \notin C}
<1> SUFFICES ASSUME Bad # {} PROVE FALSE
  OBVIOUS
<1>1. SUBSET S = FiniteSubsetsOf(S)
  BY FS_FiniteSubsetsOfFinite
<1>2. PICK T \in Bad : \A U \in Bad : <<U, T>> \notin StrictSubsetOrdering(S)
  <2>1. IsWellFoundedOn(StrictSubsetOrdering(S), FiniteSubsetsOf(S))
    BY FS_StrictSubsetOrderingWellFounded
  <2>2. Bad \subseteq FiniteSubsetsOf(S)
    BY <1>1
  <2> HIDE DEF Bad
  <2>3. \E T \in Bad : \A U \in Bad : ~ (<<U, T>> \in StrictSubsetOrdering(S))
    BY <2>1, <2>2, WFMin
  <2> QED BY <2>3
<1>3. \A U \in SUBSET T : U # T => U \in C
  <2> SUFFICES ASSUME NEW U \in SUBSET T, U # T, U \notin C PROVE FALSE
    OBVIOUS
  <2>1. <<U, T>> \in StrictSubsetOrdering(S)
    BY DEF StrictSubsetOrdering
  <2> QED BY <1>2, <2>1
<1> QED BY <1>3

-----------------------------------------------------------------------------
(* The recursion of the fold.                                              *)

First(s) == CHOOSE x \in s : TRUE

LEMMA FirstIn == \A s : s # {} => First(s) \in s
BY DEF First

\* f holds the sums of all subsets of S.
SumsOf(w, S, f) ==
    f = [s \in SUBSET S |-> IF s = {} THEN 0 ELSE w[First(s)] + f[s \ {First(s)}]]

LEMMA SumIsChosen == \A w, S : SumOver(w, S) = (CHOOSE f : SumsOf(w, S, f))[S]
BY DEF SumOver, FoldFunctionOnSet, MapThenFoldSet, SumsOf, First

LEMMA SumsAt ==
  ASSUME NEW w, NEW S, NEW f, SumsOf(w, S, f)
  PROVE  /\ f[{}] = 0
         /\ \A s \in SUBSET S : s # {} => f[s] = w[First(s)] + f[s \ {First(s)}]
<1>1. \A s \in SUBSET S : f[s] = IF s = {} THEN 0 ELSE w[First(s)] + f[s \ {First(s)}]
  BY DEF SumsOf
<1> QED BY <1>1

\* Weights that agree have the same sums, wherever they are taken from.
LEMMA SumsAgree ==
  ASSUME NEW S, IsFiniteSet(S), NEW A, NEW B, S \subseteq A, S \subseteq B,
         NEW v, NEW w, \A x \in S : v[x] = w[x],
         NEW f, NEW g, SumsOf(v, A, f), SumsOf(w, B, g)
  PROVE  \A T \in SUBSET S : f[T] = g[T]
<1> DEFINE C == {T \in SUBSET S : f[T] = g[T]}
<1>1. ASSUME NEW T \in SUBSET S, \A U \in SUBSET T : U # T => U \in C
      PROVE  T \in C
  <2>1. CASE T = {}
    BY <2>1, SumsAt
  <2>2. CASE T # {}
    <3>1. First(T) \in T /\ T \ {First(T)} \in C
      BY <1>1, <2>2, FirstIn
    <3>2. f[T] = v[First(T)] + f[T \ {First(T)}]
      <4>1. T \in SUBSET A
        OBVIOUS
      <4> QED BY <2>2, <4>1, SumsAt
    <3>3. g[T] = w[First(T)] + g[T \ {First(T)}]
      <4>1. T \in SUBSET B
        OBVIOUS
      <4> QED BY <2>2, <4>1, SumsAt
    <3> QED BY <3>1, <3>2, <3>3
  <2> QED BY <2>1, <2>2
<1> HIDE DEF C
<1>2. \A T \in SUBSET S : T \in C
  BY <1>1, StrongSetInduction
<1> QED BY <1>2 DEF C

LEMMA SumsExist ==
  ASSUME NEW S, IsFiniteSet(S), NEW w
  PROVE  \A T \in SUBSET S : \E f : SumsOf(w, T, f)
<1> DEFINE C == {T \in SUBSET S : \E f : SumsOf(w, T, f)}
<1>1. ASSUME NEW T \in SUBSET S, \A U \in SUBSET T : U # T => U \in C
      PROVE  T \in C
  <2> DEFINE F(U) == CHOOSE f : SumsOf(w, U, f)
  <2>1. \A U \in SUBSET T : U # T => SumsOf(w, U, F(U))
    BY <1>1
  <2> DEFINE g == [s \in SUBSET T |-> IF s = {} THEN 0
                    ELSE w[First(s)] + F(s \ {First(s)})[s \ {First(s)}]]
  <2>2. ASSUME NEW s \in SUBSET T, s # {}
        PROVE  g[s \ {First(s)}] = F(s \ {First(s)})[s \ {First(s)}]
    <3> DEFINE u == s \ {First(s)}
    <3>1. First(s) \in s /\ u \in SUBSET T /\ u # T
      BY <2>2, FirstIn
    <3>2. SumsOf(w, u, F(u))
      BY <2>1, <3>1
    <3>3. CASE u = {}
      BY <3>1, <3>2, <3>3, SumsAt
    <3>4. CASE u # {}
      <4> DEFINE t == u \ {First(u)}
      <4>1. First(u) \in u /\ t \in SUBSET u /\ t \in SUBSET T /\ t # T
        BY <3>1, <3>4, FirstIn
      <4>2. g[u] = w[First(u)] + F(t)[t]
        BY <3>1, <3>4
      <4>3. F(u)[u] = w[First(u)] + F(u)[t]
        <5> HIDE DEF F, u
        <5>1. u \in SUBSET u
          OBVIOUS
        <5> QED BY <3>2, <3>4, <5>1, SumsAt
      <4>4. IsFiniteSet(t) /\ SumsOf(w, t, F(t))
        BY <2>1, <4>1, FS_Subset
      <4> HIDE DEF F, t, u, g
      <4>5. F(t)[t] = F(u)[t]
        BY <3>2, <4>1, <4>4, SumsAgree
      <4> QED BY <4>2, <4>3, <4>5 DEF u
    <3> QED BY <3>3, <3>4
  <2>3. SumsOf(w, T, g)
    <3>1. ASSUME NEW s \in SUBSET T
          PROVE  g[s] = IF s = {} THEN 0 ELSE w[First(s)] + g[s \ {First(s)}]
      <4>1. CASE s = {}
        BY <4>1
      <4>2. CASE s # {}
        <5>1. g[s] = w[First(s)] + F(s \ {First(s)})[s \ {First(s)}]
          BY <4>2
        <5>2. g[s \ {First(s)}] = F(s \ {First(s)})[s \ {First(s)}]
          BY <2>2, <4>2
        <5> HIDE DEF g, F
        <5> QED BY <4>2, <5>1, <5>2
      <4> QED BY <4>1, <4>2
    <3>2. g = [s \in SUBSET T |-> g[s]]
      OBVIOUS
    <3> HIDE DEF g
    <3> QED BY <3>1, <3>2 DEF SumsOf
  <2> QED BY <2>3
<1> HIDE DEF C
<1>2. \A T \in SUBSET S : T \in C
  BY <1>1, StrongSetInduction
<1> QED BY <1>2 DEF C

\* One function gives the sums of all subsets of a finite set.
LEMMA SumOfSubsets ==
  ASSUME NEW S, IsFiniteSet(S), NEW w
  PROVE  \E f : SumsOf(w, S, f) /\ \A T \in SUBSET S : SumOver(w, T) = f[T]
<1>1. PICK f : SumsOf(w, S, f)
  BY SumsExist
<1>2. ASSUME NEW T \in SUBSET S PROVE SumOver(w, T) = f[T]
  <2> DEFINE g == CHOOSE g : SumsOf(w, T, g)
  <2>1. SumsOf(w, T, g)
    BY SumsExist
  <2>2. SumOver(w, T) = g[T]
    BY SumIsChosen
  <2>3. IsFiniteSet(T)
    BY FS_Subset
  <2> HIDE DEF g
  <2>4. T \subseteq S /\ T \subseteq T /\ SumsOf(w, S, f) /\ \A x \in T : w[x] = w[x]
    BY <1>1
  <2>5. \A U \in SUBSET T : f[U] = g[U]
    BY <2>1, <2>3, <2>4, SumsAgree
  <2> QED BY <2>2, <2>5
<1> QED BY <1>1, <1>2

-----------------------------------------------------------------------------
(* Facts to use.                                                           *)

\* The sum over no elements.
LEMMA SumEmpty == \A w : SumOver(w, {}) = 0
<1>1. IsFiniteSet({})
  BY FS_EmptySet
<1>2. ASSUME NEW w PROVE SumOver(w, {}) = 0
  <2>1. PICK f : SumsOf(w, {}, f) /\ \A T \in SUBSET {} : SumOver(w, T) = f[T]
    BY <1>1, SumOfSubsets
  <2> QED BY <2>1, SumsAt
<1> QED BY <1>2

\* Only the weights of its elements matter to a sum.
LEMMA SumSame ==
  ASSUME NEW S, IsFiniteSet(S), NEW v, NEW w, \A x \in S : v[x] = w[x]
  PROVE  SumOver(v, S) = SumOver(w, S)
<1>1. PICK f : SumsOf(v, S, f) /\ \A T \in SUBSET S : SumOver(v, T) = f[T]
  BY SumOfSubsets
<1>2. PICK g : SumsOf(w, S, g) /\ \A T \in SUBSET S : SumOver(w, T) = g[T]
  BY SumOfSubsets
<1>3. \A T \in SUBSET S : f[T] = g[T]
  <2>1. S \subseteq S /\ SumsOf(v, S, f) /\ SumsOf(w, S, g)
    BY <1>1, <1>2
  <2> QED BY <2>1, SumsAgree
<1> QED BY <1>1, <1>2, <1>3

LEMMA SumFirst ==
  ASSUME NEW S, IsFiniteSet(S), NEW w, S # {}
  PROVE  SumOver(w, S) = w[First(S)] + SumOver(w, S \ {First(S)})
<1>1. PICK f : SumsOf(w, S, f) /\ \A T \in SUBSET S : SumOver(w, T) = f[T]
  BY SumOfSubsets
<1>2. f[S] = w[First(S)] + f[S \ {First(S)}]
  BY <1>1, SumsAt
<1> QED BY <1>1, <1>2

\* A sum of natural numbers is one.
LEMMA SumNat ==
  ASSUME NEW S, IsFiniteSet(S), NEW w, \A x \in S : w[x] \in Nat
  PROVE  SumOver(w, S) \in Nat
<1> DEFINE C == {T \in SUBSET S : SumOver(w, T) \in Nat}
<1>1. ASSUME NEW T \in SUBSET S, \A U \in SUBSET T : U # T => U \in C
      PROVE  T \in C
  <2>1. CASE T = {}
    BY <2>1, SumEmpty
  <2>2. CASE T # {}
    <3>1. First(T) \in T /\ T \ {First(T)} \in C /\ IsFiniteSet(T)
      BY <1>1, <2>2, FirstIn, FS_Subset
    <3>2. SumOver(w, T) = w[First(T)] + SumOver(w, T \ {First(T)})
      BY <2>2, <3>1, SumFirst
    <3> QED BY <3>1, <3>2
  <2> QED BY <2>1, <2>2
<1> HIDE DEF C
<1>2. \A T \in SUBSET S : T \in C
  BY <1>1, StrongSetInduction
<1> QED BY <1>2 DEF C

\* Any element may be taken out first.
LEMMA SumRemove ==
  ASSUME NEW S, IsFiniteSet(S), NEW w, \A x \in S : w[x] \in Nat, NEW e \in S
  PROVE  SumOver(w, S) = w[e] + SumOver(w, S \ {e})
<1> DEFINE C == {T \in SUBSET S : \A x \in T : SumOver(w, T) = w[x] + SumOver(w, T \ {x})}
<1>1. ASSUME NEW T \in SUBSET S, \A U \in SUBSET T : U # T => U \in C
      PROVE  T \in C
  <2> SUFFICES ASSUME NEW x \in T PROVE SumOver(w, T) = w[x] + SumOver(w, T \ {x})
    OBVIOUS
  <2> DEFINE c == First(T)
  <2>1. c \in T /\ IsFiniteSet(T)
    BY FirstIn, FS_Subset
  <2>2. SumOver(w, T) = w[c] + SumOver(w, T \ {c})
    BY <2>1, SumFirst
  <2> HIDE DEF c
  <2>3. CASE x = c
    BY <2>2, <2>3
  <2>4. CASE x # c
    <3>1. T \ {c} \in C /\ T \ {x} \in C
      BY <1>1, <2>1
    <3>2. SumOver(w, T \ {c}) = w[x] + SumOver(w, (T \ {c}) \ {x})
      BY <2>4, <3>1
    <3>3. SumOver(w, T \ {x}) = w[c] + SumOver(w, (T \ {x}) \ {c})
      BY <2>1, <2>4, <3>1
    <3>4. (T \ {c}) \ {x} = (T \ {x}) \ {c}
      OBVIOUS
    <3>5. IsFiniteSet((T \ {c}) \ {x}) /\ (T \ {c}) \ {x} \subseteq S
      BY <2>1, FS_Subset
    <3>6. SumOver(w, (T \ {c}) \ {x}) \in Nat
      BY <3>5, SumNat
    <3>7. w[x] \in Nat /\ w[c] \in Nat
      BY <2>1
    <3> QED BY <2>2, <3>2, <3>3, <3>4, <3>6, <3>7
  <2> QED BY <2>3, <2>4
<1> HIDE DEF C
<1>2. \A T \in SUBSET S : T \in C
  BY <1>1, StrongSetInduction
<1> QED BY <1>2 DEF C

\* A new element adds its weight.
LEMMA SumAdd ==
  ASSUME NEW S, IsFiniteSet(S), NEW e, e \notin S,
         NEW w, \A x \in S \cup {e} : w[x] \in Nat
  PROVE  SumOver(w, S \cup {e}) = w[e] + SumOver(w, S)
<1>1. IsFiniteSet(S \cup {e}) /\ (S \cup {e}) \ {e} = S
  BY FS_AddElement
<1> QED BY <1>1, SumRemove

\* The sum over one element.
LEMMA SumSingle ==
  ASSUME NEW e, NEW w, w[e] \in Nat
  PROVE  SumOver(w, {e}) = w[e]
<1>1. IsFiniteSet({}) /\ {} \cup {e} = {e}
  BY FS_EmptySet
<1>2. SumOver(w, {} \cup {e}) = w[e] + SumOver(w, {})
  BY <1>1, SumAdd
<1> QED BY <1>1, <1>2, SumEmpty

\* Fewer elements of less weight have a smaller sum.
LEMMA SumGrows ==
  ASSUME NEW S, IsFiniteSet(S), NEW R \in SUBSET S,
         NEW v, \A x \in R : v[x] \in Nat,
         NEW w, \A x \in S : w[x] \in Nat, \A x \in R : v[x] <= w[x]
  PROVE  SumOver(v, R) <= SumOver(w, S)
<1> DEFINE C == {T \in SUBSET S : SumOver(v, T \cap R) <= SumOver(w, T)}
<1>1. ASSUME NEW T \in SUBSET S, \A U \in SUBSET T : U # T => U \in C
      PROVE  T \in C
  <2>1. CASE T = {}
    <3>1. T \cap R = {}
      BY <2>1
    <3> QED BY <2>1, <3>1, SumEmpty
  <2>2. CASE T # {}
    <3>1. PICK e \in T : TRUE
      BY <2>2
    <3>2. T \ {e} \in C /\ IsFiniteSet(T) /\ IsFiniteSet(T \cap R) /\ IsFiniteSet(T \ {e})
      BY <1>1, FS_Subset
    <3>3. SumOver(w, T) = w[e] + SumOver(w, T \ {e})
      BY <3>2, SumRemove
    <3>4. SumOver(w, T \ {e}) \in Nat
      BY <3>2, SumNat
    <3>5. CASE e \in R
      <4>1. SumOver(v, T \cap R) = v[e] + SumOver(v, (T \cap R) \ {e})
        BY <3>2, <3>5, SumRemove
      <4>2. (T \cap R) \ {e} = (T \ {e}) \cap R
        OBVIOUS
      <4>3. SumOver(v, (T \cap R) \ {e}) \in Nat
        <5>1. IsFiniteSet((T \cap R) \ {e})
          BY <3>2, FS_Subset
        <5> QED BY <5>1, SumNat
      <4>4. v[e] \in Nat /\ w[e] \in Nat /\ v[e] <= w[e]
        BY <3>5
      <4>5. SumOver(v, (T \ {e}) \cap R) <= SumOver(w, T \ {e})
        BY <3>2
      <4>6. SumOver(v, T \cap R) <= SumOver(w, T)
        <5> DEFINE a == SumOver(v, (T \cap R) \ {e})
                   b == SumOver(w, T \ {e})
        <5>1. a \in Nat /\ b \in Nat /\ a <= b
          BY <3>4, <4>2, <4>3, <4>5
        <5> HIDE DEF a, b
        <5>2. v[e] + a <= w[e] + b
          BY <4>4, <5>1
        <5> QED BY <3>3, <4>1, <5>2 DEF a, b
      <4> QED BY <4>6
    <3>6. CASE e \notin R
      <4>1. T \cap R = (T \ {e}) \cap R
        BY <3>6
      <4>2. SumOver(v, T \cap R) \in Nat
        BY <3>2, SumNat
      <4>3. w[e] \in Nat
        OBVIOUS
      <4> QED BY <3>2, <3>3, <3>4, <4>1, <4>2, <4>3
    <3> QED BY <3>5, <3>6
  <2> QED BY <2>1, <2>2
<1> HIDE DEF C
<1>2. \A T \in SUBSET S : T \in C
  BY <1>1, StrongSetInduction
<1>3. SumOver(v, S \cap R) <= SumOver(w, S)
  BY <1>2 DEF C
<1>4. S \cap R = R
  OBVIOUS
<1> QED BY <1>3, <1>4
====
