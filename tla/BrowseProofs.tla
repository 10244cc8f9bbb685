---- MODULE BrowseProofs ----
(***************************************************************************)
(* Theorems about the browse pages, for any catalog, any categories,       *)
(* brands, words, brackets and sizes of pages, and any menus.              *)
(***************************************************************************)
EXTENDS BrowsePages, ListTheorems

-----------------------------------------------------------------------------
(* The header's menus.                                                     *)

\* Together with their types the two facts are inductive: an opening cancels the
\* scheduled close, and only the pointer's leaving schedules one.
NavInv == NavTypeOK /\ NeverUnderPointer /\ NoneLeftOpen

LEMMA NavStep == NavInv /\ [NavNext]_navVars => NavInv'
<1> SUFFICES ASSUME NavInv, [NavNext]_navVars PROVE NavInv'
  OBVIOUS
<1> USE NavMenuConstants DEF NavInv, NavTypeOK, NeverUnderPointer, NoneLeftOpen, KindOrNone
<1>1. ASSUME NEW k \in Kinds, PointerEnters(k) PROVE NavInv'
  BY <1>1 DEF PointerEnters, OpenMenu, MakeWay
<1>2. ASSUME NEW k \in Kinds, FocusEnters(k) PROVE NavInv'
  BY <1>2 DEF FocusEnters, OpenMenu
<1>3. ASSUME NEW k \in Kinds, ToggleMenu(k) PROVE NavInv'
  BY <1>3 DEF ToggleMenu, Close, MakeWay
<1>4. ASSUME NEW k \in Kinds, FollowLink(k) PROVE NavInv'
  BY <1>4 DEF FollowLink, Close
<1>5. CASE PointerLeaves
  BY <1>5 DEF PointerLeaves, ScheduleClose
<1>6. CASE FocusLeaves
  BY <1>6 DEF FocusLeaves
<1>7. CASE Escape
  BY <1>7 DEF Escape, Close
<1>8. CASE TimerFires
  BY <1>8 DEF TimerFires, Close
<1>9. CASE UNCHANGED navVars
  BY <1>9 DEF navVars
<1> QED BY <1>1, <1>2, <1>3, <1>4, <1>5, <1>6, <1>7, <1>8, <1>9 DEF NavNext

LEMMA NavHolds == Spec => []NavInv
<1>1. Init => NavInv
  BY DEF Init, NavInit, NavInv, NavTypeOK, KindOrNone, NeverUnderPointer, NoneLeftOpen
<1>2. [Next]_vars => [NavNext]_navVars
  BY DEF Next, InMenus, MenuLink, NavNext, vars
<1> QED BY <1>1, <1>2, NavStep, PTL DEF Spec

\* No close is scheduled while the pointer is on a menu (Header.tsx:42-56).
THEOREM NoMenuSnapsShut == Spec => []NeverUnderPointer
<1>1. NavInv => NeverUnderPointer
  BY DEF NavInv
<1> QED BY <1>1, NavHolds, PTL

\* A menu that is open is in use or about to close (Header.tsx:111-129).
THEOREM NoMenuIsLeftOpen == Spec => []NoneLeftOpen
<1>1. NavInv => NoneLeftOpen
  BY DEF NavInv
<1> QED BY <1>1, NavHolds, PTL

-----------------------------------------------------------------------------
(* The pager.                                                              *)

Positive == Nat \ {0}

\* p is one of the pages that n things fill, d to a page, if and only if it is the
\* first or something precedes it that did not fit before it.
LEMMA PageCount ==
  ASSUME NEW n \in Nat, NEW d \in Positive
  PROVE  /\ TotalPages(n, d) \in Positive
         /\ \A p \in Positive : p <= TotalPages(n, d) <=> p = 1 \/ (p - 1) * d < n
<1>1. CASE n = 0
  <2>1. ASSUME NEW p \in Positive PROVE ~((p - 1) * d < n)
    BY <1>1 DEF Positive
  <2> QED BY <1>1, <2>1 DEF TotalPages, Positive
<1>2. CASE n # 0
  <2> DEFINE t == (n + d - 1) \div d
  <2>1. t \in Nat /\ t * d <= n + d - 1 /\ n + d - 1 < t * d + d
    BY DEF Positive
  <2> HIDE DEF t
  <2>2. t # 0
    BY <1>2, <2>1 DEF Positive
  <2>3. ASSUME NEW p \in Positive, p <= t PROVE (p - 1) * d < n
    <3>1. (p - 1) * d <= (t - 1) * d
      BY <2>1, <2>2, <2>3 DEF Positive
    <3>2. (t - 1) * d = t * d - d
      BY <2>1 DEF Positive
    <3> QED BY <2>1, <3>1, <3>2 DEF Positive
  <2>4. ASSUME NEW p \in Positive, ~(p <= t) PROVE ~((p - 1) * d < n) /\ p # 1
    <3>1. t * d <= (p - 1) * d
      BY <2>1, <2>4 DEF Positive
    <3> QED BY <2>1, <2>2, <2>4, <3>1 DEF Positive
  <2>5. TotalPages(n, d) = t
    BY <1>2 DEF TotalPages, t
  <2> QED BY <2>1, <2>2, <2>3, <2>4, <2>5 DEF Positive
<1> QED BY <1>1, <1>2

LEMMA MorePages ==
  ASSUME NEW m \in Nat, NEW n \in Nat, m <= n, NEW d \in Positive
  PROVE  TotalPages(m, d) <= TotalPages(n, d)
<1> DEFINE p == TotalPages(m, d)
<1>1. p \in Positive /\ (p = 1 \/ (p - 1) * d < m)
  BY PageCount DEF Positive
<1>2. p = 1 \/ (p - 1) * d < n
  BY <1>1 DEF Positive
<1> HIDE DEF p
<1>3. p <= TotalPages(n, d)
  BY <1>1, <1>2, PageCount
<1> QED BY <1>3 DEF p

\* The first k of the ascending page numbers ns, spaced as the pager spaces them.
Tells(l, ns, k, total) ==
    /\ l \in Seq(Int) /\ Len(l) > 0
    /\ l[1] = ns[1] /\ l[Len(l)] = ns[k]
    /\ \A i \in 1..Len(l) : l[i] \in 1..total \cup {Gap}
    /\ \A j \in 1..k : \E i \in 1..Len(l) : l[i] = ns[j]
    /\ \A i \in 1..Len(l) : l[i] = Gap => i > 1 /\ i < Len(l) /\ l[i + 1] - l[i - 1] > 1
    /\ \A i \in 2..Len(l) : l[i - 1] # Gap /\ l[i] # Gap => l[i] = l[i - 1] + 1

LEMMA TellsNext ==
  ASSUME NEW total \in Positive, NEW ns \in Seq(1..total), NEW k \in Positive, k < Len(ns),
         ns[k] < ns[k + 1], NEW l, Tells(l, ns, k, total)
  PROVE  Tells(l \o (IF ns[k + 1] - ns[k] > 1 THEN <<Gap, ns[k + 1]>> ELSE <<ns[k + 1]>>), ns, k + 1, total)
<1> DEFINE n == Len(l)
           x == ns[k + 1]
<1>0. Len(ns) \in Nat /\ k \in 1..Len(ns) /\ k + 1 \in 1..Len(ns) /\ 1..total \subseteq Nat
  BY LenProperties DEF Positive
<1>1. x \in 1..total /\ x \in Int /\ ns[k] \in 1..total /\ ns[k] \in Int /\ Gap \in Int /\ x # Gap /\ ns[k] # Gap
  BY <1>0, LenProperties DEF Gap
<1>2. n \in Nat /\ n > 0 /\ l \in Seq(Int) /\ \A i \in 1..n : l[i] \in Int
  BY LenProperties DEF Tells
<1>3. \A j \in 1..(k + 1) : j \in 1..k \/ j = k + 1
  BY DEF Positive
<1>l. /\ l[1] = ns[1] /\ l[n] = ns[k]
      /\ \A i \in 1..n : l[i] \in 1..total \cup {Gap}
      /\ \A j \in 1..k : \E i \in 1..n : l[i] = ns[j]
      /\ \A i \in 1..n : l[i] = Gap => i > 1 /\ i < n /\ l[i + 1] - l[i - 1] > 1
      /\ \A i \in 2..n : l[i - 1] # Gap /\ l[i] # Gap => l[i] = l[i - 1] + 1
  BY DEF Tells
<1>4. CASE x - ns[k] > 1
  <2> DEFINE m == l \o <<Gap, x>>
  <2>1. <<Gap, x>> \in Seq(Int) /\ Len(<<Gap, x>>) = 2
    BY <1>1
  <2>2. m \in Seq(Int) /\ Len(m) = n + 2
        /\ \A i \in 1..(n + 2) : m[i] = IF i <= n THEN l[i] ELSE <<Gap, x>>[i - n]
    BY <1>2, <2>1, ConcatProperties
  <2>3. m[n + 1] = Gap /\ m[n + 2] = x /\ \A i \in 1..n : m[i] = l[i]
    BY <1>2, <2>2
  <2> HIDE DEF m, x, n
  <2>4. \A i \in 1..(n + 2) : i \in 1..n \/ i = n + 1 \/ i = n + 2
    BY <1>2
  <2>5. \A i \in 1..Len(m) : m[i] \in 1..total \cup {Gap}
    BY <1>1, <1>l, <2>2, <2>3, <2>4
  <2>6. ASSUME NEW j \in 1..(k + 1) PROVE \E i \in 1..Len(m) : m[i] = ns[j]
    <3>1. CASE j \in 1..k
      <4>1. PICK i \in 1..n : l[i] = ns[j]
        BY <1>l, <3>1
      <4> QED BY <1>2, <2>2, <2>3, <4>1
    <3>2. CASE j = k + 1
      <4>1. n + 2 \in 1..Len(m) /\ m[n + 2] = ns[j]
        BY <1>2, <2>2, <2>3, <3>2 DEF x
      <4> QED BY <4>1
    <3> QED BY <1>3, <3>1, <3>2
  <2>7. ASSUME NEW i \in 1..Len(m), m[i] = Gap
        PROVE  i > 1 /\ i < Len(m) /\ m[i + 1] - m[i - 1] > 1
    <3>1. CASE i \in 1..n
      <4>1. i > 1 /\ i < n /\ l[i + 1] - l[i - 1] > 1
        BY <1>l, <2>3, <2>7, <3>1
      <4>2. m[i + 1] = l[i + 1] /\ m[i - 1] = l[i - 1]
        BY <1>2, <2>3, <3>1, <4>1
      <4> QED BY <1>2, <2>2, <3>1, <4>1, <4>2
    <3>2. CASE i = n + 1
      <4>1. i + 1 = n + 2 /\ i - 1 = n /\ n \in 1..n
        BY <1>2, <3>2
      <4>2. m[i + 1] = x /\ m[i - 1] = ns[k]
        BY <1>l, <2>3, <4>1
      <4> QED BY <1>2, <1>4, <2>2, <3>2, <4>2
    <3>3. CASE i = n + 2
      BY <1>1, <2>3, <2>7, <3>3
    <3> QED BY <2>2, <2>4, <3>1, <3>2, <3>3
  <2>8. ASSUME NEW i \in 2..Len(m), m[i - 1] # Gap, m[i] # Gap
        PROVE  m[i] = m[i - 1] + 1
    <3>1. i \in 2..n
      <4>1. i # n + 1 /\ i - 1 # n + 1
        BY <2>3, <2>8
      <4> QED BY <1>2, <2>2, <4>1
    <3>2. m[i] = l[i] /\ m[i - 1] = l[i - 1]
      BY <1>2, <2>3, <3>1
    <3> QED BY <1>l, <2>8, <3>1, <3>2
  <2>9. m[1] = ns[1] /\ m[Len(m)] = ns[k + 1] /\ Len(m) > 0
    BY <1>2, <1>l, <2>2, <2>3 DEF x
  <2>10. Tells(m, ns, k + 1, total)
    BY <2>2, <2>5, <2>6, <2>7, <2>8, <2>9 DEF Tells
  <2> QED BY <1>4, <2>10 DEF m, x
<1>5. CASE ~(x - ns[k] > 1)
  <2> DEFINE m == l \o <<x>>
  <2>0. x = ns[k] + 1
    BY <1>1, <1>5
  <2>1. <<x>> \in Seq(Int) /\ Len(<<x>>) = 1
    BY <1>1
  <2>2. m \in Seq(Int) /\ Len(m) = n + 1
        /\ \A i \in 1..(n + 1) : m[i] = IF i <= n THEN l[i] ELSE <<x>>[i - n]
    BY <1>2, <2>1, ConcatProperties
  <2>3. m[n + 1] = x /\ \A i \in 1..n : m[i] = l[i]
    BY <1>2, <2>2
  <2> HIDE DEF m, x, n
  <2>4. \A i \in 1..(n + 1) : i \in 1..n \/ i = n + 1
    BY <1>2
  <2>5. \A i \in 1..Len(m) : m[i] \in 1..total \cup {Gap}
    BY <1>1, <1>l, <2>2, <2>3, <2>4
  <2>6. ASSUME NEW j \in 1..(k + 1) PROVE \E i \in 1..Len(m) : m[i] = ns[j]
    <3>1. CASE j \in 1..k
      <4>1. PICK i \in 1..n : l[i] = ns[j]
        BY <1>l, <3>1
      <4> QED BY <1>2, <2>2, <2>3, <4>1
    <3>2. CASE j = k + 1
      <4>1. n + 1 \in 1..Len(m) /\ m[n + 1] = ns[j]
        BY <1>2, <2>2, <2>3, <3>2 DEF x
      <4> QED BY <4>1
    <3> QED BY <1>3, <3>1, <3>2
  <2>7. ASSUME NEW i \in 1..Len(m), m[i] = Gap
        PROVE  i > 1 /\ i < Len(m) /\ m[i + 1] - m[i - 1] > 1
    <3>1. i \in 1..n
      BY <1>1, <2>2, <2>3, <2>4, <2>7
    <3>2. i > 1 /\ i < n /\ l[i + 1] - l[i - 1] > 1
      BY <1>l, <2>3, <2>7, <3>1
    <3>3. m[i + 1] = l[i + 1] /\ m[i - 1] = l[i - 1]
      BY <1>2, <2>3, <3>1, <3>2
    <3> QED BY <1>2, <2>2, <3>1, <3>2, <3>3
  <2>8. ASSUME NEW i \in 2..Len(m), m[i - 1] # Gap, m[i] # Gap
        PROVE  m[i] = m[i - 1] + 1
    <3>1. CASE i \in 2..n
      <4>1. m[i] = l[i] /\ m[i - 1] = l[i - 1]
        BY <1>2, <2>3, <3>1
      <4> QED BY <1>l, <2>8, <3>1, <4>1
    <3>2. CASE i \notin 2..n
      <4>1. i = n + 1 /\ i - 1 = n /\ n \in 1..n
        BY <1>2, <2>2, <3>2
      <4> QED BY <1>l, <2>0, <2>3, <4>1
    <3> QED BY <3>1, <3>2
  <2>9. m[1] = ns[1] /\ m[Len(m)] = ns[k + 1] /\ Len(m) > 0
    BY <1>2, <1>l, <2>2, <2>3 DEF x
  <2>10. Tells(m, ns, k + 1, total)
    BY <2>2, <2>5, <2>6, <2>7, <2>8, <2>9 DEF Tells
  <2> QED BY <1>5, <2>10 DEF m, x
<1> QED BY <1>4, <1>5

\* What the numbers of the pager are, for every page of every listing.
LEMMA WindowTells ==
  ASSUME NEW page \in Positive, NEW total \in Positive
  PROVE  LET w == Window(page, total) IN
         /\ w \in Seq(Int) /\ Len(w) > 0
         /\ w[1] = 1 /\ w[Len(w)] = total
         /\ \A i \in 1..Len(w) : w[i] \in 1..total \cup {Gap}
         /\ (page - 1 .. page + 1) \cap 1..total \subseteq ToSet(w)
         /\ \A i \in 1..Len(w) : w[i] = Gap => i > 1 /\ i < Len(w) /\ w[i + 1] - w[i - 1] > 1
         /\ \A i \in 2..Len(w) : w[i - 1] # Gap /\ w[i] # Gap => w[i] = w[i - 1] + 1
<1> DEFINE N == Numbers(page, total)
           ns == Sorted(N, <)
           n == Len(ns)
           ss == [i \in 1..n |-> IF i > 1 /\ ns[i] - ns[i - 1] > 1 THEN <<Gap, ns[i]>> ELSE <<ns[i]>>]
           w == Window(page, total)
<1>1. N \subseteq 1..total /\ IsFiniteSet(N) /\ N \subseteq Int
  <2>1. N \subseteq 1..total
    BY DEF Numbers, Positive
  <2>2. IsFiniteSet(1..total)
    BY UpTo DEF Positive
  <2> HIDE DEF N
  <2>3. IsFiniteSet(N)
    BY <2>1, <2>2, FS_Subset
  <2> QED BY <2>1, <2>3 DEF Positive
<1>a. 1 \in N /\ total \in N /\ (page - 1 .. page + 1) \cap 1..total \subseteq N
  BY DEF Numbers
<1> HIDE DEF N
<1>2. ns \in SetToSeqs(N) /\ \A i, j \in 1..n : i < j => ns[i] < ns[j]
  BY <1>1, SortedNumbers
<1>3. w = FlattenSeq(ss)
  BY DEF Window, Spaced, N
<1> HIDE DEF ns, w
<1>4. n \in Nat /\ ns \in Seq(1..total) /\ ToSet(ns) = N /\ \A i \in 1..n : ns[i] \in N
  <2>1. ns \in Seq(N) /\ ToSet(ns) = N
    BY <1>1, <1>2, ListOfSet
  <2>2. n \in Nat /\ \A i \in 1..n : ns[i] \in N
    BY <2>1, LenProperties
  <2>3. ns \in [1..n -> 1..total] /\ ns \in Seq(1..total)
    <3>1. ns \in [1..n -> N]
      BY <2>1, LenProperties
    <3>2. ns \in [1..n -> 1..total]
      BY <1>1, <3>1
    <3>3. ns \in UNION {[1..m -> 1..total] : m \in Nat}
      BY <2>2, <3>2
    <3> QED BY <3>2, <3>3, SeqDef
  <2> QED BY <2>1, <2>2, <2>3
<1>5. \A x \in N : \E i \in 1..n : ns[i] = x
  BY <1>4, LenProperties DEF ToSet
<1>6. n # 0 /\ ns[1] = 1 /\ ns[n] = total
  <2>1. PICK a \in 1..n : ns[a] = 1
    BY <1>a, <1>5
  <2>2. PICK b \in 1..n : ns[b] = total
    BY <1>a, <1>5
  <2> HIDE DEF n
  <2>i. \A i \in 1..n : ns[i] \in 1..total
    BY <1>1, <1>4
  <2>3. a = 1
    <3>0. 1 \in 1..n /\ a \in 1..n
      BY <1>4
    <3>1. 1 \in 1..n /\ ns[1] >= 1 /\ (1 < a => ns[1] < ns[a])
      <4>1. 1 < a => ns[1] < ns[a]
        BY <1>2, <3>0
      <4>2. ns[1] \in 1..total
        BY <2>i, <3>0
      <4> QED BY <3>0, <4>1, <4>2
    <3>2. ns[1] \in Int
      BY <1>1, <1>4, <3>1
    <3> QED BY <1>4, <2>1, <3>1, <3>2
  <2>4. b = n
    <3>1. n \in 1..n /\ ns[n] <= total /\ (b < n => ns[b] < ns[n])
      <4>0. n \in 1..n
        BY <1>4
      <4>1. b < n => ns[b] < ns[n]
        BY <1>2, <4>0
      <4>2. ns[n] \in 1..total
        BY <2>i, <4>0
      <4> QED BY <4>0, <4>1, <4>2
    <3>2. ns[n] \in Int
      BY <1>1, <1>4, <3>1
    <3> QED BY <1>4, <2>2, <3>1, <3>2 DEF Positive
  <2> QED BY <1>4, <2>1, <2>2, <2>3, <2>4
<1>7. \A i \in 1..n : ns[i] \in Int /\ ns[i] \in 1..total
  BY <1>1, <1>4
<1>8. ss \in [1..n -> Seq(Int)]
  BY <1>7 DEF Gap
<1>9. /\ ss[1] = <<ns[1]>>
      /\ \A k \in Positive : k < n =>
           ss[k + 1] = IF ns[k + 1] - ns[k] > 1 THEN <<Gap, ns[k + 1]>> ELSE <<ns[k + 1]>>
  BY <1>4, <1>6 DEF Positive
<1> HIDE DEF ss
<1>10. ss \in Seq(Seq(Int)) /\ Len(ss) = n /\ ss # <<>>
  <2>1. ss \in Seq(Seq(Int)) /\ DOMAIN ss = 1..n
    BY <1>4, <1>8
  <2>2. Len(ss) = n
    BY <1>4, <2>1, LenProperties
  <2> QED BY <1>6, <2>1, <2>2, EmptySeq
<1> DEFINE C == [k \in Nat |-> {l \in Seq(Int) : Tells(l, ns, k, total)}]
<1>11. ss[1] \in C[1]
  <2>1. <<ns[1]>> \in Seq(Int) /\ Len(<<ns[1]>>) = 1 /\ <<ns[1]>>[1] = ns[1] /\ ns[1] \in 1..total /\ ns[1] # Gap
    BY <1>4, <1>6, <1>7 DEF Gap
  <2>2. Tells(<<ns[1]>>, ns, 1, total)
    <3> DEFINE l == <<ns[1]>>
    <3>1. l \in Seq(Int) /\ Len(l) = 1 /\ l[1] = ns[1] /\ 1 \in 1..Len(l)
      BY <2>1
    <3> HIDE DEF l
    <3>2. \A i \in 1..Len(l) : i = 1
      BY <3>1
    <3>3. \A i \in 1..1 : i = 1
      OBVIOUS
    <3>4. Tells(l, ns, 1, total)
      BY <2>1, <3>1, <3>2, <3>3 DEF Tells
    <3> QED BY <3>4 DEF l
  <2> QED BY <1>9, <2>1, <2>2
<1>12. ASSUME NEW k \in Nat \ {0}, NEW l \in C[k], k < n PROVE l \o ss[k + 1] \in C[k + 1]
  <2>1. k \in Positive /\ Tells(l, ns, k, total)
    BY DEF Positive
  <2>2. ns[k] < ns[k + 1]
    BY <1>2, <1>4, <1>12
  <2> HIDE DEF C
  <2>3. Tells(l \o ss[k + 1], ns, k + 1, total)
    BY <1>4, <1>9, <1>12, <2>1, <2>2, TellsNext
  <2>4. k + 1 \in Nat /\ l \o ss[k + 1] \in Seq(Int)
    BY <2>3 DEF Tells
  <2> QED BY <2>3, <2>4 DEF C
<1>13. \A l : l \in C[n] => Tells(l, ns, n, total)
  BY <1>4
<1> HIDE DEF C
<1>14. w \in C[n]
  BY <1>3, <1>10, <1>11, <1>12, FlattenSeqBy
<1>15. Tells(w, ns, n, total)
  BY <1>13, <1>14
<1>16. (page - 1 .. page + 1) \cap 1..total \subseteq ToSet(w)
  <2> SUFFICES ASSUME NEW x \in N PROVE x \in ToSet(w)
    BY <1>a
  <2>1. PICK j \in 1..n : ns[j] = x
    BY <1>5
  <2>2. PICK i \in 1..Len(w) : w[i] = x
    BY <1>15, <2>1 DEF Tells
  <2>3. DOMAIN w = 1..Len(w)
    BY <1>15, LenProperties DEF Tells
  <2> QED BY <2>2, <2>3 DEF ToSet
<1>17. /\ w \in Seq(Int) /\ Len(w) > 0
       /\ w[1] = 1 /\ w[Len(w)] = total
       /\ \A i \in 1..Len(w) : w[i] \in 1..total \cup {Gap}
       /\ \A i \in 1..Len(w) : w[i] = Gap => i > 1 /\ i < Len(w) /\ w[i + 1] - w[i - 1] > 1
       /\ \A i \in 2..Len(w) : w[i - 1] # Gap /\ w[i] # Gap => w[i] = w[i - 1] + 1
  BY <1>6, <1>15 DEF Tells
<1> QED BY <1>16, <1>17 DEF w

LEMMA WindowIn ==
  ASSUME NEW page \in Positive, NEW total \in Positive
  PROVE  ToSet(Window(page, total)) \subseteq 1..total \cup {Gap}
<1> DEFINE w == Window(page, total)
<1>1. w \in Seq(Int) /\ \A i \in 1..Len(w) : w[i] \in 1..total \cup {Gap}
  BY WindowTells
<1> HIDE DEF w
<1>2. ToSet(w) \subseteq 1..total \cup {Gap}
  BY <1>1, LenProperties DEF ToSet
<1> QED BY <1>2 DEF w

\* The pager offers pages of the listing, or the one before.
LEMMA OfferedIn ==
  ASSUME NEW page \in Positive, NEW total \in Positive, NEW p \in Offered(page, total)
  PROVE  p \in Positive /\ (p <= total \/ p < page)
<1>1. p \in Pressable(page, total)
  BY DEF Offered
<1>2. CASE p \in ToSet(Window(page, total)) \ {Gap}
  BY <1>2, WindowIn DEF Positive
<1>3. CASE p \notin ToSet(Window(page, total)) \ {Gap}
  BY <1>1, <1>3 DEF Pressable, Positive
<1> QED BY <1>2, <1>3

-----------------------------------------------------------------------------
(* The listings of the catalog.                                            *)

\* The order of the shop as a set of pairs.
Shelf == {r \in Products \X Products : Before(r[1], r[2])}

LEMMA ShelfOrders == \A S \in SUBSET Products : StrictOrder(Shelf, S)
<1>1. \A p, q \in Products : <<p, q>> \in Shelf <=> Before(p, q)
  BY DEF Shelf
<1>2. \A p \in Products : p.name \in Nat /\ p.featured \in BOOLEAN
  BY CatalogConstants
<1>3. \A p, q \in Products : p # q => p.name # q.name
  BY CatalogConstants
<1>4. \A p \in Products : ~Before(p, p)
  BY <1>2 DEF Before
<1>5. \A p, q \in Products : p # q => Before(p, q) \/ Before(q, p)
  BY <1>2, <1>3 DEF Before
<1>6. \A p, q, r \in Products : Before(p, q) /\ Before(q, r) => Before(p, r)
  BY <1>2 DEF Before
<1> QED BY <1>1, <1>4, <1>5, <1>6 DEF StrictOrder

Matching(f) == {p \in Products : Matches(p, f)}

LEMMA MatchingSize ==
  \A S \in SUBSET Products : IsFiniteSet(S) /\ Cardinality(S) \in Nat /\ Cardinality(S) < Half
<1> SUFFICES ASSUME NEW S \in SUBSET Products
             PROVE  IsFiniteSet(S) /\ Cardinality(S) \in Nat /\ Cardinality(S) < Half
  OBVIOUS
<1>1. IsFiniteSet(Products) /\ Cardinality(Products) < Half /\ Half \in Nat
  BY CatalogConstants
<1>2. IsFiniteSet(S) /\ Cardinality(S) <= Cardinality(Products)
  BY <1>1, FS_Subset
<1>3. Cardinality(S) \in Nat /\ Cardinality(Products) \in Nat
  BY <1>1, <1>2, FS_CardinalityType
<1> QED BY <1>1, <1>2, <1>3

\* What is listed are the matching products, in the shop's order.
LEMMA ListIs ==
  ASSUME NEW f
  PROVE  /\ List(f) \in Seq(Products) /\ Len(List(f)) = Cardinality(Matching(f))
         /\ ToSet(List(f)) = Matching(f)
         /\ Increasing(Shelf, List(f))
         /\ \A i, j \in DOMAIN List(f) : List(f)[i] = List(f)[j] => i = j
<1> DEFINE S == Matching(f)
           l == List(f)
<1>1. S \in SUBSET Products
  BY DEF Matching
<1>2. IsFiniteSet(S) /\ StrictOrder(Shelf, S)
  BY <1>1, MatchingSize, ShelfOrders
<1>3. l = Sorted(S, Before)
  BY DEF List, Matching
<1> HIDE DEF S, l
<1>4. \E s \in SetToSeqs(S) : IsSorted(s, Before)
  <2>1. PICK s \in SetToSeqs(S) : \A i, j \in 1..Len(s) : i < j => <<s[i], s[j]>> \in Shelf
    BY <1>2, SortedExists
  <2> QED BY <2>1 DEF IsSorted, Shelf
<1>5. l \in SetToSeqs(S) /\ \A i, j \in 1..Len(l) : i < j => Before(l[i], l[j])
  BY <1>3, <1>4 DEF Sorted, IsSorted
<1>6. /\ l \in Seq(S) /\ Len(l) = Cardinality(S) /\ DOMAIN l = 1..Len(l)
      /\ ToSet(l) = S
      /\ \A i, j \in DOMAIN l : l[i] = l[j] => i = j
  BY <1>2, <1>5, ListOfSet
<1>7. \A i \in 1..Len(l) : l[i] \in Products
  BY <1>1, <1>6, ElementOfSeq
<1>8. l \in Seq(Products)
  BY <1>1, <1>6, SeqMonotonic
<1>9. Increasing(Shelf, l)
  BY <1>5, <1>6, <1>7 DEF Increasing, Shelf
<1> QED BY <1>6, <1>8, <1>9 DEF S, l

\* Where a product is in such a list says how many are listed before it.
LEMMA RankIs ==
  ASSUME NEW S \in SUBSET Products, NEW l \in Seq(Products),
         ToSet(l) = S, Increasing(Shelf, l), NEW i \in DOMAIN l
  PROVE  Rank(l[i], S) = i - 1
<1>1. IsFiniteSet(S) /\ StrictOrder(Shelf, S)
  BY MatchingSize, ShelfOrders
<1>2. DOMAIN l = 1..Len(l) /\ l \in Seq(S) /\ l[i] \in S
  <2>1. DOMAIN l = 1..Len(l) /\ Len(l) \in Nat /\ l \in [1..Len(l) -> Products]
    BY LenProperties
  <2>2. \A j \in 1..Len(l) : l[j] \in S
    BY <2>1 DEF ToSet
  <2>3. l \in [1..Len(l) -> S]
    BY <2>1, <2>2
  <2> QED BY <2>1, <2>2, <2>3
<1>3. Cardinality(Below(Shelf, S, l[i])) = i - 1
  BY <1>1, <1>2, PlaceInOrder
<1>4. Below(Shelf, S, l[i]) = {r \in S : Before(r, l[i])}
  BY <1>2 DEF Below, Shelf
<1> QED BY <1>3, <1>4 DEF Rank

\* The wrapping of integers leaves those alone that fit.
LEMMA WrapFits == \A n \in Int : n >= 0 /\ n < Half => Wrap(n) = n
BY CatalogConstants DEF Wrap

\* A filter whose page exists is served a cut of the list, any other is not served.
Asks(f) == f.page \in Nat /\ f.perPage \in 1..maxPerPage
PageOf(f) == IF f.page = 0 THEN 1 ELSE f.page
StartOf(f) == Start(PageOf(f), f.perPage)

LEMMA StartIsInt == \A f : Asks(f) => PageOf(f) \in Positive /\ f.perPage \in Positive /\ StartOf(f) \in Int
<1> SUFFICES ASSUME NEW f, Asks(f) PROVE PageOf(f) \in Positive /\ f.perPage \in Positive /\ StartOf(f) \in Int
  OBVIOUS
<1>1. PageOf(f) \in Positive /\ f.perPage \in Positive
  BY CatalogConstants DEF Asks, PageOf, Positive
<1>2. Half \in Positive
  BY CatalogConstants DEF Positive
<1> DEFINE m == (PageOf(f) - 1) * f.perPage
<1>3. m \in Nat
  BY <1>1 DEF Positive
<1> HIDE DEF m
<1>4. ((m + Half) % (2 * Half)) \in Int
  <2>1. \A a \in Nat, b \in Positive : a % b \in Int
    BY DEF Positive
  <2>2. m + Half \in Nat /\ 2 * Half \in Positive
    BY <1>2, <1>3 DEF Positive
  <2> QED BY <2>1, <2>2
<1> QED BY <1>1, <1>2, <1>4 DEF StartOf, Start, Wrap, m, Positive

LEMMA ListPagedIs ==
  ASSUME NEW f, Asks(f)
  PROVE  /\ StartOf(f) < 0 => ListPaged(f) = NoListing
         /\ StartOf(f) >= 0 =>
              /\ Served(ListPaged(f)) /\ ListPaged(f) # NoListing
              /\ ListPaged(f).total = Cardinality(Matching(f))
              /\ ListPaged(f).perPage = f.perPage
              /\ ListPaged(f).products = Cut(List(f), StartOf(f), f.perPage)
<1> DEFINE all == List(f)
           start == StartOf(f)
           cut == Cut(all, start, f.perPage)
<1>1. PageOf(f) \in Positive /\ f.perPage \in Positive /\ start \in Int
  BY StartIsInt
<1>2. all \in Seq(Products) /\ Len(all) = Cardinality(Matching(f)) /\ Len(all) \in Nat
  BY ListIs, LenProperties
<1>3. (IF f.page <= 0 THEN 1 ELSE f.page) = PageOf(f)
  BY DEF Asks, PageOf
<1>4. (IF f.perPage <= 0 THEN defaultPerPage ELSE IF f.perPage > maxPerPage THEN maxPerPage ELSE f.perPage) = f.perPage
  BY CatalogConstants DEF Asks
<1>5. start = Start(PageOf(f), f.perPage)
  BY DEF StartOf
<1> HIDE DEF all, start
<1>6. ListPaged(f) = IF start < 0 THEN NoListing
                     ELSE [products |-> IF start >= Len(all) THEN <<>> ELSE Between(all, start, f.perPage),
                           total |-> Len(all), page |-> PageOf(f), perPage |-> f.perPage]
  BY <1>3, <1>4, <1>5 DEF ListPaged, all
<1>7. ASSUME start >= 0
      PROVE  (IF start >= Len(all) THEN <<>> ELSE Between(all, start, f.perPage)) = cut
  <2>1. CASE start >= Len(all)
    <3>1. (IF start + f.perPage > Len(all) THEN Len(all) ELSE start + f.perPage) = Len(all)
      BY <1>1, <1>2, <2>1 DEF Positive
    <3>2. Len(all) < start + 1 /\ Len(all) \in Int /\ start + 1 \in Int
      BY <1>1, <1>2, <2>1
    <3>3. SubSeq(all, start + 1, Len(all)) = <<>>
      BY <3>2, SubSeqEmpty
    <3> QED BY <2>1, <3>1, <3>3 DEF Cut
  <2>2. CASE ~(start >= Len(all))
    BY <2>2 DEF Between, Cut
  <2> QED BY <2>1, <2>2
<1> HIDE DEF cut
<1>8. ASSUME start >= 0
      PROVE  ListPaged(f) = [products |-> cut, total |-> Len(all), page |-> PageOf(f), perPage |-> f.perPage]
  <2>1. ~(start < 0)
    BY <1>1, <1>8
  <2> QED BY <1>6, <1>7, <1>8, <2>1
<1>9. start < 0 => ListPaged(f) = NoListing
  BY <1>6
<1>10. ASSUME start >= 0
       PROVE  /\ Served(ListPaged(f)) /\ ListPaged(f) # NoListing
              /\ ListPaged(f).total = Cardinality(Matching(f))
              /\ ListPaged(f).perPage = f.perPage /\ ListPaged(f).products = cut
  BY <1>1, <1>2, <1>8, <1>10 DEF Served, NoListing, Positive
<1> QED BY <1>9, <1>10 DEF cut, all, start

-----------------------------------------------------------------------------
(* Addresses, and the listings they ask for.                               *)

LEMMA SizesArePositive ==
  /\ {CATEGORY_PAGE_SIZE, GRID_PAGE_SIZE, PER_PAGE} \subseteq Positive \cap 1..maxPerPage
  /\ Half \in Positive /\ maxPerPage \in Positive
BY CatalogConstants, BrowseConstants DEF Positive

LEMMA FirstIsAPage == 1 \in SearchPages /\ SearchPages \subseteq Positive
<1>1. Cardinality(Products) \in Nat
  BY CatalogConstants, FS_CardinalityType
<1>2. TotalPages(Cardinality(Products), PER_PAGE) \in Positive
  BY <1>1, PageCount, SizesArePositive
<1> DEFINE t == TotalPages(Cardinality(Products), PER_PAGE)
<1> HIDE DEF t
<1>3. t \in Positive
  BY <1>2 DEF t
<1>4. 1 \in 1..t /\ 1..t \subseteq Positive
  BY <1>3 DEF Positive
<1>5. SearchPages = 1..t \cup TypedPages /\ TypedPages \subseteq Positive
  BY BrowseConstants DEF SearchPages, Positive, t
<1> QED BY <1>4, <1>5

LEMMA UrlIs ==
  \A u \in Urls :
    \/ u = Elsewhere
    \/ u.at = "category" /\ \E c \in Slugs, b \in SUBSET Brands, r \in PriceRanges, s \in BOOLEAN : u = Category(c, b, r, s)
    \/ u.at = "search" /\ \E w \in SearchWords, p \in SearchPages : u = Search(w, p)
BY DEF Urls, Category, Search

LEMMA UrlFields ==
  ASSUME NEW u \in Urls
  PROVE  /\ u.at \in {"category", "search", "other"}
         /\ u.at = "other" <=> u = Elsewhere
         /\ u.page \in Positive /\ u.min \in Nat /\ u.max \in Nat /\ u.sale \in BOOLEAN
         /\ u.brands \in SUBSET Brands
         /\ u.at = "category" => u.page = 1 /\ u.q = Unset /\ u.slug \in Slugs
         /\ u.at = "search" => /\ u.page \in SearchPages /\ u.q \in SearchWords
                               /\ u.slug = Unset /\ u.min = 0 /\ u.max = 0 /\ u.sale = FALSE
                               /\ u = Search(u.q, u.page)
<1>1. \A r \in PriceRanges : r.min \in Nat /\ r.max \in Nat
  BY BrowseConstants DEF PriceRanges, NoPrice
<1>2. CASE u = Elsewhere
  BY <1>2 DEF Elsewhere, Positive
<1>3. ASSUME NEW c \in Slugs, NEW b \in SUBSET Brands, NEW r \in PriceRanges, NEW s \in BOOLEAN,
             u = Category(c, b, r, s)
      PROVE  /\ u.at = "category" /\ u # Elsewhere /\ u.page = 1 /\ u.q = Unset /\ u.slug \in Slugs
             /\ u.min \in Nat /\ u.max \in Nat /\ u.sale \in BOOLEAN /\ u.brands \in SUBSET Brands
  BY <1>1, <1>3 DEF Category, Elsewhere
<1>4. ASSUME NEW w \in SearchWords, NEW p \in SearchPages, u = Search(w, p)
      PROVE  /\ u.at = "search" /\ u # Elsewhere /\ u.page \in SearchPages /\ u.page \in Positive
             /\ u.q \in SearchWords /\ u.slug = Unset /\ u.min = 0 /\ u.max = 0 /\ u.sale = FALSE
             /\ u.brands \in SUBSET Brands /\ u = Search(u.q, u.page)
  BY <1>4, FirstIsAPage DEF Search, Elsewhere
<1>5. 1 \in Positive
  BY DEF Positive
<1>6. CASE u.at = "category" /\ u # Elsewhere
  BY <1>3, <1>4, <1>5, <1>6, UrlIs
<1>7. CASE u.at = "search" /\ u # Elsewhere
  <2>1. PICK w \in SearchWords, p \in SearchPages : u = Search(w, p)
    BY <1>7, UrlIs
  <2> HIDE DEF SearchWords, SearchPages
  <2>2. /\ u.at = "search" /\ u.page \in SearchPages /\ u.page \in Positive /\ u.q \in SearchWords
        /\ u.slug = Unset /\ u.min = 0 /\ u.max = 0 /\ u.sale = FALSE /\ u.brands \in SUBSET Brands
        /\ u = Search(u.q, u.page)
    BY <1>4, <2>1
  <2>3. u.min \in Nat /\ u.max \in Nat
    BY <2>2
  <2>4. u.sale \in BOOLEAN
    BY <2>2
  <2> QED BY <1>7, <2>2, <2>3, <2>4
<1> QED BY <1>2, <1>6, <1>7, UrlIs

SizeOf(u) == IF u.at = "category" THEN CATEGORY_PAGE_SIZE ELSE PER_PAGE

LEMMA QueryAsks ==
  ASSUME NEW u \in Urls
  PROVE  /\ Asks(Filter(Query(u))) /\ Filter(Query(u)).perPage = SizeOf(u)
         /\ PageOf(Filter(Query(u))) = IF u.page < Half THEN u.page ELSE 1
         /\ SizeOf(u) \in Positive
<1>1. u.page \in Positive
  BY UrlFields
<1>2. Half \in Positive /\ SizeOf(u) \in 1..maxPerPage /\ SizeOf(u) \in Positive
  BY SizesArePositive DEF SizeOf
<1>3. /\ Filter(Query(u)).page = IF u.page > 1 THEN Atoi(u.page) ELSE 0
      /\ Filter(Query(u)).perPage = SizeOf(u)
  BY DEF Filter, Query, SizeOf
<1>4. Filter(Query(u)).page = IF u.page > 1 /\ u.page < Half THEN u.page ELSE 0
  BY <1>3 DEF Atoi
<1> QED BY <1>1, <1>2, <1>3, <1>4 DEF Asks, PageOf, Positive

\* What a page gets for its query.
LEMMA AnswerIs ==
  ASSUME NEW u \in Urls
  PROVE  /\ Answer(Query(u)).products \in Seq(Products)
         /\ Len(Answer(Query(u)).products) <= SizeOf(u)
         /\ Served(Answer(Query(u))) =>
              /\ StartOf(Filter(Query(u))) \in Nat
              /\ Answer(Query(u)) # NoListing
              /\ Answer(Query(u)).total = Cardinality(Matching(Filter(Query(u))))
              /\ Answer(Query(u)).perPage = SizeOf(u)
<1> DEFINE f == Filter(Query(u))
           a == Answer(Query(u))
<1>1. Asks(f) /\ f.perPage = SizeOf(u) /\ f.perPage \in Positive
  BY QueryAsks
<1>2. a = ListPaged(f)
  BY DEF Answer
<1> HIDE DEF f, a
<1>3. StartOf(f) \in Int
  BY <1>1, StartIsInt
<1>4. CASE StartOf(f) < 0
  <2>1. a = NoListing
    BY <1>1, <1>2, <1>4, ListPagedIs
  <2> QED BY <1>1, <2>1, EmptySeq DEF NoListing, Served, f, a, Positive
<1>5. CASE StartOf(f) >= 0
  <2>1. /\ a # NoListing /\ a.total = Cardinality(Matching(f)) /\ a.perPage = f.perPage
        /\ a.products = Cut(List(f), StartOf(f), f.perPage)
    BY <1>1, <1>2, <1>5, ListPagedIs
  <2>2. List(f) \in Seq(Products) /\ StartOf(f) \in Nat /\ f.perPage \in Nat
    BY <1>1, <1>3, <1>5, ListIs DEF Positive
  <2>3. a.products \in Seq(Products) /\ Len(a.products) <= f.perPage
    BY <2>1, <2>2, CutIs
  <2> QED BY <1>1, <2>1, <2>2, <2>3 DEF f, a
<1> QED BY <1>3, <1>4, <1>5

HitsOf(w) == {p \in Products : w = Unset \/ w \in p.words}

\* Nothing but the word narrows a search.
LEMMA SearchMatches ==
  ASSUME NEW u \in Urls, u.at = "search"
  PROVE  Matching(Filter(Query(u))) = HitsOf(u.q)
<1>1. u.slug = Unset /\ u.min = 0 /\ u.max = 0 /\ u.sale = FALSE
  BY UrlFields
<1>2. AtoiDollars(0) = 0
  <2>1. Atoi(0) = 0
    BY DEF Atoi
  <2>2. Wrap(0) = 0
    BY WrapFits, SizesArePositive DEF Positive
  <2> QED BY <2>1, <2>2 DEF AtoiDollars
<1> DEFINE f == Filter(Query(u))
<1>3. /\ f.category = Unset /\ f.kind = Unset /\ f.brand = Unset /\ f.q = u.q
      /\ f.min = 0 /\ f.max = 0 /\ f.onSale = FALSE /\ f.featured = FALSE
  BY <1>1, <1>2 DEF Filter, Query
<1> HIDE DEF f
<1>4. \A p \in Products : Matches(p, f) <=> (u.q = Unset \/ u.q \in p.words)
  BY <1>3 DEF Matches
<1> QED BY <1>4 DEF Matching, HitsOf, f

\* The request of a category page begins with the first product.
LEMMA CategoryStart ==
  ASSUME NEW u \in Urls, u.at = "category"
  PROVE  StartOf(Filter(Query(u))) = 0 /\ Served(Answer(Query(u)))
<1>1. u.page = 1 /\ Half \in Positive
  BY UrlFields, SizesArePositive
<1>2. PageOf(Filter(Query(u))) = 1
  BY <1>1, QueryAsks DEF Positive
<1>3. SizeOf(u) \in Positive /\ Filter(Query(u)).perPage = SizeOf(u) /\ Asks(Filter(Query(u)))
  BY QueryAsks
<1>4. (1 - 1) * SizeOf(u) = 0
  BY <1>3 DEF Positive
<1>5. StartOf(Filter(Query(u))) = 0
  BY <1>1, <1>2, <1>3, <1>4, WrapFits DEF StartOf, Start, Positive
<1>6. Served(ListPaged(Filter(Query(u))))
  BY <1>3, <1>5, ListPagedIs
<1> QED BY <1>5, <1>6 DEF Answer

LEMMA UrlsHave ==
  /\ Elsewhere \in Urls
  /\ \A c \in Slugs, b \in SUBSET Brands, r \in PriceRanges, s \in BOOLEAN : Category(c, b, r, s) \in Urls
  /\ \A w \in SearchWords, p \in SearchPages : Search(w, p) \in Urls
  /\ \A u \in Urls \ {Elsewhere} :
       Query(u) \in Queries /\ Query(u) # NoQuery /\ Listings[Query(u)] = Answer(Query(u))
BY NoQueryIsNone DEF Urls, Queries, Listings

-----------------------------------------------------------------------------
(* What the page shows for its address.                                    *)

Observers == [got : {"idle", "waiting", "ok", "error"}, shown : Queries \cup {NoQuery}]

\* The observer of the page at u shows a listing of the size of the page's own,
\* and says that it is settled on its own listing only.
Observes(u, o) ==
    /\ o \in Observers
    /\ (o.got = "idle") = (u = Elsewhere)
    /\ o.shown # NoQuery =>
         u # Elsewhere /\ o.shown.perPage = Query(u).perPage /\ Served(Listings[o.shown])
    /\ o.got = "ok" => o.shown = Query(u)

\* What the category page at u finds in its own listing.
FoundAt(u) == OnlyIn(Listings[Query(u)].products, {p \in Products : u.brands = {} \/ p.brand \in u.brands})

\* The page number is one that the listing of the address has.
HasPage(u, n) ==
    /\ u.at = "category" => n <= TotalPages(Len(FoundAt(u)), GRID_PAGE_SIZE)
    /\ u.at = "search" => u.page <= TotalPages(Cardinality(HitsOf(u.q)), PER_PAGE)

\* Together with the types these facts are inductive: a page shows a listing of
\* its own size or none, and a page number that did not stray is one the listing of
\* the address has, whichever listing is still on show.
PagesInv ==
    /\ url \in Urls
    /\ Observes(url, obs)
    /\ gridPage \in 1..TotalPages(CATEGORY_PAGE_SIZE, GRID_PAGE_SIZE)
    /\ strayed \in BOOLEAN
    /\ ~strayed => HasPage(url, gridPage)

LEMMA DataIs ==
  ASSUME PagesInv, url # Elsewhere
  PROVE  /\ Data.products \in Seq(Products) /\ Len(Data.products) <= SizeOf(url)
         /\ Data = NoListing \/ (Data.perPage = SizeOf(url) /\ Data.total \in Nat)
         /\ Settled => Data = Answer(Query(url)) /\ Data # NoListing /\ Served(Answer(Query(url)))
<1>1. url \in Urls /\ Observes(url, obs) /\ SizeOf(url) \in Positive
  BY QueryAsks DEF PagesInv
<1>2. CASE Data = NoListing /\ ~Settled
  <2>1. NoListing.products = <<>> /\ Len(<<>>) = 0 /\ <<>> \in Seq(Products)
    BY DEF NoListing
  <2> QED BY <1>1, <1>2, <2>1 DEF Positive
<1>3. CASE ~(Data = NoListing /\ ~Settled)
  <2>1. obs.shown # NoQuery /\ Data = Listings[obs.shown]
    BY <1>1, <1>3, UrlsHave DEF Data, Settled, Observes
  <2>2. PICK u \in Urls \ {Elsewhere} : obs.shown = Query(u)
    BY <1>1, <2>1 DEF Observes, Observers, Queries
  <2>3. SizeOf(u) = SizeOf(url)
    BY <1>1, <2>1, <2>2 DEF Observes, Query, SizeOf
  <2>4. Data = Answer(Query(u)) /\ Served(Answer(Query(u)))
    BY <1>1, <2>1, <2>2, UrlsHave DEF Data, Observes
  <2>5. /\ Data.products \in Seq(Products) /\ Len(Data.products) <= SizeOf(url)
        /\ Data # NoListing /\ Data.perPage = SizeOf(url)
        /\ Data.total = Cardinality(Matching(Filter(Query(u))))
    BY <2>3, <2>4, AnswerIs
  <2>6. Data.total \in Nat
    BY <2>5, MatchingSize DEF Matching
  <2>7. Settled => Query(u) = Query(url)
    BY <1>1, <2>2 DEF Observes, Settled
  <2> QED BY <2>4, <2>5, <2>6, <2>7
<1> QED BY <1>2, <1>3

LEMMA FoundIs ==
  ASSUME PagesInv, url # Elsewhere
  PROVE  /\ Found \in Seq(Products) /\ Len(Found) <= SizeOf(url) /\ Len(Found) \in Nat
         /\ Pages \in Positive
         /\ url.at = "category" => Pages <= TotalPages(CATEGORY_PAGE_SIZE, GRID_PAGE_SIZE)
         /\ Settled /\ url.at = "category" => Found = FoundAt(url) /\ Pages = TotalPages(Len(FoundAt(url)), GRID_PAGE_SIZE)
         /\ Settled /\ url.at = "search" => Pages = TotalPages(Cardinality(HitsOf(url.q)), PER_PAGE)
<1>1. url \in Urls /\ SizeOf(url) \in Positive /\ GRID_PAGE_SIZE \in Positive
  BY QueryAsks, SizesArePositive DEF PagesInv
<1>2. /\ Data.products \in Seq(Products) /\ Len(Data.products) <= SizeOf(url)
      /\ Data = NoListing \/ (Data.perPage = SizeOf(url) /\ Data.total \in Nat)
      /\ Settled => Data = Answer(Query(url)) /\ Data # NoListing /\ Served(Answer(Query(url)))
  BY DataIs
<1> DEFINE T == {p \in Products : InBrands(p)}
<1>3. OnlyIn(Data.products, T) \in Seq(Products) /\ Len(OnlyIn(Data.products, T)) <= Len(Data.products)
  BY <1>2, OnlyInIs
<1>4. Found \in Seq(Products) /\ Len(Found) <= Len(Data.products)
  <2>1. Len(Data.products) \in Int
    BY <1>2, LenProperties
  <2> QED BY <1>2, <1>3, <2>1 DEF Found
<1>5. Len(Found) \in Nat /\ Len(Data.products) \in Nat
  BY <1>2, <1>4, LenProperties
<1>6. Len(Found) <= SizeOf(url)
  BY <1>1, <1>2, <1>4, <1>5 DEF Positive
<1>7. ASSUME url.at = "category"
      PROVE  Pages \in Positive /\ Pages <= TotalPages(CATEGORY_PAGE_SIZE, GRID_PAGE_SIZE)
  <2>1. SizeOf(url) = CATEGORY_PAGE_SIZE /\ CATEGORY_PAGE_SIZE \in Nat
    BY <1>1, <1>7 DEF SizeOf, Positive
  <2>2. Pages = TotalPages(Len(Found), GRID_PAGE_SIZE)
    BY <1>7 DEF Pages
  <2> QED BY <1>1, <1>5, <1>6, <2>1, <2>2, PageCount, MorePages
<1>8. ASSUME url.at # "category" PROVE Pages \in Positive
  <2>1. CASE Data = NoListing
    BY <1>8, <2>1 DEF Pages, Positive
  <2>2. CASE Data # NoListing
    <3>1. Pages = TotalPages(Data.total, Data.perPage)
      BY <1>8, <2>2 DEF Pages
    <3> QED BY <1>1, <1>2, <2>2, <3>1, PageCount
  <2> QED BY <2>1, <2>2
<1>9. ASSUME Settled, url.at = "category"
      PROVE  Found = FoundAt(url) /\ Pages = TotalPages(Len(FoundAt(url)), GRID_PAGE_SIZE)
  <2>1. Data = Listings[Query(url)]
    BY <1>1, <1>2, <1>9, UrlsHave
  <2>2. Found = FoundAt(url)
    BY <1>9, <2>1 DEF Found, FoundAt, InBrands
  <2> QED BY <1>9, <2>2 DEF Pages
<1>10. ASSUME Settled, url.at = "search"
       PROVE  Pages = TotalPages(Cardinality(HitsOf(url.q)), PER_PAGE)
  <2>1. Data.total = Cardinality(Matching(Filter(Query(url)))) /\ Data.perPage = SizeOf(url)
    BY <1>1, <1>2, <1>10, AnswerIs
  <2>2. Pages = TotalPages(Data.total, Data.perPage) /\ SizeOf(url) = PER_PAGE
    BY <1>2, <1>10 DEF Pages, SizeOf
  <2> QED BY <1>1, <1>10, <2>1, <2>2, SearchMatches
<1> QED BY <1>4, <1>5, <1>6, <1>7, <1>8, <1>9, <1>10

LEMMA FollowKeeps ==
  ASSUME NEW u \in Urls \ {Elsewhere}, NEW o \in Observers,
         o.shown # NoQuery => o.shown.perPage = Query(u).perPage /\ Served(Listings[o.shown]),
         Follow(o, Query(u))
  PROVE  Observes(u, obs')
<1>1. Query(u) \in Queries /\ Query(u) # NoQuery
  BY UrlsHave
<1>2. CASE obs' = [o EXCEPT !.got = "waiting"]
  BY <1>2 DEF Observes, Observers
<1>3. CASE Served(Listings[Query(u)]) /\ obs' = [got |-> "ok", shown |-> Query(u)]
  BY <1>1, <1>3 DEF Observes, Observers
<1> QED BY <1>2, <1>3 DEF Follow

LEMMA FirstPageIsThere ==
  ASSUME NEW u \in Urls, u.at = "search" => u.page = 1
  PROVE  HasPage(u, 1)
<1>1. ASSUME u.at = "category" PROVE 1 <= TotalPages(Len(FoundAt(u)), GRID_PAGE_SIZE)
  <2>1. u # Elsewhere
    BY <1>1 DEF Elsewhere
  <2>2. Listings[Query(u)].products \in Seq(Products)
    BY <2>1, UrlsHave, AnswerIs
  <2>3. FoundAt(u) \in Seq(Products)
    BY <2>2, OnlyInIs DEF FoundAt
  <2>4. Len(FoundAt(u)) \in Nat
    BY <2>3, LenProperties
  <2> QED BY <2>4, SizesArePositive, PageCount DEF Positive
<1>2. ASSUME u.at = "search" PROVE u.page <= TotalPages(Cardinality(HitsOf(u.q)), PER_PAGE)
  <2>1. Cardinality(HitsOf(u.q)) \in Nat
    BY MatchingSize DEF HitsOf
  <2> QED BY <1>2, <2>1, SizesArePositive, PageCount DEF Positive
<1> QED BY <1>1, <1>2 DEF HasPage

\* Wherever the tab lands, only the page number can be wrong.
LEMMA LandKeeps ==
  ASSUME PagesInv, NEW u \in Urls, Land(u)
  PROVE  /\ url' = u /\ Observes(u, obs')
         /\ gridPage' \in 1..TotalPages(CATEGORY_PAGE_SIZE, GRID_PAGE_SIZE)
         /\ (u.at # "search" \/ u.page = 1) /\ u # url => HasPage(u, gridPage')
         /\ u.at = "search" /\ u.page <= TotalPages(Cardinality(HitsOf(u.q)), PER_PAGE) => HasPage(u, gridPage')
         /\ u = url => gridPage' = gridPage
<1>1. url' = u
  BY DEF Land
<1>2. gridPage' = IF u = url THEN gridPage ELSE 1
  BY DEF Land, FirstPage
<1>3. gridPage' \in 1..TotalPages(CATEGORY_PAGE_SIZE, GRID_PAGE_SIZE)
  <2>1. gridPage \in 1..TotalPages(CATEGORY_PAGE_SIZE, GRID_PAGE_SIZE)
    BY DEF PagesInv
  <2>2. CATEGORY_PAGE_SIZE \in Nat /\ GRID_PAGE_SIZE \in Positive
    BY SizesArePositive DEF Positive
  <2>3. TotalPages(CATEGORY_PAGE_SIZE, GRID_PAGE_SIZE) \in Positive
    BY <2>2, PageCount
  <2> QED BY <1>2, <2>1, <2>3 DEF Positive
<1>4. Observes(u, obs')
  <2>1. NoObserver \in Observers /\ NoObserver.shown = NoQuery
    BY DEF NoObserver, Observers
  <2>2. CASE u = Elsewhere
    <3>1. obs' = NoObserver
      BY <2>2 DEF Land, Elsewhere
    <3> QED BY <2>1, <2>2, <3>1 DEF Observes, NoObserver
  <2>3. CASE u # Elsewhere /\ u.at # url.at
    <3>1. Follow(NoObserver, Query(u))
      BY <2>3, UrlFields DEF Land
    <3> QED BY <2>1, <2>3, <3>1, FollowKeeps
  <2>4. CASE u # Elsewhere /\ u.at = url.at
    <3>1. Observes(url, obs) /\ url # Elsewhere /\ url \in Urls
      BY <2>4, UrlFields DEF PagesInv
    <3>2. Query(u).perPage = Query(url).perPage
      BY <2>4 DEF Query
    <3>3. CASE Query(u) = Asked
      <4>1. obs' = obs
        BY <2>4, <3>3, UrlFields DEF Land
      <4> QED BY <2>4, <3>1, <3>3, <4>1 DEF Observes, Asked
    <3>4. CASE Query(u) # Asked
      <4>1. Follow(obs, Query(u))
        BY <2>4, <3>4, UrlFields DEF Land
      <4> QED BY <2>4, <3>1, <3>2, <4>1, FollowKeeps DEF Observes
    <3> QED BY <3>3, <3>4
  <2> QED BY <2>2, <2>3, <2>4
<1>5. (u.at # "search" \/ u.page = 1) /\ u # url => HasPage(u, gridPage')
  BY <1>2, FirstPageIsThere
<1>6. u.at = "search" /\ u.page <= TotalPages(Cardinality(HitsOf(u.q)), PER_PAGE) => HasPage(u, gridPage')
  BY DEF HasPage
<1> QED BY <1>1, <1>2, <1>3, <1>4, <1>5, <1>6

\* The filters lead to other addresses of the category page.
LEMMA CommitKeeps ==
  ASSUME PagesInv, NEW u \in Urls, u.at = "category", Land(u), strayed' = (strayed /\ u = url)
  PROVE  PagesInv'
<1>1. /\ url' = u /\ Observes(u, obs') /\ gridPage' \in 1..TotalPages(CATEGORY_PAGE_SIZE, GRID_PAGE_SIZE)
      /\ u # url => HasPage(u, gridPage')
      /\ u = url => gridPage' = gridPage
  BY LandKeeps
<1>2. strayed' \in BOOLEAN /\ (~strayed /\ u = url => HasPage(u, gridPage))
  BY DEF PagesInv
<1>3. ~strayed' => HasPage(u, gridPage')
  BY <1>1, <1>2
<1> QED BY <1>1, <1>2, <1>3 DEF PagesInv

LEMMA FiltersStayHere ==
  ASSUME NEW u \in Urls, u.at = "category"
  PROVE  /\ \A b \in Brands : [u EXCEPT !.brands = IF b \in @ THEN @ \ {b} ELSE @ \cup {b}] \in Urls
         /\ \A r \in PriceRanges : [u EXCEPT !.min = r.min, !.max = r.max] \in Urls
         /\ [u EXCEPT !.sale = ~@] \in Urls
         /\ Category(u.slug, {}, NoPrice, FALSE) \in Urls
<1>1. PICK c \in Slugs, bs \in SUBSET Brands, r \in PriceRanges, s \in BOOLEAN : u = Category(c, bs, r, s)
  BY UrlIs, UrlFields
<1>2. ASSUME NEW b \in Brands
      PROVE  [u EXCEPT !.brands = IF b \in @ THEN @ \ {b} ELSE @ \cup {b}] \in Urls
  <2> DEFINE others == IF b \in bs THEN bs \ {b} ELSE bs \cup {b}
  <2>1. others \in SUBSET Brands
    OBVIOUS
  <2>2. [u EXCEPT !.brands = IF b \in @ THEN @ \ {b} ELSE @ \cup {b}] = Category(c, others, r, s)
    BY <1>1 DEF Category
  <2> HIDE DEF others
  <2> QED BY <2>1, <2>2, UrlsHave
<1>3. ASSUME NEW p \in PriceRanges PROVE [u EXCEPT !.min = p.min, !.max = p.max] \in Urls
  <2> DEFINE v == [u EXCEPT !.min = p.min]
             w == [v EXCEPT !.max = p.max]
  <2>1. [u EXCEPT !.min = p.min, !.max = p.max] = w
    OBVIOUS
  <2>2. v = Category(c, bs, [min |-> p.min, max |-> r.max], s)
    BY <1>1 DEF Category
  <2> HIDE DEF v
  <2>3. w = Category(c, bs, [min |-> p.min, max |-> p.max], s)
    BY <2>2 DEF Category
  <2> HIDE DEF w
  <2>4. w = Category(c, bs, p, s)
    BY <2>3 DEF Category
  <2> QED BY <2>1, <2>4, UrlsHave
<1>4. [u EXCEPT !.sale = ~@] \in Urls
  <2>1. ASSUME NEW x \in BOOLEAN PROVE [u EXCEPT !.sale = x] = Category(c, bs, r, x)
    BY <1>1 DEF Category
  <2>2. (~u.sale) \in BOOLEAN
    BY UrlFields
  <2>3. Category(c, bs, r, ~u.sale) \in Urls
    BY <2>2, UrlsHave
  <2> QED BY <2>1, <2>2, <2>3
<1>5. Category(u.slug, {}, NoPrice, FALSE) \in Urls
  <2>1. u.slug \in Slugs /\ NoPrice \in PriceRanges /\ {} \in SUBSET Brands
    BY UrlFields DEF PriceRanges
  <2> QED BY <2>1, UrlsHave
<1> QED BY <1>2, <1>3, <1>4, <1>5

LEMMA FilterSteps == PagesInv /\ Filters => PagesInv'
<1> SUFFICES ASSUME PagesInv, Filters PROVE PagesInv'
  OBVIOUS
<1>1. url \in Urls
  BY DEF PagesInv
<1>2. ASSUME NEW u \in Urls, u.at = "category", Commit(u) PROVE PagesInv'
  BY <1>2, CommitKeeps DEF Commit
<1>3. ASSUME NEW b \in Brands, ToggleBrand(b) PROVE PagesInv'
  <2> DEFINE u == [url EXCEPT !.brands = IF b \in @ THEN @ \ {b} ELSE @ \cup {b}]
  <2>1. Commit(u) /\ url.at = "category"
    BY <1>3 DEF ToggleBrand, Commit
  <2>2. u.at = url.at
    OBVIOUS
  <2>3. u \in Urls
    BY <1>1, <2>1, FiltersStayHere
  <2> HIDE DEF u
  <2> QED BY <1>2, <2>1, <2>2, <2>3
<1>4. ASSUME NEW r \in PriceRanges, Commit([url EXCEPT !.min = r.min, !.max = r.max]) PROVE PagesInv'
  <2> DEFINE u == [url EXCEPT !.min = r.min, !.max = r.max]
  <2>1. Commit(u) /\ url.at = "category"
    BY <1>4 DEF Commit
  <2>2. u.at = url.at
    OBVIOUS
  <2>3. u \in Urls
    BY <1>1, <2>1, FiltersStayHere
  <2> HIDE DEF u
  <2> QED BY <1>2, <2>1, <2>2, <2>3
<1>5. ASSUME NEW r \in BRACKETS, SetBracket(r) PROVE PagesInv'
  <2>1. NoPrice \in PriceRanges /\ r \in PriceRanges
    BY DEF PriceRanges
  <2> QED BY <1>4, <1>5, <2>1 DEF SetBracket
<1>6. ASSUME NEW r \in TypedPrices \cup {NoPrice}, CommitPrice(r) PROVE PagesInv'
  <2>1. r \in PriceRanges
    BY DEF PriceRanges
  <2> QED BY <1>4, <1>6, <2>1 DEF CommitPrice
<1>7. ASSUME ToggleSale PROVE PagesInv'
  <2> DEFINE u == [url EXCEPT !.sale = ~@]
  <2>1. Commit(u) /\ url.at = "category"
    BY <1>7 DEF ToggleSale, Commit
  <2>2. u.at = url.at
    OBVIOUS
  <2>3. u \in Urls
    BY <1>1, <2>1, FiltersStayHere
  <2> HIDE DEF u
  <2> QED BY <1>2, <2>1, <2>2, <2>3
<1>8. ASSUME ClearAll PROVE PagesInv'
  <2> DEFINE u == Category(url.slug, {}, NoPrice, FALSE)
  <2>1. Commit(u) /\ url.at = "category"
    BY <1>8 DEF ClearAll, Commit
  <2>2. u.at = "category"
    BY DEF Category
  <2>3. u \in Urls
    BY <1>1, <2>1, FiltersStayHere
  <2> HIDE DEF u
  <2> QED BY <1>2, <2>1, <2>2, <2>3
<1> QED BY <1>3, <1>5, <1>6, <1>7, <1>8 DEF Filters

\* A page number the pager offers stays within the pages of the largest listing.
LEMMA SetGridPageKeeps ==
  ASSUME PagesInv, NEW p \in Offered(Page, Pages), SetGridPage(p)
  PROVE  PagesInv'
<1> DEFINE most == TotalPages(CATEGORY_PAGE_SIZE, GRID_PAGE_SIZE)
<1>1. url \in Urls /\ url.at = "category" /\ url # Elsewhere /\ Page = gridPage
  BY DEF PagesInv, SetGridPage, Elsewhere, Page
<1>2. CATEGORY_PAGE_SIZE \in Nat /\ GRID_PAGE_SIZE \in Positive
  BY SizesArePositive DEF Positive
<1>3. most \in Positive
  BY <1>2, PageCount
<1> HIDE DEF most
<1>4. gridPage \in 1..most
  BY DEF PagesInv, most
<1>5. Pages \in Positive /\ Pages <= most
  BY <1>1, FoundIs DEF most
<1>6. p \in Positive /\ (p <= Pages \/ p < gridPage)
  <2>1. Page \in Positive
    BY <1>1, <1>3, <1>4 DEF Positive
  <2> QED BY <1>1, <1>5, <2>1, OfferedIn
<1>7. p \in 1..most
  BY <1>3, <1>4, <1>5, <1>6 DEF Positive
<1>8. url' = url /\ obs' = obs /\ gridPage' = p /\ strayed' = ~(Settled /\ p <= Pages)
  BY DEF SetGridPage, Turned
<1>9. ~strayed' => HasPage(url, p)
  <2>1. Settled => Pages = TotalPages(Len(FoundAt(url)), GRID_PAGE_SIZE)
    BY <1>1, FoundIs
  <2> QED BY <1>1, <1>8, <2>1 DEF HasPage
<1>10. Observes(url, obs)
  BY DEF PagesInv
<1> QED BY <1>1, <1>7, <1>8, <1>9, <1>10 DEF PagesInv, most

LEMMA GoToPageKeeps ==
  ASSUME PagesInv, NEW p, GoToPage(p)
  PROVE  PagesInv'
<1> DEFINE u == Search(url.q, p)
<1>1. url \in Urls /\ url.at = "search" /\ url # Elsewhere /\ p \in SearchPages
  BY DEF PagesInv, GoToPage, Elsewhere
<1>2. url.q \in SearchWords
  BY <1>1, UrlFields
<1>3. u \in Urls /\ u.at = "search" /\ u.page = p /\ u.q = url.q
  <2>1. u.at = "search" /\ u.page = p /\ u.q = url.q
    BY DEF Search
  <2> QED BY <1>1, <1>2, <2>1, UrlsHave
<1>4. Land(u) /\ strayed' = ~(Settled /\ p <= Pages)
  BY DEF GoToPage, Turned
<1> HIDE DEF u
<1>5. /\ url' = u /\ Observes(u, obs') /\ gridPage' \in 1..TotalPages(CATEGORY_PAGE_SIZE, GRID_PAGE_SIZE)
      /\ u.page <= TotalPages(Cardinality(HitsOf(u.q)), PER_PAGE) => HasPage(u, gridPage')
  BY <1>3, <1>4, LandKeeps
<1>6. Settled => Pages = TotalPages(Cardinality(HitsOf(url.q)), PER_PAGE)
  BY <1>1, FoundIs
<1>7. ~strayed' => HasPage(u, gridPage')
  BY <1>3, <1>4, <1>5, <1>6
<1>8. strayed' \in BOOLEAN
  BY <1>4
<1> QED BY <1>3, <1>5, <1>7, <1>8 DEF PagesInv

\* Going somewhere by a link or a form begins with the first page.
LEMMA OpenKeeps ==
  /\ \A c \in Slugs : PagesInv /\ OpenCategory(c) => PagesInv'
  /\ \A w \in SearchWords : PagesInv /\ Land(Search(w, 1)) /\ strayed' = FALSE => PagesInv'
  /\ \A p \in TypedPages : PagesInv /\ Visit(p) => PagesInv'
  /\ PagesInv /\ Leave => PagesInv'
<1>1. ASSUME NEW c \in Slugs, PagesInv, OpenCategory(c) PROVE PagesInv'
  <2> DEFINE u == Category(c, {}, NoPrice, FALSE)
  <2>1. u \in Urls /\ u.at = "category"
    <3>1. NoPrice \in PriceRanges /\ {} \in SUBSET Brands
      BY DEF PriceRanges
    <3>2. u.at = "category"
      BY DEF Category
    <3> QED BY <3>1, <3>2, UrlsHave
  <2>2. Land(u) /\ strayed' = (strayed /\ u = url)
    BY <1>1 DEF OpenCategory
  <2> HIDE DEF u
  <2> QED BY <1>1, <2>1, <2>2, CommitKeeps
<1>2. ASSUME NEW w \in SearchWords, PagesInv, Land(Search(w, 1)), strayed' = FALSE PROVE PagesInv'
  <2> DEFINE u == Search(w, 1)
  <2>1. u \in Urls /\ u.at = "search" /\ u.page = 1
    <3>1. u.at = "search" /\ u.page = 1
      BY DEF Search
    <3> QED BY <3>1, FirstIsAPage, UrlsHave
  <2> HIDE DEF u
  <2>2. Land(u)
    BY <1>2 DEF u
  <2>3. /\ url' = u /\ Observes(u, obs')
        /\ gridPage' \in 1..TotalPages(CATEGORY_PAGE_SIZE, GRID_PAGE_SIZE)
        /\ u.page <= TotalPages(Cardinality(HitsOf(u.q)), PER_PAGE) => HasPage(u, gridPage')
    BY <1>2, <2>1, <2>2, LandKeeps
  <2>4. 1 <= TotalPages(Cardinality(HitsOf(u.q)), PER_PAGE)
    <3>1. HasPage(u, 1)
      BY <2>1, FirstPageIsThere
    <3> QED BY <2>1, <3>1 DEF HasPage
  <2> QED BY <1>2, <2>1, <2>3, <2>4 DEF PagesInv
<1>3. ASSUME NEW p \in TypedPages, PagesInv, Visit(p) PROVE PagesInv'
  <2>1. PICK w \in SearchWords : Land(Search(w, p)) /\ strayed' = TRUE
    BY <1>3 DEF Visit
  <2> DEFINE u == Search(w, p)
  <2>2. u \in Urls
    BY UrlsHave DEF SearchPages
  <2> HIDE DEF u
  <2>3. Land(u)
    BY <2>1 DEF u
  <2>4. url' = u /\ Observes(u, obs') /\ gridPage' \in 1..TotalPages(CATEGORY_PAGE_SIZE, GRID_PAGE_SIZE)
    BY <1>3, <2>2, <2>3, LandKeeps
  <2> QED BY <2>1, <2>2, <2>4 DEF PagesInv
<1>4. ASSUME PagesInv, Leave PROVE PagesInv'
  <2>1. Land(Elsewhere) /\ strayed' = FALSE
    BY <1>4 DEF Leave
  <2>2. /\ url' = Elsewhere /\ Observes(Elsewhere, obs')
        /\ gridPage' \in 1..TotalPages(CATEGORY_PAGE_SIZE, GRID_PAGE_SIZE)
    BY <1>4, <2>1, UrlsHave, LandKeeps
  <2>3. HasPage(Elsewhere, gridPage')
    BY DEF HasPage, Elsewhere
  <2> QED BY <2>1, <2>2, <2>3, UrlsHave DEF PagesInv
<1> QED BY <1>1, <1>2, <1>3, <1>4

\* Answers change what the observer says, and nothing else.
LEMMA AnswersKeep == PagesInv /\ (Arrives \/ Fails \/ Refetch) => PagesInv'
<1> SUFFICES ASSUME PagesInv, Arrives \/ Fails \/ Refetch PROVE PagesInv'
  OBVIOUS
<1>1. Observes(url, obs) /\ url \in Urls
  BY DEF PagesInv
<1>2. CASE Arrives
  <2>1. url # Elsewhere
    BY <1>1, <1>2 DEF Arrives, Observes
  <2>2. Asked \in Queries /\ Asked = Query(url)
    BY <1>1, <2>1, UrlsHave DEF Asked
  <2>3. Observes(url, obs')
    BY <1>2, <2>1, <2>2 DEF Arrives, Observes, Observers
  <2> QED BY <1>2, <2>3 DEF Arrives, PagesInv
<1>3. CASE Fails
  <2>1. Observes(url, obs')
    BY <1>1, <1>3 DEF Fails, Observes, Observers
  <2> QED BY <1>3, <2>1 DEF Fails, PagesInv
<1>4. CASE Refetch
  <2>1. Observes(url, obs')
    BY <1>1, <1>4 DEF Refetch, Observes, Observers, Asked
  <2> QED BY <1>4, <2>1 DEF Refetch, PagesInv
<1> QED BY <1>2, <1>3, <1>4

LEMMA PagesStep == PagesInv /\ [Next]_vars => PagesInv'
<1> SUFFICES ASSUME PagesInv, [Next]_vars PROVE PagesInv'
  OBVIOUS
<1>1. ASSUME OnThePage PROVE PagesInv'
  <2>1. ASSUME NEW p \in Offered(Page, Pages), SetGridPage(p) \/ GoToPage(p) PROVE PagesInv'
    BY <2>1, SetGridPageKeeps, GoToPageKeeps
  <2>2. ASSUME NEW w \in SearchWords, SubmitSearch(w) PROVE PagesInv'
    BY <2>2, OpenKeeps DEF SubmitSearch, NewSearch
  <2>3. ASSUME NEW w \in Words, HeaderSearch(w) PROVE PagesInv'
    BY <2>3, OpenKeeps DEF HeaderSearch, SearchWords
  <2> QED BY <1>1, <2>1, <2>2, <2>3, FilterSteps, OpenKeeps, AnswersKeep DEF OnThePage
<1>2. ASSUME UNCHANGED browseVars PROVE PagesInv'
  BY <1>2 DEF browseVars, PagesInv
<1>3. ASSUME MenuLink PROVE PagesInv'
  BY <1>3, OpenKeeps DEF MenuLink
<1> QED BY <1>1, <1>2, <1>3 DEF Next, vars

LEMMA PagesHold == Spec => []PagesInv
<1>1. Init => PagesInv
  <2> SUFFICES ASSUME Init PROVE PagesInv
    OBVIOUS
  <2>1. url = Elsewhere /\ obs = NoObserver /\ gridPage = 1 /\ strayed = FALSE
    BY DEF Init
  <2>2. Observes(url, obs)
    BY <2>1 DEF Observes, Observers, NoObserver
  <2>3. HasPage(url, gridPage)
    BY <2>1 DEF HasPage, Elsewhere
  <2>4. 1 \in 1..TotalPages(CATEGORY_PAGE_SIZE, GRID_PAGE_SIZE)
    <3>1. CATEGORY_PAGE_SIZE \in Nat /\ GRID_PAGE_SIZE \in Positive
      BY SizesArePositive DEF Positive
    <3>2. TotalPages(CATEGORY_PAGE_SIZE, GRID_PAGE_SIZE) \in Positive
      BY <3>1, PageCount
    <3> QED BY <3>2 DEF Positive
  <2> QED BY <2>1, <2>2, <2>3, <2>4, UrlsHave DEF PagesInv
<1> QED BY <1>1, PagesStep, PTL DEF Spec

\* Every address the tab is at, every listing on show and every page number is of
\* its kind: a pager of one listing never turns the grid beyond the pages the
\* largest listing can have (Category.tsx:17-20, Pager.tsx:13-60).
THEOREM BrowseTypeCorrect == Spec => []TypeOK
<1>1. NavInv /\ PagesInv => TypeOK
  BY DEF NavInv, PagesInv, Observes, Observers, TypeOK
<1> QED BY <1>1, NavHolds, PagesHold, PTL

\* The numbers of the pager run from the first page to the last, with the shown one
\* and those beside it, and a gap stands where pages are left out and nowhere else,
\* for every number of pages (Pager.tsx:11-27).
THEOREM PagerNumbersAreRight == Spec => []PagerTellsWhere
<1>1. PagesInv => PagerTellsWhere
  <2> SUFFICES ASSUME PagesInv, Settled, ~strayed, View = "grid", Pages > 1 PROVE PagerTellsWhere
    BY DEF PagerTellsWhere
  <2>1. url \in Urls /\ HasPage(url, gridPage) /\ url # Elsewhere
    BY DEF PagesInv, Observes, Settled
  <2>2. Pages \in Positive
    BY <2>1, FoundIs
  <2>3. Page \in 1..Pages
    <3>1. CASE url.at = "category"
      <4>1. gridPage <= Pages /\ Page = gridPage
        BY <2>1, <3>1, FoundIs DEF HasPage, Page
      <4>2. gridPage \in Nat /\ gridPage >= 1
        BY DEF PagesInv
      <4> QED BY <2>2, <4>1, <4>2 DEF Positive
    <3>2. CASE url.at # "category"
      <4>1. url.at = "search" /\ url.page \in Positive /\ Page = url.page
        BY <2>1, <3>2, UrlFields DEF Page
      <4>2. url.page <= Pages
        BY <2>1, <4>1, FoundIs DEF HasPage
      <4> QED BY <2>2, <4>1, <4>2 DEF Positive
    <3> QED BY <3>1, <3>2
  <2> DEFINE w == Window(Page, Pages)
             p == Page
             total == Pages
  <2>4. p \in Positive /\ total \in Positive
    BY <2>2, <2>3 DEF Positive
  <2> HIDE DEF p, total
  <2>5. w = Window(p, total)
    BY DEF p, total
  <2> HIDE DEF w
  <2>6. /\ w[1] = 1 /\ w[Len(w)] = total
        /\ (p - 1 .. p + 1) \cap 1..total \subseteq ToSet(w)
        /\ \A i \in 1..Len(w) : w[i] = Gap => i > 1 /\ i < Len(w) /\ w[i + 1] - w[i - 1] > 1
        /\ \A i \in 2..Len(w) : w[i - 1] # Gap /\ w[i] # Gap => w[i] = w[i - 1] + 1
    BY <2>4, <2>5, WindowTells
  <2>7. Gap \notin 1..total
    BY DEF Gap
  <2>8. \A i \in 2..Len(w) : {w[i - 1], w[i]} \subseteq 1..total => w[i] = w[i - 1] + 1
    BY <2>6, <2>7
  <2> QED BY <2>3, <2>6, <2>8 DEF PagerTellsWhere, w, p, total
<1> QED BY <1>1, PagesHold, PTL

-----------------------------------------------------------------------------
(* What is on the pages, against what the address asks for.                *)

\* A cut of a list in the shop's order holds the products of the ranks cut out.
LEMMA CutByRank ==
  ASSUME NEW S \in SUBSET Products, NEW l \in Seq(Products), ToSet(l) = S, Increasing(Shelf, l),
         NEW a \in Nat, NEW n \in Positive
  PROVE  \A p : p \in ToSet(Cut(l, a, n)) <=> p \in S /\ Rank(p, S) \in a .. a + n - 1
<1>0. n \in Nat
  BY DEF Positive
<1>1. \A p : p \in ToSet(Cut(l, a, n)) <=> \E i \in DOMAIN l : a < i /\ i <= a + n /\ l[i] = p
  BY <1>0, CutIs
<1>2. DOMAIN l = 1..Len(l) /\ Len(l) \in Nat
  BY LenProperties
<1>3. ASSUME NEW i \in DOMAIN l
      PROVE  l[i] \in S /\ (Rank(l[i], S) \in a .. a + n - 1 <=> a < i /\ i <= a + n)
  <2>1. Rank(l[i], S) = i - 1
    BY RankIs
  <2>2. l[i] \in S
    BY DEF ToSet
  <2> QED BY <1>2, <2>1, <2>2 DEF Positive
<1>4. \A p \in S : \E i \in DOMAIN l : l[i] = p
  BY <1>2 DEF ToSet
<1> QED BY <1>1, <1>3, <1>4

\* Numbers of pages that fit lead to the place their page begins at.
LEMMA SearchStart ==
  ASSUME NEW u \in Urls, u.at = "search", (u.page - 1) * PER_PAGE < Half, u.page < Half \/ u.page = 1
  PROVE  StartOf(Filter(Query(u))) = (u.page - 1) * PER_PAGE /\ (u.page - 1) * PER_PAGE \in Nat
<1>1. u.page \in Positive /\ SizeOf(u) = PER_PAGE /\ PER_PAGE \in Positive
  BY UrlFields, SizesArePositive DEF SizeOf
<1>2. PageOf(Filter(Query(u))) = u.page /\ Filter(Query(u)).perPage = PER_PAGE
  BY <1>1, QueryAsks
<1>3. (u.page - 1) * PER_PAGE \in Nat
  BY <1>1 DEF Positive
<1> DEFINE m == (u.page - 1) * PER_PAGE
<1>4. StartOf(Filter(Query(u))) = Wrap(m)
  BY <1>2 DEF StartOf, Start
<1> HIDE DEF m
<1>5. Wrap(m) = m
  BY <1>3, WrapFits DEF m
<1> QED BY <1>3, <1>4, <1>5 DEF m

\* The listing of a search address whose number fits.
LEMMA SearchListing ==
  ASSUME NEW u \in Urls, u.at = "search", (u.page - 1) * PER_PAGE < Half, u.page < Half \/ u.page = 1
  PROVE  \E l \in Seq(Products) :
           /\ ToSet(l) = HitsOf(u.q) /\ Len(l) = Cardinality(HitsOf(u.q)) /\ Increasing(Shelf, l)
           /\ Answer(Query(u)).products = Cut(l, (u.page - 1) * PER_PAGE, PER_PAGE)
           /\ Answer(Query(u)).total = Cardinality(HitsOf(u.q))
<1> DEFINE f == Filter(Query(u))
           a == (u.page - 1) * PER_PAGE
<1>1. Asks(f) /\ f.perPage = PER_PAGE
  BY QueryAsks DEF SizeOf
<1>2. StartOf(f) = a /\ a \in Nat
  BY SearchStart
<1>3. Matching(f) = HitsOf(u.q)
  BY SearchMatches
<1>4. Answer(Query(u)) = ListPaged(f)
  BY DEF Answer
<1> HIDE DEF f, a
<1>5. /\ ListPaged(f).total = Cardinality(Matching(f))
      /\ ListPaged(f).products = Cut(List(f), a, PER_PAGE)
  BY <1>1, <1>2, ListPagedIs
<1>6. /\ List(f) \in Seq(Products) /\ Len(List(f)) = Cardinality(Matching(f))
      /\ ToSet(List(f)) = Matching(f) /\ Increasing(Shelf, List(f))
  BY ListIs
<1> QED BY <1>3, <1>4, <1>5, <1>6 DEF a

LEMMA HitsAreHitsOf == Hits = HitsOf(url.q)
BY DEF Hits, HitsOf

\* A settled search page shows exactly the products of its ranks in the result,
\* and the total beside it is the size of the result, as long as the number of the
\* page fits the service's integers (store.go:127-148, Search.tsx:14-43).
THEOREM SearchPagesAreExact == Spec => []SearchExact
<1>1. PagesInv => SearchExact
  <2> SUFFICES ASSUME PagesInv, url.at = "search", Settled, Fits
               PROVE  /\ ToSet(Found) = {p \in Hits : Rank(p, Hits) \in (url.page - 1) * PER_PAGE .. url.page * PER_PAGE - 1}
                      /\ Data.total = Cardinality(Hits)
    BY DEF SearchExact
  <2> DEFINE a == (url.page - 1) * PER_PAGE
  <2>1. url \in Urls /\ url # Elsewhere /\ Data = Answer(Query(url)) /\ Found = Data.products
    <3>1. url \in Urls /\ url # Elsewhere
      BY DEF PagesInv, Elsewhere
    <3>2. Data = Answer(Query(url))
      BY <3>1, DataIs
    <3> QED BY <3>1, <3>2 DEF Found
  <2>2. url.page \in Positive /\ PER_PAGE \in Positive /\ Half \in Positive
    BY <2>1, UrlFields, SizesArePositive
  <2>3. a \in 0..(Half - 1) /\ url.page \in 0..(Half - 1)
    BY DEF Fits
  <2>4. a < Half /\ url.page < Half /\ a \in Nat
    BY <2>2, <2>3 DEF Positive
  <2>5. PICK l \in Seq(Products) :
          /\ ToSet(l) = HitsOf(url.q) /\ Increasing(Shelf, l)
          /\ Answer(Query(url)).products = Cut(l, a, PER_PAGE)
          /\ Answer(Query(url)).total = Cardinality(HitsOf(url.q))
    BY <2>1, <2>4, SearchListing
  <2>6. a + PER_PAGE - 1 = url.page * PER_PAGE - 1
    BY <2>2 DEF Positive
  <2> HIDE DEF a
  <2>7. HitsOf(url.q) \in SUBSET Products
    BY DEF HitsOf
  <2> DEFINE H == HitsOf(url.q)
  <2> HIDE DEF H
  <2>8. \A p : p \in ToSet(Found) <=> p \in H /\ Rank(p, H) \in a .. a + PER_PAGE - 1
    <3>1. Found = Cut(l, a, PER_PAGE)
      BY <2>1, <2>5
    <3>2. H \in SUBSET Products /\ ToSet(l) = H
      BY <2>5, <2>7 DEF H
    <3> QED BY <2>2, <2>4, <2>5, <3>1, <3>2, CutByRank
  <2> QED BY <2>1, <2>5, <2>6, <2>8, HitsAreHitsOf DEF a, H
<1> QED BY <1>1, PagesHold, PTL

LEMMA SliceCuts ==
  ASSUME NEW s \in Seq(Products), NEW n \in Positive
  PROVE  Slice(s, n) = Cut(s, (n - 1) * GRID_PAGE_SIZE, GRID_PAGE_SIZE) /\ (n - 1) * GRID_PAGE_SIZE \in Nat
<1>1. GRID_PAGE_SIZE \in Positive
  BY SizesArePositive
<1>2. \A g \in Positive : (n - 1) * g + g = n * g /\ (n - 1) * g \in Nat
  BY DEF Positive
<1>3. (n - 1) * GRID_PAGE_SIZE + GRID_PAGE_SIZE = n * GRID_PAGE_SIZE
  BY <1>1, <1>2
<1> QED BY <1>1, <1>2, <1>3 DEF Slice, Cut

\* A settled page says that nothing matches only if nothing does, and shows
\* something where it shows a grid, for page numbers that come from the pager of
\* the listing on show (Search.tsx:31, Category.tsx:82). A number beyond the
\* service's integers would begin the listing anew; no pager has one.
THEOREM NothingIsNothing == Spec => []NothingMeansNothing
<1>1. ASSUME PagesInv, Settled, ~strayed, url.at = "search", View = "empty" PROVE Hits = {}
  <2> DEFINE H == HitsOf(url.q)
             a == (url.page - 1) * PER_PAGE
  <2>1. url \in Urls /\ url # Elsewhere /\ url.page <= TotalPages(Cardinality(H), PER_PAGE)
    BY <1>1 DEF PagesInv, Elsewhere, HasPage
  <2>2. url.page \in Positive /\ PER_PAGE \in Positive /\ Half \in Positive
    BY <2>1, UrlFields, SizesArePositive
  <2>3. IsFiniteSet(H) /\ Cardinality(H) \in Nat /\ Cardinality(H) < Half
    BY MatchingSize DEF HitsOf
  <2>4. Answer(Query(url)).products = <<>>
    <3>1. Found = <<>>
      BY <1>1 DEF View, Settled
    <3>2. Data = Answer(Query(url))
      BY <1>1, <2>1, DataIs
    <3> QED BY <1>1, <3>1, <3>2 DEF Found
  <2>5. url.page = 1 \/ a < Cardinality(H)
    BY <2>1, <2>2, <2>3, PageCount
  <2>6. a \in Nat /\ (url.page = 1 => a = 0) /\ url.page - 1 <= a
    BY <2>2 DEF Positive
  <2> HIDE DEF a, H
  <2>7. a < Half /\ (url.page < Half \/ url.page = 1)
    BY <2>2, <2>3, <2>5, <2>6 DEF Positive
  <2>8. PICK l \in Seq(Products) : Len(l) = Cardinality(H) /\ Cut(l, a, PER_PAGE) = <<>>
    BY <1>1, <2>1, <2>4, <2>7, SearchListing DEF a, H
  <2>9. Len(l) <= a
    BY <2>2, <2>6, <2>8, CutIs DEF Positive
  <2>10. Cardinality(H) = 0
    BY <2>2, <2>3, <2>5, <2>6, <2>8, <2>9 DEF Positive
  <2>11. H = {}
    BY <2>3, <2>10, FS_EmptySet
  <2> QED BY <2>11, HitsAreHitsOf DEF H
<1>2. ASSUME PagesInv, Settled, ~strayed, View = "grid" PROVE Grid(Page) # <<>>
  <2>1. url \in Urls /\ url # Elsewhere /\ HasPage(url, gridPage)
    BY <1>2 DEF PagesInv, Observes, Settled
  <2>2. Found # <<>>
    BY <1>2 DEF View, Settled
  <2>3. CASE url.at # "category"
    BY <2>2, <2>3 DEF Grid
  <2>4. CASE url.at = "category"
    <3>1. Found \in Seq(Products) /\ Len(Found) \in Nat /\ Found = FoundAt(url)
      BY <1>2, <2>1, <2>4, FoundIs
    <3>2. gridPage \in Positive /\ gridPage <= TotalPages(Len(Found), GRID_PAGE_SIZE)
      BY <1>2, <2>1, <2>4, <3>1 DEF PagesInv, HasPage, Positive
    <3>3. GRID_PAGE_SIZE \in Positive
      BY SizesArePositive
    <3> DEFINE a == (gridPage - 1) * GRID_PAGE_SIZE
    <3>4. gridPage = 1 \/ a < Len(Found)
      BY <3>1, <3>2, <3>3, PageCount
    <3>5. a \in Nat /\ (gridPage = 1 => a = 0)
      BY <3>2, <3>3 DEF Positive
    <3>6. Grid(Page) = Cut(Found, a, GRID_PAGE_SIZE)
      BY <2>4, <3>1, <3>2, SliceCuts DEF Grid, Page
    <3> HIDE DEF a
    <3>7. Len(Found) > 0
      BY <2>2, <3>1, EmptySeq
    <3>8. ~(Len(Found) <= a)
      BY <3>1, <3>4, <3>5, <3>7
    <3> QED BY <3>1, <3>3, <3>5, <3>6, <3>8, CutIs DEF Positive
  <2> QED BY <2>3, <2>4
<1>3. PagesInv => NothingMeansNothing
  BY <1>1, <1>2 DEF NothingMeansNothing
<1> QED BY <1>3, PagesHold, PTL

\* The request of a category page matches what its address asks for, by the price
\* and the sale sign on the cards.
LEMMA CategoryMatches ==
  ASSUME url \in Urls, url.at = "category", Fits
  PROVE  Matching(Filter(Query(url))) = InCategory
<1> DEFINE f == Filter(Query(url))
<1>1. url.min \in Nat /\ url.max \in Nat /\ url.q = Unset /\ url.slug \in Slugs /\ Half \in Positive
  BY UrlFields, SizesArePositive
<1>2. ASSUME NEW n \in Nat, n * 100 \in 0..(Half - 1) PROVE AtoiDollars(n) = n * 100
  <2>1. n < Half /\ n * 100 < Half /\ n * 100 \in Nat
    BY <1>1, <1>2 DEF Positive
  <2>2. Atoi(n) = n
    BY <2>1 DEF Atoi
  <2>3. Wrap(n * 100) = n * 100
    BY <2>1, WrapFits
  <2> QED BY <2>2, <2>3 DEF AtoiDollars
<1>3. url.min * 100 \in 0..(Half - 1) /\ url.max * 100 \in 0..(Half - 1)
  BY DEF Fits
<1>4. AtoiDollars(url.min) = url.min * 100 /\ AtoiDollars(url.max) = url.max * 100
  BY <1>1, <1>2, <1>3
<1>5. /\ f.category = url.slug /\ f.kind = Unset /\ f.brand = Unset /\ f.q = Unset
      /\ f.min = url.min * 100 /\ f.max = url.max * 100 /\ f.onSale = url.sale /\ f.featured = FALSE
  BY <1>1, <1>4 DEF Filter, Query
<1>6. url.slug # Unset
  BY <1>1, BrowseConstants
<1> HIDE DEF f
<1>7. \A p \in Products : Price(p) = effectiveCents(p) /\ (OnSale(p) <=> isOnSale(p))
  BY DEF Price, effectiveCents, OnSale, isOnSale
<1>8. (url.min * 100 > 0 <=> url.min > 0) /\ (url.max * 100 > 0 <=> url.max > 0)
  BY <1>1
<1>9. ASSUME NEW p \in Products
      PROVE  Matches(p, f) <=> p.category = url.slug /\ InRange(p) /\ (url.sale => isOnSale(p))
  BY <1>5, <1>6, <1>7, <1>8 DEF Matches, InRange
<1> QED BY <1>9 DEF Matching, InCategory, f

\* The pages of a category's grid are together the products the address asks for,
\* each on one page, in the shop's order, and the number beside a brand is how many
\* products choosing it leaves, as long as one request holds the category and
\* the prices fit the service's integers (Category.tsx:11-15, store.go:127-148).
THEOREM CategoryPagesAreExact == Spec => []CategoryExact
<1>1. PagesInv => CategoryExact
  <2> DEFINE want == {p \in InCategory : url.brands = {} \/ p.brand \in url.brands}
  <2> SUFFICES ASSUME PagesInv, url.at = "category", Settled, Fits,
                      Cardinality(InCategory) <= CATEGORY_PAGE_SIZE
               PROVE  /\ \A p \in want : \A n \in 1..Pages :
                           p \in ToSet(Grid(n)) <=>
                             Rank(p, want) \in (n - 1) * GRID_PAGE_SIZE .. n * GRID_PAGE_SIZE - 1
                      /\ \A n \in 1..Pages : ToSet(Grid(n)) \subseteq want
                      /\ \A b \in Brands : BrandCount(b) = Cardinality({p \in InCategory : p.brand = b})
    BY DEF CategoryExact
  <2> DEFINE f == Filter(Query(url))
             l == List(f)
  <2>1. url \in Urls /\ url # Elsewhere /\ Asks(f) /\ f.perPage = CATEGORY_PAGE_SIZE /\ CATEGORY_PAGE_SIZE \in Nat
    <3>1. url \in Urls /\ url # Elsewhere
      BY DEF PagesInv, Elsewhere
    <3> QED BY <3>1, QueryAsks, SizesArePositive DEF SizeOf, Positive
  <2>2. StartOf(f) = 0
    BY <2>1, CategoryStart
  <2>3. Matching(f) = InCategory
    BY <2>1, CategoryMatches
  <2>4. Data = ListPaged(f)
    BY <2>1, DataIs DEF Answer
  <2> HIDE DEF f
  <2>5. /\ l \in Seq(Products) /\ Len(l) = Cardinality(InCategory) /\ ToSet(l) = InCategory
        /\ Increasing(Shelf, l) /\ \A i, j \in DOMAIN l : l[i] = l[j] => i = j
    BY <2>3, ListIs
  <2>6. Data.products = l
    <3>1. Data.products = Cut(l, 0, CATEGORY_PAGE_SIZE)
      BY <2>1, <2>2, <2>4, ListPagedIs
    <3> HIDE DEF l
    <3>2. ASSUME NEW s \in Seq(Products), NEW m \in Nat, Len(s) <= m PROVE Cut(s, 0, m) = s
      BY <3>2, CutIs
    <3>3. Len(l) <= CATEGORY_PAGE_SIZE
      BY <2>5
    <3> QED BY <2>1, <2>5, <3>1, <3>2, <3>3
  <2> HIDE DEF l
  <2>7. ASSUME NEW b \in Brands PROVE BrandCount(b) = Cardinality({p \in InCategory : p.brand = b})
    <3> DEFINE T == {p \in Products : p.brand = b}
    <3>1. BrandCount(b) = Len(OnlyIn(l, T))
      BY <2>6 DEF BrandCount
    <3>2. InCategory \cap T = {p \in InCategory : p.brand = b}
      BY DEF InCategory
    <3> HIDE DEF T
    <3>3. Len(OnlyIn(l, T)) = Cardinality(InCategory \cap T)
      BY <2>5, OnlyInIs
    <3> QED BY <3>1, <3>2, <3>3
  <2>8. Found \in Seq(Products) /\ ToSet(Found) = want /\ Increasing(Shelf, Found) /\ want \in SUBSET Products
    <3> DEFINE T == {p \in Products : InBrands(p)}
    <3>1. Found = OnlyIn(l, T)
      BY <2>6 DEF Found
    <3>2. InCategory \cap T = want /\ want \in SUBSET Products
      BY DEF InCategory, InBrands
    <3> HIDE DEF T, want
    <3>3. OnlyIn(l, T) \in Seq(Products) /\ ToSet(OnlyIn(l, T)) = InCategory \cap T
      BY <2>5, OnlyInIs
    <3>4. Increasing(Shelf, OnlyIn(l, T))
      BY <2>5, OnlyInIs
    <3> QED BY <3>1, <3>2, <3>3, <3>4
  <2> HIDE DEF want
  <2>9. Pages \in Positive /\ GRID_PAGE_SIZE \in Positive
    BY <2>1, FoundIs, SizesArePositive
  <2>10. ASSUME NEW n \in 1..Pages
         PROVE  \A p : p \in ToSet(Grid(n)) <=>
                  p \in want /\ Rank(p, want) \in (n - 1) * GRID_PAGE_SIZE .. n * GRID_PAGE_SIZE - 1
    <3> DEFINE a == (n - 1) * GRID_PAGE_SIZE
    <3>1. n \in Positive
      BY <2>9 DEF Positive
    <3>2. Grid(n) = Cut(Found, a, GRID_PAGE_SIZE) /\ a \in Nat
      BY <2>8, <3>1, SliceCuts DEF Grid
    <3>3. a + GRID_PAGE_SIZE - 1 = n * GRID_PAGE_SIZE - 1
      BY <2>9, <3>1 DEF Positive
    <3> HIDE DEF a
    <3>4. \A p : p \in ToSet(Grid(n)) <=> p \in want /\ Rank(p, want) \in a .. a + GRID_PAGE_SIZE - 1
      BY <2>8, <2>9, <3>2, CutByRank
    <3> QED BY <3>3, <3>4 DEF a
  <2> QED BY <2>7, <2>10
<1> QED BY <1>1, PagesHold, PTL

====
