----------------------------- MODULE PageProofs -----------------------------
(***************************************************************************)
(* Facts about the least and the greatest of a set of ids and about pages, *)
(* which the proofs about the stores, the webhooks and the streams share.  *)
(***************************************************************************)
EXTENDS Pages, FiniteSetTheorems, SequenceTheorems, TLAPS

\* Min() finds the least of a set of ids.
LEMMA MinIsLeast ==
    ASSUME NEW S \in SUBSET Nat, S # {}
    PROVE  Min(S) \in S /\ \A x \in S : Min(S) <= x
<1> DEFINE R == {ss \in Nat \X Nat : ss[1] < ss[2]}
<1>1. IsWellFoundedOn(R, Nat)
  <2>1. OpToRel(<, Nat) = R
    BY DEF OpToRel
  <2>2. QED
    BY <2>1, NatLessThanWellFounded, Zenon
<1>2. PICK m \in S : \A x \in S : <<x, m>> \notin R
  <2> HIDE DEF R
  <2>1. QED
    BY <1>1, WFMin
<1>3. ASSUME NEW x \in S PROVE m <= x
  <2>1. <<x, m>> \in Nat \X Nat /\ ~(<<x, m>>[1] < <<x, m>>[2])
    BY <1>2
  <2>2. QED
    BY <2>1
<1>4. QED
  BY <1>3 DEF Min

\* Max() finds the greatest of a bounded set of ids, which is its least upper bound.
LEMMA MaxIsGreatest ==
    ASSUME NEW S \in SUBSET Nat, S # {}, NEW bound \in Nat, \A x \in S : x <= bound
    PROVE  Max(S) \in S /\ \A x \in S : x <= Max(S)
<1> DEFINE U == {u \in Nat : \A x \in S : x <= u}
<1>1. bound \in U
  OBVIOUS
<1>2. Min(U) \in U /\ \A u \in U : Min(U) <= u
  <2>1. U \in SUBSET Nat /\ U # {}
    BY <1>1
  <2> HIDE DEF U
  <2>2. QED
    BY <2>1, MinIsLeast
<1> DEFINE u == Min(U)
<1> HIDE DEF u
<1>3. u \in Nat /\ (\A x \in S : x <= u) /\ (\A v \in Nat : (\A x \in S : x <= v) => u <= v)
  BY <1>2 DEF u
<1>4. u \in S
  <2>1. SUFFICES ASSUME u \notin S PROVE FALSE
    OBVIOUS
  <2>2. \A x \in S : x < u /\ x <= u - 1
    BY <1>3, <2>1
  <2>3. PICK x \in S : TRUE
    OBVIOUS
  <2>4. u - 1 \in Nat
    BY <1>3, <2>2, <2>3
  <2>5. u <= u - 1
    BY <1>3, <2>2, <2>4
  <2>6. QED
    BY <1>3, <2>5
<1>5. QED
  BY <1>3, <1>4 DEF Max

\* Of two numbers, the least and the greatest.
LEMMA OfTwo ==
    ASSUME NEW a \in Nat, NEW b \in Nat
    PROVE  /\ Min({a, b}) = (IF a <= b THEN a ELSE b)
           /\ Max({a, b}) = (IF a <= b THEN b ELSE a)
<1> DEFINE both == {a, b}
           sum == a + b
<1>1. /\ both \in SUBSET Nat /\ both # {} /\ sum \in Nat /\ \A x \in both : x <= sum
  OBVIOUS
<1> HIDE DEF both, sum
<1>2. Min(both) \in both /\ \A x \in both : Min(both) <= x
  BY <1>1, MinIsLeast
<1>3. Max(both) \in both /\ \A x \in both : x <= Max(both)
  BY <1>1, MaxIsGreatest
<1>4. QED
  BY <1>2, <1>3 DEF both

\* The newest of a bounded set of events: 0, or a member that none exceeds.
LEMMA NewestIsGreatest ==
    ASSUME NEW S \in SUBSET Nat, NEW bound \in Nat, \A x \in S : x <= bound
    PROVE  NewestOf(S) \in S \cup {0} /\ \A x \in S : x <= NewestOf(S)
  BY MaxIsGreatest DEF NewestOf

\* A page is in order, holds at most n events, leaves out none that comes before one
\* it holds, and none at all if there are no more than n.
LEMMA FirstOfIsFirst ==
    ASSUME NEW S \in SUBSET Nat, IsFiniteSet(S), NEW list \in Ascending(S), NEW n \in Nat \ {0},
           NEW page, page = FirstOf(list, n)
    PROVE  /\ page \in Seq(S) /\ Len(page) <= n /\ Len(list) \in Nat
           /\ S # {} => page # <<>>
           /\ \A i, j \in DOMAIN page : i < j => page[i] < page[j]
           /\ \A e \in S : \A i \in DOMAIN page : e <= page[i] => \E j \in DOMAIN page : page[j] = e
           /\ ~(Len(list) > n) => \A e \in S : \E j \in DOMAIN page : page[j] = e
<1> DEFINE c == Cardinality(S)
           len == IF c < n THEN c ELSE n
<1>1. c \in Nat
  BY FS_CardinalityType
<1> HIDE DEF c
<1>2. /\ list \in [1..c -> S]
      /\ \A e \in S : \E j \in 1..c : list[j] = e
      /\ \A i, j \in 1..c : i < j => list[i] < list[j]
  BY DEF Ascending, Range, c
<1>3. list \in Seq(S) /\ Len(list) = c
  BY <1>1, <1>2
<1>4. len \in 0..c /\ len <= n /\ (c <= n => len = c) /\ (c # 0 => len # 0)
  BY <1>1
<1>5. page = SubSeq(list, 1, len)
  BY <1>3 DEF FirstOf
<1> HIDE DEF len
<1>6. page \in Seq(S) /\ Len(page) = len /\ \A i \in 1..len : page[i] = list[i]
  BY <1>1, <1>3, <1>4, <1>5
<1>7. DOMAIN page = 1..len
  BY <1>6
<1>8. \A i, j \in 1..len : i < j => page[i] < page[j]
  BY <1>1, <1>2, <1>4, <1>6
<1>9. ASSUME NEW e \in S, NEW i \in 1..len, e <= page[i] PROVE \E j \in 1..len : page[j] = e
  <2>1. PICK j \in 1..c : list[j] = e
    BY <1>2
  <2>2. i \in 1..c /\ list[i] = page[i]
    BY <1>1, <1>4, <1>6
  <2>3. ~(i < j)
    <3>1. SUFFICES ASSUME i < j PROVE FALSE
      OBVIOUS
    <3>2. list[i] < list[j] /\ list[j] <= list[i] /\ list[i] \in Nat /\ list[j] \in Nat
      BY <1>2, <1>9, <2>1, <2>2, <3>1
    <3>3. QED
      BY <3>2
  <2>4. j \in 1..len
    BY <1>1, <1>4, <2>3
  <2>5. QED
    BY <1>6, <2>1, <2>4
<1>10. c <= n => \A e \in S : \E j \in 1..len : page[j] = e
  BY <1>2, <1>4, <1>6
<1>11. S # {} => page # <<>>
  <2>1. SUFFICES ASSUME NEW e \in S PROVE page # <<>>
    OBVIOUS
  <2>2. PICK j \in 1..c : list[j] = e
    BY <1>2
  <2>3. len # 0
    BY <1>1, <1>4, <2>2
  <2>4. QED
    BY <1>6, <2>3
<1>12. ~(Len(list) > n) => c <= n
  BY <1>1, <1>3
<1>13. QED
  BY <1>1, <1>3, <1>4, <1>6, <1>7, <1>8, <1>9, <1>10, <1>11, <1>12

\* A list of members of T that is a, and b behind it: the order within each is kept.
Behind(T, a, b, all) ==
    /\ all \in Seq(T) /\ Range(all) = Range(a) \cup Range(b)
    /\ \A j, k \in DOMAIN all : j < k =>
          \/ j \in DOMAIN a /\ k \in DOMAIN a /\ all[j] = a[j] /\ all[k] = a[k]
          \/ all[j] \in Range(a) /\ all[k] \in Range(b)
          \/ \E m, n \in DOMAIN b : m < n /\ all[j] = b[m] /\ all[k] = b[n]

\* What is put behind a list stays behind it.
LEMMA PutBehind ==
    ASSUME NEW T, NEW a \in Seq(T), NEW b \in Seq(T), NEW all, all = a \o b
    PROVE  Behind(T, a, b, all)
<1>1. /\ Len(a) \in Nat /\ DOMAIN a = 1..Len(a)
      /\ Len(b) \in Nat /\ DOMAIN b = 1..Len(b)
  OBVIOUS
<1>2. /\ all \in Seq(T) /\ Len(all) = Len(a) + Len(b)
      /\ \A i \in 1..(Len(a) + Len(b)) : all[i] = IF i <= Len(a) THEN a[i] ELSE b[i - Len(a)]
  BY ConcatProperties
<1>3. DOMAIN all = 1..(Len(a) + Len(b))
  BY <1>1, <1>2
<1>4. \A i \in DOMAIN a : i \in DOMAIN all /\ all[i] = a[i] /\ all[i] \in Range(a)
  BY <1>1, <1>2, <1>3 DEF Range
<1>5. \A i \in DOMAIN b : i + Len(a) \in DOMAIN all /\ all[i + Len(a)] = b[i]
  <2>1. SUFFICES ASSUME NEW i \in 1..Len(b) PROVE i + Len(a) \in DOMAIN all /\ all[i + Len(a)] = b[i]
    BY <1>1
  <2>2. /\ i + Len(a) \in 1..(Len(a) + Len(b)) /\ ~(i + Len(a) <= Len(a))
        /\ (i + Len(a)) - Len(a) = i
    BY <1>1
  <2>3. QED
    BY <1>2, <1>3, <2>2
<1>6. \A i \in DOMAIN all :
         \/ i \in DOMAIN a
         \/ i > Len(a) /\ i - Len(a) \in DOMAIN b /\ all[i] = b[i - Len(a)] /\ all[i] \in Range(b)
  <2>1. SUFFICES ASSUME NEW i \in DOMAIN all, i \notin DOMAIN a
                 PROVE  i > Len(a) /\ i - Len(a) \in DOMAIN b /\ all[i] = b[i - Len(a)] /\ all[i] \in Range(b)
    OBVIOUS
  <2>2. i > Len(a) /\ i - Len(a) \in DOMAIN b /\ all[i] = b[i - Len(a)]
    BY <1>1, <1>2, <1>3, <2>1
  <2>3. QED
    BY <2>2 DEF Range
<1>7. Range(all) = Range(a) \cup Range(b)
  <2>1. ASSUME NEW x \in Range(all) PROVE x \in Range(a) \cup Range(b)
    <3>1. PICK i \in DOMAIN all : all[i] = x
      BY <2>1 DEF Range
    <3>2. QED
      BY <1>4, <1>6, <3>1
  <2>2. ASSUME NEW x \in Range(a) PROVE x \in Range(all)
    <3>1. PICK i \in DOMAIN a : a[i] = x
      BY <2>2 DEF Range
    <3>2. QED
      BY <1>4, <3>1 DEF Range
  <2>3. ASSUME NEW x \in Range(b) PROVE x \in Range(all)
    <3>1. PICK i \in DOMAIN b : b[i] = x
      BY <2>3 DEF Range
    <3>2. QED
      BY <1>5, <3>1 DEF Range
  <2>4. QED
    BY <2>1, <2>2, <2>3
<1>8. ASSUME NEW j \in DOMAIN all, NEW k \in DOMAIN all, j < k
      PROVE  \/ j \in DOMAIN a /\ k \in DOMAIN a /\ all[j] = a[j] /\ all[k] = a[k]
             \/ all[j] \in Range(a) /\ all[k] \in Range(b)
             \/ \E m, n \in DOMAIN b : m < n /\ all[j] = b[m] /\ all[k] = b[n]
  <2>1. CASE k \in DOMAIN a
    <3>1. j \in DOMAIN a
      BY <1>1, <1>3, <1>8, <2>1
    <3>2. QED
      BY <1>4, <2>1, <3>1
  <2>2. CASE k \notin DOMAIN a
    <3>1. k > Len(a) /\ k - Len(a) \in DOMAIN b /\ all[k] = b[k - Len(a)] /\ all[k] \in Range(b)
      BY <1>6, <2>2
    <3>2. CASE j \in DOMAIN a
      BY <1>4, <3>1, <3>2
    <3>3. CASE j \notin DOMAIN a
      <4>1. j > Len(a) /\ j - Len(a) \in DOMAIN b /\ all[j] = b[j - Len(a)]
        BY <1>6, <3>3
      <4>2. j - Len(a) < k - Len(a)
        BY <1>1, <1>3, <1>8
      <4>3. QED
        BY <3>1, <4>1, <4>2
    <3>4. QED
      BY <3>2, <3>3
  <2>3. QED
    BY <2>1, <2>2
<1>9. QED
  BY <1>2, <1>7, <1>8 DEF Behind

\* A list of the members of a finite set is a sequence of them.
LEMMA ListIsSeq ==
    ASSUME NEW S, IsFiniteSet(S), NEW T, S \subseteq T, NEW list \in [1..Cardinality(S) -> S]
    PROVE  list \in Seq(T) /\ DOMAIN list = 1..Cardinality(S)
<1> DEFINE c == Cardinality(S)
<1>1. c \in Nat
  BY FS_CardinalityType
<1> HIDE DEF c
<1>2. list \in [1..c -> S]
  BY DEF c
<1>3. DOMAIN list = 1..c /\ \A i \in 1..c : list[i] \in T
  BY <1>2
<1>4. list = [i \in 1..c |-> list[i]]
  BY <1>2
<1>5. list \in [1..c -> T]
  BY <1>3, <1>4
<1>6. list \in Seq(T)
  BY <1>1, <1>5
<1>7. QED
  BY <1>3, <1>6 DEF c
=============================================================================
