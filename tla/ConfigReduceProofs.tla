------------------------- MODULE ConfigReduceProofs -------------------------
(***************************************************************************)
(* How a configuration is resolved, filtered and reduced, for every set of *)
(* dimensions, conditions, keys and queries.                               *)
(***************************************************************************)
EXTENDS ConfigReduce, FiniteSetTheorems, WellFoundedInduction, TLAPS

-----------------------------------------------------------------------------
(* Orders *)

\* A set of numbers that is not empty has a least one.
LEMMA Least ==
  ASSUME NEW S, S \subseteq Nat, S # {}
  PROVE  \E m \in S : \A x \in S : m <= x
<1> DEFINE R == OpToRel(<, Nat)
<1>1. R = {ss \in Nat \X Nat : ss[1] < ss[2]}
  BY DEF OpToRel
<1>2. IsWellFoundedOn(R, Nat)
  BY NatLessThanWellFounded
<1> HIDE DEF R
<1>3. PICK m \in S : \A y \in S : <<y, m>> \notin R
  BY <1>2, WFMin
<1>4. ASSUME NEW x \in S
      PROVE  m <= x
  <2>1. x \in Nat /\ m \in Nat
    OBVIOUS
  <2>2. x < m => <<x, m>> \in R
    BY <1>1, <2>1
  <2>3. QED
    BY <1>3, <2>1, <2>2
<1>5. QED
  BY <1>4

\* A bounded set of numbers that is not empty has a greatest one.
LEMMA Greatest ==
  ASSUME NEW N \in Nat, NEW S, S \subseteq 0 .. N, S # {}
  PROVE  \E m \in S : \A x \in S : x <= m
<1> DEFINE T == {N - x : x \in S}
<1>1. T \subseteq Nat /\ T # {}
  <2>1. \A x \in S : x \in 0 .. N
    OBVIOUS
  <2>2. \A x \in S : N - x \in Nat
    BY <2>1
  <2>3. QED
    BY <2>2
<1>2. PICK t \in T : \A y \in T : t <= y
  BY <1>1, Least
<1>3. PICK m \in S : t = N - m
  OBVIOUS
<1>4. ASSUME NEW x \in S
      PROVE  x <= m
  <2>1. t <= N - x
    BY <1>2
  <2>2. QED
    BY <1>3, <2>1
<1>5. QED
  BY <1>4

\* R orders the elements of S.
Total(R, S) ==
  /\ \A i \in S : <<i, i>> \notin R
  /\ \A i, j \in S : i # j => <<i, j>> \in R \/ <<j, i>> \in R
  /\ \A i, j, k \in S : <<i, j>> \in R /\ <<j, k>> \in R => <<i, k>> \in R

\* o lists the elements of S in this order.
Lists(o, S, R) ==
  /\ o \in [1 .. Cardinality(S) -> S]
  /\ \A m, n \in 1 .. Cardinality(S) : m < n => <<o[m], o[n]>> \in R

\* A finite set has such a list: the place of an element is the number of those
\* before it.
LEMMA ListExists ==
  ASSUME NEW S, NEW R, IsFiniteSet(S), Total(R, S)
  PROVE  \E o : Lists(o, S, R)
<1> DEFINE below(k) == {j \in S : <<j, k>> \in R}
           N == Cardinality(S)
           c == [k \in S |-> Cardinality(below(k))]
           I == 1 .. N
<1>1. N \in Nat
  BY FS_CardinalityType
<1>2. ASSUME NEW k \in S
      PROVE  /\ IsFiniteSet(below(k)) /\ Cardinality(below(k)) \in Nat
             /\ Cardinality(below(k)) + 1 \in I
  <2>1. IsFiniteSet(below(k)) /\ Cardinality(below(k)) \in Nat /\ Cardinality(below(k)) <= N
    BY FS_Subset, FS_CardinalityType
  <2>2. below(k) # S
    BY DEF Total
  <2>3. Cardinality(below(k)) # N
    BY <2>2, FS_Subset
  <2>4. QED
    BY <1>1, <2>1, <2>3
<1>3. ASSUME NEW j \in S, NEW k \in S, <<j, k>> \in R
      PROVE  Cardinality(below(j)) < Cardinality(below(k))
  <2>1. below(j) \in SUBSET below(k) /\ j \in below(k) /\ j \notin below(j)
    BY <1>3 DEF Total
  <2>2. Cardinality(below(j)) <= Cardinality(below(k)) /\ Cardinality(below(j)) # Cardinality(below(k))
    BY <1>2, <2>1, FS_Subset
  <2>3. QED
    BY <1>2, <2>2
<1>4. /\ \A k \in S : c[k] \in Nat /\ c[k] + 1 \in I
      /\ \A j, k \in S : <<j, k>> \in R => c[j] < c[k]
  BY <1>2, <1>3
<1> HIDE DEF c
<1> DEFINE f == [k \in S |-> c[k] + 1]
<1>5. f \in Injection(S, I)
  <2>1. f \in [S -> I]
    BY <1>4
  <2>2. ASSUME NEW j \in S, NEW k \in S, j # k
        PROVE  f[j] # f[k]
    <3>1. <<j, k>> \in R \/ <<k, j>> \in R
      BY <2>2 DEF Total
    <3>2. c[j] < c[k] \/ c[k] < c[j]
      BY <1>4, <3>1
    <3>3. QED
      BY <1>4, <3>2
  <2>3. QED
    BY <2>1, <2>2 DEF Injection, IsInjective
<1>6. f \in Surjection(S, I)
  <2>1. IsFiniteSet(I) /\ Cardinality(I) = N
    BY <1>1, FS_Interval
  <2>2. QED
    BY <1>5, <2>1, FS_Injection
<1>7. \A n \in I : \E k \in S : c[k] + 1 = n
  BY <1>6 DEF Surjection
<1> DEFINE o == [n \in I |-> CHOOSE k \in S : c[k] + 1 = n]
<1>8. \A n \in I : o[n] \in S /\ c[o[n]] + 1 = n
  BY <1>7
<1>9. o \in [I -> S]
  BY <1>8
<1> HIDE DEF o, f
<1>10. ASSUME NEW m \in I, NEW n \in I, m < n
       PROVE  <<o[m], o[n]>> \in R
  <2>1. PICK a \in S, b \in S : a = o[m] /\ b = o[n]
    BY <1>8
  <2>2. c[a] + 1 = m /\ c[b] + 1 = n
    BY <1>8, <2>1
  <2>3. c[a] < c[b] /\ c[a] \in Nat /\ c[b] \in Nat
    BY <1>1, <1>4, <1>10, <2>2
  <2>4. a # b /\ <<b, a>> \notin R
    BY <1>4, <2>3
  <2>5. QED
    BY <2>1, <2>4 DEF Total
<1>11. Lists(o, S, R)
  BY <1>9, <1>10 DEF Lists
<1>12. QED
  BY <1>11

\* The list has every element, and R is the order of the places.
LEMMA ListIsomorphic ==
  ASSUME NEW S, NEW R, NEW o, IsFiniteSet(S), Total(R, S), Lists(o, S, R)
  PROVE  /\ \A i \in S : \E m \in 1 .. Cardinality(S) : o[m] = i
         /\ \A m, n \in 1 .. Cardinality(S) : <<o[m], o[n]>> \in R <=> m < n
         /\ \A m, n \in 1 .. Cardinality(S) : o[m] = o[n] => m = n
<1> DEFINE N == Cardinality(S)
           I == 1 .. N
<1>1. N \in Nat /\ o \in [I -> S] /\ \A m \in I : o[m] \in S
  BY FS_CardinalityType DEF Lists
<1>2. ASSUME NEW m \in I, NEW n \in I
      PROVE  /\ <<o[m], o[n]>> \in R <=> m < n
             /\ o[m] = o[n] => m = n
  <2>1. CASE m < n
    BY <1>1, <2>1 DEF Lists, Total
  <2>2. CASE n < m
    <3>1. <<o[n], o[m]>> \in R
      BY <2>2 DEF Lists
    <3>2. <<o[m], o[n]>> \notin R /\ o[m] # o[n]
      BY <1>1, <3>1 DEF Total
    <3>3. QED
      BY <1>1, <2>2, <3>2
  <2>3. CASE m = n
    BY <1>1, <2>3 DEF Total
  <2>4. QED
    BY <1>1, <2>1, <2>2, <2>3
<1>3. o \in Injection(I, S)
  BY <1>1, <1>2 DEF Injection, IsInjective
<1>4. IsFiniteSet(I) /\ Cardinality(I) = N
  BY <1>1, FS_Interval
<1>5. o \in Surjection(I, S)
  BY <1>3, <1>4, FS_Injection
<1>6. QED
  BY <1>2, <1>5 DEF Surjection

\* Sorted reads C along such a list.
LEMMA SortedList ==
  ASSUME NEW S, NEW R, IsFiniteSet(S), Total(R, S)
  PROVE  \E o : /\ Lists(o, S, R)
                /\ \A C : Sorted(C, S, R) = [n \in 1 .. Cardinality(S) |-> C[o[n]]]
<1> DEFINE P(o) == \A m, n \in DOMAIN o : m < n => <<o[m], o[n]>> \in R
           F == [1 .. Cardinality(S) -> S]
           order == CHOOSE o \in F : P(o)
<1>1. \E o \in F : P(o)
  <2>1. PICK o : Lists(o, S, R)
    BY ListExists
  <2>2. o \in F /\ DOMAIN o = 1 .. Cardinality(S)
    BY <2>1 DEF Lists
  <2>3. P(o)
    BY <2>1, <2>2 DEF Lists
  <2>4. QED
    BY <2>2, <2>3
<1>2. order \in F /\ P(order)
  BY <1>1
<1>3. DOMAIN order = 1 .. Cardinality(S)
  BY <1>2
<1>4. \A C : Sorted(C, S, R) = [n \in 1 .. Cardinality(S) |-> C[order[n]]]
  BY <1>3 DEF Sorted
<1> HIDE DEF order
<1>5. Lists(order, S, R)
  BY <1>2, <1>3 DEF Lists
<1>6. QED
  BY <1>4, <1>5
-----------------------------------------------------------------------------
(* Folding the overrides *)

\* The document after the context c.
After(doc, c, q, strategy) ==
  IF apply(c.condition, q) THEN Combine(doc, c.override, strategy) ELSE doc

\* g has the documents after 0 .. n contexts of C.
Folds(g, C, n, q, strategy) ==
  /\ g[0] = Empty
  /\ \A i \in 1 .. n : g[i] = After(g[i - 1], C[i], q, strategy)

\* There are such documents: with those after n - 1 contexts there is one more.
LEMMA FoldExists ==
  ASSUME NEW C, NEW q, NEW strategy, NEW N \in Nat
  PROVE  \E g : Folds(g, C, N, q, strategy)
<1> DEFINE Good(n) == \E g : Folds(g, C, n, q, strategy)
           S == {n \in Nat : ~Good(n)}
<1>1. SUFFICES ASSUME S # {}
               PROVE  FALSE
  OBVIOUS
<1>2. PICK m \in S : \A x \in S : m <= x
  BY <1>1, Least
<1>3. m # 0
  <2>1. Folds([i \in {0} |-> Empty], C, 0, q, strategy)
    BY DEF Folds
  <2>2. QED
    BY <2>1
<1>4. m - 1 \in Nat /\ m - 1 \notin S
  BY <1>2, <1>3
<1>5. PICK g : Folds(g, C, m - 1, q, strategy)
  BY <1>4
<1> DEFINE v == After(g[m - 1], C[m], q, strategy)
           h == [i \in 0 .. m |-> IF i = m THEN v ELSE g[i]]
<1> HIDE DEF v
<1>6. h[m] = v /\ h[0] = Empty /\ \A i \in 0 .. m - 1 : h[i] = g[i]
  BY <1>3, <1>4, <1>5 DEF Folds
<1> HIDE DEF h
<1>7. ASSUME NEW i \in 1 .. m
      PROVE  h[i] = After(h[i - 1], C[i], q, strategy)
  <2>1. CASE i = m
    <3>1. h[i - 1] = g[m - 1]
      BY <1>4, <1>6, <2>1
    <3>2. QED
      BY <1>6, <2>1, <3>1 DEF v
  <2>2. CASE i # m
    <3>1. i \in 1 .. m - 1 /\ i - 1 \in 0 .. m - 1 /\ i \in 0 .. m - 1
      BY <1>4, <2>2
    <3>2. QED
      BY <1>5, <1>6, <3>1 DEF Folds
  <2>3. QED
    BY <2>1, <2>2
<1>8. Good(m)
  BY <1>6, <1>7 DEF Folds
<1>9. QED
  BY <1>8

\* get_overrides gives the last of these documents.
LEMMA GetOverrides ==
  ASSUME NEW C, NEW q, NEW strategy, Len(C) \in Nat
  PROVE  \E g : Folds(g, C, Len(C), q, strategy) /\ get_overrides(C, q, strategy) = g[Len(C)]
<1> DEFINE N == 0 .. Len(C)
           Good(f) == f = [n \in N |->
                             IF n = 0 THEN Empty
                             ELSE IF apply(C[n].condition, q)
                                  THEN Combine(f[n - 1], C[n].override, strategy)
                             ELSE f[n - 1]]
           doc == CHOOSE f : Good(f)
<1>1. PICK g : Folds(g, C, Len(C), q, strategy)
  BY FoldExists
<1> DEFINE G == [n \in N |-> g[n]]
<1>2. Good(G)
  <2>1. ASSUME NEW n \in N
        PROVE  G[n] = IF n = 0 THEN Empty
                      ELSE IF apply(C[n].condition, q)
                           THEN Combine(G[n - 1], C[n].override, strategy)
                      ELSE G[n - 1]
    <3>1. CASE n = 0
      BY <1>1, <3>1 DEF Folds
    <3>2. CASE n # 0
      <4>1. n \in 1 .. Len(C) /\ n - 1 \in N
        BY <3>2
      <4>2. QED
        BY <1>1, <3>2, <4>1 DEF Folds, After
    <3>3. QED
      BY <3>1, <3>2
  <2>2. QED
    BY <2>1
<1>3. Good(doc)
  BY <1>2
<1>4. get_overrides(C, q, strategy) = doc[Len(C)]
  BY DEF get_overrides
<1> HIDE DEF doc
<1>5. Folds(doc, C, Len(C), q, strategy)
  <2>1. doc[0] = Empty
    BY <1>3
  <2>2. ASSUME NEW n \in 1 .. Len(C)
        PROVE  doc[n] = After(doc[n - 1], C[n], q, strategy)
    <3>1. n \in N /\ n # 0
      OBVIOUS
    <3>2. QED
      BY <1>3, <3>1 DEF After
  <2>3. QED
    BY <2>1, <2>2 DEF Folds
<1>6. QED
  BY <1>4, <1>5
-----------------------------------------------------------------------------
(* Filters *)

\* The length of a sequence that is given as a function.
LEMMA LenIs ==
  ASSUME NEW n \in Nat, NEW f, DOMAIN f = 1 .. n, f = [i \in 1 .. n |-> f[i]]
  PROVE  Len(f) = n /\ f \in Seq({f[i] : i \in 1 .. n})
  OBVIOUS

\* o lists M indices, those in S, from the first to the last.
Increasing(o, M, S) ==
  /\ M \in Nat
  /\ o \in [1 .. M -> S]
  /\ \A i \in S : \E m \in 1 .. M : o[m] = i
  /\ \A m, n \in 1 .. M : o[m] < o[n] <=> m < n
  /\ \A m, n \in 1 .. M : o[m] = o[n] => m = n

\* Kept reads C along an increasing list of the indices.
LEMMA KeptList ==
  ASSUME NEW N \in Nat, NEW S, S \subseteq 1 .. N
  PROVE  \E o, M : /\ Increasing(o, M, S)
                   /\ \A C : Kept(C, S) = [n \in 1 .. M |-> C[o[n]]]
                   /\ \A C : Len(Kept(C, S)) = M
<1> DEFINE R == {p \in S \X S : p[1] < p[2]}
           M == Cardinality(S)
<1>1. IsFiniteSet(S) /\ M \in Nat
  <2>1. IsFiniteSet(1 .. N) /\ S \in SUBSET (1 .. N)
    BY FS_Interval
  <2>2. IsFiniteSet(S)
    BY <2>1, FS_Subset
  <2>3. QED
    BY <2>2, FS_CardinalityType
<1>2. \A i, j \in S : <<i, j>> \in R <=> i < j
  OBVIOUS
<1>3. \A C : Kept(C, S) = Sorted(C, S, R)
  BY DEF Kept
<1> HIDE DEF R
<1>4. Total(R, S)
  <2>1. \A i \in S : i \in Int
    OBVIOUS
  <2>2. QED
    BY <1>2, <2>1 DEF Total
<1>5. PICK o : /\ Lists(o, S, R)
               /\ \A C : Sorted(C, S, R) = [n \in 1 .. M |-> C[o[n]]]
  BY <1>1, <1>4, SortedList
<1>6. o \in [1 .. M -> S] /\ \A m \in 1 .. M : o[m] \in S
  BY <1>5 DEF Lists
<1> HIDE DEF M
<1>7. /\ \A i \in S : \E m \in 1 .. M : o[m] = i
      /\ \A m, n \in 1 .. M : <<o[m], o[n]>> \in R <=> m < n
      /\ \A m, n \in 1 .. M : o[m] = o[n] => m = n
  BY <1>1, <1>4, <1>5, ListIsomorphic DEF M
<1>8. \A m, n \in 1 .. M : o[m] < o[n] <=> m < n
  BY <1>2, <1>6, <1>7
<1>9. \A C : Kept(C, S) = [n \in 1 .. M |-> C[o[n]]]
  BY <1>3, <1>5
<1>10. \A C : Len(Kept(C, S)) = M
  BY <1>1, <1>9, LenIs
<1>11. Increasing(o, M, S)
  BY <1>1, <1>6, <1>7, <1>8 DEF Increasing
<1>12. QED
  BY <1>9, <1>10, <1>11

\* d has what e has of the keys in K.
Agree(d, e, K) ==
  /\ DOMAIN d = DOMAIN e \cap K
  /\ \A k \in DOMAIN d : d[k] = e[k]

\* Combining looks at one key at a time.
LEMMA CombineAgrees ==
  ASSUME NEW d, NEW e, NEW p, NEW r, NEW K, NEW strategy, Agree(d, e, K), Agree(p, r, K)
  PROVE  Agree(Combine(d, p, strategy), Combine(e, r, strategy), K)
<1>1. CASE strategy = "REPLACE"
  BY <1>1 DEF Agree, Combine, Over
<1>2. CASE strategy # "REPLACE"
  <2>1. Combine(d, p, strategy) = MergeKeys(d, p) /\ Combine(e, r, strategy) = MergeKeys(e, r)
    BY <1>2 DEF Combine
  <2>2. DOMAIN MergeKeys(d, p) = DOMAIN MergeKeys(e, r) \cap K
    BY DEF Agree, MergeKeys
  <2>3. ASSUME NEW k \in DOMAIN MergeKeys(d, p)
        PROVE  MergeKeys(d, p)[k] = MergeKeys(e, r)[k]
    <3>1. k \in K /\ k \in DOMAIN d \cup DOMAIN p /\ k \in DOMAIN e \cup DOMAIN r
      BY <2>2 DEF MergeKeys, Agree
    <3>2. CASE k \notin DOMAIN p
      <4>1. k \notin DOMAIN r /\ d[k] = e[k]
        BY <3>1, <3>2 DEF Agree
      <4>2. QED
        BY <3>1, <3>2, <4>1 DEF MergeKeys
    <3>3. CASE k \in DOMAIN p
      <4>1. /\ k \in DOMAIN r /\ p[k] = r[k]
            /\ (IF k \in DOMAIN d THEN d[k] ELSE Empty) = (IF k \in DOMAIN e THEN e[k] ELSE Empty)
        BY <3>1, <3>3 DEF Agree
      <4>2. QED
        BY <3>1, <3>3, <4>1 DEF MergeKeys
    <3>4. QED
      BY <3>2, <3>3
  <2>4. QED
    BY <2>1, <2>2, <2>3 DEF Agree
<1>3. QED
  BY <1>1, <1>2

\* A patch of other keys changes nothing.
LEMMA CombineOthers ==
  ASSUME NEW d, NEW e, NEW r, NEW K, NEW strategy, Agree(d, e, K), DOMAIN r \cap K = {}
  PROVE  Agree(d, Combine(e, r, strategy), K)
<1>1. CASE strategy = "REPLACE"
  BY <1>1 DEF Agree, Combine, Over
<1>2. CASE strategy # "REPLACE"
  BY <1>2 DEF Agree, Combine, MergeKeys
<1>3. QED
  BY <1>1, <1>2

\* C without the indices that do not matter for q and K, and without the keys that
\* are not in K, gives the same values of the keys in K.
LEMMA KeptOverrides ==
  ASSUME NEW C, NEW cut, NEW S, NEW q, NEW K, NEW strategy, Len(C) \in Nat, S \subseteq 1 .. Len(C),
         \A i \in S : cut[i].condition = C[i].condition /\ Agree(cut[i].override, C[i].override, K),
         \A i \in 1 .. Len(C) : i \notin S => ~apply(C[i].condition, q) \/ DOMAIN C[i].override \cap K = {}
  PROVE  Agree(get_overrides(Kept(cut, S), q, strategy), get_overrides(C, q, strategy), K)
<1> DEFINE N == Len(C)
           D == Kept(cut, S)
<1>0. PICK o, M : /\ Increasing(o, M, S)
                  /\ D = [n \in 1 .. M |-> cut[o[n]]]
                  /\ Len(D) = M
  BY KeptList
<1>1. /\ M \in Nat
      /\ o \in [1 .. M -> S]
      /\ \A i \in S : \E m \in 1 .. M : o[m] = i
      /\ \A m, n \in 1 .. M : o[m] < o[n] <=> m < n
      /\ D = [n \in 1 .. M |-> cut[o[n]]]
  BY <1>0 DEF Increasing
<1> HIDE DEF D, N
<1>2. PICK g : Folds(g, C, N, q, strategy) /\ get_overrides(C, q, strategy) = g[N]
  BY GetOverrides DEF N
<1>3. PICK h : Folds(h, D, M, q, strategy) /\ get_overrides(D, q, strategy) = h[M]
  <2>1. Len(D) = M /\ Len(D) \in Nat
    BY <1>0, <1>1
  <2>2. \E h : Folds(h, D, Len(D), q, strategy) /\ get_overrides(D, q, strategy) = h[Len(D)]
    BY <2>1, GetOverrides
  <2>3. QED
    BY <2>1, <2>2
<1> DEFINE Upto(n, m) == \A a \in 1 .. M : o[a] <= n <=> a <= m
           Good(n) == \A m \in 0 .. M : Upto(n, m) => Agree(h[m], g[n], K)
           B == {n \in 0 .. N : ~Good(n)}
<1>4. N \in Nat /\ \A a \in 1 .. M : o[a] \in S /\ o[a] \in 1 .. N
  BY <1>1 DEF N
<1>5. B = {}
  <2>1. SUFFICES ASSUME B # {}
                 PROVE  FALSE
    OBVIOUS
  <2>2. PICK n \in B : \A x \in B : n <= x
    <3>1. B \subseteq Nat
      BY <1>4
    <3>2. QED
      BY <2>1, <3>1, Least
  <2>3. PICK m \in 0 .. M : Upto(n, m) /\ ~Agree(h[m], g[n], K)
    BY <2>2
  <2>4. n # 0
    <3>1. SUFFICES ASSUME n = 0
                   PROVE  FALSE
      OBVIOUS
    <3>2. m = 0
      <4>1. SUFFICES ASSUME m # 0
                     PROVE  FALSE
        OBVIOUS
      <4>2. 1 \in 1 .. M /\ 1 <= m
        BY <1>1, <4>1
      <4>3. o[1] <= 0
        BY <2>3, <3>1, <4>2
      <4>4. QED
        BY <1>4, <4>2, <4>3
    <3>3. Agree(Empty, Empty, K)
      BY DEF Agree, Empty
    <3>4. QED
      BY <1>2, <1>3, <2>3, <3>1, <3>2, <3>3 DEF Folds
  <2>5. n \in 1 .. N /\ n - 1 \in 0 .. N /\ n - 1 \notin B
    BY <1>4, <2>2, <2>4
  <2>6. Good(n - 1)
    BY <2>5
  <2>7. g[n] = After(g[n - 1], C[n], q, strategy)
    BY <1>2, <2>5 DEF Folds
  <2>8. CASE n \in S
    <3>1. PICK b \in 1 .. M : o[b] = n
      BY <1>1, <2>8
    <3>2. b = m
      <4>1. b <= m
        <5>1. o[b] <= n
          BY <1>4, <2>5, <3>1
        <5>2. QED
          BY <2>3, <5>1
      <4>2. SUFFICES ASSUME b < m
                     PROVE  FALSE
        BY <4>1
      <4>3. m \in 1 .. M /\ o[m] <= n
        BY <2>3, <4>2
      <4>4. o[b] < o[m]
        BY <1>1, <4>2, <4>3
      <4>5. QED
        BY <1>4, <2>5, <3>1, <4>3, <4>4
    <3>3. m \in 1 .. M /\ m - 1 \in 0 .. M
      BY <1>1, <3>2
    <3>4. Upto(n - 1, m - 1)
      <4>1. ASSUME NEW a \in 1 .. M
            PROVE  o[a] <= n - 1 <=> a <= m - 1
        <5>1. o[a] < o[m] <=> a < m
          BY <1>1, <3>3
        <5>2. QED
          BY <1>4, <2>5, <3>1, <3>2, <5>1
      <4>2. QED
        BY <4>1
    <3>5. Agree(h[m - 1], g[n - 1], K)
      BY <2>6, <3>3, <3>4
    <3>6. h[m] = After(h[m - 1], cut[n], q, strategy)
      BY <1>1, <1>3, <3>1, <3>2, <3>3 DEF Folds
    <3>7. Agree(h[m], g[n], K)
      BY <2>7, <2>8, <3>5, <3>6, CombineAgrees DEF After
    <3>8. QED
      BY <2>3, <3>7
  <2>9. CASE n \notin S
    <3>1. Upto(n - 1, m)
      <4>1. ASSUME NEW a \in 1 .. M
            PROVE  o[a] <= n - 1 <=> o[a] <= n
        <5>1. o[a] # n
          BY <1>4, <2>9
        <5>2. QED
          BY <1>4, <2>5, <5>1
      <4>2. QED
        BY <2>3, <4>1
    <3>2. Agree(h[m], g[n - 1], K)
      BY <2>6, <3>1
    <3>3. Agree(h[m], g[n], K)
      BY <2>5, <2>7, <2>9, <3>2, CombineOthers DEF After, N
    <3>4. QED
      BY <2>3, <3>3
  <2>10. QED
    BY <2>8, <2>9
<1>6. Upto(N, M)
  BY <1>4
<1>7. Agree(h[M], g[N], K)
  <2>1. N \in 0 .. N /\ M \in 0 .. M
    BY <1>1, <1>4
  <2>2. QED
    BY <1>5, <1>6, <2>1
<1>8. QED
  BY <1>2, <1>3, <1>7 DEF D
-----------------------------------------------------------------------------
(* Weights *)

Top == Cardinality(DOMAIN Position)

\* How many dimensions the condition has at the i-th position from the top.
At(condition, i) == Cardinality({d \in DOMAIN condition : Position[d] = Top - i})

\* g has the weights of the i highest positions, shifted down to 0.
Weighs(g, condition, n) ==
  /\ g[0] = 0
  /\ \A i \in 1 .. n : g[i] = 2 * g[i - 1] + At(condition, i)

\* There are as many dimensions as positions.
LEMMA TopNat == Top \in Nat /\ \A d \in DOMAIN Position : Position[d] \in 0 .. Top - 1
<1>1. Top \in Nat
  BY PositionAssumption, FS_CardinalityType DEF Top
<1>2. QED
  BY <1>1, PositionAssumption DEF Top

\* The dimensions of a condition at a position are finitely many, and no fewer than
\* those of a more general one.
LEMMA AtNat ==
  ASSUME NEW c, DOMAIN c \subseteq DOMAIN Position, NEW i
  PROVE  /\ At(c, i) \in Nat
         /\ IsFiniteSet({d \in DOMAIN c : Position[d] = Top - i})
         /\ \A b : DOMAIN b \subseteq DOMAIN c => At(b, i) <= At(c, i)
<1> DEFINE D(b) == {d \in DOMAIN b : Position[d] = Top - i}
<1>1. IsFiniteSet(D(c))
  <2>1. IsFiniteSet(DOMAIN Position) /\ D(c) \in SUBSET DOMAIN Position
    BY PositionAssumption
  <2>2. QED
    BY <2>1, FS_Subset
<1>2. Cardinality(D(c)) \in Nat
  BY <1>1, FS_CardinalityType
<1>3. ASSUME NEW b, DOMAIN b \subseteq DOMAIN c
      PROVE  Cardinality(D(b)) <= Cardinality(D(c))
  <2>1. D(b) \in SUBSET D(c)
    BY <1>3
  <2>2. QED
    BY <1>1, <2>1, FS_Subset
<1>4. QED
  BY <1>1, <1>2, <1>3 DEF At

\* The recursion has a solution.
LEMMA WeighsExists ==
  ASSUME NEW c, NEW N \in Nat
  PROVE  \E g : Weighs(g, c, N)
<1> DEFINE Good(n) == \E g : Weighs(g, c, n)
           S == {n \in Nat : ~Good(n)}
<1>1. SUFFICES ASSUME S # {}
               PROVE  FALSE
  OBVIOUS
<1>2. PICK m \in S : \A x \in S : m <= x
  BY <1>1, Least
<1>3. m # 0
  <2>1. Weighs([i \in {0} |-> 0], c, 0)
    BY DEF Weighs
  <2>2. QED
    BY <2>1
<1>4. m - 1 \in Nat /\ m - 1 \notin S
  BY <1>2, <1>3
<1>5. PICK g : Weighs(g, c, m - 1)
  BY <1>4
<1> DEFINE v == 2 * g[m - 1] + At(c, m)
           h == [i \in 0 .. m |-> IF i = m THEN v ELSE g[i]]
<1> HIDE DEF v
<1>6. h[m] = v /\ h[0] = 0 /\ \A i \in 0 .. m - 1 : h[i] = g[i]
  BY <1>3, <1>4, <1>5 DEF Weighs
<1> HIDE DEF h
<1>7. ASSUME NEW i \in 1 .. m
      PROVE  h[i] = 2 * h[i - 1] + At(c, i)
  <2>1. CASE i = m
    <3>1. h[i - 1] = g[m - 1]
      BY <1>4, <1>6, <2>1
    <3>2. QED
      BY <1>6, <2>1, <3>1 DEF v
  <2>2. CASE i # m
    <3>1. i \in 1 .. m - 1 /\ i - 1 \in 0 .. m - 1 /\ i \in 0 .. m - 1
      BY <1>4, <2>2
    <3>2. QED
      BY <1>5, <1>6, <3>1 DEF Weighs
  <2>3. QED
    BY <2>1, <2>2
<1>8. Good(m)
  BY <1>6, <1>7 DEF Weighs
<1>9. QED
  BY <1>8

\* The weight of a condition is its last element.
LEMMA WeightIs ==
  ASSUME NEW c
  PROVE  \E g : Weighs(g, c, Top) /\ calculate_context_weight(c) = g[Top]
<1> DEFINE N == 0 .. Top
           Good(f) == f = [n \in N |-> IF n = 0 THEN 0 ELSE 2 * f[n - 1] + At(c, n)]
           w == CHOOSE f : Good(f)
<1>1. PICK g : Weighs(g, c, Top)
  BY TopNat, WeighsExists
<1> DEFINE G == [n \in N |-> g[n]]
<1>2. Good(G)
  <2>1. ASSUME NEW n \in N
        PROVE  G[n] = IF n = 0 THEN 0 ELSE 2 * G[n - 1] + At(c, n)
    <3>1. CASE n = 0
      BY <1>1, <3>1 DEF Weighs
    <3>2. CASE n # 0
      <4>1. n \in 1 .. Top /\ n - 1 \in N
        BY TopNat, <3>2
      <4>2. QED
        BY <1>1, <3>2, <4>1 DEF Weighs
    <3>3. QED
      BY <3>1, <3>2
  <2>2. QED
    BY <2>1
<1>3. Good(w)
  BY <1>2
<1>4. calculate_context_weight(c) = w[Top]
  BY DEF calculate_context_weight, Top, At
<1> HIDE DEF w
<1>5. Weighs(w, c, Top)
  <2>1. w[0] = 0
    BY <1>3, TopNat
  <2>2. ASSUME NEW n \in 1 .. Top
        PROVE  w[n] = 2 * w[n - 1] + At(c, n)
    <3>1. n \in N /\ n # 0
      BY TopNat
    <3>2. QED
      BY <1>3, <3>1
  <2>3. QED
    BY <2>1, <2>2 DEF Weighs
<1>6. QED
  BY <1>4, <1>5

\* Weights are numbers; a condition with fewer dimensions weighs less, whatever the
\* positions of the others.
LEMMA WeightGrows ==
  ASSUME NEW b, NEW c, DOMAIN b \subseteq DOMAIN c, DOMAIN c \subseteq DOMAIN Position
  PROVE  /\ calculate_context_weight(b) \in Nat
         /\ calculate_context_weight(c) \in Nat
         /\ DOMAIN b # DOMAIN c => calculate_context_weight(b) < calculate_context_weight(c)
<1>1. PICK f : Weighs(f, b, Top) /\ calculate_context_weight(b) = f[Top]
  BY WeightIs
<1>2. PICK g : Weighs(g, c, Top) /\ calculate_context_weight(c) = g[Top]
  BY WeightIs
<1> DEFINE From(i) == \E d \in DOMAIN c \ DOMAIN b : i >= Top - Position[d]
           Good(i) == /\ f[i] \in Nat /\ g[i] \in Nat /\ f[i] <= g[i]
                      /\ From(i) => f[i] < g[i]
           S == {i \in 0 .. Top : ~Good(i)}
<1>3. S = {}
  <2>1. SUFFICES ASSUME S # {}
                 PROVE  FALSE
    OBVIOUS
  <2>2. PICK m \in S : \A x \in S : m <= x
    <3>1. S \subseteq Nat
      BY TopNat
    <3>2. QED
      BY <2>1, <3>1, Least
  <2>3. m # 0
    <3>1. ~From(0)
      BY TopNat
    <3>2. f[0] = 0 /\ g[0] = 0
      BY <1>1, <1>2 DEF Weighs
    <3>3. QED
      BY <2>2, <3>1, <3>2
  <2>4. m \in 1 .. Top /\ m - 1 \in 0 .. Top /\ m - 1 \notin S
    BY TopNat, <2>2, <2>3
  <2>5. Good(m - 1)
    BY <2>4
  <2>6. f[m] = 2 * f[m - 1] + At(b, m) /\ g[m] = 2 * g[m - 1] + At(c, m)
    BY <1>1, <1>2, <2>4 DEF Weighs
  <2>7. At(b, m) \in Nat /\ At(c, m) \in Nat /\ At(b, m) <= At(c, m)
    BY AtNat
  <2>8. f[m] \in Nat /\ g[m] \in Nat /\ f[m] <= g[m]
    BY <2>5, <2>6, <2>7
  <2>9. ASSUME From(m)
        PROVE  f[m] < g[m]
    <3>1. CASE From(m - 1)
      BY <2>5, <2>6, <2>7, <3>1
    <3>2. CASE ~From(m - 1)
      <4>1. PICK d \in DOMAIN c \ DOMAIN b : m >= Top - Position[d]
        BY <2>9
      <4>2. Position[d] = Top - m
        BY <2>4, <3>2, <4>1, TopNat
      <4> DEFINE D(x) == {e \in DOMAIN x : Position[e] = Top - m}
      <4>3. D(b) \in SUBSET D(c) /\ D(b) # D(c)
        BY <4>1, <4>2
      <4>4. IsFiniteSet(D(c)) /\ At(b, m) = Cardinality(D(b)) /\ At(c, m) = Cardinality(D(c))
        BY AtNat DEF At
      <4>5. At(b, m) # At(c, m)
        BY <4>3, <4>4, FS_Subset
      <4>6. QED
        BY <2>5, <2>6, <2>7, <4>5
    <3>3. QED
      BY <3>1, <3>2
  <2>10. QED
    BY <2>8, <2>9
<1>4. Top \in 0 .. Top /\ Good(Top)
  BY <1>3, TopNat
<1>5. ASSUME DOMAIN b # DOMAIN c
      PROVE  From(Top)
  <2>1. PICK d \in DOMAIN c : d \notin DOMAIN b
    BY <1>5
  <2>2. QED
    BY <2>1, TopNat
<1>6. QED
  BY <1>1, <1>2, <1>4, <1>5
-----------------------------------------------------------------------------
(* The workspace *)

Context(c) ==
  /\ c = [condition |-> c.condition, override |-> c.override]
  /\ c.condition \in Conditions
  /\ DOMAIN c.override \subseteq Keys
  /\ IsFiniteSet(DOMAIN c.override)

Listing(C) ==
  /\ Len(C) \in Nat
  /\ C = [i \in 1 .. Len(C) |-> C[i]]
  /\ \A i \in 1 .. Len(C) : Context(C[i])

\* A condition has one context.
Distinct(C) == \A i, j \in DOMAIN C : C[i].condition = C[j].condition => i = j

WorkspaceInv == Listing(contexts) /\ Distinct(contexts)

\* The domain of a list.
LEMMA ListingDomain ==
  ASSUME NEW C, Listing(C)
  PROVE  /\ DOMAIN C = 1 .. Len(C)
         /\ IsFiniteSet(DOMAIN C)
         /\ Cardinality(DOMAIN C) = Len(C)
         /\ \A i \in DOMAIN C : Context(C[i])
<1>1. DOMAIN C = 1 .. Len(C) /\ Len(C) \in Nat /\ \A i \in DOMAIN C : Context(C[i])
  BY DEF Listing
<1>2. IsFiniteSet(1 .. Len(C)) /\ Cardinality(1 .. Len(C)) = Len(C)
  BY <1>1, FS_Interval
<1>3. QED
  BY <1>1, <1>2

\* Leaving out contexts of a list gives a list.
LEMMA KeptListing ==
  ASSUME NEW C, NEW cut, NEW S, Listing(C), S \subseteq DOMAIN C, \A i \in S : Context(cut[i])
  PROVE  /\ Listing(Kept(cut, S))
         /\ Distinct(C) /\ (\A i \in S : cut[i].condition = C[i].condition) => Distinct(Kept(cut, S))
<1> DEFINE D == Kept(cut, S)
<1>1. DOMAIN C = 1 .. Len(C) /\ Len(C) \in Nat
  BY ListingDomain DEF Listing
<1>2. PICK o, M : /\ Increasing(o, M, S)
                  /\ D = [n \in 1 .. M |-> cut[o[n]]]
                  /\ Len(D) = M
  BY <1>1, KeptList
<1>3. M \in Nat /\ \A n \in 1 .. M : o[n] \in S
  BY <1>2 DEF Increasing
<1> HIDE DEF D
<1>4. Listing(D)
  BY <1>2, <1>3 DEF Listing
<1>5. ASSUME Distinct(C), \A i \in S : cut[i].condition = C[i].condition
      PROVE  Distinct(D)
  <2>1. ASSUME NEW m \in DOMAIN D, NEW n \in DOMAIN D, D[m].condition = D[n].condition
        PROVE  m = n
    <3>1. m \in 1 .. M /\ n \in 1 .. M /\ o[m] \in S /\ o[n] \in S
      BY <1>2, <1>3
    <3>2. C[o[m]].condition = C[o[n]].condition
      BY <1>2, <1>5, <2>1, <3>1
    <3>3. o[m] = o[n]
      BY <1>5, <3>1, <3>2 DEF Distinct
    <3>4. QED
      BY <1>2, <3>1, <3>3 DEF Increasing
  <2>2. QED
    BY <2>1 DEF Distinct
<1>6. QED
  BY <1>4, <1>5 DEF D

\* A put keeps a workspace in order.
LEMMA PutInv ==
  ASSUME WorkspaceInv, NEW condition \in Conditions,
         NEW override, DOMAIN override \subseteq Keys, IsFiniteSet(DOMAIN override),
         PutContext(condition, override)
  PROVE  WorkspaceInv'
<1> DEFINE C == contexts
           D == contexts'
           N == Len(contexts)
           new == [condition |-> condition, override |-> override]
<1>1. /\ N \in Nat /\ DOMAIN C = 1 .. N /\ C = [i \in 1 .. N |-> C[i]]
      /\ \A i \in 1 .. N : Context(C[i])
      /\ Distinct(C)
  BY ListingDomain DEF WorkspaceInv, Listing
<1>2. CASE Index(condition) = {}
  <2>1. D = Append(C, new)
    BY <1>2 DEF PutContext
  <2> DEFINE T == {C[i] : i \in 1 .. N} \cup {new}
  <2>2. C \in Seq(T) /\ new \in T
    <3>1. C \in [1 .. N -> T]
      BY <1>1
    <3>2. QED
      BY <1>1, <3>1
  <2>3. D \in Seq(T) /\ Len(D) = N + 1 /\ D[N + 1] = new /\ \A i \in 1 .. N : D[i] = C[i]
    BY <2>1, <2>2
  <2>4. D = [i \in 1 .. Len(D) |-> D[i]] /\ Len(D) \in Nat /\ DOMAIN D = 1 .. N + 1
    BY <1>1, <2>3
  <2> HIDE DEF D, T
  <2>5. Context(new)
    BY DEF Context
  <2>6. ASSUME NEW i \in 1 .. N + 1
        PROVE  Context(D[i])
    <3>1. CASE i = N + 1
      BY <2>3, <2>5, <3>1
    <3>2. CASE i # N + 1
      <4>1. i \in 1 .. N
        BY <1>1, <3>2
      <4>2. QED
        BY <1>1, <2>3, <4>1
    <3>3. QED
      BY <3>1, <3>2
  <2>7. Listing(D)
    BY <2>3, <2>4, <2>6 DEF Listing
  <2>8. \A i \in 1 .. N : C[i].condition # condition
    BY <1>1, <1>2 DEF Index
  <2>9. new.condition = condition
    OBVIOUS
  <2>10. Distinct(D)
    <3>1. ASSUME NEW i \in 1 .. N + 1, NEW j \in 1 .. N + 1, i < j
          PROVE  D[i].condition # D[j].condition
      <4>1. i \in 1 .. N /\ D[i] = C[i]
        BY <1>1, <2>3, <3>1
      <4>2. CASE j = N + 1
        BY <2>3, <2>8, <2>9, <4>1, <4>2
      <4>3. CASE j # N + 1
        <5>1. j \in 1 .. N /\ D[j] = C[j] /\ i # j
          BY <1>1, <2>3, <3>1, <4>3
        <5>2. QED
          BY <1>1, <4>1, <5>1 DEF Distinct
      <4>4. QED
        BY <4>2, <4>3
    <3>2. QED
      BY <1>1, <2>4, <3>1 DEF Distinct
  <2>11. QED
    BY <2>7, <2>10 DEF WorkspaceInv, Listing, Distinct, D
<1>3. CASE Index(condition) # {}
  <2>1. D = [i \in DOMAIN C |-> IF i \in Index(condition)
                                THEN [C[i] EXCEPT !.override = MergeKeys(C[i].override, override)]
                                ELSE C[i]]
    BY <1>3 DEF PutContext
  <2>2. DOMAIN D = 1 .. N /\ D = [i \in 1 .. N |-> D[i]]
    BY <1>1, <2>1
  <2>3. Len(D) = N
    BY <1>1, <2>2, LenIs
  <2>4. ASSUME NEW i \in 1 .. N
        PROVE  Context(D[i]) /\ D[i].condition = C[i].condition
    <3>1. CASE i \notin Index(condition)
      BY <1>1, <2>1, <3>1
    <3>2. CASE i \in Index(condition)
      <4> DEFINE m == MergeKeys(C[i].override, override)
      <4>1. D[i] = [C[i] EXCEPT !.override = m]
        BY <1>1, <2>1, <3>2
      <4>2. DOMAIN m = DOMAIN C[i].override \cup DOMAIN override
        BY DEF MergeKeys
      <4>a. /\ IsFiniteSet(DOMAIN C[i].override) /\ DOMAIN C[i].override \subseteq Keys
            /\ IsFiniteSet(DOMAIN override) /\ DOMAIN override \subseteq Keys
        BY <1>1 DEF Context
      <4> HIDE DEF m, D
      <4>b. IsFiniteSet(DOMAIN C[i].override \cup DOMAIN override)
        BY <4>a, FS_Union
      <4>3. IsFiniteSet(DOMAIN m) /\ DOMAIN m \subseteq Keys
        BY <4>a, <4>b, <4>2
      <4>4. C[i] = [condition |-> C[i].condition, override |-> C[i].override] /\ C[i].condition \in Conditions
        BY <1>1 DEF Context
      <4>5. D[i] = [condition |-> C[i].condition, override |-> m]
        BY <4>1, <4>4
      <4>6. QED
        BY <4>3, <4>4, <4>5 DEF Context
    <3>3. QED
      BY <3>1, <3>2
  <2> HIDE DEF D
  <2>5. Listing(D)
    BY <1>1, <2>2, <2>3, <2>4 DEF Listing
  <2>6. Distinct(D)
    BY <1>1, <2>2, <2>4 DEF Distinct
  <2>7. QED
    BY <2>5, <2>6 DEF WorkspaceInv, Listing, Distinct, D
<1>4. QED
  BY <1>2, <1>3

\* So does leaving out contexts.
LEMMA LeftOutInv ==
  ASSUME WorkspaceInv, NEW S, contexts' = Kept(contexts, DOMAIN contexts \ S)
  PROVE  WorkspaceInv'
<1>1. \A i \in DOMAIN contexts : Context(contexts[i])
  BY ListingDomain DEF WorkspaceInv
<1>2. Listing(Kept(contexts, DOMAIN contexts \ S)) /\ Distinct(Kept(contexts, DOMAIN contexts \ S))
  <2>1. DOMAIN contexts \ S \subseteq DOMAIN contexts /\ \A i \in DOMAIN contexts \ S : Context(contexts[i])
    BY <1>1
  <2>2. QED
    BY <2>1, KeptListing DEF WorkspaceInv
<1>3. Listing(contexts') /\ Distinct(contexts')
  BY <1>2
<1>4. QED
  BY <1>3 DEF WorkspaceInv

\* And a request.
LEMMA RequestInv ==
  ASSUME WorkspaceInv, NEW condition \in Conditions,
         \/ \E k \in Keys : \E v \in Values[k] : PutContext(condition, [n \in {k} |-> v])
         \/ DeleteContext(condition)
  PROVE  WorkspaceInv'
<1>1. ASSUME NEW k \in Keys, NEW v, PutContext(condition, [n \in {k} |-> v])
      PROVE  WorkspaceInv'
  <2>1. DOMAIN [n \in {k} |-> v] = {k} /\ IsFiniteSet({k})
    BY FS_Singleton
  <2>2. QED
    BY <1>1, <2>1, PutInv
<1>2. CASE DeleteContext(condition)
  BY <1>2, LeftOutInv DEF DeleteContext
<1>3. QED
  BY <1>1, <1>2

\* So do requests.
LEMMA NextInv == ASSUME WorkspaceInv, Next PROVE WorkspaceInv'
  BY RequestInv DEF Next

\* The empty workspace.
LEMMA InitInv == ASSUME Init PROVE WorkspaceInv
<1>1. contexts = << >> /\ Len(contexts) = 0 /\ DOMAIN contexts = {}
  BY DEF Init
<1>2. contexts = [i \in 1 .. 0 |-> contexts[i]]
  BY <1>1
<1>3. QED
  BY <1>1, <1>2 DEF WorkspaceInv, Listing, Distinct
-----------------------------------------------------------------------------
(* The order of a configuration *)

Weight(C, i) == calculate_context_weight(C[i].condition)

\* Context i comes before context j.
Before(C, i, j) == Weight(C, i) < Weight(C, j) \/ (Weight(C, i) = Weight(C, j) /\ i < j)

\* o lists the N contexts of C in this order.
Arranges(o, C, N) ==
  /\ N \in Nat
  /\ o \in [1 .. N -> 1 .. N]
  /\ \A i \in 1 .. N : \E m \in 1 .. N : o[m] = i
  /\ \A m, n \in 1 .. N : Before(C, o[m], o[n]) <=> m < n
  /\ \A m, n \in 1 .. N : o[m] = o[n] => m = n

\* Weights are numbers.
LEMMA WeightNat ==
  ASSUME NEW C, NEW i, Context(C[i])
  PROVE  Weight(C, i) \in Nat
<1>1. DOMAIN C[i].condition \subseteq DOMAIN Position
  BY PositionAssumption DEF Context
<1>2. QED
  BY <1>1, WeightGrows DEF Weight

\* ByWeight reads C in this order.
LEMMA ByWeightList ==
  ASSUME NEW C, Listing(C)
  PROVE  \E o : /\ Arranges(o, C, Len(C))
                /\ ByWeight(C) = [n \in 1 .. Len(C) |-> C[o[n]]]
                /\ Len(ByWeight(C)) = Len(C)
                /\ Listing(ByWeight(C))
<1> DEFINE N == Len(C)
           S == DOMAIN C
           R == {p \in S \X S : \/ Weight(C, p[1]) < Weight(C, p[2])
                                \/ Weight(C, p[1]) = Weight(C, p[2]) /\ p[1] < p[2]}
<1>1. /\ N \in Nat /\ S = 1 .. N /\ IsFiniteSet(S) /\ Cardinality(S) = N
      /\ \A i \in S : Context(C[i])
  BY ListingDomain DEF Listing
<1>2. ByWeight(C) = Sorted(C, S, R)
  BY DEF ByWeight, Weight
<1>3. \A i, j \in S : <<i, j>> \in R <=> Before(C, i, j)
  BY DEF Before
<1> HIDE DEF R
<1>4. \A i \in S : Weight(C, i) \in Nat /\ i \in Nat
  BY <1>1, WeightNat
<1>5. Total(R, S)
  <2>1. \A i \in S : ~Before(C, i, i)
    BY <1>4 DEF Before
  <2>2. \A i, j \in S : i # j => Before(C, i, j) \/ Before(C, j, i)
    BY <1>4 DEF Before
  <2>3. ASSUME NEW i \in S, NEW j \in S, NEW k \in S, Before(C, i, j), Before(C, j, k)
        PROVE  Before(C, i, k)
    BY <1>4, <2>3 DEF Before
  <2>4. QED
    BY <1>3, <2>1, <2>2, <2>3 DEF Total
<1>6. PICK o : /\ Lists(o, S, R)
               /\ \A X : Sorted(X, S, R) = [n \in 1 .. Cardinality(S) |-> X[o[n]]]
  BY <1>1, <1>5, SortedList
<1>7. o \in [1 .. N -> S] /\ \A m \in 1 .. N : o[m] \in S
  BY <1>1, <1>6 DEF Lists
<1>8. /\ \A i \in S : \E m \in 1 .. N : o[m] = i
      /\ \A m, n \in 1 .. N : <<o[m], o[n]>> \in R <=> m < n
      /\ \A m, n \in 1 .. N : o[m] = o[n] => m = n
  <2>1. /\ \A i \in S : \E m \in 1 .. Cardinality(S) : o[m] = i
        /\ \A m, n \in 1 .. Cardinality(S) : <<o[m], o[n]>> \in R <=> m < n
        /\ \A m, n \in 1 .. Cardinality(S) : o[m] = o[n] => m = n
    <3>1. IsFiniteSet(S) /\ Total(R, S) /\ Lists(o, S, R)
      BY <1>1, <1>5, <1>6
    <3> HIDE DEF S
    <3>2. QED
      BY <3>1, ListIsomorphic
  <2>2. QED
    BY <1>1, <2>1
<1>9. ByWeight(C) = [n \in 1 .. N |-> C[o[n]]]
  BY <1>1, <1>2, <1>6
<1>10. Len(ByWeight(C)) = N
  BY <1>1, <1>9, LenIs
<1>11. Listing(ByWeight(C))
  BY <1>1, <1>7, <1>9, <1>10 DEF Listing
<1> HIDE DEF S
<1>12. Arranges(o, C, N)
  BY <1>1, <1>3, <1>7, <1>8 DEF Arranges
<1>13. QED
  BY <1>9, <1>10, <1>11, <1>12

\* What the overrides of some keys make of the default configuration of these keys.
LEMMA EvalAgrees ==
  ASSUME NEW d, NEW e, NEW K, NEW D, NEW strategy, K \subseteq Keys, Agree(d, e, K),
         DOMAIN D = K, \A k \in K : D[k] = Default[k]
  PROVE  merge_overrides_on_default_config(D, d, strategy)
           = [k \in K |-> merge_overrides_on_default_config(Default, e, strategy)[k]]
<1>1. DOMAIN Default = Keys
  BY ResolutionAssumption
<1>2. ASSUME NEW k \in K
      PROVE  merge_overrides_on_default_config(D, d, strategy)[k]
               = merge_overrides_on_default_config(Default, e, strategy)[k]
  <2>1. k \in DOMAIN D /\ k \in DOMAIN Default /\ D[k] = Default[k]
    BY <1>1
  <2>2. k \in DOMAIN d <=> k \in DOMAIN e
    BY DEF Agree
  <2>3. k \in DOMAIN d => d[k] = e[k]
    BY DEF Agree
  <2>4. QED
    BY <2>1, <2>2, <2>3 DEF merge_overrides_on_default_config
<1>3. DOMAIN merge_overrides_on_default_config(D, d, strategy) = K
  BY DEF merge_overrides_on_default_config
<1>4. QED
  BY <1>2, <1>3 DEF merge_overrides_on_default_config

\* What is above an ancestor is above.
LEMMA AncestorsAbove ==
  ASSUME NEW d \in DOMAIN Position
  PROVE  /\ \A a \in Ancestors[d] : a \in DOMAIN Position /\ Ancestors[a] \subseteq Ancestors[d]
         /\ d \in DOMAIN Base => Base[d] \in Ancestors[d]
<1> DEFINE P == DOMAIN Position
           Closed(S, x) == \A y \in (S \cup {x}) \cap DOMAIN Base : Base[y] \in S
<1>1. \A x \in P : \A a : a \in Ancestors[x] <=> a \in P /\ \A S \in SUBSET P : Closed(S, x) => a \in S
  BY DEF Ancestors
<1>2. ASSUME NEW a \in Ancestors[d]
      PROVE  a \in P /\ Ancestors[a] \subseteq Ancestors[d]
  <2>1. a \in P /\ \A S \in SUBSET P : Closed(S, d) => a \in S
    BY <1>1
  <2>2. \A S \in SUBSET P : Closed(S, d) => Closed(S, a)
    BY <2>1
  <2> HIDE DEF Closed
  <2>3. QED
    BY <1>1, <2>1, <2>2
<1>3. ASSUME d \in DOMAIN Base
      PROVE  Base[d] \in Ancestors[d]
  BY <1>1, <1>3, CohortAssumption
<1>4. QED
  BY <1>2, <1>3

\* A part of a query that has all that the query says of a local cohort, and of what
\* is above it, gives the cohort the same value.
LEMMA LocalSame ==
  ASSUME NEW q, NEW known \in SUBSET DOMAIN q, NEW c \in DOMAIN Schema,
         (Ancestors[c] \cup {c}) \cap DOMAIN q \subseteq known
  PROVE  evaluate_local_cohorts([d \in known |-> q[d]])[c] = evaluate_local_cohorts(q)[c]
<1> DEFINE p == [d \in known |-> q[d]]
           b == Base[c]
           V(r) == IF Reached(b, r) THEN evaluate_local_cohort_dimension(c, r[b])
                   ELSE IF c \in DOMAIN r /\ Ancestors[c] \cap DOMAIN r = {} THEN r[c]
                   ELSE {Otherwise}
<1>1. /\ c \in DOMAIN Position /\ b \in Ancestors[c] /\ b \in DOMAIN Position
      /\ Ancestors[b] \subseteq Ancestors[c]
      /\ \A a \in Ancestors[b] : Ancestors[a] \subseteq Ancestors[b]
  BY CohortAssumption, AncestorsAbove
<1>2. DOMAIN p = known /\ \A d \in known : p[d] = q[d]
  OBVIOUS
<1>3. \A d \in Ancestors[c] \cup {c} : d \in DOMAIN p <=> d \in DOMAIN q
  BY <1>2
<1> HIDE DEF p
<1>4. \A a \in Ancestors[b] : Ancestors[a] \cap DOMAIN p = Ancestors[a] \cap DOMAIN q
  BY <1>1, <1>3
<1>5. Reached(b, p) <=> Reached(b, q)
  BY <1>1, <1>3, <1>4 DEF Reached
<1>6. Reached(b, q) => p[b] = q[b]
  BY <1>1, <1>2, <1>3 DEF Reached
<1>7. V(p) = V(q)
  BY <1>2, <1>3, <1>5, <1>6
<1>8. ASSUME NEW r
      PROVE  evaluate_local_cohorts(r)[c] = V(r)
  BY DEF evaluate_local_cohorts
<1>9. evaluate_local_cohorts(p)[c] = V(p) /\ evaluate_local_cohorts(q)[c] = V(q)
  BY <1>8
<1>10. evaluate_local_cohorts(p)[c] = evaluate_local_cohorts(q)[c]
  <2> HIDE DEF V
  <2>1. QED
    BY <1>7, <1>9
<1>11. QED
  BY <1>10 DEF p

\* A configuration resolves a query alike before and after it is filtered for the
\* query's dimensions.
LEMMA DimensionsCommute ==
  ASSUME NEW C, Listing(C), NEW q, NEW known \in SUBSET DOMAIN q, NEW strategy,
         \A i \in DOMAIN C : \A c \in DOMAIN C[i].condition \cap DOMAIN Schema :
           (Ancestors[c] \cup {c}) \cap DOMAIN q \subseteq known
  PROVE  eval_cac(filter_by_dimensions(C, [d \in known |-> q[d]]), Default, q, strategy)
           = eval_cac(C, Default, q, strategy)
<1> DEFINE p == [d \in known |-> q[d]]
           e == evaluate_local_cohorts(q)
           r == evaluate_local_cohorts(p)
           S == {i \in DOMAIN C : partial_apply(C[i].condition, r)}
<1>1. /\ Len(C) \in Nat /\ DOMAIN C = 1 .. Len(C)
      /\ \A i \in 1 .. Len(C) : Context(C[i])
  BY ListingDomain DEF Listing
<1>2. filter_by_dimensions(C, p) = Kept(C, S)
  BY DEF filter_by_dimensions
<1>3. ASSUME NEW i \in 1 .. Len(C), i \notin S
      PROVE  ~apply(C[i].condition, e)
  <2>1. PICK d \in DOMAIN C[i].condition : d \in DOMAIN r /\ C[i].condition[d] \notin r[d]
    BY <1>1, <1>3 DEF partial_apply
  <2>2. d \in DOMAIN e => e[d] = r[d]
    <3>1. CASE d \in DOMAIN Schema
      BY <1>1, <3>1, LocalSame
    <3>2. CASE d \notin DOMAIN Schema
      <4>1. d \in DOMAIN p /\ r[d] = p[d] /\ p[d] = q[d]
        BY <2>1, <3>2 DEF evaluate_local_cohorts
      <4>2. d \in DOMAIN e => e[d] = q[d]
        BY <3>2 DEF evaluate_local_cohorts
      <4>3. QED
        BY <4>1, <4>2
    <3>3. QED
      BY <3>1, <3>2
  <2>3. QED
    BY <2>1, <2>2 DEF apply
<1>4. \A i \in 1 .. Len(C) : Agree(C[i].override, C[i].override, Keys)
  BY <1>1 DEF Context, Agree
<1>5. S \subseteq 1 .. Len(C)
  BY <1>1
<1> HIDE DEF S, p, e, r
<1>6. Agree(get_overrides(Kept(C, S), e, strategy), get_overrides(C, e, strategy), Keys)
  BY <1>1, <1>3, <1>4, <1>5, KeptOverrides
<1>7. merge_overrides_on_default_config(Default, get_overrides(Kept(C, S), e, strategy), strategy)
        = [k \in Keys |->
             merge_overrides_on_default_config(Default, get_overrides(C, e, strategy), strategy)[k]]
  BY <1>6, EvalAgrees, ResolutionAssumption
<1>8. QED
  BY <1>2, <1>7, ResolutionAssumption DEF eval_cac, Resolve, merge_overrides_on_default_config, p, e

\* And for some of the keys.
LEMMA PrefixCommutes ==
  ASSUME NEW C, Listing(C), NEW q, NEW K \in SUBSET Keys, NEW strategy
  PROVE  eval_cac(filter_by_prefix(C, K), [k \in K |-> Default[k]], q, strategy)
           = [k \in K |-> eval_cac(C, Default, q, strategy)[k]]
<1> DEFINE e == evaluate_local_cohorts(q)
           cut == [i \in DOMAIN C |->
                     [C[i] EXCEPT !.override = [k \in DOMAIN C[i].override \cap K |-> C[i].override[k]]]]
           S == {i \in DOMAIN C : DOMAIN cut[i].override # {}}
<1>1. /\ Len(C) \in Nat /\ DOMAIN C = 1 .. Len(C)
      /\ \A i \in 1 .. Len(C) : Context(C[i])
  BY ListingDomain DEF Listing
<1>2. filter_by_prefix(C, K) = Kept(cut, S)
  BY DEF filter_by_prefix
<1>3. ASSUME NEW i \in 1 .. Len(C)
      PROVE  cut[i].condition = C[i].condition /\ Agree(cut[i].override, C[i].override, K)
  <2> DEFINE f == [k \in DOMAIN C[i].override \cap K |-> C[i].override[k]]
  <2>1. cut[i] = [C[i] EXCEPT !.override = f]
    BY <1>1
  <2>2. Agree(f, C[i].override, K)
    BY DEF Agree
  <2>3. C[i] = [condition |-> C[i].condition, override |-> C[i].override]
    BY <1>1 DEF Context
  <2> HIDE DEF f, cut
  <2>4. cut[i] = [condition |-> C[i].condition, override |-> f]
    BY <2>1, <2>3
  <2>5. QED
    BY <2>2, <2>4
<1>4. S \subseteq 1 .. Len(C)
  BY <1>1
<1>5. \A i \in 1 .. Len(C) : i \notin S => DOMAIN cut[i].override = {}
  BY <1>1
<1> HIDE DEF S, cut, e
<1>6. \A i \in 1 .. Len(C) : i \notin S => DOMAIN C[i].override \cap K = {}
  BY <1>3, <1>5 DEF Agree
<1>7. Agree(get_overrides(Kept(cut, S), e, strategy), get_overrides(C, e, strategy), K)
  BY <1>1, <1>3, <1>4, <1>6, KeptOverrides
<1> DEFINE D == [k \in K |-> Default[k]]
<1>8. merge_overrides_on_default_config(D, get_overrides(Kept(cut, S), e, strategy), strategy)
        = [k \in K |->
             merge_overrides_on_default_config(Default, get_overrides(C, e, strategy), strategy)[k]]
  <2>1. DOMAIN D = K /\ \A k \in K : D[k] = Default[k]
    OBVIOUS
  <2> HIDE DEF D
  <2>2. QED
    BY <1>7, <2>1, EvalAgrees
<1>9. QED
  BY <1>2, <1>8 DEF eval_cac, Resolve, e

\* In every workspace that requests can produce, a condition has one context.
THEOREM WorkspaceInvariant == Spec => []WorkspaceInv
<1>1. WorkspaceInv /\ UNCHANGED contexts => WorkspaceInv'
  BY DEF WorkspaceInv, Listing, Distinct
<1>2. WorkspaceInv /\ [Next]_contexts => WorkspaceInv'
  BY <1>1, NextInv
<1>3. QED
  BY <1>2, InitInv, PTL DEF Spec

\* Filtering a configuration for some keys, or for a part of a query that determines
\* the local cohorts in its conditions as the query does, does not change what the
\* query resolves to: filter_by_dimensions and filter_by_prefix on one side, eval_cac
\* on the other, each with its own evaluation of the cohorts.
THEOREM FilterCommutesCorrect == Spec => []FilterCommutes
<1>1. WorkspaceInv => FilterCommutes
  <2>1. SUFFICES ASSUME WorkspaceInv
                 PROVE  FilterCommutes
    OBVIOUS
  <2> DEFINE C == ByWeight(contexts)
  <2>2. Listing(C) /\ \A n \in DOMAIN C : \E i \in DOMAIN contexts : C[n] = contexts[i]
    <3>1. PICK o : /\ Arranges(o, contexts, Len(contexts))
                   /\ C = [n \in 1 .. Len(contexts) |-> contexts[o[n]]]
                   /\ Listing(C)
      BY <2>1, ByWeightList DEF WorkspaceInv
    <3>2. DOMAIN contexts = 1 .. Len(contexts)
      BY <2>1, ListingDomain DEF WorkspaceInv
    <3>3. QED
      BY <3>1, <3>2 DEF Arranges
  <2> HIDE DEF C
  <2>3. ASSUME NEW q \in Queries, NEW strategy, NEW known \in SUBSET DOMAIN q, Determines(known, q)
        PROVE  eval_cac(filter_by_dimensions(C, [d \in known |-> q[d]]), Default, q, strategy)
                 = eval_cac(C, Default, q, strategy)
    <3>1. \A n \in DOMAIN C : \A c \in DOMAIN C[n].condition \cap DOMAIN Schema :
            (Ancestors[c] \cup {c}) \cap DOMAIN q \subseteq known
      BY <2>2, <2>3 DEF Determines
    <3>2. QED
      BY <2>2, <3>1, DimensionsCommute
  <2>4. QED
    BY <2>2, <2>3, PrefixCommutes DEF FilterCommutes, C
<1>2. QED
  BY <1>1, WorkspaceInvariant, PTL
-----------------------------------------------------------------------------
(* Which context decides *)

\* The i-th context of C has a say on k.
Says(C, q, k, i) == apply(C[i].condition, q) /\ k \in DOMAIN C[i].override

Sayers(C, q, k, n) == {i \in 1 .. n : Says(C, q, k, i)}

\* Those among the first n contexts that set the field f, and were not undone by an
\* atom after it.
Setters(C, q, k, f, n) ==
  {i \in Sayers(C, q, k, n) :
     /\ IsObject(C[i].override[k])
     /\ f \in DOMAIN C[i].override[k]
     /\ \A j \in Sayers(C, q, k, n) : i < j => IsObject(C[j].override[k])}

Last(S, i) == i \in S /\ \A j \in S : j <= i

\* With the strategy REPLACE the last context that has a say decides.
Replaced(doc, C, q, k, n) ==
  /\ k \in DOMAIN doc <=> Sayers(C, q, k, n) # {}
  /\ \A i : Last(Sayers(C, q, k, n), i) => doc[k] = C[i].override[k]

\* With MERGE it does if it gives an atom, and else every field is decided by the
\* last context that set it.
Fielded(v, C, q, k, n) ==
  /\ IsObject(v)
  /\ DOMAIN v = {f \in Fields : Setters(C, q, k, f, n) # {}}
  /\ \A f \in Fields : \A i : Last(Setters(C, q, k, f, n), i) => v[f] = C[i].override[k][f]

Merged(doc, C, q, k, n) ==
  /\ k \in DOMAIN doc <=> Sayers(C, q, k, n) # {}
  /\ \A i : Last(Sayers(C, q, k, n), i) =>
       IF IsObject(C[i].override[k]) THEN Fielded(doc[k], C, q, k, n)
       ELSE doc[k] = C[i].override[k]

\* Every set of sayers has a last one.
LEMMA LastExists ==
  ASSUME NEW N \in Nat, NEW S, S \subseteq 1 .. N, S # {}
  PROVE  \E i : Last(S, i)
<1>1. S \subseteq 0 .. N
  OBVIOUS
<1>2. PICK m \in S : \A x \in S : x <= m
  BY <1>1, Greatest
<1>3. QED
  BY <1>2 DEF Last

\* The next context, if it has no say.
LEMMA SayersSame ==
  ASSUME NEW C, NEW q, NEW k, NEW n \in Nat \ {0}, ~Says(C, q, k, n)
  PROVE  /\ Sayers(C, q, k, n) = Sayers(C, q, k, n - 1)
         /\ \A f : Setters(C, q, k, f, n) = Setters(C, q, k, f, n - 1)
<1>1. Sayers(C, q, k, n) = Sayers(C, q, k, n - 1)
  BY DEF Sayers
<1>2. QED
  BY <1>1 DEF Setters

\* The next context, if it has a say.
LEMMA SayersMore ==
  ASSUME NEW C, NEW q, NEW k, NEW n \in Nat \ {0}, Says(C, q, k, n)
  PROVE  /\ Sayers(C, q, k, n) = Sayers(C, q, k, n - 1) \cup {n}
         /\ \A i \in Sayers(C, q, k, n - 1) : i < n /\ i \in Nat
         /\ \A i : Last(Sayers(C, q, k, n), i) <=> i = n
<1>1. /\ Sayers(C, q, k, n) = Sayers(C, q, k, n - 1) \cup {n}
      /\ \A i \in Sayers(C, q, k, n - 1) : i < n /\ i \in Nat
  BY DEF Sayers
<1>2. QED
  BY <1>1 DEF Last

\* Its fields, if it gives an object.
LEMMA SettersMore ==
  ASSUME NEW C, NEW q, NEW k, NEW n \in Nat \ {0}, Says(C, q, k, n), IsObject(C[n].override[k]), NEW f
  PROVE  Setters(C, q, k, f, n)
           = Setters(C, q, k, f, n - 1) \cup (IF f \in DOMAIN C[n].override[k] THEN {n} ELSE {})
<1> DEFINE S == Sayers(C, q, k, n - 1)
<1>1. /\ Sayers(C, q, k, n) = S \cup {n}
      /\ \A i \in S : i < n /\ i \in Nat
  BY SayersMore
<1> HIDE DEF S
<1>2. ASSUME NEW i \in S
      PROVE  i \in Setters(C, q, k, f, n) <=> i \in Setters(C, q, k, f, n - 1)
  BY <1>1 DEF Setters, S
<1>3. n \in Setters(C, q, k, f, n) <=> f \in DOMAIN C[n].override[k]
  <2>1. \A j \in S \cup {n} : ~(n < j)
    BY <1>1
  <2>2. QED
    BY <1>1, <2>1 DEF Setters
<1>4. /\ Setters(C, q, k, f, n) \subseteq S \cup {n}
      /\ Setters(C, q, k, f, n - 1) \subseteq S
      /\ n \notin S
  BY <1>1 DEF Setters, S
<1>5. QED
  BY <1>2, <1>3, <1>4

\* Objects are functions on fields.
LEMMA ObjectForm ==
  ASSUME NEW v
  PROVE  IsObject(v) <=> /\ v = [f \in DOMAIN v |-> v[f]]
                         /\ DOMAIN v \subseteq Fields
                         /\ \A f \in DOMAIN v : v[f] \in Atoms
<1>1. ASSUME IsObject(v)
      PROVE  /\ v = [f \in DOMAIN v |-> v[f]]
             /\ DOMAIN v \subseteq Fields
             /\ \A f \in DOMAIN v : v[f] \in Atoms
  <2>1. PICK N \in SUBSET Fields : v \in [N -> Atoms]
    BY <1>1 DEF IsObject, Objects, Partial
  <2>2. QED
    BY <2>1
<1>2. ASSUME v = [f \in DOMAIN v |-> v[f]], DOMAIN v \subseteq Fields, \A f \in DOMAIN v : v[f] \in Atoms
      PROVE  IsObject(v)
  <2>1. v \in [DOMAIN v -> Atoms] /\ DOMAIN v \in SUBSET Fields
    BY <1>2
  <2>2. QED
    BY <2>1 DEF IsObject, Objects, Partial
<1>3. QED
  BY <1>1, <1>2

\* An object without fields.
LEMMA EmptyObject == IsObject(Empty) /\ DOMAIN Empty = {}
<1>1. DOMAIN Empty = {} /\ Empty = [f \in DOMAIN Empty |-> Empty[f]]
  BY DEF Empty
<1>2. QED
  BY <1>1, ObjectForm

\* One object on top of another.
LEMMA OverObjects ==
  ASSUME NEW u, NEW v, IsObject(u), IsObject(v)
  PROVE  /\ IsObject(Over(u, v))
         /\ DOMAIN Over(u, v) = DOMAIN u \cup DOMAIN v
         /\ \A f \in DOMAIN u : Over(u, v)[f] = u[f]
         /\ \A f \in DOMAIN v : f \notin DOMAIN u => Over(u, v)[f] = v[f]
<1> DEFINE w == Over(u, v)
<1>1. /\ DOMAIN w = DOMAIN u \cup DOMAIN v
      /\ w = [f \in DOMAIN w |-> w[f]]
      /\ \A f \in DOMAIN u : w[f] = u[f]
      /\ \A f \in DOMAIN v : f \notin DOMAIN u => w[f] = v[f]
  BY DEF Over
<1> HIDE DEF w
<1>2. DOMAIN w \subseteq Fields /\ \A f \in DOMAIN w : w[f] \in Atoms
  BY <1>1, ObjectForm
<1>3. IsObject(w)
  BY <1>1, <1>2, ObjectForm
<1>4. QED
  BY <1>1, <1>3 DEF w
\* A step of the fold with REPLACE.
LEMMA ReplacedStep ==
  ASSUME NEW C, NEW q, NEW k, NEW n \in Nat \ {0}, NEW doc, Replaced(doc, C, q, k, n - 1)
  PROVE  Replaced(After(doc, C[n], q, "REPLACE"), C, q, k, n)
<1> DEFINE new == After(doc, C[n], q, "REPLACE")
<1>1. CASE Says(C, q, k, n)
  <2>1. k \in DOMAIN new /\ new[k] = C[n].override[k]
    BY <1>1 DEF Says, After, Combine, Over
  <2> HIDE DEF new
  <2>2. QED
    BY <1>1, <2>1, SayersMore DEF Replaced, new
<1>2. CASE ~Says(C, q, k, n)
  <2>1. (k \in DOMAIN new <=> k \in DOMAIN doc) /\ (k \in DOMAIN doc => new[k] = doc[k])
    BY <1>2 DEF Says, After, Combine, Over
  <2> HIDE DEF new
  <2>2. Sayers(C, q, k, n) = Sayers(C, q, k, n - 1)
    BY <1>2, SayersSame
  <2>3. \A i : Last(Sayers(C, q, k, n), i) => k \in DOMAIN doc
    BY <2>2 DEF Replaced, Last
  <2>4. Replaced(new, C, q, k, n)
    BY <2>1, <2>2, <2>3 DEF Replaced
  <2>5. QED
    BY <2>4 DEF new
<1>3. QED
  BY <1>1, <1>2

\* A step of the fold with MERGE.
LEMMA MergedStep ==
  ASSUME NEW C, NEW q, NEW k, NEW n \in Nat \ {0}, NEW doc, Merged(doc, C, q, k, n - 1)
  PROVE  Merged(After(doc, C[n], q, "MERGE"), C, q, k, n)
<1> DEFINE new == After(doc, C[n], q, "MERGE")
           S == Sayers(C, q, k, n - 1)
<1>1. CASE ~Says(C, q, k, n)
  <2>1. (k \in DOMAIN new <=> k \in DOMAIN doc) /\ (k \in DOMAIN doc => new[k] = doc[k])
    BY <1>1 DEF Says, After, Combine, MergeKeys
  <2> HIDE DEF new
  <2>2. /\ Sayers(C, q, k, n) = S
        /\ \A f : Setters(C, q, k, f, n) = Setters(C, q, k, f, n - 1)
    BY <1>1, SayersSame
  <2>3. \A i : Last(S, i) => k \in DOMAIN doc
    BY <2>2 DEF Merged, Last
  <2>4. \A v : Fielded(v, C, q, k, n - 1) => Fielded(v, C, q, k, n)
    BY <2>2 DEF Fielded
  <2>5. Merged(new, C, q, k, n)
    BY <2>1, <2>2, <2>3, <2>4 DEF Merged
  <2>6. QED
    BY <2>5 DEF new
<1>2. CASE Says(C, q, k, n)
  <2> DEFINE p   == C[n].override[k]
             old == IF k \in DOMAIN doc THEN doc[k] ELSE Empty
  <2>1. k \in DOMAIN new /\ new[k] = merge(old, p)
    BY <1>2 DEF Says, After, Combine, MergeKeys
  <2> HIDE DEF new
  <2>2. /\ Sayers(C, q, k, n) = S \cup {n}
        /\ \A i \in S : i < n /\ i \in Nat
        /\ \A i : Last(Sayers(C, q, k, n), i) <=> i = n
    BY <1>2, SayersMore
  <2>3. CASE ~IsObject(p)
    <3>1. new[k] = p
      BY <2>1, <2>3 DEF merge
    <3>2. Merged(new, C, q, k, n)
      BY <2>1, <2>2, <2>3, <3>1 DEF Merged
    <3>3. QED
      BY <3>2 DEF new
  <2>4. CASE IsObject(p)
    <3> DEFINE base == IF IsObject(old) THEN old ELSE Empty
               Set(f) == Setters(C, q, k, f, n - 1)
    <3>1. new[k] = Over(p, base)
      BY <2>1, <2>4 DEF merge
    <3>2. /\ IsObject(base)
          /\ DOMAIN base = {f \in Fields : Set(f) # {}}
          /\ \A f \in Fields : \A i : Last(Set(f), i) => base[f] = C[i].override[k][f]
      <4>1. CASE S = {}
        <5>1. \A f : Set(f) = {}
          BY <4>1 DEF Setters
        <5>2. base = Empty
          BY <4>1, EmptyObject DEF Merged
        <5>3. QED
          BY <5>1, <5>2, EmptyObject DEF Last
      <4>2. CASE S # {}
        <5>1. PICK l : Last(S, l)
          <6>1. S \subseteq 1 .. n /\ n \in Nat
            BY DEF Sayers
          <6>2. QED
            BY <4>2, <6>1, LastExists
        <5>2. k \in DOMAIN doc /\ old = doc[k]
          BY <4>2 DEF Merged
        <5>3. CASE IsObject(C[l].override[k])
          <6>1. Fielded(doc[k], C, q, k, n - 1)
            BY <5>1, <5>3 DEF Merged
          <6>2. base = doc[k]
            BY <5>2, <6>1 DEF Fielded
          <6>3. QED
            BY <6>1, <6>2 DEF Fielded
        <5>4. CASE ~IsObject(C[l].override[k])
          <6>1. old = C[l].override[k]
            BY <5>1, <5>2, <5>4 DEF Merged
          <6>2. base = Empty
            BY <5>4, <6>1
          <6>3. ASSUME NEW f, NEW i \in Set(f)
                PROVE  FALSE
            <7>1. i \in S /\ IsObject(C[i].override[k])
              BY <6>3 DEF Setters
            <7>2. i # l /\ i <= l /\ l \in S
              BY <5>1, <5>4, <7>1 DEF Last
            <7>3. i < l
              BY <2>2, <7>1, <7>2
            <7>4. QED
              BY <5>4, <6>3, <7>2, <7>3 DEF Setters
          <6>4. QED
            BY <6>2, <6>3, EmptyObject DEF Last
        <5>5. QED
          BY <5>3, <5>4
      <4>3. QED
        BY <4>1, <4>2
    <3> HIDE DEF base, old
    <3>3. /\ IsObject(new[k])
          /\ DOMAIN new[k] = DOMAIN p \cup DOMAIN base
          /\ \A f \in DOMAIN p : new[k][f] = p[f]
          /\ \A f \in DOMAIN base : f \notin DOMAIN p => new[k][f] = base[f]
      <4> HIDE DEF p, Set
      <4>1. IsObject(p) /\ IsObject(base)
        BY <2>4, <3>2
      <4>2. /\ IsObject(Over(p, base))
            /\ DOMAIN Over(p, base) = DOMAIN p \cup DOMAIN base
            /\ \A f \in DOMAIN p : Over(p, base)[f] = p[f]
            /\ \A f \in DOMAIN base : f \notin DOMAIN p => Over(p, base)[f] = base[f]
        BY <4>1, OverObjects
      <4>3. QED
        BY <3>1, <4>2
    <3>4. \A f : Setters(C, q, k, f, n) = Set(f) \cup (IF f \in DOMAIN p THEN {n} ELSE {})
      BY <1>2, <2>4, SettersMore
    <3>5. \A f : Set(f) \subseteq S
      BY DEF Setters
    <3>6. DOMAIN p \subseteq Fields
      BY <2>4, ObjectForm
    <3> HIDE DEF Set, p, S
    <3>7. DOMAIN new[k] = {f \in Fields : Setters(C, q, k, f, n) # {}}
      BY <3>2, <3>3, <3>4, <3>6
    <3>8. ASSUME NEW f \in Fields, NEW i, Last(Setters(C, q, k, f, n), i)
          PROVE  new[k][f] = C[i].override[k][f]
      <4>1. CASE f \in DOMAIN p
        <5>1. Setters(C, q, k, f, n) = Set(f) \cup {n}
          BY <3>4, <4>1
        <5>2. i = n
          BY <2>2, <3>5, <3>8, <5>1 DEF Last
        <5>3. QED
          BY <3>3, <4>1, <5>2 DEF p
      <4>2. CASE f \notin DOMAIN p
        <5>1. Setters(C, q, k, f, n) = Set(f)
          BY <3>4, <4>2
        <5>2. Last(Set(f), i) /\ Set(f) # {}
          BY <3>8, <5>1 DEF Last
        <5>3. f \in DOMAIN base /\ base[f] = C[i].override[k][f]
          BY <3>2, <5>2
        <5>4. QED
          BY <3>3, <4>2, <5>3
      <4>3. QED
        BY <4>1, <4>2
    <3>9. Fielded(new[k], C, q, k, n)
      BY <3>3, <3>7, <3>8 DEF Fielded
    <3>10. Merged(new, C, q, k, n)
      BY <2>1, <2>2, <2>4, <3>9 DEF Merged, p
    <3>11. QED
      BY <3>10 DEF new
  <2>5. QED
    BY <2>3, <2>4
<1>3. QED
  BY <1>1, <1>2

\* What the whole fold gives.
LEMMA FoldDecides ==
  ASSUME NEW C, NEW q, Len(C) \in Nat, NEW k
  PROVE  /\ Replaced(get_overrides(C, q, "REPLACE"), C, q, k, Len(C))
         /\ Merged(get_overrides(C, q, "MERGE"), C, q, k, Len(C))
<1> DEFINE N == Len(C)
<1>1. PICK g : Folds(g, C, N, q, "REPLACE") /\ get_overrides(C, q, "REPLACE") = g[N]
  BY GetOverrides
<1>2. PICK h : Folds(h, C, N, q, "MERGE") /\ get_overrides(C, q, "MERGE") = h[N]
  BY GetOverrides
<1> DEFINE Good(n) == Replaced(g[n], C, q, k, n) /\ Merged(h[n], C, q, k, n)
           B == {n \in 0 .. N : ~Good(n)}
<1>3. B = {}
  <2>1. SUFFICES ASSUME B # {}
                 PROVE  FALSE
    OBVIOUS
  <2>2. PICK n \in B : \A x \in B : n <= x
    <3>1. B \subseteq Nat
      OBVIOUS
    <3>2. QED
      BY <2>1, <3>1, Least
  <2>3. n # 0
    <3>1. Sayers(C, q, k, 0) = {} /\ g[0] = Empty /\ h[0] = Empty
      BY <1>1, <1>2 DEF Sayers, Folds
    <3>2. Good(0)
      BY <3>1, EmptyObject DEF Replaced, Merged, Last
    <3>3. QED
      BY <2>2, <3>2
  <2>4. n \in 1 .. N /\ n \in Nat \ {0} /\ n - 1 \in 0 .. N /\ n - 1 \notin B
    BY <2>2, <2>3
  <2>5. Good(n - 1)
    BY <2>4
  <2>6. g[n] = After(g[n - 1], C[n], q, "REPLACE") /\ h[n] = After(h[n - 1], C[n], q, "MERGE")
    BY <1>1, <1>2, <2>4 DEF Folds
  <2>7. Replaced(g[n], C, q, k, n)
    BY <2>4, <2>5, <2>6, ReplacedStep
  <2>8. Merged(h[n], C, q, k, n)
    BY <2>4, <2>5, <2>6, MergedStep
  <2>9. QED
    BY <2>7, <2>8
<1>4. Good(N)
  BY <1>3
<1>5. QED
  BY <1>1, <1>2, <1>4
-----------------------------------------------------------------------------
(* Resolution by weight *)

\* Above is the order of a configuration, seen from the other end.
LEMMA AboveIsBefore ==
  ASSUME Listing(contexts)
  PROVE  \A i, j \in DOMAIN contexts : Above(i, j) <=> Before(contexts, j, i)
<1>1. \A i \in DOMAIN contexts : Weight(contexts, i) \in Nat /\ i \in Nat
  BY ListingDomain, WeightNat DEF Listing
<1>2. QED
  BY <1>1 DEF Above, Before, Weight

\* The highest of some contexts is the last in the order of the configuration.
LEMMA HighestIsLast ==
  ASSUME Listing(contexts), NEW o, NEW N, N = Len(contexts), Arranges(o, contexts, N),
         NEW T, T \subseteq DOMAIN contexts, NEW m, Last({n \in 1 .. N : o[n] \in T}, m)
  PROVE  Highest(T) = o[m]
<1> DEFINE Top1(i) == \A j \in T \ {i} : Above(i, j)
<1>1. DOMAIN contexts = 1 .. N /\ N \in Nat
  BY ListingDomain DEF Listing
<1>2. m \in 1 .. N /\ o[m] \in T /\ \A n \in 1 .. N : o[n] \in T => n <= m
  BY DEF Last
<1>3. ASSUME NEW j \in T, j # o[m]
      PROVE  Before(contexts, j, o[m])
  <2>1. PICK n \in 1 .. N : o[n] = j
    BY <1>1 DEF Arranges
  <2>2. n < m
    BY <1>1, <1>2, <1>3, <2>1
  <2>3. QED
    BY <1>2, <2>1, <2>2 DEF Arranges
<1>4. Top1(o[m])
  BY <1>2, <1>3, AboveIsBefore
<1>5. ASSUME NEW i \in T, Top1(i)
      PROVE  i = o[m]
  <2>1. SUFFICES ASSUME i # o[m]
                 PROVE  FALSE
    OBVIOUS
  <2>2. Above(i, o[m]) /\ Above(o[m], i)
    BY <1>2, <1>4, <1>5, <2>1
  <2>3. Before(contexts, i, o[m]) /\ Before(contexts, o[m], i)
    BY <1>2, <1>5, <2>2, AboveIsBefore
  <2>4. PICK n \in 1 .. N : o[n] = i
    BY <1>1, <1>5 DEF Arranges
  <2>5. n < m /\ m < n
    BY <1>2, <2>3, <2>4 DEF Arranges
  <2>6. QED
    BY <1>1, <1>2, <2>5
<1>6. QED
  BY <1>2, <1>4, <1>5 DEF Highest

\* The sets of contexts that decide, in the table and in the configuration.
LEMMA SameDeciders ==
  ASSUME Listing(contexts), NEW o, NEW N, N = Len(contexts), Arranges(o, contexts, N),
         NEW D, \A n \in 1 .. N : D[n] = contexts[o[n]], NEW q, NEW k
  PROVE  /\ Sayers(D, q, k, N) = {n \in 1 .. N : o[n] \in Matching(q, k)}
         /\ \A f : Setters(D, q, k, f, N) = {n \in 1 .. N : o[n] \in FieldSources(q, k, f)}
         /\ Matching(q, k) = {} <=> Sayers(D, q, k, N) = {}
         /\ \A f : FieldSources(q, k, f) = {} <=> Setters(D, q, k, f, N) = {}
<1> DEFINE M == Matching(q, k)
           S == Sayers(D, q, k, N)
<1>1. /\ DOMAIN contexts = 1 .. N /\ N \in Nat /\ \A n \in 1 .. N : o[n] \in 1 .. N
      /\ \A i \in 1 .. N : \E n \in 1 .. N : o[n] = i
  BY ListingDomain DEF Listing, Arranges
<1>2. \A n \in 1 .. N : D[n] = contexts[o[n]]
  OBVIOUS
<1>3. M \subseteq 1 .. N
  BY <1>1 DEF Matching
<1>4. \A n \in 1 .. N : n \in S <=> o[n] \in M
  BY <1>1, <1>2 DEF Sayers, Says, Matching
<1>5. S \subseteq 1 .. N
  BY DEF Sayers
<1>6. ASSUME NEW f
      PROVE  \A n \in 1 .. N : n \in Setters(D, q, k, f, N) <=> o[n] \in FieldSources(q, k, f)
  <2>1. ASSUME NEW n \in 1 .. N, n \in S
        PROVE  (\A j \in S : n < j => IsObject(D[j].override[k]))
                 <=> (\A j \in M : Above(j, o[n]) => IsObject(contexts[j].override[k]))
    <3>1. \A j \in 1 .. N : n < j <=> Above(o[j], o[n])
      BY <1>1, AboveIsBefore DEF Arranges
    <3>2. ASSUME \A j \in S : n < j => IsObject(D[j].override[k]), NEW j \in M, Above(j, o[n])
          PROVE  IsObject(contexts[j].override[k])
      <4>1. PICK b \in 1 .. N : o[b] = j
        BY <1>1, <1>3
      <4>2. b \in S /\ n < b /\ D[b] = contexts[j]
        BY <1>2, <1>4, <3>1, <3>2, <4>1
      <4>3. QED
        BY <3>2, <4>2
    <3>3. ASSUME \A j \in M : Above(j, o[n]) => IsObject(contexts[j].override[k]), NEW j \in S, n < j
          PROVE  IsObject(D[j].override[k])
      <4>1. j \in 1 .. N
        BY <1>5
      <4>2. o[j] \in M /\ Above(o[j], o[n]) /\ D[j] = contexts[o[j]]
        BY <1>2, <1>4, <3>1, <3>3, <4>1
      <4>3. QED
        BY <3>3, <4>2
    <3>4. QED
      BY <3>2, <3>3
  <2>2. ASSUME NEW n \in 1 .. N
        PROVE  n \in Setters(D, q, k, f, N) <=> o[n] \in FieldSources(q, k, f)
    <3>1. CASE n \in S
      <4>1. o[n] \in M /\ D[n] = contexts[o[n]]
        BY <1>2, <1>4, <3>1
      <4>2. n \in Setters(D, q, k, f, N) <=>
              /\ IsObject(D[n].override[k])
              /\ f \in DOMAIN D[n].override[k]
              /\ \A j \in S : n < j => IsObject(D[j].override[k])
        BY <3>1 DEF Setters
      <4>3. o[n] \in FieldSources(q, k, f) <=>
              /\ IsObject(contexts[o[n]].override[k])
              /\ f \in DOMAIN contexts[o[n]].override[k]
              /\ \A j \in M : Above(j, o[n]) => IsObject(contexts[j].override[k])
        BY <4>1 DEF FieldSources
      <4>4. QED
        BY <2>1, <3>1, <4>1, <4>2, <4>3
    <3>2. CASE n \notin S
      BY <1>4, <3>2 DEF Setters, FieldSources
    <3>3. QED
      BY <3>1, <3>2
  <2>3. QED
    BY <2>2
<1>7. \A f : Setters(D, q, k, f, N) \subseteq 1 .. N /\ FieldSources(q, k, f) \subseteq 1 .. N
  BY <1>3, <1>5 DEF Setters, FieldSources
<1> HIDE DEF S, M
<1>8. S = {n \in 1 .. N : o[n] \in M} /\ (M = {} <=> S = {})
  BY <1>1, <1>3, <1>4, <1>5
<1>9. ASSUME NEW f
      PROVE  /\ Setters(D, q, k, f, N) = {n \in 1 .. N : o[n] \in FieldSources(q, k, f)}
             /\ FieldSources(q, k, f) = {} <=> Setters(D, q, k, f, N) = {}
  BY <1>1, <1>6, <1>7
<1>10. QED
  BY <1>8, <1>9 DEF S, M

\* eval_cac gives Resolved.
LEMMA ResolvesKey ==
  ASSUME Listing(contexts), NEW q, NEW k \in Keys, NEW strategy \in {"REPLACE", "MERGE"}
  PROVE  Resolve(ByWeight(contexts), Default, q, strategy)[k] = Resolved(q, k, strategy)
<1> DEFINE D == ByWeight(contexts)
           N == Len(contexts)
           M == Matching(q, k)
           S == Sayers(D, q, k, N)
           doc == get_overrides(D, q, strategy)
           old == IF IsObject(Default[k]) THEN Default[k] ELSE Empty
           set == {f \in Fields : FieldSources(q, k, f) # {}}
<1>1. PICK o : Arranges(o, contexts, N) /\ D = [n \in 1 .. N |-> contexts[o[n]]] /\ Len(D) = N
  BY ByWeightList
<1>2. N \in Nat /\ DOMAIN contexts = 1 .. N /\ M \subseteq DOMAIN contexts
  BY ListingDomain DEF Listing, Matching
<1>3. \A n \in 1 .. N : D[n] = contexts[o[n]]
  BY <1>1
<1>4. /\ S = {n \in 1 .. N : o[n] \in M}
      /\ \A f : Setters(D, q, k, f, N) = {n \in 1 .. N : o[n] \in FieldSources(q, k, f)}
      /\ M = {} <=> S = {}
      /\ \A f : FieldSources(q, k, f) = {} <=> Setters(D, q, k, f, N) = {}
  <2> HIDE DEF D
  <2>1. N = Len(contexts) /\ Arranges(o, contexts, N) /\ \A n \in 1 .. N : D[n] = contexts[o[n]]
    BY <1>1
  <2> HIDE DEF N
  <2>2. /\ Sayers(D, q, k, N) = {n \in 1 .. N : o[n] \in Matching(q, k)}
        /\ \A f : Setters(D, q, k, f, N) = {n \in 1 .. N : o[n] \in FieldSources(q, k, f)}
        /\ Matching(q, k) = {} <=> Sayers(D, q, k, N) = {}
        /\ \A f : FieldSources(q, k, f) = {} <=> Setters(D, q, k, f, N) = {}
    BY <2>1, SameDeciders
  <2>3. QED
    BY <2>2
<1>5. k \in DOMAIN Default
  BY ResolutionAssumption
<1>6. Resolve(D, Default, q, strategy)[k] =
        IF k \notin DOMAIN doc THEN Default[k]
        ELSE IF strategy = "REPLACE" THEN doc[k] ELSE merge(Default[k], doc[k])
  BY <1>5 DEF Resolve, merge_overrides_on_default_config
<1>7. /\ strategy = "REPLACE" => Replaced(doc, D, q, k, N)
      /\ strategy = "MERGE" => Merged(doc, D, q, k, N)
  <2>1. Len(D) \in Nat
    BY <1>1, <1>2
  <2>2. Replaced(get_overrides(D, q, "REPLACE"), D, q, k, N) /\ Merged(get_overrides(D, q, "MERGE"), D, q, k, N)
    BY <1>1, <2>1, FoldDecides
  <2>3. QED
    BY <2>2
<1> HIDE DEF D, N, doc
<1>8. CASE M = {}
  <2>1. k \notin DOMAIN doc
    BY <1>4, <1>7, <1>8 DEF Replaced, Merged
  <2>2. QED
    BY <1>6, <1>8, <2>1 DEF Resolved, D
<1>9. CASE M # {}
  <2>1. PICK m : Last(S, m)
    <3>1. S \subseteq 1 .. N /\ S # {}
      BY <1>4, <1>9
    <3>2. QED
      BY <1>2, <3>1, LastExists
  <2>2. Highest(M) = o[m]
    BY <1>1, <1>2, <1>4, <2>1, HighestIsLast DEF N
  <2> DEFINE v == contexts[o[m]].override[k]
  <2>3. v = D[m].override[k] /\ k \in DOMAIN doc
    <3>1. m \in 1 .. N
      BY <1>4, <2>1 DEF Last
    <3>2. QED
      BY <1>3, <1>4, <1>7, <1>9, <3>1 DEF Replaced, Merged
  <2>4. Resolved(q, k, strategy) =
          IF strategy = "REPLACE" \/ ~IsObject(v) THEN v
          ELSE [f \in set \cup DOMAIN old |->
                  IF f \in set THEN contexts[Highest(FieldSources(q, k, f))].override[k][f] ELSE old[f]]
    BY <1>9, <2>2 DEF Resolved
  <2> HIDE DEF S, M, v
  <2>5. CASE strategy = "REPLACE"
    BY <1>6, <1>7, <2>1, <2>3, <2>4, <2>5 DEF Replaced, S, D
  <2>6. CASE strategy = "MERGE" /\ ~IsObject(v)
    <3>1. doc[k] = v
      BY <1>7, <2>1, <2>3, <2>6 DEF Merged, S
    <3>2. merge(Default[k], doc[k]) = v
      BY <2>6, <3>1 DEF merge
    <3>3. QED
      BY <1>6, <2>3, <2>4, <2>6, <3>2 DEF D
  <2>7. CASE strategy = "MERGE" /\ IsObject(v)
    <3>1. Fielded(doc[k], D, q, k, N)
      BY <1>7, <2>1, <2>3, <2>7 DEF Merged, S
    <3>2. merge(Default[k], doc[k]) = Over(doc[k], old)
      BY <3>1 DEF merge, Fielded
    <3>3. DOMAIN doc[k] = set
      BY <1>4, <3>1 DEF Fielded
    <3>4. ASSUME NEW f \in set
          PROVE  doc[k][f] = contexts[Highest(FieldSources(q, k, f))].override[k][f]
      <4> DEFINE T == FieldSources(q, k, f)
                 U == Setters(D, q, k, f, N)
      <4>1. T \subseteq DOMAIN contexts /\ U = {n \in 1 .. N : o[n] \in T} /\ U # {} /\ f \in Fields
        <5>1. T \subseteq DOMAIN contexts
          BY <1>2 DEF FieldSources, M
        <5>2. QED
          BY <1>4, <5>1
      <4>2. PICK u : Last(U, u)
        BY <1>2, <4>1, LastExists
      <4>3. Highest(T) = o[u]
        BY <1>1, <4>1, <4>2, HighestIsLast DEF N
      <4>4. D[u] = contexts[o[u]]
        BY <1>3, <4>1, <4>2 DEF Last
      <4>5. doc[k][f] = D[u].override[k][f]
        BY <3>1, <4>1, <4>2 DEF Fielded
      <4>6. QED
        BY <4>3, <4>4, <4>5
    <3> HIDE DEF set, old
    <3>5. Over(doc[k], old) =
            [f \in set \cup DOMAIN old |->
               IF f \in set THEN contexts[Highest(FieldSources(q, k, f))].override[k][f] ELSE old[f]]
      BY <3>3, <3>4 DEF Over
    <3>6. QED
      BY <1>6, <2>3, <2>4, <2>7, <3>2, <3>5 DEF D
  <2>8. QED
    BY <2>5, <2>6, <2>7
<1>10. QED
  BY <1>8, <1>9

\* The folds of get_overrides and merge_overrides_on_default_config give every key,
\* and when merging every field, the value of the highest context that has a say.
THEOREM ResolvesByWeightCorrect == Spec => []ResolvesByWeight
<1>1. WorkspaceInv => ResolvesByWeight
  <2>1. SUFFICES ASSUME WorkspaceInv, NEW q \in Queries, NEW strategy \in {"REPLACE", "MERGE"}
                 PROVE  eval_cac(ByWeight(contexts), Default, q, strategy)
                          = [k \in Keys |-> Resolved(evaluate_local_cohorts(q), k, strategy)]
    BY DEF ResolvesByWeight
  <2> DEFINE e == evaluate_local_cohorts(q)
             r == Resolve(ByWeight(contexts), Default, e, strategy)
  <2>2. DOMAIN r = Keys /\ r = [k \in DOMAIN r |-> r[k]]
    BY ResolutionAssumption DEF Resolve, merge_overrides_on_default_config
  <2>3. \A k \in Keys : r[k] = Resolved(e, k, strategy)
    BY <2>1, ResolvesKey DEF WorkspaceInv
  <2> HIDE DEF r
  <2>4. r = [k \in Keys |-> Resolved(e, k, strategy)]
    BY <2>2, <2>3
  <2>5. QED
    BY <2>4 DEF r, eval_cac
<1>2. QED
  BY <1>1, WorkspaceInvariant, PTL
-----------------------------------------------------------------------------
(* The reduction *)

\* The contexts after the key k, before those without overrides are dropped.
Cut(C, k) ==
  [i \in DOMAIN C |->
     IF i \in Reducible(C, k)
     THEN [C[i] EXCEPT !.override = [n \in DOMAIN C[i].override \ {k} |-> C[i].override[n]]]
     ELSE C[i]]

NotEmpty(C, k) == {i \in DOMAIN C : DOMAIN Cut(C, k)[i].override # {}}

\* Reduced keeps those that are not empty.
LEMMA ReducedIs == ASSUME NEW C, NEW k PROVE Reduced(C, k) = Kept(Cut(C, k), NotEmpty(C, k))
  BY DEF Reduced, Cut, NotEmpty

\* What is cut off.
LEMMA CutContext ==
  ASSUME NEW C, Listing(C), NEW k, NEW i \in DOMAIN C
  PROVE  /\ Context(Cut(C, k)[i])
         /\ Cut(C, k)[i].condition = C[i].condition
         /\ i \notin Reducible(C, k) => Cut(C, k)[i] = C[i]
         /\ i \in Reducible(C, k) => DOMAIN Cut(C, k)[i].override = DOMAIN C[i].override \ {k}
         /\ \A n \in DOMAIN Cut(C, k)[i].override : Cut(C, k)[i].override[n] = C[i].override[n]
<1>1. Context(C[i])
  BY ListingDomain
<1>2. CASE i \notin Reducible(C, k)
  BY <1>1, <1>2 DEF Cut
<1>3. CASE i \in Reducible(C, k)
  <2> DEFINE f == [n \in DOMAIN C[i].override \ {k} |-> C[i].override[n]]
             c == Cut(C, k)[i]
  <2>1. c = [C[i] EXCEPT !.override = f]
    BY <1>3 DEF Cut
  <2>2. /\ DOMAIN f = DOMAIN C[i].override \ {k}
        /\ \A n \in DOMAIN f : f[n] = C[i].override[n]
    OBVIOUS
  <2> HIDE DEF f, c
  <2>3. /\ C[i] = [condition |-> C[i].condition, override |-> C[i].override]
        /\ C[i].condition \in Conditions
        /\ DOMAIN C[i].override \subseteq Keys
        /\ IsFiniteSet(DOMAIN C[i].override)
    BY <1>1 DEF Context
  <2>4. c = [condition |-> C[i].condition, override |-> f]
    BY <2>1, <2>3
  <2>5. c.condition = C[i].condition /\ c.override = f
    BY <2>4
  <2>6. IsFiniteSet(DOMAIN f) /\ DOMAIN f \subseteq Keys
    BY <2>2, <2>3, FS_RemoveElement
  <2>7. Context(c)
    BY <2>3, <2>4, <2>5, <2>6 DEF Context
  <2>8. QED
    BY <1>3, <2>2, <2>5, <2>7 DEF c
<1>4. QED
  BY <1>2, <1>3

\* i is the last of the contexts in T, in the order of the configuration.
Tops(C, T, i) == i \in T /\ \A j \in T : j # i => Before(C, j, i)

\* What a query resolves to without merging.
ValueOf(C, q) == Resolve(ByWeight(C), Default, q, "REPLACE")

\* The order of a configuration is total.
LEMMA BeforeTotal ==
  ASSUME NEW C, Listing(C)
  PROVE  /\ \A i \in DOMAIN C : Weight(C, i) \in Nat /\ ~Before(C, i, i)
         /\ \A i, j \in DOMAIN C : i # j => Before(C, i, j) \/ Before(C, j, i)
         /\ \A i, j \in DOMAIN C : Before(C, i, j) => Weight(C, i) <= Weight(C, j) /\ ~Before(C, j, i)
         /\ \A i, j \in DOMAIN C : Weight(C, i) < Weight(C, j) => Before(C, i, j)
<1>1. \A i \in DOMAIN C : Weight(C, i) \in Nat /\ i \in Nat
  BY ListingDomain, WeightNat DEF Listing
<1>2. QED
  BY <1>1 DEF Before

\* Some contexts have a last one.
LEMMA TopExists ==
  ASSUME NEW C, Listing(C), NEW T, T \subseteq DOMAIN C, T # {}
  PROVE  \E i : Tops(C, T, i)
<1> DEFINE N == Len(C)
<1>1. N \in Nat /\ DOMAIN C = 1 .. N
  BY ListingDomain DEF Listing
<1>2. PICK o : Arranges(o, C, N)
  BY ByWeightList
<1> HIDE DEF N
<1> DEFINE U == {n \in 1 .. N : o[n] \in T}
<1>3. U \subseteq 1 .. N /\ U # {}
  <2>1. PICK i \in T : i \in 1 .. N
    BY <1>1
  <2>2. PICK n \in 1 .. N : o[n] = i
    BY <1>2, <2>1 DEF Arranges
  <2>3. n \in U
    BY <2>1, <2>2
  <2>4. QED
    BY <2>3
<1>4. PICK m : Last(U, m)
  BY <1>1, <1>3, LastExists
<1>5. m \in 1 .. N /\ o[m] \in T /\ \A n \in 1 .. N : o[n] \in T => n <= m
  BY <1>4 DEF Last
<1>6. ASSUME NEW j \in T, j # o[m]
      PROVE  Before(C, j, o[m])
  <2>1. PICK n \in 1 .. N : o[n] = j
    BY <1>1, <1>2 DEF Arranges
  <2>2. n < m
    BY <1>1, <1>5, <1>6, <2>1
  <2>3. QED
    BY <1>2, <1>5, <2>1, <2>2 DEF Arranges
<1>7. QED
  BY <1>5, <1>6 DEF Tops

\* The contexts that have a say on k.
Speakers(C, q, k) == {i \in DOMAIN C : Says(C, q, k, i)}

\* Without merging, the last context that has a say decides.
LEMMA TopDecides ==
  ASSUME NEW C, Listing(C), NEW q, NEW k \in Keys
  PROVE  /\ Speakers(C, q, k) = {} => ValueOf(C, q)[k] = Default[k]
         /\ \A i : Tops(C, Speakers(C, q, k), i) => ValueOf(C, q)[k] = C[i].override[k]
<1> DEFINE T == Speakers(C, q, k)
           D == ByWeight(C)
           N == Len(C)
           S == Sayers(D, q, k, N)
           doc == get_overrides(D, q, "REPLACE")
<1>1. PICK o : Arranges(o, C, N) /\ D = [n \in 1 .. N |-> C[o[n]]] /\ Len(D) = N
  BY ByWeightList
<1>2. N \in Nat /\ DOMAIN C = 1 .. N
  BY ListingDomain DEF Listing
<1>3. \A n \in 1 .. N : D[n] = C[o[n]]
  BY <1>1
<1>4. ValueOf(C, q)[k] = IF k \notin DOMAIN doc THEN Default[k] ELSE doc[k]
  BY ResolutionAssumption DEF ValueOf, Resolve, merge_overrides_on_default_config
<1>5. Replaced(doc, D, q, k, N)
  BY <1>1, <1>2, FoldDecides
<1> HIDE DEF D, N, doc
<1>6. /\ \A n \in 1 .. N : n \in S <=> o[n] \in T
      /\ S \subseteq 1 .. N
      /\ \A i \in 1 .. N : \E n \in 1 .. N : o[n] = i
  <2>1. \A n \in 1 .. N : o[n] \in 1 .. N
    BY <1>1 DEF Arranges
  <2>2. QED
    BY <1>1, <1>2, <1>3, <2>1 DEF Sayers, Says, Arranges, Speakers
<1>7. T \subseteq 1 .. N
  BY <1>2 DEF Speakers
<1> HIDE DEF T
<1>8. ASSUME T = {}
      PROVE  ValueOf(C, q)[k] = Default[k]
  <2>1. S = {}
    BY <1>6, <1>8
  <2>2. QED
    BY <1>4, <1>5, <2>1 DEF Replaced
<1>9. ASSUME NEW i, Tops(C, T, i)
      PROVE  ValueOf(C, q)[k] = C[i].override[k]
  <2>1. i \in T /\ i \in 1 .. N
    BY <1>7, <1>9 DEF Tops
  <2>2. PICK m \in 1 .. N : o[m] = i
    BY <1>6, <2>1
  <2>3. m \in S
    BY <1>6, <2>1, <2>2
  <2>4. ASSUME NEW n \in S
        PROVE  n <= m
    <3>1. n \in 1 .. N /\ o[n] \in T
      BY <1>6
    <3>2. CASE o[n] = i
      BY <1>1, <1>2, <2>2, <3>1, <3>2 DEF Arranges
    <3>3. CASE o[n] # i
      <4>1. Before(C, o[n], o[m])
        BY <1>9, <2>2, <3>1, <3>3 DEF Tops
      <4>2. n < m
        BY <1>1, <3>1, <4>1 DEF Arranges
      <4>3. QED
        BY <1>2, <3>1, <4>2
    <3>4. QED
      BY <3>2, <3>3
  <2>5. Last(S, m)
    BY <2>3, <2>4 DEF Last
  <2>6. k \in DOMAIN doc /\ doc[k] = D[m].override[k]
    BY <1>5, <2>3, <2>5 DEF Replaced
  <2>7. QED
    BY <1>3, <1>4, <2>2, <2>6
<1>10. QED
  BY <1>8, <1>9 DEF T

\* The contexts that have a say on n after the reduction of k.
Remaining(C, q, k, n) == {i \in DOMAIN C : Says(C, q, n, i) /\ ~(n = k /\ i \in Reducible(C, k))}

\* The last of them decides on n.
LEMMA ReducedDecides ==
  ASSUME NEW C, Listing(C), NEW q, NEW k, NEW n \in Keys, NEW T, T = Remaining(C, q, k, n)
  PROVE  /\ T = {} => ValueOf(Reduced(C, k), q)[n] = Default[n]
         /\ \A i : Tops(C, T, i) => ValueOf(Reduced(C, k), q)[n] = C[i].override[n]
<1> DEFINE cut == Cut(C, k)
           S == NotEmpty(C, k)
           R == Reduced(C, k)
           U == Speakers(R, q, n)
<1>1. /\ Len(C) \in Nat /\ DOMAIN C = 1 .. Len(C)
      /\ \A i \in DOMAIN C : Context(C[i])
  BY ListingDomain DEF Listing
<1>2. S \subseteq DOMAIN C /\ \A i \in DOMAIN C : i \in S <=> DOMAIN cut[i].override # {}
  BY DEF NotEmpty
<1>3. R = Kept(cut, S)
  BY ReducedIs
<1>4. \A i \in DOMAIN C :
        /\ Context(cut[i])
        /\ cut[i].condition = C[i].condition
        /\ n \in DOMAIN cut[i].override <=> n \in DOMAIN C[i].override /\ ~(n = k /\ i \in Reducible(C, k))
        /\ n \in DOMAIN cut[i].override => cut[i].override[n] = C[i].override[n]
  BY CutContext
<1> HIDE DEF cut, S, R
<1>5. Listing(R)
  BY <1>2, <1>3, <1>4, KeptListing
<1>6. PICK o, M : Increasing(o, M, S) /\ R = [m \in 1 .. M |-> cut[o[m]]]
  <2>1. S \subseteq 1 .. Len(C) /\ Len(C) \in Nat
    BY <1>1, <1>2
  <2>2. \E o, M : /\ Increasing(o, M, S)
                  /\ \A X : Kept(X, S) = [m \in 1 .. M |-> X[o[m]]]
                  /\ \A X : Len(Kept(X, S)) = M
    BY <2>1, KeptList
  <2>3. QED
    BY <1>3, <2>2
<1>7. /\ M \in Nat /\ DOMAIN R = 1 .. M
      /\ \A m \in 1 .. M : o[m] \in S /\ o[m] \in DOMAIN C /\ R[m] = cut[o[m]]
      /\ \A i \in S : \E m \in 1 .. M : o[m] = i
      /\ \A a, b \in 1 .. M : o[a] < o[b] <=> a < b
      /\ \A a, b \in 1 .. M : o[a] = o[b] => a = b
  BY <1>2, <1>6 DEF Increasing
<1>8. \A i \in DOMAIN C : i \in T <=> apply(cut[i].condition, q) /\ n \in DOMAIN cut[i].override
  BY <1>4 DEF Remaining, Says
<1>9. \A m \in 1 .. M : m \in U <=> o[m] \in T
  BY <1>7, <1>8 DEF Says, Speakers
<1>10. T \subseteq S
  BY <1>2, <1>8 DEF Remaining
<1>11. ASSUME NEW a \in 1 .. M, NEW b \in 1 .. M
       PROVE  Before(R, a, b) <=> Before(C, o[a], o[b])
  <2>1. Weight(R, a) = Weight(C, o[a]) /\ Weight(R, b) = Weight(C, o[b])
    BY <1>4, <1>7 DEF Weight
  <2>2. QED
    BY <1>7, <2>1 DEF Before
<1>12. /\ U = {} => ValueOf(R, q)[n] = Default[n]
       /\ \A m : Tops(R, U, m) => ValueOf(R, q)[n] = R[m].override[n]
  BY <1>5, TopDecides
<1> HIDE DEF U
<1>13. U \subseteq 1 .. M
  BY <1>7 DEF U, Speakers
<1>14. ASSUME T = {}
       PROVE  ValueOf(R, q)[n] = Default[n]
  BY <1>9, <1>12, <1>13, <1>14
<1>15. ASSUME NEW i, Tops(C, T, i)
       PROVE  ValueOf(R, q)[n] = C[i].override[n]
  <2>1. PICK m \in 1 .. M : o[m] = i
    BY <1>7, <1>10, <1>15 DEF Tops
  <2>2. i \in T /\ i \in DOMAIN C /\ m \in U
    BY <1>2, <1>9, <1>10, <1>15, <2>1 DEF Tops
  <2>3. ASSUME NEW j \in U, j # m
        PROVE  Before(R, j, m)
    <3>1. j \in 1 .. M /\ o[j] \in T /\ o[j] # i
      BY <1>7, <1>9, <1>13, <2>1, <2>3
    <3>2. Before(C, o[j], o[m])
      BY <1>15, <2>1, <3>1 DEF Tops
    <3>3. QED
      BY <1>11, <3>1, <3>2
  <2>4. Tops(R, U, m)
    BY <2>2, <2>3 DEF Tops
  <2>5. R[m].override[n] = C[i].override[n]
    BY <1>4, <1>7, <1>8, <2>1, <2>2
  <2>6. QED
    BY <1>12, <2>4, <2>5
<1>16. QED
  BY <1>14, <1>15 DEF R
\* Of two nested contexts of a key that match a query, the one that comes first in
\* the configuration is the more general one, and strictly lighter.
LEMMA NestedOrder ==
  ASSUME NEW C, Listing(C), Distinct(C), NEW k, NEW q, Nested(C, k, q),
         NEW i \in DOMAIN C, NEW j \in DOMAIN C,
         Says(C, q, k, i), Says(C, q, k, j), Before(C, i, j)
  PROVE  /\ MoreGeneral(C[i], C[j])
         /\ ~MoreGeneral(C[j], C[i])
         /\ Weight(C, i) < Weight(C, j)
<1> DEFINE ci == C[i].condition
           cj == C[j].condition
<1>1. Context(C[i]) /\ Context(C[j])
  BY ListingDomain
<1>2. /\ i # j
      /\ Weight(C, i) \in Nat /\ Weight(C, j) \in Nat /\ Weight(C, i) <= Weight(C, j)
  BY <1>1, BeforeTotal
<1>3. MoreGeneral(C[i], C[j]) \/ MoreGeneral(C[j], C[i])
  BY DEF Nested, Says
<1>4. /\ DOMAIN ci \subseteq DOMAIN Position /\ ci = [d \in DOMAIN ci |-> ci[d]]
      /\ DOMAIN cj \subseteq DOMAIN Position /\ cj = [d \in DOMAIN cj |-> cj[d]]
  BY <1>1, PositionAssumption DEF Context
<1>5. ci # cj
  BY <1>1, <1>2 DEF Distinct
<1>6. MoreGeneral(C[i], C[j]) <=> \A d \in DOMAIN ci : d \in DOMAIN cj /\ cj[d] = ci[d]
  BY DEF MoreGeneral
<1>7. MoreGeneral(C[j], C[i]) <=> \A d \in DOMAIN cj : d \in DOMAIN ci /\ ci[d] = cj[d]
  BY DEF MoreGeneral
<1>8. Weight(C, i) = calculate_context_weight(ci) /\ Weight(C, j) = calculate_context_weight(cj)
  BY DEF Weight
<1> HIDE DEF ci, cj
<1>9. ASSUME MoreGeneral(C[j], C[i])
      PROVE  FALSE
  <2>1. DOMAIN cj \subseteq DOMAIN ci
    BY <1>7, <1>9
  <2>2. DOMAIN cj # DOMAIN ci
    <3>1. SUFFICES ASSUME DOMAIN cj = DOMAIN ci
                   PROVE  FALSE
      OBVIOUS
    <3>2. \A d \in DOMAIN ci : ci[d] = cj[d]
      BY <1>7, <1>9, <3>1
    <3>3. ci = cj
      BY <1>4, <3>1, <3>2
    <3>4. QED
      BY <1>5, <3>3
  <2>3. Weight(C, j) < Weight(C, i)
    BY <1>4, <1>8, <2>1, <2>2, WeightGrows
  <2>4. QED
    BY <1>2, <2>3
<1>10. MoreGeneral(C[i], C[j]) /\ DOMAIN ci \subseteq DOMAIN cj
  BY <1>3, <1>6, <1>9
<1>11. DOMAIN ci # DOMAIN cj
  <2>1. SUFFICES ASSUME DOMAIN cj = DOMAIN ci
                 PROVE  FALSE
    OBVIOUS
  <2>2. \A d \in DOMAIN ci : ci[d] = cj[d]
    BY <1>6, <1>10
  <2>3. ci = cj
    BY <1>4, <2>1, <2>2
  <2>4. QED
    BY <1>5, <2>3
<1>12. Weight(C, i) < Weight(C, j)
  BY <1>4, <1>8, <1>10, <1>11, WeightGrows
<1>13. QED
  BY <1>9, <1>10, <1>12

\* What decides on the removal of a context that matches a query is what the query
\* would resolve to without it and the contexts above it.
LEMMA GeneralAreBelow ==
  ASSUME NEW C, Listing(C), Distinct(C), NEW k, NEW q, Nested(C, k, q),
         NEW A, A = Speakers(C, q, k),
         NEW i \in A, i \in Reducible(C, k)
  PROVE  LET below == {j \in A : Before(C, j, i)}
         IN /\ below = {} => C[i].override[k] = Default[k]
            /\ below # {} => \E f \in below : /\ C[i].override[k] = C[f].override[k]
                                              /\ \A j \in below \ {f} : Before(C, j, f)
<1> DEFINE below == {j \in A : Before(C, j, i)}
           general == {j \in Candidates(C, k) \ {i} : MoreGeneral(C[j], C[i])}
           Heaviest(j) == \A n \in general \ {j} : Heavier(C, j, n)
           first == CHOOSE j \in general : Heaviest(j)
<1>1. Listing(C)
  OBVIOUS
<1>2. \A j : j \in A <=> j \in DOMAIN C /\ Says(C, q, k, j)
  BY DEF Speakers
<1>3. ASSUME NEW j \in A, NEW n \in A, Before(C, j, n)
      PROVE  MoreGeneral(C[j], C[n]) /\ ~MoreGeneral(C[n], C[j]) /\ Weight(C, j) < Weight(C, n)
  BY <1>2, <1>3, NestedOrder
<1>4. /\ i \in Candidates(C, k)
      /\ C[i].override[k] = IF general = {} THEN Default[k] ELSE C[first].override[k]
  BY DEF Reducible, can_be_reduced
<1>5. general = below
  <2>1. ASSUME NEW j \in general
        PROVE  j \in below
    <3>1. j \in DOMAIN C /\ k \in DOMAIN C[j].override /\ j # i /\ MoreGeneral(C[j], C[i])
      BY DEF Candidates
    <3>2. apply(C[j].condition, q)
      BY <1>2, <3>1 DEF Says, MoreGeneral, apply
    <3>3. j \in A
      BY <1>2, <3>1, <3>2 DEF Says
    <3>4. Before(C, j, i)
      BY <1>1, <1>2, <1>3, <3>1, <3>3, BeforeTotal
    <3>5. QED
      BY <3>3, <3>4
  <2>2. ASSUME NEW j \in below
        PROVE  j \in general
    <3>1. j \in A /\ Before(C, j, i) /\ MoreGeneral(C[j], C[i])
      BY <1>3
    <3>2. j # i
      BY <1>1, <1>2, <3>1, BeforeTotal
    <3>3. VariantIds \notin DOMAIN C[j].condition
      BY <1>4, <3>1 DEF Candidates, MoreGeneral
    <3>4. j \in Candidates(C, k)
      BY <1>2, <3>1, <3>3 DEF Candidates, Says
    <3>5. QED
      BY <3>1, <3>2, <3>4
  <2>3. QED
    BY <2>1, <2>2
<1> HIDE DEF general
<1>6. CASE below = {}
  BY <1>4, <1>5, <1>6
<1>7. CASE below # {}
  <2>1. PICK t : Tops(C, below, t)
    BY <1>1, <1>2, <1>7, TopExists
  <2>2. t \in general /\ Heaviest(t)
    <3>1. t \in below
      BY <2>1 DEF Tops
    <3>2. ASSUME NEW n \in below, n # t
          PROVE  Heavier(C, t, n)
      <4>1. Weight(C, n) < Weight(C, t)
        BY <1>3, <2>1, <3>1, <3>2 DEF Tops
      <4>2. Weight(C, n) \in Nat /\ Weight(C, t) \in Nat
        BY <1>1, <1>2, <3>1, BeforeTotal
      <4>3. QED
        BY <4>1, <4>2 DEF Heavier, Weight
    <3>3. QED
      BY <1>5, <3>1, <3>2
  <2>3. first \in general /\ Heaviest(first)
    BY <2>2
  <2> HIDE DEF first
  <2>4. C[i].override[k] = C[first].override[k]
    BY <1>4, <1>5, <1>7
  <2>5. ASSUME NEW j \in below \ {first}
        PROVE  Before(C, j, first)
    <3>1. Heavier(C, first, j) /\ first \in A /\ j \in A
      BY <1>5, <2>3
    <3>2. Weight(C, j) \in Nat /\ Weight(C, first) \in Nat
      BY <1>1, <1>2, <3>1, BeforeTotal
    <3>3. Weight(C, j) < Weight(C, first)
      BY <3>1, <3>2 DEF Heavier, Weight
    <3>4. QED
      BY <1>1, <1>2, <3>1, <3>3, BeforeTotal
  <2>6. QED
    BY <1>5, <1>7, <2>3, <2>4, <2>5
<1>8. QED
  BY <1>6, <1>7

\* Of the contexts that have a say on k some are left out that are reducible.  Going
\* down from the last one, as long as contexts are left out the value is the same, and
\* the first one that is not left out, or the default, has it.
LEMMA NestedSurvivors ==
  ASSUME NEW C, Listing(C), Distinct(C), NEW k \in Keys, NEW q, Nested(C, k, q),
         NEW B, B \subseteq Speakers(C, q, k),
         \A i \in Speakers(C, q, k) \ B : i \in Reducible(C, k)
  PROVE  /\ B = {} => ValueOf(C, q)[k] = Default[k]
         /\ \A i : Tops(C, B, i) => ValueOf(C, q)[k] = C[i].override[k]
<1> DEFINE A == Speakers(C, q, k)
<1>1. A \subseteq DOMAIN C /\ \A i \in A : Says(C, q, k, i)
  BY DEF Speakers
<1>2. /\ A = {} => ValueOf(C, q)[k] = Default[k]
      /\ \A i : Tops(C, A, i) => ValueOf(C, q)[k] = C[i].override[k]
  BY TopDecides
<1>3. CASE A = {}
  BY <1>2, <1>3 DEF Tops
<1>4. CASE A # {}
  <2>1. PICK t : Tops(C, A, t)
    BY <1>1, <1>4, TopExists
  <2> DEFINE v == C[t].override[k]
             Good(i) == C[i].override[k] = v /\ \A j \in A : Before(C, i, j) => j \notin B
             G == {i \in A : Good(i)}
             W == {Weight(C, i) : i \in G}
  <2>2. ValueOf(C, q)[k] = v
    BY <1>2, <2>1
  <2>3. \A i \in A : Weight(C, i) \in Nat /\ ~Before(C, i, i)
    BY <1>1, BeforeTotal
  <2>4. t \in G
    <3>1. t \in A
      BY <2>1 DEF Tops
    <3>2. \A j \in A : ~Before(C, t, j)
      BY <1>1, <2>1, <2>3, <3>1, BeforeTotal DEF Tops
    <3>3. QED
      BY <3>1, <3>2
  <2>5. PICK i \in G : \A j \in G : Weight(C, i) <= Weight(C, j)
    <3>1. W \subseteq Nat /\ W # {}
      BY <2>3, <2>4
    <3>2. PICK m \in W : \A x \in W : m <= x
      BY <3>1, Least
    <3>3. QED
      BY <3>2
  <2>6. i \in A /\ C[i].override[k] = v /\ \A j \in A : Before(C, i, j) => j \notin B
    OBVIOUS
  <2> HIDE DEF v
  <2>7. CASE i \in B
    <3>1. ASSUME NEW m, Tops(C, B, m)
          PROVE  m = i
      <4>1. m \in A /\ m \in B /\ (m # i => Before(C, i, m))
        BY <2>7, <3>1 DEF Tops
      <4>2. QED
        BY <2>6, <4>1
    <3>2. QED
      BY <2>2, <2>6, <2>7, <3>1
  <2>8. CASE i \notin B
    <3> DEFINE below == {j \in A : Before(C, j, i)}
    <3>1. /\ below = {} => C[i].override[k] = Default[k]
          /\ below # {} => \E f \in below : /\ C[i].override[k] = C[f].override[k]
                                            /\ \A j \in below \ {f} : Before(C, j, f)
      BY <2>6, <2>8, GeneralAreBelow
    <3>2. CASE below = {}
      <4>1. ASSUME NEW j \in B
            PROVE  FALSE
        <5>1. j \in A /\ j # i
          BY <2>8
        <5>2. Before(C, i, j)
          BY <1>1, <2>6, <3>2, <5>1, BeforeTotal
        <5>3. QED
          BY <2>6, <5>1, <5>2
      <4>2. QED
        BY <2>2, <2>6, <3>1, <3>2, <4>1 DEF Tops
    <3>3. CASE below # {}
      <4>1. PICK f \in below : /\ C[i].override[k] = C[f].override[k]
                               /\ \A j \in below \ {f} : Before(C, j, f)
        BY <3>1, <3>3
      <4>2. f \in A /\ Before(C, f, i)
        OBVIOUS
      <4>3. ASSUME NEW j \in A, Before(C, f, j)
            PROVE  j \notin B
        <5>1. j # f /\ ~Before(C, j, f)
          BY <1>1, <4>2, <4>3, BeforeTotal
        <5>2. j \notin below
          BY <4>1, <5>1
        <5>3. j = i \/ Before(C, i, j)
          BY <1>1, <2>6, <5>2, BeforeTotal
        <5>4. QED
          BY <2>6, <2>8, <5>3
      <4>4. f \in G
        BY <2>6, <4>1, <4>2, <4>3
      <4>5. Weight(C, f) < Weight(C, i)
        BY <1>1, <2>6, <4>2, NestedOrder
      <4>6. Weight(C, i) <= Weight(C, f)
        BY <2>5, <4>4
      <4>7. QED
        BY <2>3, <2>6, <4>2, <4>5, <4>6
    <3>4. QED
      BY <3>2, <3>3
  <2>9. QED
    BY <2>7, <2>8
<1>5. QED
  BY <1>3, <1>4

\* The value of the key itself.
LEMMA NestedKey ==
  ASSUME NEW C, Listing(C), Distinct(C), NEW k \in Keys, NEW q, Nested(C, k, q)
  PROVE  ValueOf(Reduced(C, k), q)[k] = ValueOf(C, q)[k]
<1> DEFINE B == Remaining(C, q, k, k)
<1>1. B \subseteq Speakers(C, q, k) /\ \A i \in Speakers(C, q, k) \ B : i \in Reducible(C, k)
  BY DEF Remaining, Speakers
<1>2. /\ B = {} => ValueOf(Reduced(C, k), q)[k] = Default[k]
      /\ \A i : Tops(C, B, i) => ValueOf(Reduced(C, k), q)[k] = C[i].override[k]
  BY ReducedDecides
<1>3. B \subseteq DOMAIN C
  BY DEF Remaining
<1> HIDE DEF B
<1>4. /\ B = {} => ValueOf(C, q)[k] = Default[k]
      /\ \A i : Tops(C, B, i) => ValueOf(C, q)[k] = C[i].override[k]
  BY <1>1, NestedSurvivors
<1>5. B # {} => \E i : Tops(C, B, i)
  BY <1>3, TopExists
<1>6. QED
  BY <1>2, <1>4, <1>5

\* The values of the other keys.
LEMMA OtherKeys ==
  ASSUME NEW C, Listing(C), NEW k, NEW q, NEW n \in Keys, n # k
  PROVE  ValueOf(Reduced(C, k), q)[n] = ValueOf(C, q)[n]
<1> DEFINE A == Speakers(C, q, n)
<1>1. A = Remaining(C, q, k, n)
  BY DEF Remaining, Speakers
<1>2. /\ A = {} => ValueOf(C, q)[n] = Default[n]
      /\ \A i : Tops(C, A, i) => ValueOf(C, q)[n] = C[i].override[n]
  BY TopDecides
<1>3. A \subseteq DOMAIN C
  BY DEF Speakers
<1> HIDE DEF A
<1>4. /\ A = {} => ValueOf(Reduced(C, k), q)[n] = Default[n]
      /\ \A i : Tops(C, A, i) => ValueOf(Reduced(C, k), q)[n] = C[i].override[n]
  BY <1>1, ReducedDecides
<1>5. A # {} => \E i : Tops(C, A, i)
  BY <1>3, TopExists
<1>6. QED
  BY <1>2, <1>4, <1>5
-----------------------------------------------------------------------------
(* An approved reduction, step by step *)

\* Resolutions are equal if they give every key the same value.
LEMMA ValuesEqual ==
  ASSUME NEW C, NEW D, NEW q, \A n \in Keys : ValueOf(C, q)[n] = ValueOf(D, q)[n]
  PROVE  ValueOf(C, q) = ValueOf(D, q)
<1>1. ASSUME NEW X
      PROVE  DOMAIN ValueOf(X, q) = Keys /\ ValueOf(X, q) = [n \in DOMAIN ValueOf(X, q) |-> ValueOf(X, q)[n]]
  BY ResolutionAssumption DEF ValueOf, Resolve, merge_overrides_on_default_config
<1> HIDE DEF ValueOf
<1>2. QED
  BY <1>1

Ordered(C) == Listing(C) /\ Distinct(C)

\* Two contexts are the same.
Same(c, d) ==
  /\ c.condition = d.condition
  /\ DOMAIN c.override = DOMAIN d.override
  /\ \A n \in DOMAIN d.override : c.override[n] = d.override[n]

Has(C, c) == \E m \in DOMAIN C : Same(C[m], c)

\* D has all contexts of C but those with a condition in T.
Within(C, D, T) ==
  \A m \in DOMAIN C : C[m].condition \notin T => \E i \in DOMAIN D : Same(C[m], D[i])

\* The reduction r is a record of its fields.
IsRun(r) ==
  r = [start |-> r.start, touched |-> r.touched, writes |-> r.writes, left |-> r.left,
       key |-> r.key, read |-> r.read, todo |-> r.todo, step |-> r.step, at |-> r.at]

\* The contexts were nested for e, and nothing that matches e was written since.
Quiet(r, e) ==
  /\ \A k \in Keys : Nested(r.start, k, e)
  /\ \A c \in r.touched : ~apply(c, e)

Unseen(C, r) == \A e \in Evaluated : Quiet(r, e) => ValueOf(C, e) = ValueOf(r.start, e)

\* While the overrides of a key are removed: apart from what others write, C has
\* nothing but what was read, and lacks only what was redundant in what was read.
Working(C, r) ==
  /\ Ordered(r.read)
  /\ Within(r.read, r.start, r.touched)
  /\ Within(C, r.read, r.touched)
  /\ r.todo \subseteq Reducible(r.read, r.key)
  /\ r.step # "delete" => r.at \in DOMAIN r.read /\ DOMAIN r.read[r.at].override # {r.key}
  /\ \A i \in DOMAIN r.read :
       r.read[i].condition \notin r.touched /\ ~Has(C, r.read[i]) =>
         /\ i \in Reducible(r.read, r.key)
         /\ DOMAIN r.read[i].override = {r.key} \/ (r.step = "describe" /\ i = r.at)
  /\ Unseen(r.read, r)

Begun(C, r) == IsRun(r) /\ Ordered(r.start) /\ Within(C, r.start, r.touched)

RunInv(C, r) ==
  /\ Begun(C, r)
  /\ IF r.todo = {} /\ r.step = "delete" THEN Unseen(C, r) ELSE Working(C, r)

ReduceInv ==
  /\ WorkspaceInv
  /\ reducing # None => RunInv(contexts, reducing)

\* Same contexts have the same weight and the same say.
LEMMA SameSays ==
  ASSUME NEW C, NEW D, NEW m, NEW i, Same(C[m], D[i]), NEW q, NEW n
  PROVE  /\ Weight(C, m) = Weight(D, i)
         /\ Says(C, q, n, m) <=> Says(D, q, n, i)
         /\ Says(D, q, n, i) => C[m].override[n] = D[i].override[n]
  BY DEF Same, Weight, Says

\* If of the contexts of R that match a query only reducible ones with no other
\* override are lacking in C, the query resolves alike.
LEMMA Invisible ==
  ASSUME NEW C, Ordered(C), NEW R, Ordered(R), NEW k, NEW e,
         \A n \in Keys : Nested(R, n, e),
         \A m \in DOMAIN C : apply(C[m].condition, e) => \E i \in DOMAIN R : Same(C[m], R[i]),
         \A i \in DOMAIN R : apply(R[i].condition, e) /\ ~Has(C, R[i]) =>
           i \in Reducible(R, k) /\ DOMAIN R[i].override = {k}
  PROVE  ValueOf(C, e) = ValueOf(R, e)
<1>1. SUFFICES ASSUME NEW n \in Keys
               PROVE  ValueOf(C, e)[n] = ValueOf(R, e)[n]
  BY ValuesEqual
<1> DEFINE A == Speakers(C, e, n)
           S == Speakers(R, e, n)
           B == {i \in S : Has(C, R[i])}
<1>2. Listing(C) /\ Distinct(C) /\ Listing(R) /\ Distinct(R) /\ Nested(R, n, e)
  BY DEF Ordered
<1>3. /\ \A m : m \in A <=> m \in DOMAIN C /\ Says(C, e, n, m)
      /\ \A i : i \in S <=> i \in DOMAIN R /\ Says(R, e, n, i)
  BY DEF Speakers
<1>4. B \subseteq S /\ \A i \in S \ B : i \in Reducible(R, n)
  BY <1>3 DEF Says
<1>5. \A i : i \in B <=> i \in S /\ Has(C, R[i])
  OBVIOUS
<1> HIDE DEF A, S, B
<1>6. /\ B = {} => ValueOf(R, e)[n] = Default[n]
      /\ \A i : Tops(R, B, i) => ValueOf(R, e)[n] = R[i].override[n]
  BY <1>2, <1>4, NestedSurvivors DEF S
<1>7. /\ A = {} => ValueOf(C, e)[n] = Default[n]
      /\ \A m : Tops(C, A, m) => ValueOf(C, e)[n] = C[m].override[n]
  BY <1>2, TopDecides DEF A
<1>8. ASSUME NEW m \in A
      PROVE  \E i \in B : Same(C[m], R[i])
  <2>1. m \in DOMAIN C /\ apply(C[m].condition, e)
    BY <1>3 DEF Says
  <2>2. PICK i \in DOMAIN R : Same(C[m], R[i])
    BY <2>1
  <2>3. i \in B
    BY <1>3, <1>5, <2>1, <2>2, SameSays DEF Has
  <2>4. QED
    BY <2>2, <2>3
<1>9. ASSUME NEW i \in B
      PROVE  \E m \in A : Same(C[m], R[i])
  <2>1. PICK m \in DOMAIN C : Same(C[m], R[i])
    BY <1>5 DEF Has
  <2>2. Says(C, e, n, m) <=> Says(R, e, n, i)
    BY <2>1, SameSays
  <2>3. m \in A
    BY <1>3, <1>5, <2>1, <2>2
  <2>4. QED
    BY <2>1, <2>3
<1>10. CASE B = {}
  BY <1>6, <1>7, <1>8, <1>10
<1>11. CASE B # {}
  <2>1. PICK i : Tops(R, B, i)
    <3>1. B \subseteq DOMAIN R
      BY <1>3, <1>4
    <3>2. QED
      BY <1>2, <1>11, <3>1, TopExists
  <2>2. i \in B
    BY <2>1 DEF Tops
  <2>3. PICK m \in A : Same(C[m], R[i])
    BY <1>9, <2>2
  <2>4. ASSUME NEW j \in A, j # m
        PROVE  Before(C, j, m)
    <3>1. PICK l \in B : Same(C[j], R[l])
      BY <1>8
    <3>2. l # i
      BY <1>2, <1>3, <2>3, <2>4, <3>1 DEF Distinct, Same
    <3>3. Before(R, l, i)
      BY <2>1, <3>1, <3>2 DEF Tops
    <3>4. Weight(R, l) < Weight(R, i)
      BY <1>2, <1>3, <1>4, <2>2, <3>1, <3>3, NestedOrder
    <3>5. Weight(C, j) < Weight(C, m)
      BY <2>3, <3>1, <3>4, SameSays
    <3>6. QED
      BY <1>2, <1>3, <3>5, BeforeTotal
  <2>5. Tops(C, A, m)
    BY <2>3, <2>4 DEF Tops
  <2>6. C[m].override[n] = R[i].override[n]
    <3>1. Says(R, e, n, i)
      BY <1>3, <1>4, <2>2
    <3>2. QED
      BY <2>3, <3>1 DEF Same, Says
  <2>7. QED
    BY <1>6, <1>7, <2>1, <2>5, <2>6
<1>12. QED
  BY <1>10, <1>11

\* Contexts that match a query are nested in a part of what they are nested in.
LEMMA NestedWithin ==
  ASSUME NEW C, NEW D, NEW T, Within(C, D, T), NEW e, \A c \in T : ~apply(c, e),
         NEW n, Nested(D, n, e)
  PROVE  Nested(C, n, e)
<1>1. SUFFICES ASSUME NEW i \in DOMAIN C, NEW j \in DOMAIN C,
                      n \in DOMAIN C[i].override, apply(C[i].condition, e),
                      n \in DOMAIN C[j].override, apply(C[j].condition, e)
               PROVE  MoreGeneral(C[i], C[j]) \/ MoreGeneral(C[j], C[i])
  BY DEF Nested
<1>2. PICK x \in DOMAIN D : Same(C[i], D[x])
  BY <1>1 DEF Within
<1>3. PICK y \in DOMAIN D : Same(C[j], D[y])
  BY <1>1 DEF Within
<1>4. MoreGeneral(D[x], D[y]) \/ MoreGeneral(D[y], D[x])
  BY <1>1, <1>2, <1>3 DEF Nested, Same
<1>5. C[i].condition = D[x].condition /\ C[j].condition = D[y].condition
  BY <1>2, <1>3 DEF Same
<1>6. QED
  BY <1>4, <1>5 DEF MoreGeneral

\* A part of a part, up to the same conditions.
LEMMA WithinTrans ==
  ASSUME NEW C, NEW D, NEW E, NEW T, Within(C, D, T), Within(D, E, T)
  PROVE  Within(C, E, T)
<1>1. SUFFICES ASSUME NEW m \in DOMAIN C, C[m].condition \notin T
               PROVE  \E i \in DOMAIN E : Same(C[m], E[i])
  BY DEF Within
<1>2. PICK x \in DOMAIN D : Same(C[m], D[x])
  BY <1>1 DEF Within
<1>3. PICK i \in DOMAIN E : Same(D[x], E[i])
  BY <1>1, <1>2 DEF Within, Same
<1>4. QED
  BY <1>2, <1>3 DEF Same

\* Between the statements for a key nothing is visible, unless a context with other
\* overrides is to be put again.
LEMMA WorkingUnseen ==
  ASSUME NEW C, Ordered(C), NEW r, Working(C, r), r.step # "describe"
  PROVE  Unseen(C, r)
<1>1. SUFFICES ASSUME NEW e \in Evaluated, Quiet(r, e)
               PROVE  ValueOf(C, e) = ValueOf(r.start, e)
  BY DEF Unseen
<1> DEFINE R == r.read
           T == r.touched
           k == r.key
<1>2. /\ \A n \in Keys : Nested(r.start, n, e)
      /\ \A c \in T : ~apply(c, e)
  BY <1>1 DEF Quiet
<1>3. /\ Ordered(R) /\ Within(R, r.start, T) /\ Within(C, R, T)
      /\ \A i \in DOMAIN R : R[i].condition \notin T /\ ~Has(C, R[i]) =>
           i \in Reducible(R, k) /\ DOMAIN R[i].override = {k}
      /\ ValueOf(R, e) = ValueOf(r.start, e)
  BY <1>1 DEF Working, Unseen
<1> HIDE DEF R, T, k
<1>4. \A n \in Keys : Nested(R, n, e)
  BY <1>2, <1>3, NestedWithin
<1>5. \A m \in DOMAIN C : apply(C[m].condition, e) => \E i \in DOMAIN R : Same(C[m], R[i])
  BY <1>2, <1>3 DEF Within
<1>6. \A i \in DOMAIN R : apply(R[i].condition, e) /\ ~Has(C, R[i]) =>
           i \in Reducible(R, k) /\ DOMAIN R[i].override = {k}
  BY <1>2, <1>3
<1>7. ValueOf(C, e) = ValueOf(R, e)
  BY <1>3, <1>4, <1>5, <1>6, Invisible
<1>8. QED
  BY <1>3, <1>7

\* After the last override of a key.
LEMMA ReturnInv ==
  ASSUME NEW C, Ordered(C), NEW r, IsRun(r), Ordered(r.start), Working(C, r)
  PROVE  RunInv(C, Return(r))
<1>1. Within(C, r.start, r.touched)
  BY WithinTrans DEF Working
<1>2. CASE r.todo = {} /\ r.step = "delete"
  <2> DEFINE s == Return(r)
  <2>1. s = [r EXCEPT !.key = None, !.read = << >>, !.at = 0]
    BY <1>2 DEF Return
  <2>2. /\ IsRun(s) /\ s.start = r.start /\ s.touched = r.touched
        /\ s.todo = r.todo /\ s.step = r.step
    BY <2>1 DEF IsRun
  <2>3. Unseen(C, r)
    BY <1>2, WorkingUnseen
  <2> HIDE DEF s
  <2>4. Unseen(C, s)
    BY <2>2, <2>3 DEF Unseen, Quiet
  <2>5. QED
    BY <1>1, <1>2, <2>2, <2>4 DEF RunInv, Begun, s
<1>3. CASE ~(r.todo = {} /\ r.step = "delete")
  BY <1>1, <1>3 DEF RunInv, Begun, Return
<1>4. QED
  BY <1>2, <1>3
\* Apart from the condition c, C and D have the same contexts.
Apart(C, D, c) == Within(C, D, {c}) /\ Within(D, C, {c})

\* A context is the same as itself.
LEMMA SameRefl == ASSUME NEW c PROVE Same(c, c)
  BY DEF Same

\* A put changes nothing but its context.
LEMMA PutApart ==
  ASSUME WorkspaceInv, NEW c, NEW override, PutContext(c, override)
  PROVE  Apart(contexts, contexts', c)
<1> DEFINE C == contexts
           D == contexts'
           N == Len(contexts)
<1>1. N \in Nat /\ DOMAIN C = 1 .. N /\ C = [i \in 1 .. N |-> C[i]]
  BY ListingDomain DEF WorkspaceInv, Listing
<1>2. /\ \A m \in DOMAIN C : C[m].condition # c => m \in DOMAIN D /\ D[m] = C[m]
      /\ \A m \in DOMAIN D : D[m].condition # c => m \in DOMAIN C /\ D[m] = C[m]
  <2>1. CASE Index(c) = {}
    <3> DEFINE new == [condition |-> c, override |-> override]
    <3>1. D = Append(C, new)
      BY <2>1 DEF PutContext
    <3> DEFINE T == {C[i] : i \in 1 .. N} \cup {new}
    <3>2. C \in Seq(T) /\ new \in T
      <4>1. C \in [1 .. N -> T]
        BY <1>1
      <4>2. QED
        BY <1>1, <4>1
    <3>a. D \in Seq(T) /\ Len(D) = N + 1 /\ D[N + 1] = new /\ \A i \in 1 .. N : D[i] = C[i]
      BY <3>1, <3>2
    <3>3. /\ DOMAIN D = 1 .. N + 1
          /\ D[N + 1] = new
          /\ \A i \in 1 .. N : D[i] = C[i]
      BY <1>1, <3>a
    <3>4. new.condition = c
      OBVIOUS
    <3> HIDE DEF D, new
    <3>5. QED
      BY <1>1, <3>3, <3>4
  <2>2. CASE Index(c) # {}
    <3>1. D = [i \in DOMAIN C |-> IF i \in Index(c)
                                  THEN [C[i] EXCEPT !.override = MergeKeys(C[i].override, override)]
                                  ELSE C[i]]
      BY <2>2 DEF PutContext
    <3>2. DOMAIN D = DOMAIN C
      BY <3>1
    <3>3. ASSUME NEW i \in DOMAIN C
          PROVE  /\ C[i].condition # c => D[i] = C[i]
                 /\ C[i].condition = c => D[i].condition = c
      <4>1. CASE i \notin Index(c)
        BY <3>1, <4>1 DEF Index
      <4>2. CASE i \in Index(c)
        <5>1. C[i].condition = c /\ Context(C[i])
          BY <4>2, ListingDomain DEF Index, WorkspaceInv
        <5>2. D[i] = [C[i] EXCEPT !.override = MergeKeys(C[i].override, override)]
          BY <3>1, <4>2
        <5>3. D[i].condition = C[i].condition
          BY <5>1, <5>2 DEF Context
        <5>4. QED
          BY <5>1, <5>3
      <4>3. QED
        BY <4>1, <4>2
    <3> HIDE DEF D
    <3>4. QED
      BY <3>2, <3>3
  <2>3. QED
    BY <2>1, <2>2
<1> HIDE DEF C, D
<1>3. Within(C, D, {c})
  <2>1. ASSUME NEW m \in DOMAIN C, C[m].condition # c
        PROVE  \E i \in DOMAIN D : Same(C[m], D[i])
    BY <1>2, <2>1, SameRefl
  <2>2. QED
    BY <2>1 DEF Within
<1>4. Within(D, C, {c})
  <2>1. ASSUME NEW m \in DOMAIN D, D[m].condition # c
        PROVE  \E i \in DOMAIN C : Same(D[m], C[i])
    BY <1>2, <2>1, SameRefl
  <2>2. QED
    BY <2>1 DEF Within
<1>5. QED
  BY <1>3, <1>4 DEF Apart, C, D

\* What leaves out a condition leaves the others.
LEMMA OmitApart ==
  ASSUME WorkspaceInv, NEW c, contexts' = Kept(contexts, DOMAIN contexts \ Index(c))
  PROVE  Apart(contexts, contexts', c) /\ Within(contexts', contexts, {})
<1> DEFINE C == contexts
           D == contexts'
           N == Len(contexts)
           S == DOMAIN contexts \ Index(c)
<1>1. N \in Nat /\ DOMAIN C = 1 .. N /\ S \subseteq 1 .. N
  BY ListingDomain DEF WorkspaceInv, Listing
<1>2. PICK o, M : Increasing(o, M, S) /\ D = [n \in 1 .. M |-> C[o[n]]]
  <2>1. \E o, M : /\ Increasing(o, M, S)
                  /\ \A X : Kept(X, S) = [m \in 1 .. M |-> X[o[m]]]
                  /\ \A X : Len(Kept(X, S)) = M
    BY <1>1, KeptList
  <2>2. D = Kept(C, S)
    OBVIOUS
  <2> HIDE DEF S, D, C
  <2>3. QED
    BY <2>1, <2>2
<1>3. \A i \in DOMAIN C : C[i].condition # c => i \in S
  BY DEF Index
<1> HIDE DEF C, D, S
<1>4. /\ DOMAIN D = 1 .. M
      /\ \A m \in 1 .. M : o[m] \in S /\ o[m] \in DOMAIN C /\ D[m] = C[o[m]]
      /\ \A i \in S : \E m \in 1 .. M : o[m] = i
  BY <1>1, <1>2 DEF Increasing
<1>5. ASSUME NEW m \in DOMAIN D
      PROVE  \E i \in DOMAIN C : Same(D[m], C[i])
  BY <1>4, SameRefl
<1>6. ASSUME NEW i \in DOMAIN C, C[i].condition # c
      PROVE  \E m \in DOMAIN D : Same(C[i], D[m])
  <2>1. PICK m \in 1 .. M : o[m] = i
    BY <1>3, <1>4, <1>6
  <2>2. QED
    BY <1>4, <2>1, SameRefl
<1>7. Within(C, D, {c}) /\ Within(D, C, {c}) /\ Within(D, C, {})
  BY <1>5, <1>6 DEF Within
<1>8. QED
  BY <1>7 DEF Apart, C, D

\* A part of what a context has is put on top of it: nothing changes.
LEMMA PutSame ==
  ASSUME WorkspaceInv, NEW d, NEW k, Has(contexts, d),
         PutContext(d.condition, [n \in DOMAIN d.override \ {k} |-> d.override[n]])
  PROVE  /\ Has(contexts', d)
         /\ \A m \in DOMAIN contexts' : contexts'[m].condition = d.condition => Same(contexts'[m], d)
<1> DEFINE C == contexts
           D == contexts'
           p == [n \in DOMAIN d.override \ {k} |-> d.override[n]]
<1>1. PICK x \in DOMAIN C : Same(C[x], d)
  BY DEF Has
<1>2. C[x].condition = d.condition /\ x \in Index(d.condition)
  BY <1>1 DEF Same, Index
<1>3. D = [i \in DOMAIN C |-> IF i \in Index(d.condition)
                              THEN [C[i] EXCEPT !.override = MergeKeys(C[i].override, p)]
                              ELSE C[i]]
  BY <1>2 DEF PutContext
<1>4. DOMAIN D = DOMAIN C /\ D[x] = [C[x] EXCEPT !.override = MergeKeys(C[x].override, p)]
  BY <1>2, <1>3
<1>5. Context(C[x])
  BY ListingDomain DEF WorkspaceInv
<1>6. D[x].condition = d.condition /\ D[x].override = MergeKeys(C[x].override, p)
  BY <1>2, <1>4, <1>5 DEF Context
<1> DEFINE o == C[x].override
<1>7. /\ DOMAIN o = DOMAIN d.override /\ \A n \in DOMAIN o : o[n] = d.override[n]
      /\ DOMAIN p \subseteq DOMAIN o /\ \A n \in DOMAIN p : p[n] = o[n]
  BY <1>1 DEF Same
<1> HIDE DEF p, o
<1>8. ASSUME NEW v PROVE merge(v, v) = v
  <2>1. CASE IsObject(v)
    <3>1. v = [f \in DOMAIN v |-> v[f]]
      BY <2>1, ObjectForm
    <3>2. merge(v, v) = Over(v, v)
      BY <2>1 DEF merge
    <3>3. Over(v, v) = [f \in DOMAIN v |-> v[f]]
      BY DEF Over
    <3>4. QED
      BY <3>1, <3>2, <3>3
  <2>2. CASE ~IsObject(v)
    BY <2>2 DEF merge
  <2>3. QED
    BY <2>1, <2>2
<1>9. DOMAIN MergeKeys(o, p) = DOMAIN o
  BY <1>7 DEF MergeKeys
<1>10. ASSUME NEW n \in DOMAIN o
       PROVE  MergeKeys(o, p)[n] = o[n]
  <2>1. CASE n \in DOMAIN p
    <3>1. MergeKeys(o, p)[n] = merge(o[n], p[n])
      BY <2>1 DEF MergeKeys
    <3>2. QED
      BY <1>7, <1>8, <2>1, <3>1
  <2>2. CASE n \notin DOMAIN p
    BY <2>2 DEF MergeKeys
  <2>3. QED
    BY <2>1, <2>2
<1>11. Same(D[x], d)
  <2> HIDE DEF D
  <2>1. D[x].override = MergeKeys(o, p)
    BY <1>6 DEF o
  <2>2. QED
    BY <1>6, <1>7, <1>9, <1>10, <2>1 DEF Same
<1>12. ASSUME NEW m \in DOMAIN D, D[m].condition = d.condition
       PROVE  m = x
  <2>1. \A i \in DOMAIN C : Context(C[i])
    BY ListingDomain DEF WorkspaceInv
  <2>2. CASE m \in Index(d.condition)
    <3>1. C[m].condition = C[x].condition /\ m \in DOMAIN C
      BY <1>2, <2>2 DEF Index
    <3>2. QED
      BY <3>1 DEF WorkspaceInv, Distinct
  <2>3. CASE m \notin Index(d.condition)
    <3>1. m \in DOMAIN C /\ D[m] = C[m]
      BY <1>3, <1>4, <2>3
    <3>2. QED
      BY <1>12, <2>3, <3>1 DEF Index
  <2>4. QED
    BY <2>2, <2>3
<1>13. Has(D, d)
  BY <1>4, <1>11 DEF Has
<1>14. QED
  BY <1>11, <1>12, <1>13

\* A request of others.
LEMMA RequestApart ==
  ASSUME WorkspaceInv, NEW c,
         \/ \E k \in Keys : \E v \in Values[k] : PutContext(c, [n \in {k} |-> v])
         \/ DeleteContext(c)
  PROVE  Apart(contexts, contexts', c)
  BY PutApart, OmitApart DEF DeleteContext
\* What is written elsewhere is not missed.
LEMMA ApartHas ==
  ASSUME NEW C, NEW D, NEW c, Apart(C, D, c), NEW d, Has(C, d), d.condition # c
  PROVE  Has(D, d)
<1>1. PICK m \in DOMAIN C : Same(C[m], d)
  BY DEF Has
<1>2. PICK i \in DOMAIN D : Same(C[m], D[i])
  BY <1>1 DEF Apart, Within, Same
<1>3. QED
  BY <1>1, <1>2 DEF Has, Same

\* And adds nothing elsewhere.
LEMMA ApartWithin ==
  ASSUME NEW C, NEW D, NEW c, Apart(C, D, c), NEW X, NEW T, Within(C, X, T)
  PROVE  Within(D, X, T \cup {c})
<1>1. ASSUME NEW m \in DOMAIN D, D[m].condition \notin T \cup {c}
      PROVE  \E i \in DOMAIN X : Same(D[m], X[i])
  <2>1. PICK j \in DOMAIN C : Same(D[m], C[j])
    BY <1>1 DEF Apart, Within
  <2>2. PICK i \in DOMAIN X : Same(C[j], X[i])
    BY <1>1, <2>1 DEF Within, Same
  <2>3. QED
    BY <2>1, <2>2 DEF Same
<1>2. QED
  BY <1>1 DEF Within

\* The reduction s is r after others have written c.
Disturbed(r, s, c) ==
  /\ IsRun(s) /\ s.start = r.start /\ s.touched = r.touched \cup {c}
  /\ s.key = r.key /\ s.read = r.read /\ s.todo = r.todo /\ s.step = r.step /\ s.at = r.at

\* A write of others.
LEMMA Disturbs ==
  ASSUME NEW r, IsRun(r), NEW c, NEW w,
         NEW s, s = [r EXCEPT !.touched = r.touched \cup {c}, !.writes = w]
  PROVE  Disturbed(r, s, c)
  BY DEF Disturbed, IsRun

\* Others write during a reduction.
LEMMA OtherRun ==
  ASSUME NEW C, NEW D, Ordered(C), Ordered(D), NEW c, Apart(C, D, c), NEW r, RunInv(C, r),
         NEW s, Disturbed(r, s, c)
  PROVE  RunInv(D, s)
<1>1. /\ IsRun(s) /\ s.start = r.start /\ s.touched = r.touched \cup {c}
      /\ s.key = r.key /\ s.read = r.read /\ s.todo = r.todo /\ s.step = r.step /\ s.at = r.at
  BY DEF Disturbed
<1>2. \A e : Quiet(s, e) => Quiet(r, e)
  BY <1>1 DEF Quiet
<1>3. Begun(D, s)
  BY <1>1, ApartWithin DEF RunInv, Begun
<1>4. CASE r.todo = {} /\ r.step = "delete"
  <2>1. Unseen(C, r) /\ Within(C, r.start, r.touched)
    BY <1>4 DEF RunInv, Begun
  <2>2. ASSUME NEW e \in Evaluated, Quiet(s, e)
        PROVE  ValueOf(D, e) = ValueOf(s.start, e)
    <3>1. /\ \A n \in Keys : Nested(r.start, n, e)
          /\ \A t \in r.touched : ~apply(t, e)
          /\ ~apply(c, e)
      BY <1>1, <2>2 DEF Quiet
    <3>2. \A n \in Keys : Nested(C, n, e)
      BY <2>1, <3>1, NestedWithin
    <3>3. \A m \in DOMAIN D : apply(D[m].condition, e) => \E i \in DOMAIN C : Same(D[m], C[i])
      BY <3>1 DEF Apart, Within
    <3>4. \A i \in DOMAIN C : apply(C[i].condition, e) => Has(D, C[i])
      <4>1. ASSUME NEW i \in DOMAIN C, apply(C[i].condition, e)
            PROVE  Has(D, C[i])
        <5>1. Has(C, C[i])
          BY SameRefl DEF Has
        <5>2. C[i].condition # c
          BY <3>1, <4>1
        <5>3. QED
          BY <5>1, <5>2, ApartHas
      <4>2. QED
        BY <4>1
    <3>5. ValueOf(D, e) = ValueOf(C, e)
      BY <3>2, <3>3, <3>4, Invisible
    <3>6. QED
      BY <1>1, <1>2, <2>1, <2>2, <3>5 DEF Unseen
  <2>3. QED
    BY <1>1, <1>3, <1>4, <2>2 DEF RunInv, Unseen
<1>5. CASE ~(r.todo = {} /\ r.step = "delete")
  <2>1. Working(C, r)
    BY <1>5 DEF RunInv
  <2>2. Within(s.read, s.start, s.touched)
    BY <1>1, <2>1 DEF Working, Within
  <2>3. Within(D, s.read, s.touched)
    BY <1>1, <2>1, ApartWithin DEF Working
  <2>4. ASSUME NEW i \in DOMAIN s.read, s.read[i].condition \notin s.touched, ~Has(D, s.read[i])
        PROVE  /\ i \in Reducible(s.read, s.key)
               /\ DOMAIN s.read[i].override = {s.key} \/ (s.step = "describe" /\ i = s.at)
    <3>1. ~Has(C, r.read[i])
      <4>1. r.read[i].condition # c /\ ~Has(D, r.read[i])
        BY <1>1, <2>4
      <4>2. QED
        BY <4>1, ApartHas
    <3>2. QED
      BY <1>1, <2>1, <2>4, <3>1 DEF Working
  <2>5. Unseen(s.read, s)
    BY <1>1, <1>2, <2>1 DEF Working, Unseen
  <2>6. Working(D, s)
    BY <1>1, <2>1, <2>2, <2>3, <2>4, <2>5 DEF Working
  <2>7. QED
    BY <1>1, <1>3, <1>5, <2>6 DEF RunInv
<1>6. QED
  BY <1>4, <1>5

\* The contexts are read for the next key.
LEMMA ReadRun ==
  ASSUME NEW C, Ordered(C), NEW r, RunInv(C, r), r.todo = {}, r.step = "delete", NEW k,
         NEW s, s = [r EXCEPT !.left = r.left \ {k}, !.key = k, !.read = C, !.todo = Reducible(C, k)]
  PROVE  RunInv(C, Return(s))
<1>1. /\ IsRun(s) /\ s.start = r.start /\ s.touched = r.touched
      /\ s.key = k /\ s.read = C /\ s.todo = Reducible(C, k) /\ s.step = "delete"
  BY DEF RunInv, Begun, IsRun
<1>2. Ordered(s.start) /\ Within(C, s.start, s.touched) /\ Unseen(C, r)
  BY <1>1 DEF RunInv, Begun
<1>3. Unseen(s.read, s)
  BY <1>1, <1>2 DEF Unseen, Quiet
<1>4. Within(C, C, s.touched) /\ \A i \in DOMAIN C : Has(C, C[i])
  BY SameRefl DEF Within, Has
<1>5. Working(C, s)
  BY <1>1, <1>2, <1>3, <1>4 DEF Working
<1>6. QED
  BY <1>1, <1>2, <1>5, ReturnInv

\* A redundant context is deleted, or the attempt fails.
LEMMA RemoveRun ==
  ASSUME NEW C, NEW D, Ordered(C), Ordered(D), NEW r, RunInv(C, r), r.step = "delete",
         NEW i \in r.todo, Within(D, C, {}),
         \A d : Has(C, d) /\ d.condition # r.read[i].condition => Has(D, d),
         NEW s, s = [r EXCEPT !.todo = r.todo \ {i}, !.at = i,
                              !.step = IF DOMAIN r.read[i].override # {r.key} THEN "describe" ELSE "delete"]
  PROVE  RunInv(D, Return(s))
<1>1. /\ IsRun(s) /\ s.start = r.start /\ s.touched = r.touched
      /\ s.key = r.key /\ s.read = r.read /\ s.todo = r.todo \ {i} /\ s.at = i
      /\ s.step = IF DOMAIN r.read[i].override # {r.key} THEN "describe" ELSE "delete"
  BY DEF RunInv, Begun, IsRun
<1>2. Ordered(s.start) /\ Working(C, r)
  BY <1>1 DEF RunInv, Begun
<1>3. i \in Reducible(r.read, r.key) /\ i \in DOMAIN r.read
  BY <1>2 DEF Working, Reducible, Candidates
<1>4. Within(D, s.read, s.touched)
  <2>1. Within(D, C, s.touched) /\ Within(C, s.read, s.touched)
    BY <1>1, <1>2 DEF Working, Within
  <2>2. QED
    BY <2>1, WithinTrans
<1>5. ASSUME NEW j \in DOMAIN s.read, s.read[j].condition \notin s.touched, ~Has(D, s.read[j])
      PROVE  /\ j \in Reducible(s.read, s.key)
             /\ DOMAIN s.read[j].override = {s.key} \/ (s.step = "describe" /\ j = s.at)
  <2>1. CASE r.read[j].condition = r.read[i].condition
    <3>1. j = i
      BY <1>1, <1>2, <1>3, <1>5, <2>1 DEF Working, Ordered, Distinct
    <3>2. QED
      BY <1>1, <1>3, <3>1
  <2>2. CASE r.read[j].condition # r.read[i].condition
    <3>1. ~Has(C, r.read[j])
      BY <1>1, <1>5, <2>2
    <3>2. QED
      BY <1>1, <1>2, <1>5, <3>1 DEF Working
  <2>3. QED
    BY <2>1, <2>2
<1>6. Unseen(s.read, s)
  BY <1>1, <1>2 DEF Working, Unseen, Quiet
<1>7. s.step # "delete" => s.at \in DOMAIN s.read /\ DOMAIN s.read[s.at].override # {s.key}
  BY <1>1, <1>3
<1>8. Working(D, s)
  BY <1>1, <1>2, <1>4, <1>5, <1>6, <1>7 DEF Working
<1>9. QED
  BY <1>1, <1>2, <1>8, ReturnInv

\* There is a context to take the description from.
LEMMA DescribeRun ==
  ASSUME NEW C, Ordered(C), NEW r, RunInv(C, r), r.step = "describe",
         NEW x \in DOMAIN C, C[x].condition = r.read[r.at].condition,
         NEW s, s = [r EXCEPT !.step = "upsert"]
  PROVE  RunInv(C, s)
<1>1. /\ IsRun(s) /\ s.start = r.start /\ s.touched = r.touched
      /\ s.key = r.key /\ s.read = r.read /\ s.todo = r.todo /\ s.at = r.at /\ s.step = "upsert"
  BY DEF RunInv, Begun, IsRun
<1>2. Begun(C, s) /\ Working(C, r) /\ r.at \in DOMAIN r.read
  BY <1>1 DEF RunInv, Begun, Working
<1>3. ASSUME NEW j \in DOMAIN s.read, s.read[j].condition \notin s.touched, ~Has(C, s.read[j])
      PROVE  j \in Reducible(s.read, s.key) /\ DOMAIN s.read[j].override = {s.key}
  <2>1. j # r.at
    <3>1. SUFFICES ASSUME j = r.at
                   PROVE  FALSE
      OBVIOUS
    <3>2. PICK i \in DOMAIN r.read : Same(C[x], r.read[i])
      BY <1>1, <1>2, <1>3, <3>1 DEF Working, Within
    <3>3. i = j
      BY <1>1, <1>2, <1>3, <3>1, <3>2 DEF Working, Ordered, Distinct, Same
    <3>4. QED
      BY <1>1, <1>3, <3>2, <3>3 DEF Has
  <2>2. QED
    BY <1>1, <1>2, <1>3, <2>1 DEF Working
<1>4. Unseen(s.read, s)
  BY <1>1, <1>2 DEF Working, Unseen, Quiet
<1>5. Working(C, s)
  BY <1>1, <1>2, <1>3, <1>4 DEF Working
<1>6. QED
  BY <1>1, <1>2, <1>5 DEF RunInv

\* The other overrides are put again, or the attempt fails.
LEMMA PutRun ==
  ASSUME NEW C, NEW D, Ordered(C), Ordered(D), NEW r, RunInv(C, r), r.step = "upsert",
         NEW d, d = r.read[r.at], Apart(C, D, d.condition),
         Has(C, d) => /\ Has(D, d)
                      /\ \A m \in DOMAIN D : D[m].condition = d.condition => Same(D[m], d),
         NEW s, s = [r EXCEPT !.step = "delete"]
  PROVE  RunInv(D, Return(s))
<1>1. /\ IsRun(s) /\ s.start = r.start /\ s.touched = r.touched
      /\ s.key = r.key /\ s.read = r.read /\ s.todo = r.todo /\ s.at = r.at /\ s.step = "delete"
  BY DEF RunInv, Begun, IsRun
<1>2. Ordered(s.start) /\ Working(C, r) /\ r.at \in DOMAIN r.read
  BY <1>1 DEF RunInv, Begun, Working
<1>3. d.condition \notin r.touched => Has(C, d)
  BY <1>2 DEF Working
<1>4. Within(D, s.read, s.touched)
  <2>1. SUFFICES ASSUME NEW m \in DOMAIN D, D[m].condition \notin r.touched
                 PROVE  \E i \in DOMAIN r.read : Same(D[m], r.read[i])
    BY <1>1 DEF Within
  <2>2. CASE D[m].condition = d.condition
    BY <1>2, <1>3, <2>1, <2>2
  <2>3. CASE D[m].condition # d.condition
    <3>1. Within(D, r.read, r.touched \cup {d.condition})
      BY <1>2, ApartWithin DEF Working
    <3>2. QED
      BY <2>1, <2>3, <3>1 DEF Within
  <2>4. QED
    BY <2>2, <2>3
<1>5. ASSUME NEW j \in DOMAIN s.read, s.read[j].condition \notin s.touched, ~Has(D, s.read[j])
      PROVE  j \in Reducible(s.read, s.key) /\ DOMAIN s.read[j].override = {s.key}
  <2>1. j # r.at
    BY <1>1, <1>3, <1>5
  <2>2. r.read[j].condition # d.condition
    BY <1>1, <1>2, <1>5, <2>1 DEF Working, Ordered, Distinct
  <2>3. ~Has(C, r.read[j])
    BY <1>1, <1>5, <2>2, ApartHas
  <2>4. QED
    BY <1>1, <1>2, <1>5, <2>3 DEF Working
<1>6. Unseen(s.read, s)
  BY <1>1, <1>2 DEF Working, Unseen, Quiet
<1>7. Working(D, s)
  BY <1>1, <1>2, <1>4, <1>5, <1>6 DEF Working
<1>8. QED
  BY <1>1, <1>2, <1>7, ReturnInv

\* What does not change is apart.
LEMMA SameApart == ASSUME NEW C, NEW c PROVE Apart(C, C, c) /\ Within(C, C, {})
  BY SameRefl DEF Apart, Within

\* The steps of a reduction and of others keep its invariant.
LEMMA ReduceStep == ASSUME ReduceInv, [ReduceNext]_reduceVars PROVE ReduceInv'
<1>1. WorkspaceInv /\ Ordered(contexts) /\ (reducing # None => RunInv(contexts, reducing))
  BY DEF ReduceInv, WorkspaceInv, Ordered
<1>2. ASSUME WorkspaceInv' PROVE Ordered(contexts')
  BY <1>2 DEF WorkspaceInv, Ordered
<1>3. ASSUME NEW c \in Conditions, Other(c)
      PROVE  ReduceInv'
  <2>1. WorkspaceInv' /\ Apart(contexts, contexts', c)
    BY <1>1, <1>3, RequestInv, RequestApart DEF Other
  <2>2. CASE reducing = None
    BY <1>3, <2>1, <2>2 DEF Other, ReduceInv
  <2>3. CASE reducing # None
    <3> DEFINE w == reducing.writes + 1
               s == [reducing EXCEPT !.touched = reducing.touched \cup {c}, !.writes = w]
    <3>1. reducing' = s
      BY <1>3, <2>3 DEF Other
    <3> HIDE DEF w
    <3>2. RunInv(contexts', reducing')
      <4>1. Ordered(contexts) /\ Ordered(contexts') /\ RunInv(contexts, reducing)
        BY <1>1, <1>2, <2>1, <2>3
      <4>2. Disturbed(reducing, s, c)
        <5>1. IsRun(reducing)
          BY <4>1 DEF RunInv, Begun
        <5>2. s = [reducing EXCEPT !.touched = reducing.touched \cup {c}, !.writes = w]
          OBVIOUS
        <5> HIDE DEF s
        <5>3. QED
          BY <5>1, <5>2, Disturbs
      <4> HIDE DEF s
      <4>3. RunInv(contexts', s)
        BY <2>1, <4>1, <4>2, OtherRun
      <4>4. QED
        BY <3>1, <4>3
    <3>3. QED
      BY <2>1, <3>2 DEF ReduceInv
  <2>4. QED
    BY <2>2, <2>3
<1>4. CASE BeginReduce
  <2>1. contexts' = contexts /\ WorkspaceInv'
    BY <1>1, <1>4 DEF BeginReduce, WorkspaceInv
  <2>2. /\ IsRun(reducing') /\ reducing'.start = contexts /\ reducing'.touched = {}
        /\ reducing'.todo = {} /\ reducing'.step = "delete"
    BY <1>4 DEF BeginReduce, IsRun
  <2>3. Within(contexts, contexts, {})
    BY SameApart
  <2>4. RunInv(contexts', reducing')
    BY <1>1, <2>1, <2>2, <2>3 DEF RunInv, Begun, Unseen
  <2>5. QED
    BY <2>1, <2>4 DEF ReduceInv
<1>5. ASSUME NEW k \in Keys, ReadContexts(k)
      PROVE  ReduceInv'
  <2>1. contexts' = contexts /\ WorkspaceInv'
    BY <1>1, <1>5 DEF ReadContexts, WorkspaceInv
  <2> DEFINE s == [reducing EXCEPT !.left = reducing.left \ {k}, !.key = k, !.read = contexts,
                                   !.todo = Reducible(contexts, k)]
  <2>2. reducing # None /\ reducing.todo = {} /\ reducing.step = "delete" /\ reducing' = Return(s)
    BY <1>5 DEF ReadContexts
  <2>3. RunInv(contexts, Return(s))
    BY <1>1, <2>2, ReadRun
  <2> HIDE DEF s
  <2>4. QED
    BY <2>1, <2>2, <2>3 DEF ReduceInv
<1>6. ASSUME NEW i, RemoveContext(i)
      PROVE  ReduceInv'
  <2> DEFINE r == reducing
             c == r.read[i].condition
             s == [r EXCEPT !.todo = r.todo \ {i}, !.at = i,
                            !.step = IF DOMAIN r.read[i].override # {r.key} THEN "describe" ELSE "delete"]
  <2>1. r # None /\ r.step = "delete" /\ i \in r.todo /\ reducing' = Return(s)
    BY <1>6 DEF RemoveContext, NextRedundant, HasOthers
  <2>2. WorkspaceInv' /\ Apart(contexts, contexts', c) /\ Within(contexts', contexts, {})
    <3>1. CASE contexts' = Omit(contexts, Index(c))
      BY <1>1, <3>1, LeftOutInv, OmitApart DEF Omit
    <3>2. CASE contexts' = contexts
      BY <1>1, <3>2, SameApart DEF WorkspaceInv
    <3>3. QED
      BY <1>6, <3>1, <3>2 DEF RemoveContext
  <2>3. RunInv(contexts', Return(s))
    <3>1. \A d : Has(contexts, d) /\ d.condition # c => Has(contexts', d)
      BY <2>2, ApartHas
    <3>2. QED
      BY <1>1, <1>2, <2>1, <2>2, <3>1, RemoveRun
  <2> HIDE DEF s
  <2>4. QED
    BY <2>1, <2>2, <2>3 DEF ReduceInv
<1>7. CASE query_description
  <2>1. contexts' = contexts /\ WorkspaceInv'
    BY <1>1, <1>7 DEF query_description, WorkspaceInv
  <2>2. CASE reducing' = None
    BY <2>1, <2>2 DEF ReduceInv
  <2>3. CASE reducing' # None
    <3>1. /\ reducing # None /\ reducing.step = "describe"
          /\ Index(reducing.read[reducing.at].condition) # {}
          /\ reducing' = [reducing EXCEPT !.step = "upsert"]
      BY <1>7, <2>3 DEF query_description
    <3>2. PICK x \in DOMAIN contexts : contexts[x].condition = reducing.read[reducing.at].condition
      BY <3>1 DEF Index
    <3>3. RunInv(contexts, reducing')
      BY <1>1, <3>1, <3>2, DescribeRun
    <3>4. QED
      BY <2>1, <3>3 DEF ReduceInv
  <2>4. QED
    BY <2>2, <2>3
<1>8. CASE PutAgain
  <2> DEFINE r == reducing
             d == r.read[r.at]
             p == [n \in DOMAIN d.override \ {r.key} |-> d.override[n]]
             s == [r EXCEPT !.step = "delete"]
  <2>1. /\ r # None /\ r.step = "upsert" /\ reducing' = Return(s)
        /\ PutContext(d.condition, p) \/ contexts' = contexts
    BY <1>8 DEF PutAgain
  <2>2. Context(d)
    <3>1. Ordered(r.read) /\ r.at \in DOMAIN r.read
      BY <1>1, <2>1 DEF RunInv, Working
    <3>2. QED
      BY <3>1, ListingDomain DEF Ordered
  <2>3. d.condition \in Conditions /\ DOMAIN p \subseteq Keys /\ IsFiniteSet(DOMAIN p)
    BY <2>2, FS_RemoveElement DEF Context
  <2>4. /\ WorkspaceInv' /\ Apart(contexts, contexts', d.condition)
        /\ Has(contexts, d) => /\ Has(contexts', d)
                               /\ \A m \in DOMAIN contexts' : contexts'[m].condition = d.condition
                                                                => Same(contexts'[m], d)
    <3>1. CASE PutContext(d.condition, p)
      <4>1. WorkspaceInv'
        <5> HIDE DEF p, d
        <5>1. QED
          BY <1>1, <2>3, <3>1, PutInv
      <4>2. Apart(contexts, contexts', d.condition)
        <5> HIDE DEF p, d
        <5>1. QED
          BY <1>1, <3>1, PutApart
      <4>3. ASSUME Has(contexts, d)
            PROVE  /\ Has(contexts', d)
                   /\ \A m \in DOMAIN contexts' : contexts'[m].condition = d.condition
                                                    => Same(contexts'[m], d)
        <5> HIDE DEF d
        <5>1. QED
          BY <1>1, <3>1, <4>3, PutSame
      <4>4. QED
        BY <4>1, <4>2, <4>3
    <3>2. CASE contexts' = contexts
      <4>1. ASSUME Has(contexts, d), NEW m \in DOMAIN contexts, contexts[m].condition = d.condition
            PROVE  Same(contexts[m], d)
        <5> HIDE DEF d
        <5>1. PICK x \in DOMAIN contexts : Same(contexts[x], d)
          BY <4>1 DEF Has
        <5>2. x = m
          BY <1>1, <4>1, <5>1 DEF Same, WorkspaceInv, Distinct
        <5>3. QED
          BY <5>1, <5>2
      <4>2. QED
        BY <1>1, <3>2, <4>1, SameApart DEF WorkspaceInv
    <3>3. QED
      BY <2>1, <3>1, <3>2
  <2>5. RunInv(contexts', Return(s))
    BY <1>1, <1>2, <2>1, <2>4, PutRun
  <2> HIDE DEF s
  <2>6. QED
    BY <2>1, <2>4, <2>5 DEF ReduceInv
<1>9. CASE EndReduce
  BY <1>1, <1>9 DEF EndReduce, ReduceInv, WorkspaceInv
<1>10. CASE UNCHANGED reduceVars
  BY <1>10 DEF ReduceInv, WorkspaceInv, reduceVars
<1>11. QED
  BY <1>3, <1>4, <1>5, <1>6, <1>7, <1>8, <1>9, <1>10 DEF ReduceNext

\* The workspace stays in order, and a reduction that is going on relates what was read
\* to the contexts as they were at its start and as they are.
THEOREM ReduceInvariant == ReduceSpec => []ReduceInv
<1>1. ReduceInit => ReduceInv
  BY InitInv DEF ReduceInit, ReduceInv
<1>2. QED
  BY <1>1, ReduceStep, PTL DEF ReduceSpec

\* The preview of a reduction changes nothing for queries with nested contexts.
THEOREM ReduceNestedSoundCorrect == ReduceSpec => []ReduceNestedSound
<1>1. WorkspaceInv => ReduceNestedSound
  <2>1. SUFFICES ASSUME WorkspaceInv, NEW k \in Keys, NEW e \in Evaluated, Nested(contexts, k, e)
                 PROVE  ValueOf(Reduced(contexts, k), e) = ValueOf(contexts, e)
    BY DEF ReduceNestedSound, ValueOf
  <2>2. ASSUME NEW n \in Keys
        PROVE  ValueOf(Reduced(contexts, k), e)[n] = ValueOf(contexts, e)[n]
    <3>1. CASE n = k
      BY <2>1, <3>1, NestedKey DEF WorkspaceInv
    <3>2. CASE n # k
      BY <2>1, <3>2, OtherKeys DEF WorkspaceInv
    <3>3. QED
      BY <3>1, <3>2
  <2>3. QED
    BY <2>2, ValuesEqual
<1>2. QED
  BY <1>1, ReduceInvariant, PTL DEF ReduceInv

\* An approved reduction is not visible between any two of its statements, whatever
\* others write, to queries for which the contexts were nested at its start and that
\* match nothing written since.
THEOREM ReductionInvisibleCorrect == ReduceSpec => []ReductionInvisible
<1>1. ReduceInv => ReductionInvisible
  <2>1. SUFFICES ASSUME ReduceInv, reducing # None, reducing.step # "describe"
                 PROVE  Unseen(contexts, reducing)
    BY DEF ReductionInvisible, Unseen, Quiet, ValueOf
  <2>2. RunInv(contexts, reducing) /\ Ordered(contexts)
    BY <2>1 DEF ReduceInv, WorkspaceInv, Ordered
  <2>3. CASE reducing.todo = {} /\ reducing.step = "delete"
    BY <2>2, <2>3 DEF RunInv
  <2>4. CASE ~(reducing.todo = {} /\ reducing.step = "delete")
    BY <2>1, <2>2, <2>4, WorkingUnseen DEF RunInv
  <2>5. QED
    BY <2>3, <2>4
<1>2. QED
  BY <1>1, ReduceInvariant, PTL
=============================================================================
