-------------------------- MODULE DimensionsProofs --------------------------
(***************************************************************************)
(* The graphs of cohorts and the conditions of contexts, for every set of  *)
(* dimensions, one request at a time: what create_handler, update_handler  *)
(* and delete_handler write to the graph of each dimension above the one   *)
(* they touch is the forest of the cohorts.  The shifts of positions are   *)
(* those of a list, and the weights a recompute stores rank the contexts   *)
(* by these positions.                                                     *)
(***************************************************************************)
EXTENDS DimensionRequests, FiniteSetTheorems, SequenceTheorems, WellFoundedInduction, TLAPS

-----------------------------------------------------------------------------
(* Tables *)

Kids(D, d) == {c \in DOMAIN D : D[c].type # "REGULAR" /\ D[c].base = d}

\* GraphExact for the row of d.
RowExact(D, d) ==
  /\ DOMAIN D[d].graph = {} <=> Kids(D, d) = {}
  /\ DOMAIN D[d].graph # {} => d \in DOMAIN D[d].graph
  /\ \A x \in DOMAIN D[d].graph :
       D[d].graph[x] = Kids(D, x) /\ Kids(D, x) \subseteq DOMAIN D[d].graph
  /\ \A x \in DOMAIN D[d].graph \ {d} :
       /\ x \in DOMAIN D
       /\ D[x].type # "REGULAR"
       /\ D[x].base \in DOMAIN D[d].graph

Exact(D) == \A d \in DOMAIN D : RowExact(D, d)

Rows(D) == IsFiniteSet(DOMAIN D) /\ DOMAIN D \subseteq Names /\ D \in [DOMAIN D -> Dimension]

\* A cohort is computed from a dimension that exists and comes later: there are no
\* cycles.
Ordered(D) ==
  \A c \in DOMAIN D : D[c].type # "REGULAR" =>
    D[c].base \in DOMAIN D /\ D[c].position < D[D[c].base].position

\* What the database holds.  The graphs alone are not inductive: that a graph becomes
\* empty with its last cohort needs the order, and the order needs unique positions.
Sound(D) == Rows(D) /\ UniquePositions(D) /\ Ordered(D) /\ Exact(D)

\* The fields of a row.
LEMMA RowFields ==
  ASSUME NEW D, Rows(D), NEW d \in DOMAIN D
  PROVE  /\ D[d] \in Dimension
         /\ D[d].position \in Nat /\ D[d].type \in DimensionTypes /\ D[d].base \in Names \cup {None}
         /\ D[d].graph \in Graph
  BY DEF Rows, Dimension

\* A graph is a function on names to sets of names.
LEMMA GraphForm ==
  ASSUME NEW g
  PROVE  g \in Graph <=> /\ g = [x \in DOMAIN g |-> g[x]]
                         /\ DOMAIN g \in SUBSET Names
                         /\ \A x \in DOMAIN g : g[x] \in SUBSET Names
<1>1. ASSUME g \in Graph
      PROVE  /\ g = [x \in DOMAIN g |-> g[x]]
             /\ DOMAIN g \in SUBSET Names
             /\ \A x \in DOMAIN g : g[x] \in SUBSET Names
  <2>1. PICK N \in SUBSET Names : g \in [N -> SUBSET Names]
    BY <1>1 DEF Graph
  <2>2. QED
    BY <2>1
<1>2. ASSUME g = [x \in DOMAIN g |-> g[x]], DOMAIN g \in SUBSET Names,
             \A x \in DOMAIN g : g[x] \in SUBSET Names
      PROVE  g \in Graph
  <2>1. g \in [DOMAIN g -> SUBSET Names]
    BY <1>2
  <2>2. QED
    BY <1>2, <2>1 DEF Graph
<1>3. QED
  BY <1>1, <1>2

\* A finite set of numbers that is not empty has a greatest one.
LEMMA Greatest ==
  ASSUME NEW S, IsFiniteSet(S), S \subseteq Int, S # {}
  PROVE  \E m \in S : \A x \in S : x <= m
<1> DEFINE below(k) == {j \in S : j < k}
           f == [k \in S |-> Cardinality(below(k))]
           R == 0 .. (Cardinality(S) - 1)
<1>1. Cardinality(S) \in Nat /\ Cardinality(S) # 0
  BY FS_CardinalityType, FS_EmptySet
<1>2. ASSUME NEW k \in S
      PROVE  IsFiniteSet(below(k)) /\ Cardinality(below(k)) \in R
  <2>1. IsFiniteSet(below(k)) /\ Cardinality(below(k)) \in Nat /\ Cardinality(below(k)) <= Cardinality(S)
    BY FS_Subset, FS_CardinalityType
  <2>2. below(k) # S
    OBVIOUS
  <2>3. Cardinality(below(k)) # Cardinality(S)
    BY <2>2, FS_Subset
  <2>4. QED
    BY <1>1, <2>1, <2>3
<1>3. ASSUME NEW j \in S, NEW k \in S, j < k
      PROVE  Cardinality(below(j)) < Cardinality(below(k))
  <2>0. j \in Int /\ k \in Int /\ \A x \in S : x \in Int
    OBVIOUS
  <2>1. below(j) \in SUBSET below(k) /\ j \in below(k) /\ j \notin below(j)
    <3>1. ASSUME NEW x \in below(j)
          PROVE  x \in below(k)
      <4>1. x \in S /\ x < j
        OBVIOUS
      <4>2. x < k
        BY <1>3, <2>0, <4>1
      <4>3. QED
        BY <4>1, <4>2
    <3>2. j \in below(k) /\ j \notin below(j)
      BY <1>3, <2>0
    <3>3. QED
      BY <3>1, <3>2
  <2>2. Cardinality(below(j)) <= Cardinality(below(k)) /\ Cardinality(below(j)) # Cardinality(below(k))
    BY <1>2, <2>1, FS_Subset
  <2>3. Cardinality(below(j)) \in Nat /\ Cardinality(below(k)) \in Nat
    BY <1>2
  <2>4. QED
    BY <2>2, <2>3
<1>4. f \in Injection(S, R)
  <2>1. f \in [S -> R]
    BY <1>2
  <2>2. \A j, k \in S : f[j] = f[k] => j = k
    <3>1. ASSUME NEW j \in S, NEW k \in S, j < k
          PROVE  f[j] # f[k]
      <4>1. Cardinality(below(j)) < Cardinality(below(k))
        BY <1>3, <3>1
      <4>2. Cardinality(below(j)) \in Nat /\ Cardinality(below(k)) \in Nat
        BY <1>2
      <4>3. QED
        BY <4>1, <4>2
    <3>2. QED
      BY <3>1
  <2>3. QED
    BY <2>1, <2>2 DEF Injection, IsInjective
<1>5. IsFiniteSet(R) /\ Cardinality(R) = Cardinality(S)
  BY <1>1, FS_Interval
<1>6. f \in Surjection(S, R)
  BY <1>4, <1>5, FS_Injection
<1>7. PICK m \in S : f[m] = Cardinality(S) - 1
  <2>1. Cardinality(S) - 1 \in R
    BY <1>1
  <2> HIDE DEF f, R
  <2>2. QED
    BY <1>6, <2>1 DEF Surjection
<1>8. ASSUME NEW x \in S, m < x
      PROVE  FALSE
  <2>1. Cardinality(below(m)) < Cardinality(below(x)) /\ Cardinality(below(m)) = Cardinality(S) - 1
    BY <1>3, <1>7, <1>8
  <2>2. Cardinality(below(x)) \in R
    BY <1>2
  <2>3. QED
    BY <1>1, <2>1, <2>2
<1>9. QED
  BY <1>8

\* The positions of finitely many rows are finitely many.
LEMMA FinitePositions ==
  ASSUME NEW D, NEW S, IsFiniteSet(S)
  PROVE  IsFiniteSet({D[d].position : d \in S})
<1> DEFINE P == {D[d].position : d \in S}
           f == [d \in S |-> D[d].position]
<1>1. f \in Surjection(S, P)
  BY DEF Surjection
<1>2. QED
  BY <1>1, FS_Surjection

\* So every set of rows has one with the greatest position.
LEMMA LastRow ==
  ASSUME NEW D, Rows(D), NEW S \in SUBSET DOMAIN D, S # {}
  PROVE  \E x \in S : \A y \in S : D[y].position <= D[x].position
<1> DEFINE P == {D[d].position : d \in S}
<1>1. IsFiniteSet(S)
  BY FS_Subset DEF Rows
<1>2. IsFiniteSet(P)
  BY <1>1, FinitePositions
<1>3. P \subseteq Int /\ P # {}
  BY RowFields
<1>4. PICK m \in P : \A x \in P : x <= m
  BY <1>2, <1>3, Greatest
<1>5. QED
  BY <1>4

\* Top is no less than any position.
LEMMA TopBound ==
  ASSUME NEW D, Rows(D)
  PROVE  Top(D) \in Nat /\ \A d \in DOMAIN D : D[d].position <= Top(D)
<1> DEFINE P == {D[d].position : d \in DOMAIN D}
           S == P \cup {0}
<1>1. IsFiniteSet(P)
  BY FinitePositions DEF Rows
<1>2. IsFiniteSet(S)
  BY <1>1, FS_AddElement
<1>3. S \subseteq Nat /\ S # {}
  BY RowFields
<1>4. PICK m \in S : \A x \in S : x <= m
  BY <1>2, <1>3, Greatest
<1>5. \A y \in S : m >= y
  BY <1>3, <1>4
<1>6. Top(D) \in S /\ \A y \in S : Top(D) >= y
  BY <1>5 DEF Top, Max
<1>7. QED
  BY <1>3, <1>6
-----------------------------------------------------------------------------
(* What the writes do to a table *)

\* E has the rows of D, up to their positions.
SameForest(E, D) ==
  /\ DOMAIN E = DOMAIN D
  /\ \A d \in DOMAIN D : /\ E[d].type = D[d].type
                         /\ E[d].base = D[d].base
                         /\ E[d].graph = D[d].graph

\* Moving rows leaves the graphs exact.
LEMMA SameForestExact ==
  ASSUME NEW D, NEW E, SameForest(E, D), Exact(D)
  PROVE  Exact(E)
<1>1. \A x : Kids(E, x) = Kids(D, x)
  BY DEF Kids, SameForest
<1>2. ASSUME NEW d \in DOMAIN D
      PROVE  RowExact(E, d)
  <2>1. PICK g : g = D[d].graph /\ g = E[d].graph
    BY DEF SameForest
  <2>2. RowExact(D, d)
    BY DEF Exact
  <2>3. ASSUME NEW x \in DOMAIN g \ {d}
        PROVE  /\ x \in DOMAIN E
               /\ E[x].type # "REGULAR"
               /\ E[x].base \in DOMAIN g
    BY <2>1, <2>2 DEF RowExact, SameForest
  <2>4. QED
    BY <1>1, <2>1, <2>2, <2>3 DEF RowExact
<1>3. QED
  BY <1>2 DEF Exact, SameForest

\* Shift moves the rows of an interval.
LEMMA ShiftFacts ==
  ASSUME NEW D, Rows(D), NEW from \in Int, NEW to \in Int, NEW k \in Int,
         \A d \in DOMAIN D : D[d].position \in from .. to => D[d].position + k \in Nat
  PROVE  /\ Rows(Shift(D, from, to, k))
         /\ SameForest(Shift(D, from, to, k), D)
         /\ \A d \in DOMAIN D : Shift(D, from, to, k)[d].position =
              IF from <= D[d].position /\ D[d].position <= to THEN D[d].position + k ELSE D[d].position
<1> DEFINE E == Shift(D, from, to, k)
<1>1. DOMAIN E = DOMAIN D
  BY DEF Shift
<1>2. ASSUME NEW d \in DOMAIN D
      PROVE  /\ E[d] \in Dimension
             /\ E[d].type = D[d].type /\ E[d].base = D[d].base /\ E[d].graph = D[d].graph
             /\ E[d].position = IF from <= D[d].position /\ D[d].position <= to
                                THEN D[d].position + k ELSE D[d].position
  <2>1. D[d] \in Dimension /\ D[d].position \in Nat
    BY RowFields
  <2>2. E[d] = IF D[d].position \in from .. to
               THEN [D[d] EXCEPT !.position = D[d].position + k] ELSE D[d]
    BY DEF Shift
  <2>3. D[d].position \in from .. to <=> from <= D[d].position /\ D[d].position <= to
    BY <2>1
  <2>4. QED
    BY <2>1, <2>2, <2>3 DEF Dimension
<1>3. E \in [DOMAIN D -> Dimension]
  <2>1. E = [d \in DOMAIN D |-> E[d]]
    BY DEF Shift
  <2>2. QED
    BY <1>2, <2>1
<1>4. QED
  BY <1>1, <1>2, <1>3 DEF Rows, SameForest

\* What create_connections_with_dependents makes of a graph g of the dimension d.
Grown(g, b, n) ==
  [x \in DOMAIN g \cup {b, n} |->
     IF x = n THEN {}
     ELSE IF x = b THEN (IF b \in DOMAIN g THEN g[b] ELSE {}) \cup {n}
     ELSE g[x]]

\* Rows keep all but their graphs, and those above b grow.
LEMMA ConnectFacts ==
  ASSUME NEW D, Rows(D), NEW b \in DOMAIN D, NEW n \in Names
  PROVE  LET E == create_connections_with_dependents(D, b, n)
         IN  /\ E \in [DOMAIN D -> Dimension]
             /\ \A d \in DOMAIN D :
                  /\ E[d].type = D[d].type /\ E[d].base = D[d].base
                  /\ E[d].position = D[d].position
                  /\ E[d].graph = IF d = b \/ b \in DOMAIN D[d].graph
                                  THEN Grown(D[d].graph, b, n) ELSE D[d].graph
<1> DEFINE E == create_connections_with_dependents(D, b, n)
<1>1. E = [d \in DOMAIN D |-> IF d = b \/ b \in DOMAIN D[d].graph
                              THEN [D[d] EXCEPT !.graph = Grown(D[d].graph, b, n)] ELSE D[d]]
  BY DEF create_connections_with_dependents, Grown
<1>2. b \in Names
  BY DEF Rows
<1>3. ASSUME NEW g \in Graph
      PROVE  Grown(g, b, n) \in Graph
  <2>1. DOMAIN g \in SUBSET Names /\ \A x \in DOMAIN g : g[x] \in SUBSET Names
    BY GraphForm
  <2>2. DOMAIN Grown(g, b, n) = DOMAIN g \cup {b, n}
    BY DEF Grown
  <2>3. \A x \in DOMAIN Grown(g, b, n) : Grown(g, b, n)[x] \in SUBSET Names
    BY <1>2, <2>1, <2>2 DEF Grown
  <2>4. Grown(g, b, n) = [x \in DOMAIN Grown(g, b, n) |-> Grown(g, b, n)[x]]
    BY <2>2 DEF Grown
  <2>5. QED
    BY <1>2, <2>1, <2>2, <2>3, <2>4, GraphForm
<1>4. ASSUME NEW d \in DOMAIN D
      PROVE  /\ E[d] \in Dimension
             /\ E[d].type = D[d].type /\ E[d].base = D[d].base
             /\ E[d].position = D[d].position
             /\ E[d].graph = IF d = b \/ b \in DOMAIN D[d].graph
                             THEN Grown(D[d].graph, b, n) ELSE D[d].graph
  <2>1. D[d] \in Dimension /\ D[d].graph \in Graph /\ Grown(D[d].graph, b, n) \in Graph
    BY <1>3, RowFields
  <2>2. E[d] = IF d = b \/ b \in DOMAIN D[d].graph
               THEN [D[d] EXCEPT !.graph = Grown(D[d].graph, b, n)] ELSE D[d]
    BY <1>1
  <2>3. QED
    BY <2>1, <2>2 DEF Dimension
<1>5. QED
  BY <1>1, <1>4
\* Nobody is computed from a dimension that does not exist.
LEMMA NoKids ==
  ASSUME NEW D, Ordered(D), NEW n, n \notin DOMAIN D
  PROVE  /\ Kids(D, n) = {}
         /\ \A x : Kids(D, x) \subseteq DOMAIN D
  BY DEF Kids, Ordered

\* Every node of a graph is a dimension.
LEMMA Nodes ==
  ASSUME NEW D, Exact(D), NEW d \in DOMAIN D
  PROVE  DOMAIN D[d].graph \subseteq DOMAIN D
  BY DEF Exact, RowExact

\* E has the rows of D, up to their positions, and the new leaf n below b.
GrownForest(E, D, b, n) ==
  /\ DOMAIN E = DOMAIN D \cup {n}
  /\ E[n].type # "REGULAR" /\ E[n].base = b /\ DOMAIN E[n].graph = {}
  /\ \A d \in DOMAIN D : /\ E[d].type = D[d].type /\ E[d].base = D[d].base
                         /\ E[d].graph = IF d = b \/ b \in DOMAIN D[d].graph
                                         THEN Grown(D[d].graph, b, n) ELSE D[d].graph

\* The graphs that grew are exact.
LEMMA GrownExact ==
  ASSUME NEW D, Sound(D), NEW E, NEW b \in DOMAIN D, NEW n, n \notin DOMAIN D,
         GrownForest(E, D, b, n)
  PROVE  Exact(E) /\ Kids(E, b) = Kids(D, b) \cup {n} /\ \A x : x # b => Kids(E, x) = Kids(D, x)
<1> USE DEF GrownForest
<1>1. Kids(D, n) = {} /\ \A x : Kids(D, x) \subseteq DOMAIN D
  BY NoKids DEF Sound
<1>2. Kids(E, b) = Kids(D, b) \cup {n} /\ \A x : x # b => Kids(E, x) = Kids(D, x)
  <2>1. ASSUME NEW x, NEW c \in DOMAIN D
        PROVE  c \in Kids(E, x) <=> c \in Kids(D, x)
    BY DEF Kids
  <2>2. ASSUME NEW x
        PROVE  n \in Kids(E, x) <=> x = b
    BY DEF Kids
  <2>3. \A x : Kids(E, x) \subseteq DOMAIN D \cup {n}
    BY DEF Kids
  <2>4. ASSUME NEW x, x # b
        PROVE  Kids(E, x) = Kids(D, x)
    <3>1. n \notin Kids(E, x)
      BY <2>2, <2>4
    <3>2. Kids(E, x) \subseteq DOMAIN D /\ Kids(D, x) \subseteq DOMAIN D
      BY <1>1, <2>3, <3>1
    <3>3. \A c \in DOMAIN D : c \in Kids(E, x) <=> c \in Kids(D, x)
      BY <2>1
    <3>4. QED
      BY <3>2, <3>3
  <2>5. Kids(E, b) = Kids(D, b) \cup {n}
    <3>1. n \in Kids(E, b)
      BY <2>2
    <3>2. Kids(E, b) \subseteq DOMAIN D \cup {n} /\ Kids(D, b) \subseteq DOMAIN D
      BY <1>1, <2>3
    <3>3. \A c \in DOMAIN D : c \in Kids(E, b) <=> c \in Kids(D, b)
      BY <2>1
    <3>4. QED
      BY <3>1, <3>2, <3>3
  <2>6. QED
    BY <2>4, <2>5
<1>3. n # b
  OBVIOUS
<1>4. RowExact(E, n)
  BY <1>1, <1>2, <1>3 DEF RowExact
<1>5. ASSUME NEW d \in DOMAIN D
      PROVE  RowExact(E, d)
  <2>1. PICK g : g = D[d].graph
    OBVIOUS
  <2>2. /\ DOMAIN g = {} <=> Kids(D, d) = {}
        /\ DOMAIN g # {} => d \in DOMAIN g
        /\ \A x \in DOMAIN g : g[x] = Kids(D, x) /\ Kids(D, x) \subseteq DOMAIN g
        /\ \A x \in DOMAIN g \ {d} : D[x].type # "REGULAR" /\ D[x].base \in DOMAIN g
        /\ DOMAIN g \subseteq DOMAIN D
    BY <2>1, Nodes DEF Sound, Exact, RowExact
  <2>3. n \notin DOMAIN g /\ n # d
    BY <2>2
  <2>4. CASE d = b \/ b \in DOMAIN g
    <3>1. PICK h : h = E[d].graph /\ h = Grown(g, b, n)
      BY <2>1, <2>4
    <3>2. /\ DOMAIN h = DOMAIN g \cup {b, n}
          /\ h[n] = {}
          /\ h[b] = (IF b \in DOMAIN g THEN g[b] ELSE {}) \cup {n}
          /\ \A x \in DOMAIN g \ {b} : h[x] = g[x]
      BY <1>3, <2>3, <3>1 DEF Grown
    <3>3. h[b] = Kids(D, b) \cup {n}
      <4>1. CASE b \in DOMAIN g
        BY <2>2, <3>2, <4>1
      <4>2. CASE b \notin DOMAIN g
        <5>1. d = b /\ DOMAIN g = {} /\ Kids(D, b) = {}
          BY <2>2, <2>4, <4>2
        <5>2. QED
          BY <3>2, <4>2, <5>1
      <4>3. QED
        BY <4>1, <4>2
    <3>4. Kids(D, b) \subseteq DOMAIN h
      <4>1. CASE b \in DOMAIN g
        BY <2>2, <3>2, <4>1
      <4>2. CASE b \notin DOMAIN g
        BY <2>2, <2>4, <4>2
      <4>3. QED
        BY <4>1, <4>2
    <3>5. ASSUME NEW x \in DOMAIN h
          PROVE  h[x] = Kids(E, x) /\ Kids(E, x) \subseteq DOMAIN h
      <4>1. CASE x = n
        BY <1>1, <1>2, <1>3, <3>2, <4>1
      <4>2. CASE x = b
        BY <1>2, <3>2, <3>3, <3>4, <4>2
      <4>3. CASE x \in DOMAIN g /\ x # b
        BY <1>2, <2>2, <3>2, <4>3
      <4>4. QED
        BY <3>2, <4>1, <4>2, <4>3
    <3>6. ASSUME NEW x \in DOMAIN h \ {d}
          PROVE  x \in DOMAIN E /\ E[x].type # "REGULAR" /\ E[x].base \in DOMAIN h
      <4>1. CASE x = n
        BY <3>2, <4>1
      <4>2. CASE x \in DOMAIN g
        BY <2>2, <3>2, <4>2
      <4>3. CASE x = b /\ x \notin DOMAIN g
        BY <2>4, <4>3
      <4>4. QED
        BY <3>2, <4>1, <4>2, <4>3
    <3>7. Kids(E, d) # {} /\ d \in DOMAIN h
      <4>1. CASE d = b
        BY <1>2, <3>2, <4>1
      <4>2. CASE d # b
        BY <1>2, <2>2, <2>4, <3>2, <4>2
      <4>3. QED
        BY <4>1, <4>2
    <3>8. QED
      BY <3>1, <3>5, <3>6, <3>7 DEF RowExact
  <2>5. CASE ~(d = b \/ b \in DOMAIN g)
    <3>1. E[d].graph = g
      BY <2>1, <2>5
    <3>2. \A x \in DOMAIN g \cup {d} : Kids(E, x) = Kids(D, x)
      BY <1>2, <2>5
    <3>3. \A x \in DOMAIN g \ {d} : x \in DOMAIN E /\ E[x].type # "REGULAR" /\ E[x].base \in DOMAIN g
      BY <2>2
    <3>4. QED
      BY <2>2, <3>1, <3>2, <3>3 DEF RowExact
  <2>6. QED
    BY <2>4, <2>5
<1>6. QED
  BY <1>2, <1>4, <1>5 DEF Exact

\* The same for a dimension that is not a cohort.
LEMMA RootExact ==
  ASSUME NEW D, Sound(D), NEW E, NEW n, n \notin DOMAIN D,
         DOMAIN E = DOMAIN D \cup {n},
         E[n].type = "REGULAR", DOMAIN E[n].graph = {},
         \A d \in DOMAIN D : /\ E[d].type = D[d].type /\ E[d].base = D[d].base
                             /\ E[d].graph = D[d].graph
  PROVE  Exact(E) /\ \A x : Kids(E, x) = Kids(D, x)
<1>1. Kids(D, n) = {} /\ \A x : Kids(D, x) \subseteq DOMAIN D
  BY NoKids DEF Sound
<1>2. \A x : Kids(E, x) = Kids(D, x)
  <2>1. ASSUME NEW x, NEW c \in DOMAIN D
        PROVE  c \in Kids(E, x) <=> c \in Kids(D, x)
    BY DEF Kids
  <2>2. \A x : n \notin Kids(E, x) /\ Kids(E, x) \subseteq DOMAIN D \cup {n}
    BY DEF Kids
  <2>3. ASSUME NEW x
        PROVE  Kids(E, x) = Kids(D, x)
    <3>1. Kids(E, x) \subseteq DOMAIN D /\ Kids(D, x) \subseteq DOMAIN D
      BY <1>1, <2>2
    <3>2. \A c \in DOMAIN D : c \in Kids(E, x) <=> c \in Kids(D, x)
      BY <2>1
    <3>3. QED
      BY <3>1, <3>2
  <2>4. QED
    BY <2>3
<1>3. RowExact(E, n)
  BY <1>1, <1>2 DEF RowExact
<1>4. ASSUME NEW d \in DOMAIN D
      PROVE  RowExact(E, d)
  <2>1. PICK g : g = D[d].graph /\ g = E[d].graph
    OBVIOUS
  <2>2. RowExact(D, d) /\ DOMAIN g \subseteq DOMAIN D
    BY <2>1, Nodes DEF Sound, Exact
  <2>3. \A x \in DOMAIN g \ {d} : x \in DOMAIN E /\ E[x].type # "REGULAR" /\ E[x].base \in DOMAIN g
    BY <2>1, <2>2 DEF RowExact
  <2>4. QED
    BY <1>2, <2>1, <2>2, <2>3 DEF RowExact
<1>5. QED
  BY <1>2, <1>3, <1>4 DEF Exact
\* The children after a creation.
KidsAfter(E, D, n, type, b) ==
  /\ type # "REGULAR" => Kids(E, b) = Kids(D, b) \cup {n}
  /\ \A x : (type = "REGULAR" \/ x # b) => Kids(E, x) = Kids(D, x)

\* The table after a creation.
Created(D, n, p, type, b) ==
  LET E == Inserted(D, n, p, type, b)
  IN  /\ Rows(E) /\ Ordered(E) /\ Exact(E)
      /\ DOMAIN E = DOMAIN D \cup {n}
      /\ KidsAfter(E, D, n, type, b)
      /\ E[n].position = p /\ E[n].type = type /\ E[n].base = b
      /\ \A d \in DOMAIN D :
           /\ E[d].type = D[d].type /\ E[d].base = D[d].base
           /\ E[d].position = IF p <= D[d].position THEN D[d].position + 1 ELSE D[d].position

\* create_handler's transaction: every row from p on moves up, so that the new cohort
\* comes before its base.
LEMMA InsertedSound ==
  ASSUME NEW D, Sound(D), NEW n \in Names, n \notin DOMAIN D, NEW p \in Nat,
         NEW type \in DimensionTypes, NEW b \in Names \cup {None}, ValidType(D, p, type, b, TRUE)
  PROVE  Created(D, n, p, type, b)
<1> DEFINE S == Shift(D, p, Top(D), 1)
           C == IF type = "REGULAR" THEN S ELSE create_connections_with_dependents(S, b, n)
           new == [position |-> p, type |-> type, base |-> b, graph |-> EmptyGraph]
           E == Inserted(D, n, p, type, b)
           pos(d) == IF p <= D[d].position THEN D[d].position + 1 ELSE D[d].position
<1>1. Rows(D) /\ Ordered(D) /\ \A d \in DOMAIN D : D[d].position \in Nat
  BY RowFields DEF Sound
<1>2. Top(D) \in Nat /\ \A d \in DOMAIN D : D[d].position <= Top(D)
  BY <1>1, TopBound
<1>3. /\ Rows(S) /\ SameForest(S, D)
      /\ \A d \in DOMAIN D : S[d].position = pos(d)
  <2>1. p \in Int /\ Top(D) \in Int /\ 1 \in Int
    BY <1>2
  <2>2. \A d \in DOMAIN D : D[d].position \in p .. Top(D) => D[d].position + 1 \in Nat
    BY <1>1
  <2>3. /\ Rows(S) /\ SameForest(S, D)
        /\ \A d \in DOMAIN D : S[d].position =
             IF p <= D[d].position /\ D[d].position <= Top(D) THEN D[d].position + 1 ELSE D[d].position
    BY <1>1, <2>1, <2>2, ShiftFacts
  <2>4. QED
    BY <1>2, <2>3
<1> HIDE DEF S
<1>4. type # "REGULAR" => b \in DOMAIN D /\ p <= D[b].position
  BY DEF ValidType, does_dimension_exist_for_cohorting, validate_cohort_position
<1>5. /\ C \in [DOMAIN D -> Dimension]
      /\ \A d \in DOMAIN D :
           /\ C[d].type = D[d].type /\ C[d].base = D[d].base /\ C[d].position = pos(d)
           /\ C[d].graph = IF type # "REGULAR" /\ (d = b \/ b \in DOMAIN D[d].graph)
                           THEN Grown(D[d].graph, b, n) ELSE D[d].graph
  <2>1. CASE type = "REGULAR"
    BY <1>3, <2>1 DEF Rows, SameForest
  <2>2. CASE type # "REGULAR"
    <3>1. b \in DOMAIN S /\ DOMAIN S = DOMAIN D
      BY <1>3, <1>4, <2>2 DEF SameForest
    <3>2. /\ C \in [DOMAIN S -> Dimension]
          /\ \A d \in DOMAIN S :
               /\ C[d].type = S[d].type /\ C[d].base = S[d].base
               /\ C[d].position = S[d].position
               /\ C[d].graph = IF d = b \/ b \in DOMAIN S[d].graph
                               THEN Grown(S[d].graph, b, n) ELSE S[d].graph
      BY <1>3, <2>2, <3>1, ConnectFacts
    <3>3. QED
      BY <1>3, <2>2, <3>1, <3>2 DEF SameForest
  <2>3. QED
    BY <2>1, <2>2
<1>6. E = [d \in DOMAIN D \cup {n} |-> IF d = n THEN new ELSE C[d]]
  BY DEF Inserted, S
<1> HIDE DEF C, E
<1>7. EmptyGraph \in Graph /\ DOMAIN EmptyGraph = {}
  <2>1. DOMAIN EmptyGraph = {} /\ EmptyGraph = [x \in DOMAIN EmptyGraph |-> EmptyGraph[x]]
    BY DEF EmptyGraph
  <2>2. QED
    BY <2>1, GraphForm
<1>8. new \in Dimension
  BY <1>7 DEF Dimension
<1>9. DOMAIN E = DOMAIN D \cup {n} /\ E[n] = new /\ \A d \in DOMAIN D : E[d] = C[d]
  BY <1>6
<1>10. Rows(E)
  <2>1. IsFiniteSet(DOMAIN D \cup {n})
    BY <1>1, FS_AddElement DEF Rows
  <2>2. E \in [DOMAIN D \cup {n} -> Dimension]
    BY <1>5, <1>6, <1>8
  <2>3. QED
    BY <1>1, <1>9, <2>1, <2>2 DEF Rows
<1>11. Ordered(E)
  <2>1. ASSUME NEW c \in DOMAIN D, E[c].type # "REGULAR"
        PROVE  E[c].base \in DOMAIN E /\ E[c].position < E[E[c].base].position
    <3>1. PICK a \in DOMAIN D : a = D[c].base /\ D[c].position < D[a].position
      BY <1>1, <1>5, <1>9, <2>1 DEF Ordered
    <3>2. E[c].base = a /\ E[c].position = pos(c) /\ E[a].position = pos(a)
      BY <1>5, <1>9, <3>1
    <3>3. pos(c) < pos(a)
      BY <1>1, <3>1
    <3>4. QED
      BY <1>9, <3>2, <3>3
  <2>2. ASSUME E[n].type # "REGULAR"
        PROVE  E[n].base \in DOMAIN E /\ E[n].position < E[E[n].base].position
    <3>1. b \in DOMAIN D /\ p <= D[b].position
      BY <1>4, <1>9, <2>2
    <3>2. E[n].base = b /\ E[n].position = p /\ E[b].position = D[b].position + 1
      BY <1>5, <1>9, <3>1
    <3>3. QED
      BY <1>1, <1>9, <3>1, <3>2
  <2>3. QED
    BY <1>9, <2>1, <2>2 DEF Ordered
<1>12. Exact(E) /\ KidsAfter(E, D, n, type, b)
  <2>1. CASE type = "REGULAR"
    <3>1. E[n].type = "REGULAR" /\ DOMAIN E[n].graph = {}
      BY <1>7, <1>9, <2>1
    <3>2. \A d \in DOMAIN D : E[d].type = D[d].type /\ E[d].base = D[d].base /\ E[d].graph = D[d].graph
      BY <1>5, <1>9, <2>1
    <3>3. Exact(E) /\ \A x : Kids(E, x) = Kids(D, x)
      BY <1>9, <3>1, <3>2, RootExact
    <3>4. QED
      BY <2>1, <3>3 DEF KidsAfter
  <2>2. CASE type # "REGULAR"
    <3>1. E[n].type # "REGULAR" /\ E[n].base = b /\ DOMAIN E[n].graph = {} /\ b \in DOMAIN D
      BY <1>4, <1>7, <1>9, <2>2
    <3>2. \A d \in DOMAIN D : /\ E[d].type = D[d].type /\ E[d].base = D[d].base
                              /\ E[d].graph = IF d = b \/ b \in DOMAIN D[d].graph
                                              THEN Grown(D[d].graph, b, n) ELSE D[d].graph
      BY <1>5, <1>9, <2>2
    <3>3. GrownForest(E, D, b, n)
      BY <1>9, <3>1, <3>2 DEF GrownForest
    <3>4. Exact(E) /\ Kids(E, b) = Kids(D, b) \cup {n} /\ \A x : x # b => Kids(E, x) = Kids(D, x)
      BY <3>1, <3>3, GrownExact
    <3>5. QED
      BY <2>2, <3>4 DEF KidsAfter
  <2>3. QED
    BY <2>1, <2>2
<1>13. QED
  BY <1>5, <1>9, <1>10, <1>11, <1>12 DEF E, Created
-----------------------------------------------------------------------------
(* Deletion *)

\* When the leaf n is all that is computed from b, the graph of b has no other node:
\* of the other nodes, the one with the greatest position would be computed from
\* a node that comes after it.
LEMMA LonelyGraph ==
  ASSUME NEW D, Sound(D), NEW b \in DOMAIN D, NEW n, Kids(D, n) = {}, Kids(D, b) \subseteq {n}
  PROVE  DOMAIN D[b].graph \subseteq {b, n}
<1> DEFINE T == DOMAIN D[b].graph \ {b, n}
<1>1. SUFFICES ASSUME T # {} PROVE FALSE
  OBVIOUS
<1>2. T \in SUBSET DOMAIN D
  BY Nodes DEF Sound
<1>3. PICK x \in T : \A y \in T : D[y].position <= D[x].position
  BY <1>1, <1>2, LastRow DEF Sound
<1>4. x \in DOMAIN D /\ D[x].type # "REGULAR" /\ D[x].base \in DOMAIN D[b].graph
  BY DEF Sound, Exact, RowExact
<1>5. PICK a : a = D[x].base /\ a \in DOMAIN D /\ D[x].position < D[a].position
  BY <1>4 DEF Sound, Ordered
<1>6. x \in Kids(D, a)
  BY <1>4, <1>5 DEF Kids
<1>7. a # b /\ a # n
  BY <1>6
<1>8. a \in T
  BY <1>4, <1>5, <1>7
<1>9. D[a].position <= D[x].position /\ D[a].position \in Nat /\ D[x].position \in Nat
  BY <1>3, <1>4, <1>5, <1>8, RowFields DEF Sound
<1>10. QED
  BY <1>5, <1>9

\* What remove_connections_with_dependents makes of a graph g of the dimension d.
Pruned(g, d, n, b) ==
  [x \in DOMAIN g \ ({n} \cup IF d = b /\ b \in DOMAIN g /\ g[b] \subseteq {n} THEN {b} ELSE {}) |->
     IF x = b THEN g[b] \ {n} ELSE g[x]]

\* E is D without the leaf n below b, up to the positions.
PrunedForest(E, D, n, b) ==
  /\ DOMAIN E = DOMAIN D \ {n}
  /\ \A d \in DOMAIN D \ {n} :
       /\ E[d].type = D[d].type /\ E[d].base = D[d].base
       /\ E[d].graph = IF D[n].type # "REGULAR" /\ (d = b \/ b \in DOMAIN D[d].graph)
                       THEN Pruned(D[d].graph, d, n, b) ELSE D[d].graph

\* The children of every dimension after a deletion.
LEMMA PrunedKids ==
  ASSUME NEW D, NEW E, NEW n, NEW b, PrunedForest(E, D, n, b), NEW x
  PROVE  Kids(E, x) = Kids(D, x) \ {n}
<1>1. \A c \in DOMAIN D \ {n} : c \in Kids(E, x) <=> c \in Kids(D, x)
  BY DEF Kids, PrunedForest
<1>2. Kids(E, x) \subseteq DOMAIN D \ {n} /\ Kids(D, x) \ {n} \subseteq DOMAIN D \ {n}
  BY DEF Kids, PrunedForest
<1>3. \A c \in DOMAIN D \ {n} : c \in Kids(E, x) <=> c \in Kids(D, x) \ {n}
  BY <1>1
<1>4. QED
  BY <1>2, <1>3

\* The graphs that were pruned are exact.
LEMMA PrunedExact ==
  ASSUME NEW D, Sound(D), NEW E, NEW n \in DOMAIN D, NEW b, b = D[n].base, Kids(D, n) = {},
         PrunedForest(E, D, n, b)
  PROVE  Exact(E)
<1>1. \A x : Kids(E, x) = Kids(D, x) \ {n}
  BY PrunedKids
<1>2. /\ DOMAIN E = DOMAIN D \ {n}
      /\ \A d \in DOMAIN D \ {n} : E[d].type = D[d].type /\ E[d].base = D[d].base
  BY DEF PrunedForest
<1>3. \A x : x # b \/ D[n].type = "REGULAR" => n \notin Kids(D, x)
  BY DEF Kids
<1>4. ASSUME NEW d \in DOMAIN D, d # n
      PROVE  RowExact(E, d)
  <2>1. PICK g : g = D[d].graph
    OBVIOUS
  <2>2. /\ DOMAIN g = {} <=> Kids(D, d) = {}
        /\ DOMAIN g # {} => d \in DOMAIN g
        /\ \A x \in DOMAIN g : g[x] = Kids(D, x) /\ Kids(D, x) \subseteq DOMAIN g
        /\ \A x \in DOMAIN g \ {d} : D[x].type # "REGULAR" /\ D[x].base \in DOMAIN g
        /\ DOMAIN g \subseteq DOMAIN D
    BY <2>1, Nodes DEF Sound, Exact, RowExact
  <2>3. \A x \in DOMAIN g \ {d} : D[x].base # n
    BY <2>2 DEF Kids
  <2>4. CASE D[n].type # "REGULAR" /\ (d = b \/ b \in DOMAIN g)
    <3>1. PICK h : h = E[d].graph /\ h = Pruned(g, d, n, b)
      BY <1>4, <2>1, <2>4 DEF PrunedForest
    <3>2. n \in Kids(D, b)
      BY <2>4 DEF Kids
    <3>3. b \in DOMAIN g /\ g[b] = Kids(D, b) /\ b # n
      BY <1>4, <2>2, <2>4, <3>2
    <3>4. CASE d = b /\ g[b] \subseteq {n}
      <4>1. DOMAIN h \subseteq DOMAIN g \ {n, b}
        BY <3>1, <3>3, <3>4 DEF Pruned
      <4>2. DOMAIN g \subseteq {b, n}
        BY <2>1, <3>3, <3>4, LonelyGraph
      <4>3. DOMAIN h = {} /\ Kids(E, d) = {}
        <5>1. DOMAIN h = {}
          BY <4>1, <4>2
        <5>2. Kids(E, d) = g[b] \ {n}
          BY <1>1, <3>3, <3>4
        <5>3. QED
          BY <3>4, <5>1, <5>2
      <4>4. QED
        BY <3>1, <4>3 DEF RowExact
    <3>5. CASE ~(d = b /\ g[b] \subseteq {n})
      <4>1. /\ DOMAIN h = DOMAIN g \ {n}
            /\ h[b] = g[b] \ {n}
            /\ \A x \in DOMAIN g \ {n, b} : h[x] = g[x]
        BY <3>1, <3>3, <3>5 DEF Pruned
      <4>2. ASSUME NEW x \in DOMAIN h
            PROVE  h[x] = Kids(E, x) /\ Kids(E, x) \subseteq DOMAIN h
        <5>1. CASE x = b
          <6>1. Kids(E, x) = Kids(D, b) \ {n} /\ Kids(D, b) \subseteq DOMAIN g
            BY <1>1, <2>2, <3>3, <5>1
          <6>2. QED
            BY <3>3, <4>1, <5>1, <6>1
        <5>2. CASE x # b
          <6>1. x \in DOMAIN g \ {n, b}
            BY <4>1, <5>2
          <6>2. g[x] = Kids(D, x) /\ Kids(D, x) \subseteq DOMAIN g
            BY <2>2, <6>1
          <6>3. n \notin Kids(D, x)
            BY <1>3, <5>2
          <6>4. Kids(E, x) = Kids(D, x)
            BY <1>1, <6>3
          <6>5. QED
            BY <4>1, <6>1, <6>2, <6>3, <6>4
        <5>3. QED
          BY <5>1, <5>2
      <4>3. ASSUME NEW x \in DOMAIN h \ {d}
            PROVE  x \in DOMAIN E /\ E[x].type # "REGULAR" /\ E[x].base \in DOMAIN h
        BY <1>2, <2>2, <2>3, <4>1
      <4>4. d \in DOMAIN h
        BY <1>4, <2>2, <3>3, <4>1
      <4>5. Kids(E, d) # {}
        <5>1. CASE d = b
          BY <1>1, <3>3, <3>5, <5>1
        <5>2. CASE d # b
          <6>1. Kids(D, d) # {} /\ n \notin Kids(D, d)
            BY <1>3, <2>2, <3>3, <5>2
          <6>2. QED
            BY <1>1, <6>1
        <5>3. QED
          BY <5>1, <5>2
      <4>6. QED
        BY <3>1, <4>2, <4>3, <4>4, <4>5 DEF RowExact
    <3>6. QED
      BY <3>4, <3>5
  <2>5. CASE ~(D[n].type # "REGULAR" /\ (d = b \/ b \in DOMAIN g))
    <3>1. E[d].graph = g
      BY <1>4, <2>1, <2>5 DEF PrunedForest
    <3>2. n \notin DOMAIN g
      BY <1>4, <2>2, <2>5
    <3>3. ASSUME NEW x \in DOMAIN g \cup {d}
          PROVE  Kids(E, x) = Kids(D, x)
      <4>1. n \notin Kids(D, x)
        BY <1>3, <2>5
      <4>2. QED
        BY <1>1, <4>1
    <3>4. \A x \in DOMAIN g \ {d} : x \in DOMAIN E /\ E[x].type # "REGULAR" /\ E[x].base \in DOMAIN g
      BY <1>2, <2>2, <3>2
    <3>5. QED
      BY <2>2, <3>1, <3>3, <3>4 DEF RowExact
  <2>6. QED
    BY <2>4, <2>5
<1>5. QED
  BY <1>2, <1>4 DEF Exact

\* E has the other rows of D, and those behind n one position lower.
ClosedUp(E, D, n) ==
  \A d \in DOMAIN D \ {n} :
    /\ E[d].type = D[d].type /\ E[d].base = D[d].base
    /\ E[d].position = IF D[n].position < D[d].position THEN D[d].position - 1 ELSE D[d].position

\* delete_handler's transaction on a dimension from which nothing is computed: every
\* later row moves down, and stays behind the cohorts computed from it.
LEMMA RemovedSound ==
  ASSUME NEW D, Sound(D), NEW n \in DOMAIN D, Kids(D, n) = {}
  PROVE  LET E == Removed(D, n, D[n])
         IN  /\ Rows(E) /\ Ordered(E) /\ Exact(E)
             /\ DOMAIN E = DOMAIN D \ {n}
             /\ \A x : Kids(E, x) = Kids(D, x) \ {n}
             /\ ClosedUp(E, D, n)
<1> DEFINE b == D[n].base
           k == D[n].position
           C == IF D[n].type = "REGULAR" THEN D ELSE remove_connections_with_dependents(D, n, b)
           R == [d \in DOMAIN D \ {n} |-> C[d]]
           E == Removed(D, n, D[n])
           above(d) == D[n].type # "REGULAR" /\ (d = b \/ b \in DOMAIN D[d].graph)
           pos(d) == IF k < D[d].position THEN D[d].position - 1 ELSE D[d].position
<1>1. Rows(D) /\ Ordered(D) /\ UniquePositions(D) /\ \A d \in DOMAIN D : D[d].position \in Nat
  BY RowFields DEF Sound
<1>2. ASSUME NEW g \in Graph, NEW d
      PROVE  Pruned(g, d, n, b) \in Graph
  <2>1. DOMAIN g \in SUBSET Names /\ \A x \in DOMAIN g : g[x] \in SUBSET Names
    BY GraphForm
  <2>2. PICK h : h = Pruned(g, d, n, b)
    OBVIOUS
  <2>3. DOMAIN h \subseteq DOMAIN g /\ h = [x \in DOMAIN h |-> h[x]]
    BY <2>2 DEF Pruned
  <2>4. ASSUME NEW x \in DOMAIN h
        PROVE  h[x] \in SUBSET Names
    <3>1. h[x] = IF x = b THEN g[b] \ {n} ELSE g[x]
      BY <2>2 DEF Pruned
    <3>2. QED
      BY <2>1, <2>3, <3>1
  <2>5. QED
    BY <2>1, <2>2, <2>3, <2>4, GraphForm
<1>3. ASSUME NEW d \in DOMAIN D
      PROVE  /\ C[d] \in Dimension
             /\ C[d].type = D[d].type /\ C[d].base = D[d].base /\ C[d].position = D[d].position
             /\ C[d].graph = IF above(d) THEN Pruned(D[d].graph, d, n, b) ELSE D[d].graph
  <2>1. D[d] \in Dimension /\ D[d].graph \in Graph /\ Pruned(D[d].graph, d, n, b) \in Graph
    BY <1>1, <1>2, RowFields
  <2>2. C[d] = IF above(d) THEN [D[d] EXCEPT !.graph = Pruned(D[d].graph, d, n, b)] ELSE D[d]
    BY DEF remove_connections_with_dependents, Pruned
  <2>3. QED
    BY <2>1, <2>2 DEF Dimension
<1> HIDE DEF C
<1>4. DOMAIN R = DOMAIN D \ {n} /\ \A d \in DOMAIN D \ {n} : R[d] = C[d]
  OBVIOUS
<1>5. Rows(R)
  <2>1. IsFiniteSet(DOMAIN D \ {n}) /\ DOMAIN D \ {n} \subseteq Names
    BY <1>1, FS_Subset DEF Rows
  <2>2. R \in [DOMAIN D \ {n} -> Dimension]
    BY <1>3
  <2>3. QED
    BY <1>4, <2>1, <2>2 DEF Rows
<1>6. \A d \in DOMAIN R : R[d].position = D[d].position
  BY <1>3, <1>4
<1>7. E = Shift(R, k + 1, Top(R), -1)
  BY DEF Removed, C
<1> HIDE DEF R
<1>8. Top(R) \in Nat /\ \A d \in DOMAIN R : R[d].position <= Top(R)
  BY <1>5, TopBound
<1>9. /\ Rows(E) /\ SameForest(E, R)
      /\ \A d \in DOMAIN R : E[d].position = pos(d)
  <2>1. k + 1 \in Int /\ Top(R) \in Int /\ -1 \in Int
    BY <1>1, <1>8
  <2>2. \A d \in DOMAIN R : R[d].position \in k + 1 .. Top(R) => R[d].position + (-1) \in Nat
    BY <1>1, <1>4, <1>6, <1>8
  <2>3. /\ Rows(Shift(R, k + 1, Top(R), -1)) /\ SameForest(Shift(R, k + 1, Top(R), -1), R)
        /\ \A d \in DOMAIN R : Shift(R, k + 1, Top(R), -1)[d].position =
             IF k + 1 <= R[d].position /\ R[d].position <= Top(R) THEN R[d].position + (-1) ELSE R[d].position
    BY <1>5, <2>1, <2>2, ShiftFacts
  <2>4. ASSUME NEW d \in DOMAIN R
        PROVE  E[d].position = pos(d)
    <3>1. D[d].position \in Nat /\ k \in Nat
      BY <1>1, <1>4
    <3>2. QED
      BY <1>6, <1>7, <1>8, <2>3, <3>1
  <2>5. QED
    BY <1>7, <2>3, <2>4
<1> HIDE DEF E
<1>10. PrunedForest(E, D, n, b)
  <2>1. DOMAIN E = DOMAIN D \ {n}
    BY <1>4, <1>9 DEF SameForest
  <2>2. ASSUME NEW d \in DOMAIN D \ {n}
        PROVE  /\ E[d].type = D[d].type /\ E[d].base = D[d].base
               /\ E[d].graph = IF above(d) THEN Pruned(D[d].graph, d, n, b) ELSE D[d].graph
    BY <1>3, <1>4, <1>9 DEF SameForest
  <2>3. QED
    BY <2>1, <2>2 DEF PrunedForest
<1>11. DOMAIN E = DOMAIN D \ {n} /\ Exact(E) /\ \A x : Kids(E, x) = Kids(D, x) \ {n}
  <2>1. DOMAIN E = DOMAIN D \ {n}
    BY <1>10 DEF PrunedForest
  <2>2. PICK a : a = b
    OBVIOUS
  <2>3. Exact(E)
    BY <1>10, <2>2, PrunedExact
  <2>4. ASSUME NEW x
        PROVE  Kids(E, x) = Kids(D, x) \ {n}
    BY <1>10, <2>2, PrunedKids
  <2>5. QED
    BY <2>1, <2>3, <2>4
<1>12. Ordered(E)
  <2>1. ASSUME NEW c \in DOMAIN E, E[c].type # "REGULAR"
        PROVE  E[c].base \in DOMAIN E /\ E[c].position < E[E[c].base].position
    <3>1. c \in DOMAIN D /\ c # n /\ D[c].type # "REGULAR" /\ E[c].base = D[c].base
      BY <1>10, <1>11, <2>1 DEF PrunedForest
    <3>2. PICK a \in DOMAIN D : a = D[c].base /\ D[c].position < D[a].position
      BY <1>1, <3>1 DEF Ordered
    <3>3. a # n
      BY <3>1, <3>2 DEF Kids
    <3>4. E[c].position = pos(c) /\ E[a].position = pos(a)
      BY <1>4, <1>9, <3>1, <3>3
    <3>5. D[c].position # k /\ D[c].position \in Nat /\ D[a].position \in Nat /\ k \in Nat
      BY <1>1, <3>1 DEF UniquePositions
    <3>6. pos(c) < pos(a)
      BY <3>2, <3>5
    <3>7. QED
      BY <1>11, <3>1, <3>2, <3>3, <3>4, <3>6
  <2>2. QED
    BY <2>1 DEF Ordered
<1>13. \A d \in DOMAIN D \ {n} :
         E[d].type = D[d].type /\ E[d].base = D[d].base /\ E[d].position = pos(d)
  BY <1>4, <1>9, <1>10 DEF PrunedForest
<1>14. QED
  BY <1>9, <1>11, <1>12, <1>13 DEF E, ClosedUp
-----------------------------------------------------------------------------
(* Moving *)

\* In E, n has the position p, and the rows of D between have moved by one.
Between(E, D, n, p) ==
  /\ E[n].position = p
  /\ \A d \in DOMAIN D \ {n} : E[d].position =
       IF D[n].position < D[d].position /\ D[d].position <= p THEN D[d].position - 1
       ELSE IF p <= D[d].position /\ D[d].position < D[n].position THEN D[d].position + 1
       ELSE D[d].position

\* update_handler's transaction: the rows between the old and the new place of the row
\* move by one, and it comes to rest before its base and behind the cohorts computed
\* from it.
LEMMA MovedSound ==
  ASSUME NEW D, Sound(D), NEW n \in DOMAIN D, NEW p \in Nat, NEW rows \in Nat,
         ValidType(D, p, D[n].type, D[n].base, FALSE), validate_position_wrt_dependency(D, n, p)
  PROVE  LET E == Moved(D, n, D[n].position, p, rows)
         IN  /\ Rows(E) /\ Ordered(E) /\ SameForest(E, D)
             /\ Between(E, D, n, p)
<1> DEFINE old == D[n].position
           P == [D EXCEPT ![n].position = rows + 100]
           S == IF old < p THEN Shift(P, old + 1, p, -1) ELSE Shift(P, p, old - 1, 1)
           E == Moved(D, n, old, p, rows)
           pos(d) == IF old < D[d].position /\ D[d].position <= p THEN D[d].position - 1
                     ELSE IF p <= D[d].position /\ D[d].position < old THEN D[d].position + 1
                     ELSE D[d].position
<1>1. Rows(D) /\ Ordered(D) /\ UniquePositions(D) /\ \A d \in DOMAIN D : D[d].position \in Nat
  BY RowFields DEF Sound
<1>2. /\ Rows(P) /\ SameForest(P, D)
      /\ \A d \in DOMAIN D \ {n} : P[d].position = D[d].position
  <2>1. DOMAIN P = DOMAIN D /\ P = [d \in DOMAIN P |-> P[d]] /\ \A d \in DOMAIN D \ {n} : P[d] = D[d]
    BY <1>1 DEF Rows
  <2>2. P[n] = [D[n] EXCEPT !.position = rows + 100]
    BY <1>1 DEF Rows
  <2>3. D[n] \in Dimension /\ rows + 100 \in Nat
    BY <1>1, RowFields
  <2>4. P[n] \in Dimension /\ P[n].type = D[n].type /\ P[n].base = D[n].base /\ P[n].graph = D[n].graph
    BY <2>2, <2>3 DEF Dimension
  <2> HIDE DEF P
  <2>5. P \in [DOMAIN D -> Dimension]
    BY <1>1, <2>1, <2>4 DEF Rows
  <2>6. QED
    BY <1>1, <2>1, <2>4, <2>5 DEF Rows, SameForest
<1>3. E = [S EXCEPT ![n].position = p]
  BY DEF Moved
<1> HIDE DEF P
<1>4. DOMAIN P = DOMAIN D /\ \A d \in DOMAIN P : P[d].position \in Nat
  BY <1>2, RowFields DEF SameForest
<1>5. /\ Rows(S) /\ SameForest(S, P)
      /\ \A d \in DOMAIN D \ {n} : S[d].position = pos(d)
  <2>0. old \in Nat
    BY <1>1
  <2>1. CASE old < p
    <3>1. old + 1 \in Int /\ p \in Int /\ -1 \in Int
      BY <2>0
    <3>2. \A d \in DOMAIN P : P[d].position \in old + 1 .. p => P[d].position + (-1) \in Nat
      BY <1>4, <2>0
    <3>3. /\ Rows(S) /\ SameForest(S, P)
          /\ \A d \in DOMAIN P : S[d].position =
               IF old + 1 <= P[d].position /\ P[d].position <= p THEN P[d].position + (-1) ELSE P[d].position
      BY <1>2, <2>1, <3>1, <3>2, ShiftFacts
    <3> HIDE DEF S
    <3>4. ASSUME NEW d \in DOMAIN D \ {n}
          PROVE  S[d].position = pos(d)
      <4>1. D[d].position \in Nat
        BY <1>1
      <4>2. QED
        BY <1>2, <1>4, <2>0, <2>1, <3>3, <4>1
    <3>5. QED
      BY <3>3, <3>4
  <2>2. CASE ~(old < p)
    <3>1. old - 1 \in Int /\ p \in Int /\ 1 \in Int
      BY <2>0
    <3>2. \A d \in DOMAIN P : P[d].position \in p .. old - 1 => P[d].position + 1 \in Nat
      BY <1>4, <2>0
    <3>3. /\ Rows(S) /\ SameForest(S, P)
          /\ \A d \in DOMAIN P : S[d].position =
               IF p <= P[d].position /\ P[d].position <= old - 1 THEN P[d].position + 1 ELSE P[d].position
      BY <1>2, <2>2, <3>1, <3>2, ShiftFacts
    <3> HIDE DEF S
    <3>4. ASSUME NEW d \in DOMAIN D \ {n}
          PROVE  S[d].position = pos(d)
      <4>1. D[d].position \in Nat
        BY <1>1
      <4>2. QED
        BY <1>2, <1>4, <2>0, <2>2, <3>3, <4>1
    <3>5. QED
      BY <3>3, <3>4
  <2>3. QED
    BY <2>1, <2>2
<1> HIDE DEF S
<1>6. /\ Rows(E) /\ SameForest(E, D) /\ E[n].position = p
      /\ \A d \in DOMAIN D \ {n} : E[d].position = pos(d)
  <2>1. DOMAIN S = DOMAIN D
    BY <1>2, <1>5 DEF SameForest
  <2>2. /\ DOMAIN E = DOMAIN D /\ E = [d \in DOMAIN E |-> E[d]]
        /\ E[n] = [S[n] EXCEPT !.position = p]
        /\ \A d \in DOMAIN D \ {n} : E[d] = S[d]
    BY <1>3, <1>5, <2>1 DEF Rows
  <2>3. S[n] \in Dimension
    BY <1>5, <2>1, RowFields
  <2>4. /\ E[n] \in Dimension /\ E[n].type = S[n].type /\ E[n].base = S[n].base
        /\ E[n].graph = S[n].graph /\ E[n].position = p
    BY <2>2, <2>3 DEF Dimension
  <2> HIDE DEF E
  <2>5. E \in [DOMAIN D -> Dimension]
    BY <1>5, <2>1, <2>2, <2>4 DEF Rows
  <2>6. Rows(E)
    BY <1>1, <2>2, <2>5 DEF Rows
  <2>7. SameForest(E, D)
    BY <1>2, <1>5, <2>1, <2>2, <2>4 DEF SameForest
  <2>8. QED
    BY <1>5, <2>2, <2>4, <2>6, <2>7
<1> HIDE DEF E
<1>7. Ordered(E)
  <2>1. ASSUME NEW c \in DOMAIN E, E[c].type # "REGULAR"
        PROVE  E[c].base \in DOMAIN E /\ E[c].position < E[E[c].base].position
    <3>1. c \in DOMAIN D /\ D[c].type # "REGULAR" /\ E[c].base = D[c].base /\ DOMAIN E = DOMAIN D
      BY <1>6, <2>1 DEF SameForest
    <3>2. PICK a \in DOMAIN D : a = D[c].base /\ D[c].position < D[a].position
      BY <1>1, <3>1 DEF Ordered
    <3>3. D[c].position \in Nat /\ D[a].position \in Nat /\ old \in Nat
      BY <1>1, <3>1
    <3>4. a # c
      BY <3>2, <3>3
    <3>5. E[c].position < E[a].position
      <4>1. CASE c = n
        <5>1. p < D[a].position
          BY <3>1, <3>2, <4>1 DEF ValidType, validate_cohort_position
        <5>2. pos(a) = D[a].position
          BY <3>2, <3>3, <4>1, <5>1
        <5>3. QED
          BY <1>6, <3>4, <4>1, <5>1, <5>2
      <4>2. CASE a = n
        <5>1. c \in Kids(D, n)
          BY <3>1, <3>2, <4>2 DEF Kids
        <5>2. n \in DOMAIN D[n].graph /\ c \in D[n].graph[n]
          BY <5>1 DEF Sound, Exact, RowExact
        <5>3. D[c].position < p
          BY <5>2 DEF validate_position_wrt_dependency
        <5>4. pos(c) = D[c].position
          BY <3>2, <3>3, <4>2, <5>3
        <5>5. QED
          BY <1>6, <3>1, <3>4, <4>2, <5>3, <5>4
      <4>3. CASE c # n /\ a # n
        <5>1. D[c].position # old /\ D[a].position # old
          BY <1>1, <3>1, <4>3 DEF UniquePositions
        <5>2. pos(c) < pos(a)
          BY <3>2, <3>3, <5>1
        <5>3. QED
          BY <1>6, <3>1, <4>3, <5>2
      <4>4. QED
        BY <4>1, <4>2, <4>3
    <3>6. QED
      BY <3>1, <3>2, <3>5
  <2>2. QED
    BY <2>1 DEF Ordered
<1>8. QED
  BY <1>6, <1>7 DEF E, Between
-----------------------------------------------------------------------------
(* The invariant *)

\* ContextsWellFormed for the contexts C over the table D.
WellFormed(C, D) == \A c \in DOMAIN C : c \subseteq DOMAIN D /\ \A d \in c : Kids(D, d) \cap c = {}

\* What a request checked and read before its transaction still holds.
Current(r, D, C) ==
  /\ r.op = "create" =>
       /\ r.name \in Names /\ r.position \in Nat /\ r.type \in DimensionTypes
       /\ r.base \in Names \cup {None}
       /\ ValidType(D, r.position, r.type, r.base, TRUE)
  /\ r.op = "update" =>
       /\ r.name \in DOMAIN D /\ r.position \in Nat
       /\ r.old = D[r.name].position
       /\ r.rows = Cardinality(DOMAIN D)
       /\ ValidType(D, r.position, D[r.name].type, D[r.name].base, FALSE)
  /\ r.op = "delete" =>
       /\ CanDelete(D, C, r.name)
       /\ r.row = D[r.name]
  /\ r.op = "recompute" => r.weights = NewWeights(D, C)

\* The inductive invariant.
DimInv ==
  /\ Sound(dimensions)
  /\ WellFormed(contexts, dimensions)
  /\ requests = [w \in Workers |-> requests[w]]
  /\ \A w \in Workers : requests[w] # None => Current(requests[w], dimensions, contexts)

\* One request at a time.
OneWorker == \A v, w \in Workers : v = w

\* A new workspace.
LEMMA DimInit == RequestInit => DimInv
<1> SUFFICES ASSUME RequestInit
             PROVE  DimInv
  OBVIOUS
<1> DEFINE row == [position |-> 0, type |-> "REGULAR", base |-> None, graph |-> EmptyGraph]
<1>1. /\ dimensions = [d \in {VariantIds} |-> row] /\ contexts = [c \in {} |-> 0]
      /\ requests = [w \in Workers |-> None]
  BY DEF RequestInit, Init
<1>2. DOMAIN dimensions = {VariantIds} /\ dimensions[VariantIds] = row
  BY <1>1
<1>3. EmptyGraph \in Graph /\ DOMAIN EmptyGraph = {}
  <2>1. DOMAIN EmptyGraph = {} /\ EmptyGraph = [x \in DOMAIN EmptyGraph |-> EmptyGraph[x]]
    BY DEF EmptyGraph
  <2>2. QED
    BY <2>1, GraphForm
<1>4. Rows(dimensions)
  <2>1. row \in Dimension
    BY <1>3 DEF Dimension, DimensionTypes
  <2>2. dimensions \in [{VariantIds} -> Dimension]
    BY <1>1, <2>1
  <2>3. IsFiniteSet({VariantIds})
    BY FS_Singleton
  <2>4. QED
    BY <1>2, <2>2, <2>3, VariantIdsAssumption DEF Rows
<1>5. UniquePositions(dimensions) /\ Ordered(dimensions)
  BY <1>2 DEF UniquePositions, Ordered
<1>6. Exact(dimensions)
  <2>1. \A x : Kids(dimensions, x) = {}
    BY <1>2 DEF Kids
  <2>2. QED
    BY <1>2, <1>3, <2>1 DEF Exact, RowExact
<1>7. WellFormed(contexts, dimensions)
  BY <1>1 DEF WellFormed
<1>8. QED
  BY <1>1, <1>4, <1>5, <1>6, <1>7 DEF DimInv, Sound

\* The first steps: what is recorded holds.
LEMMA DimAccept ==
  ASSUME DimInv, NEW w \in Workers, NEW request, Accept(w, request),
         Current(request, dimensions, contexts)
  PROVE  DimInv'
<1>1. /\ UNCHANGED <<dimensions, contexts>>
      /\ requests' = [requests EXCEPT ![w] = request]
  BY DEF Accept, dimensionVars
<1>2. requests' = [v \in Workers |-> requests'[v]] /\ DOMAIN requests = Workers
  BY <1>1 DEF DimInv
<1>3. ASSUME NEW v \in Workers, requests'[v] # None
      PROVE  Current(requests'[v], dimensions, contexts)
  BY <1>1, <1>2, <1>3 DEF DimInv
<1>4. \A v \in Workers : requests'[v] # None => Current(requests'[v], dimensions', contexts')
  BY <1>1, <1>3
<1>5. Sound(dimensions)' /\ WellFormed(contexts, dimensions)'
  BY <1>1 DEF DimInv
<1>6. QED
  BY <1>2, <1>4, <1>5 DEF DimInv

\* With one request at a time none is left when it ends.
LEMMA DimFinish ==
  ASSUME OneWorker, DimInv, NEW w \in Workers, Finish(w)
  PROVE  /\ requests' = [v \in Workers |-> requests'[v]]
         /\ \A v \in Workers : requests'[v] = None
  BY DEF OneWorker, DimInv, Finish

\* A transaction that leaves a sound table and well-formed contexts.
LEMMA DimCommit ==
  ASSUME OneWorker, DimInv, NEW w \in Workers, NEW may, NEW D, Commit(w, may, D),
         may => Rows(D) /\ Ordered(D) /\ Exact(D) /\ WellFormed(contexts, D)
  PROVE  DimInv'
<1>1. Finish(w) /\ contexts' = contexts
      /\ dimensions' = IF may /\ UniquePositions(D) THEN D ELSE dimensions
  BY DEF Commit
<1>2. Sound(dimensions') /\ WellFormed(contexts, dimensions')
  BY <1>1 DEF DimInv, Sound
<1>3. Sound(dimensions)' /\ WellFormed(contexts, dimensions)'
  BY <1>1, <1>2
<1>4. QED
  BY <1>1, <1>3, DimFinish DEF DimInv

\* A dimension whose graph is empty has no cohorts: delete_handler relies on it.
LEMMA EmptyGraphNoKids ==
  ASSUME NEW D, Exact(D), NEW n \in DOMAIN D, D[n].graph = EmptyGraph
  PROVE  Kids(D, n) = {}
  BY DEF Exact, RowExact, EmptyGraph
\* create_handler's transaction.
LEMMA DimCreate ==
  ASSUME OneWorker, DimInv, NEW w \in Workers, CommitCreate(w)
  PROVE  DimInv'
<1> DEFINE r == requests[w]
           E == Inserted(dimensions, r.name, r.position, r.type, r.base)
<1>1. r # None /\ r.op = "create" /\ Commit(w, r.name \notin DOMAIN dimensions, E)
  BY DEF CommitCreate, Pending
<1>2. /\ r.name \in Names /\ r.position \in Nat /\ r.type \in DimensionTypes
      /\ r.base \in Names \cup {None}
      /\ ValidType(dimensions, r.position, r.type, r.base, TRUE)
  BY <1>1 DEF DimInv, Current
<1>3. ASSUME r.name \notin DOMAIN dimensions
      PROVE  Rows(E) /\ Ordered(E) /\ Exact(E) /\ WellFormed(contexts, E)
  <2>1. PICK D, n, p, t, b : D = dimensions /\ n = r.name /\ p = r.position /\ t = r.type /\ b = r.base
    OBVIOUS
  <2>2. /\ Rows(E) /\ Ordered(E) /\ Exact(E) /\ DOMAIN E = DOMAIN D \cup {n}
        /\ KidsAfter(E, D, n, t, b)
    <3>1. /\ Sound(D) /\ n \in Names /\ n \notin DOMAIN D /\ p \in Nat /\ t \in DimensionTypes
          /\ b \in Names \cup {None} /\ ValidType(D, p, t, b, TRUE)
      BY <1>2, <1>3, <2>1 DEF DimInv
    <3>2. E = Inserted(D, n, p, t, b)
      BY <2>1
    <3> HIDE DEF E, r
    <3>3. Created(D, n, p, t, b)
      BY <3>1, InsertedSound
    <3>4. QED
      BY <3>2, <3>3 DEF Created
  <2> HIDE DEF E, r
  <2>3. ASSUME NEW c \in DOMAIN contexts
        PROVE  c \subseteq DOMAIN E /\ \A d \in c : Kids(E, d) \cap c = {}
    <3>1. c \subseteq DOMAIN D /\ n \notin c /\ \A d \in c : Kids(D, d) \cap c = {}
      BY <1>3, <2>1 DEF DimInv, WellFormed
    <3>2. ASSUME NEW d \in c
          PROVE  Kids(E, d) \cap c = {}
      <4>1. Kids(E, d) = Kids(D, d) \/ Kids(E, d) = Kids(D, d) \cup {n}
        BY <2>2 DEF KidsAfter
      <4>2. QED
        BY <3>1, <4>1
    <3>3. QED
      BY <2>2, <3>1, <3>2
  <2>4. QED
    BY <2>2, <2>3 DEF WellFormed
<1> HIDE DEF E, r
<1>4. QED
  BY <1>1, <1>3, DimCommit

\* update_handler's transaction.
LEMMA DimUpdate ==
  ASSUME OneWorker, DimInv, NEW w \in Workers, CommitUpdate(w)
  PROVE  DimInv'
<1> DEFINE r == requests[w]
           may == CanMove(dimensions, r.name, r.position, r.rows)
           M == Moved(dimensions, r.name, r.old, r.position, r.rows)
           E == IF may THEN M ELSE dimensions
<1>1. r # None /\ r.op = "update" /\ Commit(w, may, E)
  BY DEF CommitUpdate, Pending
<1>2. /\ r.name \in DOMAIN dimensions /\ r.position \in Nat
      /\ r.old = dimensions[r.name].position
      /\ r.rows = Cardinality(DOMAIN dimensions)
      /\ ValidType(dimensions, r.position, dimensions[r.name].type, dimensions[r.name].base, FALSE)
  BY <1>1 DEF DimInv, Current
<1>3. ASSUME may
      PROVE  Rows(E) /\ Ordered(E) /\ Exact(E) /\ WellFormed(contexts, E)
  <2>1. PICK D, n, p, k : D = dimensions /\ n = r.name /\ p = r.position /\ k = r.rows
    OBVIOUS
  <2>2. k \in Nat
    BY <1>2, <2>1, FS_CardinalityType DEF DimInv, Sound, Rows
  <2>3. validate_position_wrt_dependency(D, n, p)
    BY <1>3, <2>1 DEF CanMove
  <2>4. E = Moved(D, n, D[n].position, p, k)
    BY <1>2, <1>3, <2>1
  <2>5. Rows(E) /\ Ordered(E) /\ SameForest(E, D)
    <3>1. /\ Sound(D) /\ n \in DOMAIN D /\ p \in Nat
          /\ ValidType(D, p, D[n].type, D[n].base, FALSE)
      BY <1>2, <2>1 DEF DimInv
    <3> HIDE DEF E, r
    <3>2. QED
      BY <2>2, <2>3, <2>4, <3>1, MovedSound
  <2> HIDE DEF E, r
  <2>6. Exact(E)
    BY <2>1, <2>5, SameForestExact DEF DimInv, Sound
  <2>7. DOMAIN E = DOMAIN D /\ \A d : Kids(E, d) = Kids(D, d)
    BY <2>5 DEF SameForest, Kids
  <2>8. WellFormed(contexts, E)
    BY <2>1, <2>7 DEF WellFormed, DimInv
  <2>9. QED
    BY <2>5, <2>6, <2>8
<1> HIDE DEF E, r, may
<1>4. QED
  BY <1>1, <1>3, DimCommit

\* delete_handler's transaction.
LEMMA DimDelete ==
  ASSUME OneWorker, DimInv, NEW w \in Workers, CommitDelete(w)
  PROVE  DimInv'
<1> DEFINE r == requests[w]
           E == Removed(dimensions, r.name, r.row)
<1>1. r # None /\ r.op = "delete" /\ Commit(w, r.name \in DOMAIN dimensions, E)
  BY DEF CommitDelete, Pending
<1>2. CanDelete(dimensions, contexts, r.name) /\ r.row = dimensions[r.name]
  BY <1>1 DEF DimInv, Current
<1>3. Rows(E) /\ Ordered(E) /\ Exact(E) /\ WellFormed(contexts, E)
  <2>1. PICK D, n : D = dimensions /\ n = r.name
    OBVIOUS
  <2>2. /\ n \in DOMAIN D /\ D[n].graph = EmptyGraph
        /\ \A c \in DOMAIN contexts : n \notin c
    BY <1>2, <2>1 DEF CanDelete, get_dimension_usage_context_ids
  <2>3. Kids(D, n) = {}
    BY <2>1, <2>2, EmptyGraphNoKids DEF DimInv, Sound
  <2>4. E = Removed(D, n, D[n])
    BY <1>2, <2>1
  <2>5. /\ Rows(E) /\ Ordered(E) /\ Exact(E) /\ DOMAIN E = DOMAIN D \ {n}
        /\ \A x : Kids(E, x) = Kids(D, x) \ {n}
    <3>1. Sound(D)
      BY <2>1 DEF DimInv
    <3> HIDE DEF E, r
    <3>2. QED
      BY <2>2, <2>3, <2>4, <3>1, RemovedSound
  <2> HIDE DEF E, r
  <2>6. ASSUME NEW c \in DOMAIN contexts
        PROVE  c \subseteq DOMAIN E /\ \A d \in c : Kids(E, d) \cap c = {}
    <3>1. c \subseteq DOMAIN D /\ \A d \in c : Kids(D, d) \cap c = {}
      BY <2>1 DEF DimInv, WellFormed
    <3>2. QED
      BY <2>2, <2>5, <3>1
  <2>7. QED
    BY <2>5, <2>6 DEF WellFormed
<1> HIDE DEF E, r
<1>4. QED
  BY <1>1, <1>3, DimCommit

\* put_handler and delete_context_handler, with no request in progress: validate_ctx
\* looks at the graphs, which are exact.
LEMMA DimContexts ==
  ASSUME DimInv, NEW c \in Conditions, PutContext(c) \/ DeleteContext(c),
         \A w \in Workers : requests[w] = None, UNCHANGED requests
  PROVE  DimInv'
<1>1. dimensions' = dimensions
  BY DEF PutContext, DeleteContext
<1>2. CASE PutContext(c)
  <2>1. DOMAIN contexts' = DOMAIN contexts \cup {c}
    BY <1>2 DEF PutContext
  <2>2. c \subseteq DOMAIN dimensions /\ \A d, e \in c : d # e => e \notin DOMAIN dimensions[d].graph
    BY <1>2 DEF PutContext, validate_ctx
  <2>3. ASSUME NEW d \in c, NEW e \in c, e \in Kids(dimensions, d)
        PROVE  FALSE
    <3>1. PICK D : D = dimensions
      OBVIOUS
    <3>2. d \in DOMAIN D /\ e \in DOMAIN D /\ Sound(D) /\ e \in Kids(D, d)
      BY <2>2, <2>3, <3>1 DEF DimInv
    <3>3. D[e].position < D[d].position /\ D[d].position \in Nat
      BY <3>2, RowFields DEF Sound, Ordered, Kids
    <3>4. d # e
      BY <3>3
    <3>5. d \in DOMAIN D[d].graph /\ Kids(D, d) \subseteq DOMAIN D[d].graph
      BY <3>2 DEF Sound, Exact, RowExact
    <3>6. QED
      BY <2>2, <3>1, <3>2, <3>4, <3>5
  <2>4. \A d \in c : Kids(dimensions, d) \cap c = {}
    BY <2>3
  <2>5. WellFormed(contexts', dimensions)
    BY <2>1, <2>2, <2>4 DEF WellFormed, DimInv
  <2>6. QED
    BY <1>1, <2>5 DEF DimInv
<1>3. CASE DeleteContext(c)
  <2>1. DOMAIN contexts' \subseteq DOMAIN contexts
    BY <1>3 DEF DeleteContext
  <2>2. WellFormed(contexts', dimensions)
    BY <2>1 DEF WellFormed, DimInv
  <2>3. QED
    BY <1>1, <2>2 DEF DimInv
<1>4. QED
  BY <1>2, <1>3

\* Every step.
LEMMA DimNext == ASSUME OneWorker PROVE DimInv /\ [RequestNext]_requestVars => DimInv'
<1> SUFFICES ASSUME DimInv, [RequestNext]_requestVars
             PROVE  DimInv'
  OBVIOUS
<1>1. ASSUME NEW w \in Workers, NEW n \in Names, NEW p \in 0 .. Cardinality(Names),
             NEW b \in Names \cup {None}, NEW type \in DimensionTypes,
             BeginCreate(w, n, p, type, b)
      PROVE  DimInv'
  <2>1. PICK r : r = [op |-> "create", name |-> n, position |-> p, type |-> type, base |-> b]
    OBVIOUS
  <2>2. p \in Nat
    OBVIOUS
  <2>3. Accept(w, r) /\ Current(r, dimensions, contexts)
    BY <1>1, <2>1, <2>2 DEF BeginCreate, CanCreate, Current
  <2>4. QED
    BY <2>3, DimAccept
<1>2. ASSUME NEW w \in Workers, NEW n \in Names, NEW p \in 0 .. Cardinality(Names), BeginUpdate(w, n, p)
      PROVE  DimInv'
  <2>1. PICK r : r = [op |-> "update", name |-> n, position |-> p,
                      old |-> dimensions[n].position, rows |-> Cardinality(DOMAIN dimensions)]
    OBVIOUS
  <2>2. p \in Nat
    OBVIOUS
  <2>3. Accept(w, r) /\ Current(r, dimensions, contexts)
    BY <1>2, <2>1, <2>2 DEF BeginUpdate, CanUpdate, Current
  <2>4. QED
    BY <2>3, DimAccept
<1>3. ASSUME NEW w \in Workers, NEW n \in Names, BeginDelete(w, n)
      PROVE  DimInv'
  <2>1. PICK r : r = [op |-> "delete", name |-> n, row |-> dimensions[n]]
    OBVIOUS
  <2>2. Accept(w, r) /\ Current(r, dimensions, contexts)
    BY <1>3, <2>1 DEF BeginDelete, Current
  <2>3. QED
    BY <2>2, DimAccept
<1>4. ASSUME NEW w \in Workers, BeginRecompute(w)
      PROVE  DimInv'
  <2>1. PICK r : r = [op |-> "recompute", weights |-> NewWeights(dimensions, contexts)]
    OBVIOUS
  <2>2. Accept(w, r) /\ Current(r, dimensions, contexts)
    BY <1>4, <2>1 DEF BeginRecompute, Current
  <2>3. QED
    BY <2>2, DimAccept
<1>5. ASSUME NEW w \in Workers, CommitRecompute(w)
      PROVE  DimInv'
  <2>1. DOMAIN contexts' = DOMAIN contexts /\ dimensions' = dimensions /\ Finish(w)
    BY <1>5 DEF CommitRecompute, Reweighed
  <2>2. WellFormed(contexts', dimensions)
    BY <2>1 DEF WellFormed, DimInv
  <2>3. QED
    BY <2>1, <2>2, DimFinish DEF DimInv
<1>6. ASSUME NEW w \in Workers, requests[w] = None, NEW c \in Conditions,
             PutContext(c) \/ DeleteContext(c), UNCHANGED requests
      PROVE  DimInv'
  <2>1. \A v \in Workers : requests[v] = None
    BY <1>6 DEF OneWorker
  <2>2. QED
    BY <1>6, <2>1, DimContexts
<1>7. CASE UNCHANGED requestVars
  BY <1>7 DEF requestVars, DimInv
<1>8. QED
  BY <1>1, <1>2, <1>3, <1>4, <1>5, <1>6, <1>7, DimCreate, DimUpdate, DimDelete DEF RequestNext

\* One request at a time, the graph stored with each dimension is the tree of the
\* cohorts below it: what create_handler adds to the graphs above a new cohort and
\* delete_handler takes from them keeps every one of them exact, whatever the order
\* of the requests.
THEOREM GraphExactCorrect == ASSUME OneWorker PROVE RequestSpec => []GraphExact
<1>1. DimInv => GraphExact
  <2> SUFFICES ASSUME DimInv, NEW d \in DOMAIN dimensions
               PROVE  LET g == dimensions[d].graph IN
                      /\ DOMAIN g = {} <=> Children(d) = {}
                      /\ DOMAIN g # {} => d \in DOMAIN g
                      /\ \A x \in DOMAIN g : g[x] = Children(x) /\ Children(x) \subseteq DOMAIN g
                      /\ \A x \in DOMAIN g \ {d} :
                           /\ x \in DOMAIN dimensions
                           /\ dimensions[x].type # "REGULAR"
                           /\ dimensions[x].base \in DOMAIN g
    BY DEF GraphExact
  <2>1. \A x : Children(x) = Kids(dimensions, x)
    BY DEF Children, Kids
  <2>2. RowExact(dimensions, d)
    BY DEF DimInv, Sound, Exact
  <2>3. QED
    BY <2>1, <2>2 DEF RowExact
<1>2. QED
  BY <1>1, DimInit, DimNext, PTL DEF RequestSpec

\* One request at a time, no context names a dimension that is gone, or a cohort with
\* a dimension it is computed from: validate_ctx and the usage check of delete_handler
\* are enough, because the graphs they look at are exact.
THEOREM ContextsWellFormedCorrect == ASSUME OneWorker PROVE RequestSpec => []ContextsWellFormed
<1>1. DimInv => ContextsWellFormed
  <2>1. \A x : Children(x) = Kids(dimensions, x)
    BY DEF Children, Kids
  <2>2. QED
    BY <2>1 DEF DimInv, WellFormed, ContextsWellFormed
<1>2. QED
  BY <1>1, DimInit, DimNext, PTL DEF RequestSpec
-----------------------------------------------------------------------------
(* Weights.  The weight of a condition is the number whose binary digits are *)
(* the positions of its dimensions: positions are unique, so every digit is  *)
(* 0 or 1, and of two numbers the one with the digit 1 at the highest place  *)
(* where they differ is the greater.                                         *)

\* The dimensions of the condition at the i-th position from the top.
DimensionsAt(D, c, i) == {d \in c : D[d].position = (Top(D) + 1) - i}

\* How many they are: a digit.
At(D, c, i) == Cardinality(DimensionsAt(D, c, i))

\* g[i] is the number with the i highest digits.
Weighs(g, D, c, n) ==
  /\ g[0] = 0
  /\ \A i \in 1 .. n : g[i] = 2 * g[i - 1] + At(D, c, i)

\* A set of numbers that is not empty has a least one.
LEMMA Least ==
  ASSUME NEW S, S \subseteq Nat, S # {}
  PROVE  \E m \in S : \A x \in S : m <= x
<1> DEFINE R == OpToRel(<, Nat)
<1>1. R = {ss \in Nat \X Nat : ss[1] < ss[2]}
  BY DEF OpToRel
<1>2. IsWellFoundedOn(R, Nat)
  BY NatLessThanWellFounded
<1> HIDE DEF R
<1>3. PICK m \in S : \A y \in S : <<y, m>> \notin R
  BY <1>2, WFMin
<1>4. ASSUME NEW x \in S
      PROVE  m <= x
  <2>1. m \in Nat /\ x \in Nat /\ ~(x < m)
    BY <1>1, <1>3
  <2>2. QED
    BY <2>1
<1>5. QED
  BY <1>4

\* The recursion has a solution.
LEMMA WeighsExists ==
  ASSUME NEW D, NEW c, NEW N \in Nat
  PROVE  \E g : Weighs(g, D, c, N)
<1> DEFINE Good(n) == \E g : Weighs(g, D, c, n)
           S == {n \in Nat : ~Good(n)}
<1>1. SUFFICES ASSUME S # {}
               PROVE  FALSE
  OBVIOUS
<1>2. PICK m \in S : \A x \in S : m <= x
  BY <1>1, Least
<1>3. m # 0
  <2>1. Weighs([i \in {0} |-> 0], D, c, 0)
    BY DEF Weighs
  <2>2. QED
    BY <2>1
<1>4. m - 1 \in Nat /\ m - 1 \notin S
  BY <1>2, <1>3
<1>5. PICK g : Weighs(g, D, c, m - 1)
  BY <1>4
<1> DEFINE v == 2 * g[m - 1] + At(D, c, m)
           h == [i \in 0 .. m |-> IF i = m THEN v ELSE g[i]]
<1> HIDE DEF v
<1>6. h[m] = v /\ h[0] = 0 /\ \A i \in 0 .. m - 1 : h[i] = g[i]
  BY <1>3, <1>4, <1>5 DEF Weighs
<1> HIDE DEF h
<1>7. ASSUME NEW i \in 1 .. m
      PROVE  h[i] = 2 * h[i - 1] + At(D, c, i)
  <2>1. CASE i = m
    <3>1. h[i - 1] = g[m - 1]
      BY <1>4, <1>6, <2>1
    <3>2. QED
      BY <1>6, <2>1, <3>1 DEF v
  <2>2. CASE i # m
    <3>1. i \in 1 .. m - 1 /\ i - 1 \in 0 .. m - 1 /\ i \in 0 .. m - 1
      BY <1>4, <2>2
    <3>2. QED
      BY <1>5, <1>6, <3>1 DEF Weighs
  <2>3. QED
    BY <2>1, <2>2
<1>8. Good(m)
  BY <1>6, <1>7 DEF Weighs
<1>9. QED
  BY <1>8

\* The weight of a condition is its last element.
LEMMA WeightIs ==
  ASSUME NEW D, Rows(D), NEW c
  PROVE  \E g : Weighs(g, D, c, Top(D) + 1) /\ calculate_context_weight(D, c) = g[Top(D) + 1]
<1> DEFINE top == Top(D) + 1
           N == 0 .. top
           Good(f) == f = [n \in N |-> IF n = 0 THEN 0 ELSE 2 * f[n - 1] + At(D, c, n)]
           w == CHOOSE f : Good(f)
<1>0. top \in Nat
  BY TopBound
<1>1. PICK g : Weighs(g, D, c, top)
  BY <1>0, WeighsExists
<1>4. calculate_context_weight(D, c) = w[top]
  BY DEF calculate_context_weight, DimensionsAt, At
<1> HIDE DEF top
<1> DEFINE G == [n \in N |-> g[n]]
<1>2. Good(G)
  <2>1. ASSUME NEW n \in N
        PROVE  G[n] = IF n = 0 THEN 0 ELSE 2 * G[n - 1] + At(D, c, n)
    <3>1. CASE n = 0
      BY <1>1, <3>1 DEF Weighs
    <3>2. CASE n # 0
      <4>1. n \in 1 .. top /\ n - 1 \in N
        BY <1>0, <3>2
      <4>2. QED
        BY <1>1, <3>2, <4>1 DEF Weighs
    <3>3. QED
      BY <3>1, <3>2
  <2>2. QED
    BY <2>1
<1>3. Good(w)
  BY <1>2
<1> HIDE DEF w
<1>5. Weighs(w, D, c, top)
  <2>1. w[0] = 0
    BY <1>0, <1>3
  <2>2. ASSUME NEW n \in 1 .. top
        PROVE  w[n] = 2 * w[n - 1] + At(D, c, n)
    <3>1. n \in N /\ n # 0
      BY <1>0
    <3>2. QED
      BY <1>3, <3>1
  <2>3. QED
    BY <2>1, <2>2 DEF Weighs
<1>6. QED
  BY <1>4, <1>5 DEF top

\* A digit is 0 or 1, because positions are unique.
LEMMA Digits ==
  ASSUME NEW D, UniquePositions(D), NEW c \in SUBSET DOMAIN D, NEW i
  PROVE  /\ At(D, c, i) \in {0, 1}
         /\ DimensionsAt(D, c, i) = {} => At(D, c, i) = 0
         /\ DimensionsAt(D, c, i) # {} => At(D, c, i) = 1
<1>1. CASE DimensionsAt(D, c, i) = {}
  BY <1>1, FS_EmptySet DEF At
<1>2. CASE DimensionsAt(D, c, i) # {}
  <2>1. PICK d \in DimensionsAt(D, c, i) : TRUE
    BY <1>2
  <2>2. \A e \in DimensionsAt(D, c, i) : e = d
    BY <2>1 DEF DimensionsAt, UniquePositions
  <2>3. DimensionsAt(D, c, i) = {d}
    BY <2>1, <2>2
  <2>4. QED
    BY <1>2, <2>3, FS_Singleton DEF At
<1>3. QED
  BY <1>1, <1>2

\* c1 has a dimension d that c2 has not, and above the position of d they have the
\* same dimensions: then c1 weighs more.
LEMMA WeightRanks ==
  ASSUME NEW D, Rows(D), UniquePositions(D),
         NEW c1 \in SUBSET DOMAIN D, NEW c2 \in SUBSET DOMAIN D, NEW d \in c1, d \notin c2,
         \A e \in DOMAIN D : D[e].position > D[d].position => (e \in c1 <=> e \in c2)
  PROVE  calculate_context_weight(D, c1) > calculate_context_weight(D, c2)
<1> DEFINE top == Top(D) + 1
           k == top - D[d].position
<1>1. top \in Nat /\ k \in 1 .. top /\ D[d].position \in Nat
      /\ \A e \in DOMAIN D : D[e].position \in Nat
  BY TopBound, RowFields
<1>2. PICK f : Weighs(f, D, c1, top) /\ calculate_context_weight(D, c1) = f[top]
  BY WeightIs
<1>3. PICK g : Weighs(g, D, c2, top) /\ calculate_context_weight(D, c2) = g[top]
  BY WeightIs
<1>4. ASSUME NEW i \in 1 .. top, i < k
      PROVE  At(D, c1, i) = At(D, c2, i)
  <2>1. ASSUME NEW e \in DOMAIN D, D[e].position = top - i
        PROVE  e \in c1 <=> e \in c2
    BY <1>1, <1>4, <2>1
  <2>2. DimensionsAt(D, c1, i) = DimensionsAt(D, c2, i)
    BY <2>1 DEF DimensionsAt
  <2>3. QED
    BY <2>2 DEF At
<1>5. At(D, c1, k) = 1 /\ At(D, c2, k) = 0
  <2>0. Top(D) \in Nat /\ (Top(D) + 1) - k = D[d].position
    BY <1>1, TopBound
  <2>1. d \in DimensionsAt(D, c1, k)
    BY <2>0 DEF DimensionsAt
  <2>2. ASSUME NEW e \in DimensionsAt(D, c2, k)
        PROVE  FALSE
    <3>1. e \in c2 /\ D[e].position = D[d].position
      BY <2>0 DEF DimensionsAt
    <3>2. QED
      BY <3>1 DEF UniquePositions
  <2>3. QED
    BY <2>1, <2>2, Digits
<1> HIDE DEF top, k
<1> DEFINE Good(i) == /\ f[i] \in Nat /\ g[i] \in Nat
                      /\ i < k => f[i] = g[i]
                      /\ i >= k => f[i] > g[i]
           S == {i \in 0 .. top : ~Good(i)}
<1>6. S = {}
  <2>1. SUFFICES ASSUME S # {}
                 PROVE  FALSE
    OBVIOUS
  <2>2. PICK m \in S : \A x \in S : m <= x
    <3>1. S \subseteq Nat
      BY <1>1
    <3>2. QED
      BY <2>1, <3>1, Least
  <2>3. m # 0
    <3>1. f[0] = 0 /\ g[0] = 0
      BY <1>2, <1>3 DEF Weighs
    <3>2. QED
      BY <1>1, <2>2, <3>1
  <2>4. m \in 1 .. top /\ m - 1 \in 0 .. top /\ m - 1 \notin S
    BY <1>1, <2>2, <2>3
  <2>5. Good(m - 1)
    BY <2>4
  <2>6. f[m] = 2 * f[m - 1] + At(D, c1, m) /\ g[m] = 2 * g[m - 1] + At(D, c2, m)
    BY <1>2, <1>3, <2>4 DEF Weighs
  <2>7. At(D, c1, m) \in {0, 1} /\ At(D, c2, m) \in {0, 1}
    BY Digits
  <2>8. f[m] \in Nat /\ g[m] \in Nat
    BY <2>5, <2>6, <2>7
  <2>9. CASE m < k
    BY <1>1, <1>4, <2>2, <2>4, <2>5, <2>6, <2>8, <2>9
  <2>10. CASE m = k
    BY <1>1, <1>5, <2>2, <2>4, <2>5, <2>6, <2>8, <2>10
  <2>11. CASE m > k
    BY <1>1, <2>2, <2>4, <2>5, <2>6, <2>7, <2>8, <2>11
  <2>12. QED
    BY <1>1, <2>4, <2>9, <2>10, <2>11
<1>7. Good(top)
  BY <1>1, <1>6
<1>8. QED
  BY <1>1, <1>2, <1>3, <1>7

\* One request at a time, a recompute leaves weights that rank two contexts by the
\* highest position that only one of them names: the weights that
\* weight_recompute_handler calculated from the rows it read are those of the rows it writes
\* to, and sums of powers of two compare like sets of unique positions.
THEOREM RecomputeRanksCorrect == ASSUME OneWorker PROVE RequestSpec => RecomputeRanks
<1>1. ASSUME DimInv, NEW w \in Workers, CommitRecompute(w),
             NEW c1 \in DOMAIN contexts, NEW c2 \in DOMAIN contexts, Outranks(c1, c2)
      PROVE  contexts'[c1] > contexts'[c2]
  <2>1. PICK D : D = dimensions
    OBVIOUS
  <2>2. Rows(D) /\ UniquePositions(D) /\ c1 \in SUBSET DOMAIN D /\ c2 \in SUBSET DOMAIN D
    BY <1>1, <2>1 DEF DimInv, Sound, WellFormed
  <2>3. requests[w].weights = NewWeights(dimensions, contexts)
    BY <1>1 DEF CommitRecompute, Pending, DimInv, Current
  <2>4. /\ contexts'[c1] = calculate_context_weight(D, c1)
        /\ contexts'[c2] = calculate_context_weight(D, c2)
    BY <1>1, <2>1, <2>3 DEF CommitRecompute, Reweighed, NewWeights
  <2>5. PICK d \in c1 : /\ d \notin c2
                        /\ \A e \in (c1 \cup c2) \ (c1 \cap c2) : D[e].position <= D[d].position
    BY <1>1, <2>1 DEF Outranks
  <2>6. ASSUME NEW e \in DOMAIN D, D[e].position > D[d].position
        PROVE  e \in c1 <=> e \in c2
    BY <2>2, <2>5, <2>6, RowFields
  <2>7. QED
    BY <2>2, <2>4, <2>5, <2>6, WeightRanks
<1>2. DimInv => (\A w \in Workers : CommitRecompute(w) => \A c1, c2 \in DOMAIN contexts :
                   Outranks(c1, c2) => contexts'[c1] > contexts'[c2])
  BY <1>1
<1>3. QED
  BY <1>2, DimInit, DimNext, PTL DEF RequestSpec, RecomputeRanks
-----------------------------------------------------------------------------
(* The list.  Positions have no gaps, so that they are a list; the shifts of *)
(* the transactions are an insertion, a removal, or both.                    *)

\* What InsertAt returns.
LEMMA InsertAtIs ==
  ASSUME NEW S, NEW s \in Seq(S), NEW e \in S, NEW i \in 1 .. Len(s) + 1
  PROVE  List!InsertAt(s, i, e) =
           [j \in 1 .. Len(s) + 1 |-> IF j < i THEN s[j] ELSE IF j = i THEN e ELSE s[j - 1]]
<1> DEFINE a == SubSeq(s, 1, i - 1)
           c == SubSeq(s, i, Len(s))
           f == [j \in 1 .. Len(s) + 1 |-> IF j < i THEN s[j] ELSE IF j = i THEN e ELSE s[j - 1]]
<1>1. Len(s) \in Nat /\ i \in Nat /\ i >= 1 /\ i <= Len(s) + 1
  OBVIOUS
<1>2. a \in Seq(S) /\ Len(a) = i - 1 /\ \A j \in 1 .. i - 1 : a[j] = s[j]
  BY <1>1
<1>3. c \in Seq(S) /\ Len(c) = Len(s) - i + 1 /\ \A j \in 1 .. Len(s) - i + 1 : c[j] = s[i + j - 1]
  BY <1>1
<1> HIDE DEF a, c
<1>4. PICK g : g = (a \o <<e>>) \o c
  OBVIOUS
<1>5. /\ g \in Seq(S) /\ Len(g) = Len(s) + 1
      /\ \A j \in 1 .. Len(s) + 1 :
           g[j] = IF j < i THEN a[j] ELSE IF j = i THEN e ELSE c[j - i]
  <2>1. PICK h : h = a \o <<e>>
    OBVIOUS
  <2>2. h \in Seq(S) /\ Len(h) = i /\ \A j \in 1 .. i : h[j] = IF j < i THEN a[j] ELSE e
    BY <1>1, <1>2, <2>1
  <2>3. g = h \o c
    BY <1>4, <2>1
  <2>4. /\ g \in Seq(S) /\ Len(g) = Len(h) + Len(c)
        /\ \A j \in 1 .. Len(h) + Len(c) : g[j] = IF j <= Len(h) THEN h[j] ELSE c[j - Len(h)]
    BY <1>3, <2>2, <2>3, ConcatProperties
  <2>5. /\ Len(h) + Len(c) = Len(s) + 1
        /\ \A j \in 1 .. Len(s) + 1 : g[j] = IF j <= i THEN h[j] ELSE c[j - i]
    <3>1. Len(h) + Len(c) = Len(s) + 1 /\ Len(h) = i
      BY <1>1, <1>3, <2>2
    <3>2. QED
      BY <2>4, <3>1
  <2>6. QED
    BY <1>1, <2>2, <2>4, <2>5
<1>6. ASSUME NEW j \in 1 .. Len(s) + 1
      PROVE  g[j] = f[j]
  <2>1. CASE j < i
    BY <1>1, <1>2, <1>5, <2>1
  <2>2. CASE j = i
    BY <1>5, <2>2
  <2>3. CASE j > i
    <3>1. PICK k \in 1 .. Len(s) - i + 1 : k = j - i
      BY <1>1, <2>3
    <3>2. c[k] = s[i + k - 1] /\ i + k - 1 = j - 1
      BY <1>1, <1>3, <3>1
    <3>3. g[j] = c[k] /\ f[j] = s[j - 1]
      BY <1>1, <1>5, <2>3, <3>1
    <3>4. QED
      BY <3>2, <3>3
  <2>4. QED
    BY <1>1, <2>1, <2>2, <2>3
<1>7. g = [j \in 1 .. Len(s) + 1 |-> g[j]]
  BY <1>5
<1>8. g = f
  BY <1>6, <1>7
<1>9. QED
  BY <1>4, <1>8 DEF List!InsertAt, a, c

\* What RemoveAt returns.
LEMMA RemoveAtIs ==
  ASSUME NEW S, NEW s \in Seq(S), NEW i \in 1 .. Len(s)
  PROVE  List!RemoveAt(s, i) = [j \in 1 .. Len(s) - 1 |-> IF j < i THEN s[j] ELSE s[j + 1]]
<1> DEFINE a == SubSeq(s, 1, i - 1)
           c == SubSeq(s, i + 1, Len(s))
           f == [j \in 1 .. Len(s) - 1 |-> IF j < i THEN s[j] ELSE s[j + 1]]
<1>1. Len(s) \in Nat /\ i \in Nat /\ i >= 1 /\ i <= Len(s)
  OBVIOUS
<1>2. a \in Seq(S) /\ Len(a) = i - 1 /\ \A j \in 1 .. i - 1 : a[j] = s[j]
  BY <1>1
<1>3. c \in Seq(S) /\ Len(c) = Len(s) - i /\ \A j \in 1 .. Len(s) - i : c[j] = s[i + j]
  BY <1>1
<1> HIDE DEF a, c
<1>4. PICK g : g = a \o c
  OBVIOUS
<1>5. /\ g \in Seq(S) /\ Len(g) = Len(s) - 1
      /\ \A j \in 1 .. Len(s) - 1 : g[j] = IF j < i THEN a[j] ELSE c[j - i + 1]
  <2>1. /\ g \in Seq(S) /\ Len(g) = Len(a) + Len(c)
        /\ \A j \in 1 .. Len(a) + Len(c) : g[j] = IF j <= Len(a) THEN a[j] ELSE c[j - Len(a)]
    BY <1>2, <1>3, <1>4, ConcatProperties
  <2>2. Len(a) + Len(c) = Len(s) - 1
    BY <1>1, <1>2, <1>3
  <2>3. ASSUME NEW j \in 1 .. Len(s) - 1
        PROVE  g[j] = IF j < i THEN a[j] ELSE c[j - i + 1]
    <3>1. j <= Len(a) <=> j < i
      BY <1>1, <1>2
    <3>2. j - Len(a) = j - i + 1
      BY <1>1, <1>2
    <3>3. QED
      BY <2>1, <2>2, <3>1, <3>2
  <2>4. QED
    BY <2>1, <2>2, <2>3
<1>6. ASSUME NEW j \in 1 .. Len(s) - 1
      PROVE  g[j] = f[j]
  <2>1. CASE j < i
    BY <1>1, <1>2, <1>5, <2>1
  <2>2. CASE ~(j < i)
    <3>1. PICK k \in 1 .. Len(s) - i : k = j - i + 1
      BY <1>1, <2>2
    <3>2. c[k] = s[i + k] /\ i + k = j + 1
      BY <1>1, <1>3, <3>1
    <3>3. g[j] = c[k] /\ f[j] = s[j + 1]
      BY <1>1, <1>5, <2>2, <3>1
    <3>4. QED
      BY <3>2, <3>3
  <2>3. QED
    BY <2>1, <2>2
<1>7. g = [j \in 1 .. Len(s) - 1 |-> g[j]]
  BY <1>5
<1>8. g = f
  BY <1>6, <1>7
<1>9. QED
  BY <1>4, <1>8 DEF List!RemoveAt, a, c

\* Positions are 0, 1, ... without gaps, variantIds has the first, and only cohorts
\* have a base.
Placed(D) ==
  /\ VariantIds \in DOMAIN D /\ D[VariantIds].position = 0
  /\ \A d \in DOMAIN D : D[d].position < Cardinality(DOMAIN D)
  /\ \A i \in 0 .. Cardinality(DOMAIN D) - 1 : \E d \in DOMAIN D : D[d].position = i
  /\ \A d \in DOMAIN D : D[d].type = "REGULAR" <=> D[d].base = None

\* s is the list of the dimensions by position.
Lists(s, D) ==
  /\ Cardinality(DOMAIN D) \in Nat
  /\ s \in Seq(DOMAIN D) /\ Len(s) = Cardinality(DOMAIN D)
  /\ \A i \in 1 .. Cardinality(DOMAIN D) : s[i] \in DOMAIN D /\ D[s[i]].position = i - 1
  /\ \A d \in DOMAIN D : D[d].position + 1 \in 1 .. Cardinality(DOMAIN D) /\ s[D[d].position + 1] = d

\* The positions are a list.
LEMMA OrderLists ==
  ASSUME NEW D, Rows(D), UniquePositions(D), Placed(D)
  PROVE  Lists(OrderOf(D), D)
<1> DEFINE N == Cardinality(DOMAIN D)
           s == OrderOf(D)
<1>1. N \in Nat
  BY FS_CardinalityType DEF Rows
<1>2. s = [i \in 1 .. N |-> s[i]]
  BY DEF OrderOf
<1>3. ASSUME NEW i \in 1 .. N
      PROVE  s[i] \in DOMAIN D /\ D[s[i]].position = i - 1
  <2>1. i - 1 \in 0 .. N - 1
    BY <1>1
  <2>2. \E d \in DOMAIN D : D[d].position = i - 1
    BY <2>1 DEF Placed
  <2>3. s[i] = CHOOSE d \in DOMAIN D : D[d].position = i - 1
    BY DEF OrderOf
  <2>4. QED
    BY <2>2, <2>3
<1>4. s \in Seq(DOMAIN D) /\ Len(s) = N
  BY <1>1, <1>2, <1>3
<1>5. ASSUME NEW d \in DOMAIN D
      PROVE  D[d].position + 1 \in 1 .. N /\ s[D[d].position + 1] = d
  <2>1. D[d].position \in Nat /\ D[d].position < N
    BY RowFields DEF Placed
  <2>2. PICK i \in 1 .. N : i = D[d].position + 1
    BY <1>1, <2>1
  <2>3. D[s[i]].position = D[d].position
    BY <1>3, <2>1, <2>2
  <2>4. QED
    BY <1>3, <2>2, <2>3 DEF UniquePositions
<1>6. QED
  BY <1>1, <1>3, <1>4, <1>5 DEF Lists

\* A list by position is the order.
LEMMA OrderIs ==
  ASSUME NEW D, UniquePositions(D), NEW s,
         s = [i \in 1 .. Cardinality(DOMAIN D) |-> s[i]],
         \A i \in 1 .. Cardinality(DOMAIN D) : s[i] \in DOMAIN D /\ D[s[i]].position = i - 1
  PROVE  OrderOf(D) = s
<1>1. ASSUME NEW i \in 1 .. Cardinality(DOMAIN D)
      PROVE  OrderOf(D)[i] = s[i]
  <2>1. OrderOf(D)[i] = CHOOSE d \in DOMAIN D : D[d].position = i - 1
    BY DEF OrderOf
  <2>2. OrderOf(D)[i] \in DOMAIN D /\ D[OrderOf(D)[i]].position = i - 1
    BY <2>1
  <2>3. QED
    BY <2>2 DEF UniquePositions
<1>2. OrderOf(D) = [i \in 1 .. Cardinality(DOMAIN D) |-> OrderOf(D)[i]]
  BY DEF OrderOf
<1>3. QED
  BY <1>1, <1>2

\* The list begins with variantIds, and a cohort comes before its base.
LEMMA WellOrderedList ==
  ASSUME NEW D, Rows(D), UniquePositions(D), Ordered(D), Placed(D)
  PROVE  List!WellOrdered(OrderOf(D), BasesOf(D))
<1> DEFINE N == Cardinality(DOMAIN D)
<1>1. PICK s : s = OrderOf(D) /\ Lists(s, D)
  BY OrderLists
<1>2. s[1] = VariantIds /\ N >= 1 /\ N \in Nat
  BY <1>1 DEF Lists, Placed
<1>3. Head(s) = VariantIds /\ DOMAIN s = 1 .. N
  BY <1>1, <1>2 DEF Lists
<1>4. ASSUME NEW j \in 1 .. N, BasesOf(D)[s[j]] # None
      PROVE  \E k \in 1 .. N : k > j /\ s[k] = BasesOf(D)[s[j]]
  <2>1. PICK c \in DOMAIN D : c = s[j] /\ D[c].position = j - 1
    BY <1>1 DEF Lists
  <2>2. PICK b : b = D[c].base /\ b = BasesOf(D)[s[j]] /\ b # None
    BY <1>4, <2>1 DEF BasesOf
  <2>3. b \in DOMAIN D /\ D[c].position < D[b].position
    BY <2>2 DEF Placed, Ordered
  <2>4. D[b].position \in Nat /\ D[b].position + 1 \in 1 .. N /\ s[D[b].position + 1] = b
    BY <1>1, <2>3, RowFields DEF Lists
  <2>5. D[b].position + 1 > j
    BY <1>2, <2>1, <2>3, <2>4
  <2>6. QED
    BY <2>2, <2>4, <2>5
<1>5. QED
  BY <1>1, <1>3, <1>4 DEF List!WellOrdered

\* A creation inserts into the list.
LEMMA InsertedList ==
  ASSUME NEW D, Sound(D), Placed(D), NEW n, n \notin DOMAIN D, NEW b,
         NEW p \in 1 .. Cardinality(DOMAIN D),
         NEW E, Rows(E), UniquePositions(E), DOMAIN E = DOMAIN D \cup {n},
         E[n].position = p, E[n].base = b, E[n].type = "REGULAR" <=> b = None,
         \A d \in DOMAIN D :
           /\ E[d].type = D[d].type /\ E[d].base = D[d].base
           /\ E[d].position = IF p <= D[d].position THEN D[d].position + 1 ELSE D[d].position
  PROVE  /\ Placed(E)
         /\ OrderOf(E) = List!InsertAt(OrderOf(D), p + 1, n)
         /\ BasesOf(E) = [d \in DOMAIN D \cup {n} |-> IF d = n THEN b ELSE BasesOf(D)[d]]
<1>1. PICK N : N = Cardinality(DOMAIN D) /\ N \in Nat /\ Cardinality(DOMAIN E) = N + 1
  BY FS_CardinalityType, FS_AddElement DEF Sound, Rows
<1>2. PICK s : s = OrderOf(D) /\ Lists(s, D)
  BY OrderLists DEF Sound
<1>3. /\ p \in Nat /\ p >= 1 /\ p <= N
      /\ \A d \in DOMAIN D : D[d].position \in Nat /\ D[d].position < N
  BY <1>1, RowFields DEF Sound, Placed
<1>4. ASSUME NEW j \in 1 .. N + 1
      PROVE  LET d == IF j < p + 1 THEN s[j] ELSE IF j = p + 1 THEN n ELSE s[j - 1]
             IN d \in DOMAIN E /\ E[d].position = j - 1
  <2>1. CASE j < p + 1
    <3>1. PICK d \in DOMAIN D : d = s[j] /\ D[d].position = j - 1
      BY <1>1, <1>2, <1>3, <2>1 DEF Lists
    <3>2. QED
      BY <1>3, <2>1, <3>1
  <2>2. CASE j = p + 1
    BY <1>3, <2>2
  <2>3. CASE j > p + 1
    <3>1. PICK i \in 1 .. N : i = j - 1
      BY <1>1, <1>3, <2>3
    <3>2. PICK d \in DOMAIN D : d = s[i] /\ D[d].position = i - 1
      BY <1>1, <1>2 DEF Lists
    <3>3. E[d].position = j - 1
      BY <1>3, <2>3, <3>1, <3>2
    <3>4. QED
      BY <1>3, <2>3, <3>1, <3>2, <3>3
  <2>4. QED
    BY <1>1, <1>3, <2>1, <2>2, <2>3
<1>5. PICK t : t = [j \in 1 .. N + 1 |-> IF j < p + 1 THEN s[j] ELSE IF j = p + 1 THEN n ELSE s[j - 1]]
  OBVIOUS
<1>6. t = [j \in 1 .. N + 1 |-> t[j]] /\ \A j \in 1 .. N + 1 : t[j] \in DOMAIN E /\ E[t[j]].position = j - 1
  BY <1>4, <1>5
<1>7. OrderOf(E) = t
  BY <1>1, <1>6, OrderIs
<1>8. t = List!InsertAt(s, p + 1, n)
  <2>1. s \in Seq(DOMAIN D) /\ Len(s) = N
    BY <1>1, <1>2 DEF Lists
  <2>2. PICK S, i : S = DOMAIN D \cup {n} /\ i = p + 1
    OBVIOUS
  <2>3. s \in Seq(S) /\ n \in S /\ i \in 1 .. Len(s) + 1
    BY <1>1, <1>3, <2>1, <2>2
  <2>4. List!InsertAt(s, i, n) =
          [j \in 1 .. Len(s) + 1 |-> IF j < i THEN s[j] ELSE IF j = i THEN n ELSE s[j - 1]]
    BY <2>3, InsertAtIs
  <2>5. QED
    BY <1>5, <2>1, <2>2, <2>4
<1>9. Placed(E)
  <2>1. VariantIds \in DOMAIN E /\ E[VariantIds].position = 0
    BY <1>3 DEF Placed
  <2>2. \A d \in DOMAIN E : E[d].position < N + 1
    BY <1>1, <1>3
  <2>3. ASSUME NEW i \in 0 .. (N + 1) - 1
        PROVE  \E d \in DOMAIN E : E[d].position = i
    <3>1. PICK j \in 1 .. N + 1 : j - 1 = i
      BY <1>1
    <3>2. QED
      BY <1>6, <3>1
  <2>4. \A d \in DOMAIN E : E[d].type = "REGULAR" <=> E[d].base = None
    BY DEF Placed
  <2>5. QED
    BY <1>1, <2>1, <2>2, <2>3, <2>4 DEF Placed
<1>10. BasesOf(E) = [d \in DOMAIN D \cup {n} |-> IF d = n THEN b ELSE BasesOf(D)[d]]
  BY DEF BasesOf
<1>11. QED
  BY <1>2, <1>7, <1>8, <1>9, <1>10

\* A deletion removes from the list.
LEMMA RemovedList ==
  ASSUME NEW D, Sound(D), Placed(D), NEW n \in DOMAIN D, n # VariantIds,
         NEW E, Rows(E), UniquePositions(E), DOMAIN E = DOMAIN D \ {n}, ClosedUp(E, D, n)
  PROVE  /\ Placed(E)
         /\ OrderOf(E) = List!RemoveAt(OrderOf(D), D[n].position + 1)
         /\ BasesOf(E) = [d \in DOMAIN D \ {n} |-> BasesOf(D)[d]]
<1> DEFINE k == D[n].position
<1>1. PICK N : N = Cardinality(DOMAIN D) /\ N \in Nat /\ Cardinality(DOMAIN E) = N - 1
  BY FS_CardinalityType, FS_RemoveElement DEF Sound, Rows
<1>2. PICK s : s = OrderOf(D) /\ Lists(s, D)
  BY OrderLists DEF Sound
<1>3. /\ \A d \in DOMAIN D : D[d].position \in Nat /\ D[d].position < N
      /\ \A d \in DOMAIN D \ {n} : D[d].position # k
  BY <1>1, RowFields DEF Sound, Placed, UniquePositions
<1>4. ASSUME NEW j \in 1 .. N - 1
      PROVE  LET d == IF j < k + 1 THEN s[j] ELSE s[j + 1]
             IN d \in DOMAIN E /\ E[d].position = j - 1
  <2>1. CASE j < k + 1
    <3>1. PICK d \in DOMAIN D : d = s[j] /\ D[d].position = j - 1
      BY <1>1, <1>2 DEF Lists
    <3>2. d # n
      BY <1>3, <2>1, <3>1
    <3>3. QED
      BY <1>3, <2>1, <3>1, <3>2 DEF ClosedUp
  <2>2. CASE ~(j < k + 1)
    <3>1. PICK i \in 1 .. N : i = j + 1
      BY <1>1
    <3>2. PICK d \in DOMAIN D : d = s[i] /\ D[d].position = i - 1
      BY <1>1, <1>2 DEF Lists
    <3>3. d # n
      BY <1>3, <2>2, <3>1, <3>2
    <3>4. E[d].position = j - 1
      BY <1>3, <2>2, <3>1, <3>2, <3>3 DEF ClosedUp
    <3>5. QED
      BY <2>2, <3>1, <3>2, <3>3, <3>4
  <2>3. QED
    BY <2>1, <2>2
<1>5. PICK t : t = [j \in 1 .. N - 1 |-> IF j < k + 1 THEN s[j] ELSE s[j + 1]]
  OBVIOUS
<1>6. t = [j \in 1 .. N - 1 |-> t[j]] /\ \A j \in 1 .. N - 1 : t[j] \in DOMAIN E /\ E[t[j]].position = j - 1
  BY <1>4, <1>5
<1>7. OrderOf(E) = t
  BY <1>1, <1>6, OrderIs
<1>8. t = List!RemoveAt(s, k + 1)
  <2>1. s \in Seq(DOMAIN D) /\ Len(s) = N /\ k + 1 \in 1 .. N
    BY <1>1, <1>2 DEF Lists
  <2>2. PICK S, i : S = DOMAIN D /\ i = k + 1
    OBVIOUS
  <2>3. s \in Seq(S) /\ i \in 1 .. Len(s)
    BY <2>1, <2>2
  <2>4. QED
    BY <1>5, <2>1, <2>2, <2>3, RemoveAtIs
<1>9. Placed(E)
  <2>1. VariantIds \in DOMAIN E /\ E[VariantIds].position = 0
    BY <1>3 DEF Placed, ClosedUp
  <2>2. ASSUME NEW d \in DOMAIN E
        PROVE  E[d].position < N - 1
    <3>1. k \in Nat /\ k < N /\ D[d].position \in Nat /\ D[d].position < N /\ D[d].position # k
      BY <1>3
    <3>2. E[d].position = IF k < D[d].position THEN D[d].position - 1 ELSE D[d].position
      BY DEF ClosedUp
    <3>3. QED
      BY <1>1, <3>1, <3>2
  <2>3. ASSUME NEW i \in 0 .. (N - 1) - 1
        PROVE  \E d \in DOMAIN E : E[d].position = i
    <3>1. PICK j \in 1 .. N - 1 : j - 1 = i
      BY <1>1
    <3>2. QED
      BY <1>6, <3>1
  <2>4. \A d \in DOMAIN E : E[d].type = "REGULAR" <=> E[d].base = None
    BY DEF Placed, ClosedUp
  <2>5. QED
    BY <1>1, <2>1, <2>2, <2>3, <2>4 DEF Placed
<1>10. BasesOf(E) = [d \in DOMAIN D \ {n} |-> BasesOf(D)[d]]
  BY DEF BasesOf, ClosedUp
<1>11. QED
  BY <1>2, <1>7, <1>8, <1>9, <1>10

\* A move removes from the list and inserts again.
LEMMA MovedList ==
  ASSUME NEW D, Sound(D), Placed(D), NEW n \in DOMAIN D,
         NEW p, validate_dimension_position(n, p, Cardinality(DOMAIN D) - 1),
         NEW E, Rows(E), UniquePositions(E), SameForest(E, D), Between(E, D, n, p)
  PROVE  /\ Placed(E)
         /\ p + 1 \in 1 .. Cardinality(DOMAIN D)
         /\ OrderOf(E) = List!InsertAt(List!RemoveAt(OrderOf(D), D[n].position + 1), p + 1, n)
         /\ BasesOf(E) = BasesOf(D)
<1> DEFINE k == D[n].position
<1>1. PICK N : N = Cardinality(DOMAIN D) /\ N \in Nat /\ DOMAIN E = DOMAIN D
  BY FS_CardinalityType DEF Sound, Rows, SameForest
<1>2. PICK s : s = OrderOf(D) /\ Lists(s, D)
  BY OrderLists DEF Sound
<1>3. /\ \A d \in DOMAIN D : D[d].position \in Nat /\ D[d].position < N
      /\ \A d \in DOMAIN D \ {n} : D[d].position # k
  BY <1>1, RowFields DEF Sound, Placed, UniquePositions
<1>4. /\ p \in Nat /\ p <= N - 1 /\ N >= 1
      /\ n # VariantIds => p >= 1 /\ k >= 1
      /\ n = VariantIds => p = 0 /\ k = 0
  BY <1>1, <1>3 DEF validate_dimension_position, Placed
<1>5. PICK r : /\ r = List!RemoveAt(s, k + 1)
               /\ r = [j \in 1 .. N - 1 |-> IF j < k + 1 THEN s[j] ELSE s[j + 1]]
  <2>1. s \in Seq(DOMAIN D) /\ Len(s) = N /\ k + 1 \in 1 .. N
    BY <1>1, <1>2 DEF Lists
  <2>2. PICK S, i : S = DOMAIN D /\ i = k + 1
    OBVIOUS
  <2>3. s \in Seq(S) /\ i \in 1 .. Len(s)
    BY <2>1, <2>2
  <2>4. List!RemoveAt(s, i) = [j \in 1 .. Len(s) - 1 |-> IF j < i THEN s[j] ELSE s[j + 1]]
    BY <2>3, RemoveAtIs
  <2>5. QED
    BY <2>1, <2>2, <2>4
<1> DEFINE at(j) == IF j < k + 1 THEN s[j] ELSE s[j + 1]
<1>6. r = [j \in 1 .. N - 1 |-> at(j)] /\ \A j \in 1 .. N - 1 : r[j] = at(j)
  BY <1>5
<1>7. ASSUME NEW j \in 1 .. N - 1
      PROVE  /\ r[j] \in DOMAIN D \ {n}
             /\ D[r[j]].position = IF j < k + 1 THEN j - 1 ELSE j
  <2>1. CASE j < k + 1
    <3>1. PICK d \in DOMAIN D : d = s[j] /\ D[d].position = j - 1
      BY <1>1, <1>2 DEF Lists
    <3>2. QED
      BY <1>3, <1>6, <2>1, <3>1
  <2>2. CASE ~(j < k + 1)
    <3>1. PICK i \in 1 .. N : i = j + 1
      BY <1>1
    <3>2. PICK d \in DOMAIN D : d = s[i] /\ D[d].position = i - 1
      BY <1>1, <1>2 DEF Lists
    <3>3. D[d].position = j /\ r[j] = d
      BY <1>6, <2>2, <3>1, <3>2
    <3>4. QED
      BY <1>3, <2>2, <3>2, <3>3
  <2>3. QED
    BY <2>1, <2>2
<1>8. r \in Seq(DOMAIN D) /\ Len(r) = N - 1
  <2>1. N - 1 \in Nat /\ r \in [1 .. N - 1 -> DOMAIN D]
    BY <1>1, <1>4, <1>6, <1>7
  <2>2. QED
    BY <2>1
<1>9. PICK t : /\ t = List!InsertAt(r, p + 1, n)
               /\ t = [j \in 1 .. N |-> IF j < p + 1 THEN r[j] ELSE IF j = p + 1 THEN n ELSE r[j - 1]]
  <2>1. PICK S, i : S = DOMAIN D /\ i = p + 1
    OBVIOUS
  <2>2. r \in Seq(S) /\ n \in S /\ i \in 1 .. Len(r) + 1 /\ Len(r) + 1 = N
    BY <1>1, <1>4, <1>8, <2>1
  <2>3. List!InsertAt(r, i, n) =
          [j \in 1 .. Len(r) + 1 |-> IF j < i THEN r[j] ELSE IF j = i THEN n ELSE r[j - 1]]
    BY <2>2, InsertAtIs
  <2>4. QED
    BY <2>1, <2>2, <2>3
<1>10. ASSUME NEW j \in 1 .. N
      PROVE  t[j] \in DOMAIN E /\ E[t[j]].position = j - 1
  <2>1. CASE j < p + 1
    <3>1. j \in 1 .. N - 1 /\ t[j] = r[j]
      BY <1>1, <1>4, <1>9, <2>1
    <3>2. PICK d \in DOMAIN D \ {n} : d = t[j] /\ D[d].position = IF j < k + 1 THEN j - 1 ELSE j
      BY <1>7, <3>1
    <3>3. E[d].position = j - 1
      BY <1>3, <1>4, <2>1, <3>2 DEF Between
    <3>4. QED
      BY <1>1, <3>2, <3>3
  <2>2. CASE j = p + 1
    BY <1>1, <1>4, <1>9, <2>2 DEF Between
  <2>3. CASE j > p + 1
    <3>1. PICK i \in 1 .. N - 1 : i = j - 1 /\ t[j] = r[i]
      BY <1>1, <1>4, <1>9, <2>3
    <3>2. PICK d \in DOMAIN D \ {n} : d = t[j] /\ D[d].position = IF i < k + 1 THEN i - 1 ELSE i
      BY <1>7, <3>1
    <3>3. E[d].position = j - 1
      BY <1>3, <1>4, <2>3, <3>1, <3>2 DEF Between
    <3>4. QED
      BY <1>1, <3>2, <3>3
  <2>4. QED
    BY <1>1, <1>4, <2>1, <2>2, <2>3
<1>11. OrderOf(E) = t
  <2>1. t = [j \in 1 .. N |-> t[j]]
    BY <1>9
  <2>2. QED
    BY <1>1, <1>10, <2>1, OrderIs
<1>12. Placed(E)
  <2>1. VariantIds \in DOMAIN E /\ E[VariantIds].position = 0
    <3>1. CASE n = VariantIds
      BY <1>1, <1>4, <3>1 DEF Between
    <3>2. CASE n # VariantIds
      BY <1>1, <1>3, <1>4, <3>2 DEF Between, Placed
    <3>3. QED
      BY <3>1, <3>2
  <2>2. ASSUME NEW d \in DOMAIN E
        PROVE  E[d].position < N
    <3>1. CASE d = n
      BY <1>1, <1>4, <3>1 DEF Between
    <3>2. CASE d # n
      <4>1. k \in Nat /\ k < N /\ D[d].position \in Nat /\ D[d].position < N
        BY <1>1, <1>3
      <4>2. QED
        BY <1>1, <1>4, <3>2, <4>1 DEF Between
    <3>3. QED
      BY <3>1, <3>2
  <2>3. ASSUME NEW i \in 0 .. N - 1
        PROVE  \E d \in DOMAIN E : E[d].position = i
    <3>1. PICK j \in 1 .. N : j - 1 = i
      BY <1>1
    <3>2. QED
      BY <1>10, <3>1
  <2>4. \A d \in DOMAIN E : E[d].type = "REGULAR" <=> E[d].base = None
    BY DEF Placed, SameForest
  <2>5. QED
    BY <1>1, <2>1, <2>2, <2>3, <2>4 DEF Placed
<1>13. BasesOf(E) = BasesOf(D)
  BY DEF BasesOf, SameForest
<1>14. p + 1 \in 1 .. N
  BY <1>1, <1>4
<1>15. QED
  BY <1>1, <1>2, <1>5, <1>9, <1>11, <1>12, <1>13, <1>14
-----------------------------------------------------------------------------
(* The refinement *)

\* A request to create was checked against the number of rows that there still are.
Fitting(r, D) ==
  r.op = "create" =>
    /\ validate_dimension_position(r.name, r.position, Cardinality(DOMAIN D))
    /\ r.type = "REGULAR" <=> r.base = None

ListInv ==
  /\ DimInv
  /\ Placed(dimensions)
  /\ \A w \in Workers : requests[w] # None => Fitting(requests[w], dimensions)

\* A step of the list, or none.
ListStep == List!Next \/ UNCHANGED List!listVars

\* The dimensions that are listed are those that exist, each once.
LEMMA Members ==
  ASSUME ListInv
  PROVE  /\ List!Listed = DOMAIN dimensions
         /\ Len(OrderOf(dimensions)) = Cardinality(DOMAIN dimensions)
         /\ \A n \in DOMAIN dimensions :
              List!Without(n) = List!RemoveAt(OrderOf(dimensions), dimensions[n].position + 1)
<1>1. PICK D : D = dimensions /\ Rows(D) /\ UniquePositions(D) /\ Placed(D)
  BY DEF ListInv, DimInv, Sound
<1>2. PICK s, N : s = OrderOf(D) /\ Lists(s, D) /\ N = Cardinality(DOMAIN D)
  BY <1>1, OrderLists
<1>3. Len(s) = N /\ DOMAIN s = 1 .. N
  BY <1>2 DEF Lists
<1>4. List!Listed = DOMAIN D
  <2>1. List!Listed = {s[i] : i \in 1 .. N}
    BY <1>1, <1>2, <1>3 DEF List!Listed
  <2>2. QED
    BY <1>2, <2>1 DEF Lists
<1>5. ASSUME NEW n \in DOMAIN D
      PROVE  List!Without(n) = List!RemoveAt(s, D[n].position + 1)
  <2>1. PICK k : k = D[n].position + 1 /\ k \in 1 .. N /\ s[k] = n
    BY <1>2 DEF Lists
  <2>2. ASSUME NEW i \in 1 .. N, s[i] = n
        PROVE  i = k
    BY <1>1, <1>2, <2>1, <2>2, RowFields DEF Lists
  <2>3. (CHOOSE i \in DOMAIN s : s[i] = n) = k
    BY <1>3, <2>1, <2>2
  <2>4. QED
    BY <1>1, <1>2, <2>1, <2>3 DEF List!Without
<1>6. QED
  BY <1>1, <1>2, <1>3, <1>4, <1>5

\* A new workspace has the list of variantIds alone.
LEMMA ListInit == RequestInit => ListInv /\ List!Init
<1> SUFFICES ASSUME RequestInit
             PROVE  ListInv /\ List!Init
  OBVIOUS
<1>1. DimInv
  BY DimInit
<1>2. /\ DOMAIN dimensions = {VariantIds} /\ dimensions[VariantIds].position = 0
      /\ dimensions[VariantIds].type = "REGULAR" /\ dimensions[VariantIds].base = None
      /\ requests = [w \in Workers |-> None]
  BY DEF RequestInit, Init
<1>3. Cardinality(DOMAIN dimensions) = 1
  BY <1>2, FS_Singleton
<1>4. Placed(dimensions)
  BY <1>2, <1>3 DEF Placed
<1>5. ListInv
  BY <1>1, <1>2, <1>4 DEF ListInv
<1>6. OrderOf(dimensions) = <<VariantIds>>
  <2>1. PICK s : s = OrderOf(dimensions) /\ Lists(s, dimensions)
    BY <1>1, <1>4, OrderLists DEF DimInv, Sound
  <2>2. s \in Seq({VariantIds}) /\ Len(s) = 1 /\ s[1] = VariantIds
    BY <1>2, <1>3, <2>1 DEF Lists
  <2>3. QED
    BY <2>1, <2>2
<1>7. BasesOf(dimensions) = [d \in {VariantIds} |-> None]
  BY <1>2 DEF BasesOf
<1>8. QED
  BY <1>5, <1>6, <1>7 DEF List!Init

\* The first steps change no list; a creation has been checked.
LEMMA ListAccept ==
  ASSUME ListInv, DimInv', NEW w \in Workers, NEW request, Accept(w, request),
         Fitting(request, dimensions)
  PROVE  ListInv' /\ ListStep
<1>1. dimensions' = dimensions /\ requests' = [requests EXCEPT ![w] = request]
  BY DEF Accept, dimensionVars
<1>2. ASSUME NEW v \in Workers, requests'[v] # None
      PROVE  Fitting(requests'[v], dimensions)
  BY <1>1, <1>2 DEF ListInv, DimInv
<1>3. \A v \in Workers : requests'[v] # None => Fitting(requests'[v], dimensions')
  BY <1>1, <1>2
<1>4. ListInv'
  BY <1>1, <1>3 DEF ListInv
<1>5. ListStep
  BY <1>1 DEF ListStep, List!listVars
<1>6. QED
  BY <1>4, <1>5

\* A step that leaves the dimensions alone and no request pending.
LEMMA ListSame ==
  ASSUME ListInv, DimInv', dimensions' = dimensions,
         \A v \in Workers : requests'[v] = None \/ requests'[v] = requests[v]
  PROVE  ListInv' /\ ListStep
<1>1. \A v \in Workers : requests'[v] # None => Fitting(requests'[v], dimensions')
  BY DEF ListInv
<1>2. ListInv'
  BY <1>1 DEF ListInv
<1>3. ListStep
  BY DEF ListStep, List!listVars
<1>4. QED
  BY <1>2, <1>3

\* A transaction that leaves the table E with its list.
LEMMA ListWritten ==
  ASSUME OneWorker, ListInv, DimInv', NEW w \in Workers, Finish(w), NEW E, dimensions' = E, Placed(E)
  PROVE  /\ ListInv'
         /\ OrderOf(dimensions)' = OrderOf(E) /\ BasesOf(dimensions)' = BasesOf(E)
         /\ List!WellOrdered(OrderOf(E), BasesOf(E))
<1>1. \A v \in Workers : requests'[v] = None
  BY DimFinish DEF ListInv
<1>2. Placed(dimensions')
  OBVIOUS
<1>3. ListInv'
  BY <1>1, <1>2 DEF ListInv
<1>4. Sound(dimensions')
  BY DEF DimInv
<1>5. Rows(E) /\ UniquePositions(E) /\ Ordered(E)
  BY <1>4 DEF Sound
<1>6. List!WellOrdered(OrderOf(E), BasesOf(E))
  BY <1>5, WellOrderedList
<1>7. OrderOf(dimensions') = OrderOf(E) /\ BasesOf(dimensions') = BasesOf(E)
  OBVIOUS
<1>8. QED
  BY <1>3, <1>6, <1>7

\* create_handler's transaction adds to the list, or fails.
LEMMA ListCreate ==
  ASSUME OneWorker, ListInv, DimInv', NEW w \in Workers, CommitCreate(w)
  PROVE  ListInv' /\ ListStep
<1>1. PICK r, D, n, p, t, b :
        /\ r = requests[w] /\ D = dimensions
        /\ n = r.name /\ p = r.position /\ t = r.type /\ b = r.base
  OBVIOUS
<1>2. PICK E : E = Inserted(D, n, p, t, b)
  OBVIOUS
<1>3. r # None /\ r.op = "create" /\ Commit(w, n \notin DOMAIN D, E)
  BY <1>1, <1>2 DEF CommitCreate, Pending
<1>4. /\ n \in Names /\ p \in Nat /\ t \in DimensionTypes /\ b \in Names \cup {None}
      /\ ValidType(D, p, t, b, TRUE)
      /\ validate_dimension_position(n, p, Cardinality(DOMAIN D))
      /\ t = "REGULAR" <=> b = None
  BY <1>1, <1>3 DEF ListInv, DimInv, Current, Fitting
<1>5. Finish(w) /\ dimensions' = IF n \notin DOMAIN D /\ UniquePositions(E) THEN E ELSE D
  BY <1>1, <1>3 DEF Commit
<1>6. Sound(D) /\ Placed(D)
  BY <1>1 DEF ListInv, DimInv
<1>7. CASE n \notin DOMAIN D /\ UniquePositions(E)
  <2>1. p \in 1 .. Cardinality(DOMAIN D)
    BY <1>4, <1>6, <1>7 DEF Placed, validate_dimension_position
  <2>2. /\ Rows(E) /\ DOMAIN E = DOMAIN D \cup {n}
        /\ E[n].position = p /\ E[n].type = t /\ E[n].base = b
        /\ \A d \in DOMAIN D :
             /\ E[d].type = D[d].type /\ E[d].base = D[d].base
             /\ E[d].position = IF p <= D[d].position THEN D[d].position + 1 ELSE D[d].position
    <3>1. Created(D, n, p, t, b)
      BY <1>4, <1>6, <1>7, InsertedSound
    <3>2. QED
      BY <1>2, <3>1 DEF Created
  <2>3. /\ Placed(E)
        /\ OrderOf(E) = List!InsertAt(OrderOf(D), p + 1, n)
        /\ BasesOf(E) = [d \in DOMAIN D \cup {n} |-> IF d = n THEN b ELSE BasesOf(D)[d]]
    <3>1. E[n].type = "REGULAR" <=> b = None
      BY <1>4, <2>2
    <3>2. QED
      BY <1>6, <1>7, <2>1, <2>2, <3>1, InsertedList
  <2>4. /\ ListInv' /\ OrderOf(dimensions)' = OrderOf(E) /\ BasesOf(dimensions)' = BasesOf(E)
        /\ List!WellOrdered(OrderOf(E), BasesOf(E))
    BY <1>5, <1>7, <2>3, ListWritten
  <2>5. PICK i : i = p + 1 /\ i \in 1 .. Len(OrderOf(dimensions)) + 1
    <3>1. Cardinality(DOMAIN D) \in Nat
      BY <1>6, FS_CardinalityType DEF Sound, Rows
    <3>2. QED
      BY <1>1, <2>1, <3>1, Members
  <2>6. List!Add(n, i, b)
    BY <1>1, <1>7, <2>3, <2>4, <2>5, Members DEF List!Add
  <2>7. List!Next
    BY <1>4, <2>5, <2>6 DEF List!Next
  <2>8. QED
    BY <2>4, <2>7 DEF ListStep
<1>8. CASE ~(n \notin DOMAIN D /\ UniquePositions(E))
  <2>1. dimensions' = dimensions
    BY <1>1, <1>5, <1>8
  <2>2. \A v \in Workers : requests'[v] = None
    BY <1>5, DimFinish DEF ListInv
  <2>3. QED
    BY <2>1, <2>2, ListSame
<1>9. QED
  BY <1>7, <1>8

\* update_handler's transaction relocates in the list, or fails.
LEMMA ListUpdate ==
  ASSUME OneWorker, ListInv, DimInv', NEW w \in Workers, CommitUpdate(w)
  PROVE  ListInv' /\ ListStep
<1>1. PICK r, D, n, p, k :
        r = requests[w] /\ D = dimensions /\ n = r.name /\ p = r.position /\ k = r.rows
  OBVIOUS
<1>2. PICK E, may : /\ may = CanMove(D, n, p, k)
                    /\ E = IF may THEN Moved(D, n, r.old, p, k) ELSE D
  OBVIOUS
<1>3. r # None /\ r.op = "update" /\ Commit(w, may, E)
  BY <1>1, <1>2 DEF CommitUpdate, Pending
<1>4. /\ n \in DOMAIN D /\ p \in Nat /\ r.old = D[n].position /\ k = Cardinality(DOMAIN D)
      /\ ValidType(D, p, D[n].type, D[n].base, FALSE)
  BY <1>1, <1>3 DEF ListInv, DimInv, Current
<1>5. Finish(w) /\ dimensions' = IF may /\ UniquePositions(E) THEN E ELSE D
  BY <1>1, <1>3 DEF Commit
<1>6. Sound(D) /\ Placed(D) /\ k \in Nat
  BY <1>1, <1>4, FS_CardinalityType DEF ListInv, DimInv, Sound, Rows
<1>7. CASE may /\ UniquePositions(E)
  <2>1. validate_dimension_position(n, p, Cardinality(DOMAIN D) - 1) /\ validate_position_wrt_dependency(D, n, p)
    BY <1>2, <1>4, <1>7 DEF CanMove
  <2>2. Rows(E) /\ SameForest(E, D) /\ Between(E, D, n, p)
    <3>1. E = Moved(D, n, D[n].position, p, k)
      BY <1>2, <1>4, <1>7
    <3>2. QED
      BY <1>4, <1>6, <2>1, <3>1, MovedSound
  <2>3. /\ Placed(E) /\ p + 1 \in 1 .. Cardinality(DOMAIN D)
        /\ OrderOf(E) = List!InsertAt(List!RemoveAt(OrderOf(D), D[n].position + 1), p + 1, n)
        /\ BasesOf(E) = BasesOf(D)
    BY <1>4, <1>6, <1>7, <2>1, <2>2, MovedList
  <2>4. /\ ListInv' /\ OrderOf(dimensions)' = OrderOf(E) /\ BasesOf(dimensions)' = BasesOf(E)
        /\ List!WellOrdered(OrderOf(E), BasesOf(E))
    BY <1>5, <1>7, <2>3, ListWritten
  <2>5. PICK i : i = p + 1 /\ i \in 1 .. Len(OrderOf(dimensions))
    BY <1>1, <2>3, Members
  <2>6. List!Relocate(n, i)
    BY <1>1, <1>4, <2>3, <2>4, <2>5, Members DEF List!Relocate
  <2>7. n \in Names
    BY <1>4, <1>6 DEF Sound, Rows
  <2>8. List!Next
    BY <2>5, <2>6, <2>7 DEF List!Next
  <2>9. QED
    BY <2>4, <2>8 DEF ListStep
<1>8. CASE ~(may /\ UniquePositions(E))
  <2>1. dimensions' = dimensions
    BY <1>1, <1>5, <1>8
  <2>2. \A v \in Workers : requests'[v] = None
    BY <1>5, DimFinish DEF ListInv
  <2>3. QED
    BY <2>1, <2>2, ListSame
<1>9. QED
  BY <1>7, <1>8

\* delete_handler's transaction drops from the list, or fails.
LEMMA ListDelete ==
  ASSUME OneWorker, ListInv, DimInv', NEW w \in Workers, CommitDelete(w)
  PROVE  ListInv' /\ ListStep
<1>1. PICK r, D, n : r = requests[w] /\ D = dimensions /\ n = r.name
  OBVIOUS
<1>2. PICK E : E = Removed(D, n, r.row)
  OBVIOUS
<1>3. r # None /\ r.op = "delete" /\ Commit(w, n \in DOMAIN D, E)
  BY <1>1, <1>2 DEF CommitDelete, Pending
<1>4. CanDelete(D, contexts, n) /\ r.row = D[n]
  BY <1>1, <1>3 DEF ListInv, DimInv, Current
<1>5. n # VariantIds /\ n \in DOMAIN D /\ D[n].graph = EmptyGraph
  BY <1>4 DEF CanDelete
<1>6. Finish(w) /\ dimensions' = IF UniquePositions(E) THEN E ELSE D
  BY <1>1, <1>3, <1>5 DEF Commit
<1>7. Sound(D) /\ Placed(D)
  BY <1>1 DEF ListInv, DimInv
<1>8. CASE UniquePositions(E)
  <2>1. Kids(D, n) = {}
    BY <1>5, <1>7, EmptyGraphNoKids DEF Sound
  <2>2. Rows(E) /\ DOMAIN E = DOMAIN D \ {n} /\ ClosedUp(E, D, n)
    BY <1>2, <1>4, <1>5, <1>7, <2>1, RemovedSound
  <2>3. /\ Placed(E)
        /\ OrderOf(E) = List!RemoveAt(OrderOf(D), D[n].position + 1)
        /\ BasesOf(E) = [d \in DOMAIN D \ {n} |-> BasesOf(D)[d]]
    BY <1>5, <1>7, <1>8, <2>2, RemovedList
  <2>4. /\ ListInv' /\ OrderOf(dimensions)' = OrderOf(E) /\ BasesOf(dimensions)' = BasesOf(E)
        /\ List!WellOrdered(OrderOf(E), BasesOf(E))
    BY <1>6, <1>8, <2>3, ListWritten
  <2>5. List!Drop(n)
    BY <1>1, <1>5, <2>3, <2>4, Members DEF List!Drop
  <2>6. n \in Names
    BY <1>5, <1>7 DEF Sound, Rows
  <2>7. List!Next
    BY <2>5, <2>6 DEF List!Next
  <2>8. QED
    BY <2>4, <2>7 DEF ListStep
<1>9. CASE ~UniquePositions(E)
  <2>1. dimensions' = dimensions
    BY <1>1, <1>6, <1>9
  <2>2. \A v \in Workers : requests'[v] = None
    BY <1>6, DimFinish DEF ListInv
  <2>3. QED
    BY <2>1, <2>2, ListSame
<1>10. QED
  BY <1>8, <1>9

\* Every step of the requests is a step of the list, or none.
LEMMA ListNext == ASSUME OneWorker PROVE ListInv /\ [RequestNext]_requestVars => ListInv' /\ ListStep
<1> SUFFICES ASSUME ListInv, [RequestNext]_requestVars
             PROVE  ListInv' /\ ListStep
  OBVIOUS
<1>0. DimInv'
  BY DimNext DEF ListInv
<1>1. ASSUME NEW w \in Workers, NEW n \in Names, NEW p \in 0 .. Cardinality(Names),
             NEW b \in Names \cup {None}, NEW type \in DimensionTypes,
             (type = "REGULAR") = (b = None), BeginCreate(w, n, p, type, b)
      PROVE  ListInv' /\ ListStep
  <2>1. PICK r : r = [op |-> "create", name |-> n, position |-> p, type |-> type, base |-> b]
    OBVIOUS
  <2>2. Accept(w, r) /\ Fitting(r, dimensions)
    BY <1>1, <2>1 DEF BeginCreate, CanCreate, Fitting
  <2>3. QED
    BY <1>0, <2>2, ListAccept
<1>2. ASSUME NEW w \in Workers, NEW n \in Names, NEW p \in 0 .. Cardinality(Names), BeginUpdate(w, n, p)
      PROVE  ListInv' /\ ListStep
  <2>1. PICK r : r = [op |-> "update", name |-> n, position |-> p,
                      old |-> dimensions[n].position, rows |-> Cardinality(DOMAIN dimensions)]
    OBVIOUS
  <2>2. Accept(w, r) /\ Fitting(r, dimensions)
    BY <1>2, <2>1 DEF BeginUpdate, Fitting
  <2>3. QED
    BY <1>0, <2>2, ListAccept
<1>3. ASSUME NEW w \in Workers, NEW n \in Names, BeginDelete(w, n)
      PROVE  ListInv' /\ ListStep
  <2>1. PICK r : r = [op |-> "delete", name |-> n, row |-> dimensions[n]]
    OBVIOUS
  <2>2. Accept(w, r) /\ Fitting(r, dimensions)
    BY <1>3, <2>1 DEF BeginDelete, Fitting
  <2>3. QED
    BY <1>0, <2>2, ListAccept
<1>4. ASSUME NEW w \in Workers, BeginRecompute(w)
      PROVE  ListInv' /\ ListStep
  <2>1. PICK r : r = [op |-> "recompute", weights |-> NewWeights(dimensions, contexts)]
    OBVIOUS
  <2>2. Accept(w, r) /\ Fitting(r, dimensions)
    BY <1>4, <2>1 DEF BeginRecompute, Fitting
  <2>3. QED
    BY <1>0, <2>2, ListAccept
<1>5. ASSUME NEW w \in Workers, CommitRecompute(w)
      PROVE  ListInv' /\ ListStep
  <2>1. dimensions' = dimensions /\ Finish(w)
    BY <1>5 DEF CommitRecompute
  <2>2. \A v \in Workers : requests'[v] = None
    BY <2>1, DimFinish DEF ListInv
  <2>3. QED
    BY <1>0, <2>1, <2>2, ListSame
<1>6. ASSUME NEW c \in Conditions, PutContext(c) \/ DeleteContext(c), UNCHANGED requests
      PROVE  ListInv' /\ ListStep
  BY <1>0, <1>6, ListSame DEF PutContext, DeleteContext
<1>7. CASE UNCHANGED requestVars
  BY <1>0, <1>7, ListSame DEF requestVars
<1>8. QED
  BY <1>0, <1>1, <1>2, <1>3, <1>4, <1>5, <1>6, <1>7, ListCreate, ListUpdate, ListDelete DEF RequestNext

\* One request at a time, the handlers of dimensions implement a list that begins
\* with variantIds and in which a cohort comes before what it is computed from: the
\* shifts of positions leave neither a gap nor a duplicate.
THEOREM ImplementsListCorrect == ASSUME OneWorker PROVE RequestSpec => ImplementsList
<1>1. ListInv /\ [RequestNext]_requestVars => ListInv'
  BY ListNext
<1>2. ListInv /\ [RequestNext]_requestVars => [List!Next]_(List!listVars)
  BY ListNext DEF ListStep
<1>3. QED
  BY <1>1, <1>2, ListInit, PTL DEF RequestSpec, ImplementsList, List!Spec
=============================================================================
