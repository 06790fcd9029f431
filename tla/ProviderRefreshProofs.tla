----------------------- MODULE ProviderRefreshProofs ------------------------
(***************************************************************************)
(* The locks of the provider's caches, for any number of application and   *)
(* polling tasks, whichever fetches fail and whichever tasks are aborted:  *)
(* who reads the cached experiments together with the cached groups reads  *)
(* what one fetch brought.                                                 *)
(***************************************************************************)
EXTENDS ProviderRefresh, FiniteSetTheorems, SequenceTheorems, TLAPS

-----------------------------------------------------------------------------
(* Sets of numbers, in order *)

\* How many elements of S are below i.
Rank(S, i) == Cardinality({j \in S : j < i})

\* The ranks of a finite set of numbers are the numbers below its cardinality, each
\* once and in order.
LEMMA Ranks ==
  ASSUME NEW S, IsFiniteSet(S), S \subseteq Int
  PROVE  /\ Cardinality(S) \in Nat
         /\ \A i \in S : Rank(S, i) \in 0 .. Cardinality(S) - 1
         /\ \A i, j \in S : i < j => Rank(S, i) < Rank(S, j)
         /\ \A m \in 0 .. Cardinality(S) - 1 : \E i \in S : Rank(S, i) = m
<1> DEFINE below(k) == {j \in S : j < k}
           f == [k \in S |-> Rank(S, k)]
           R == 0 .. (Cardinality(S) - 1)
<1>1. Cardinality(S) \in Nat
  BY FS_CardinalityType
<1>2. ASSUME NEW k \in S
      PROVE  IsFiniteSet(below(k)) /\ Rank(S, k) \in R /\ Rank(S, k) \in Nat
  <2>1. IsFiniteSet(below(k)) /\ Cardinality(below(k)) \in Nat /\ Cardinality(below(k)) <= Cardinality(S)
    BY FS_Subset, FS_CardinalityType
  <2>2. below(k) # S
    OBVIOUS
  <2>3. Cardinality(below(k)) # Cardinality(S)
    BY <2>2, FS_Subset
  <2>4. QED
    BY <1>1, <2>1, <2>3 DEF Rank
<1>3. ASSUME NEW j \in S, NEW k \in S, j < k
      PROVE  Rank(S, j) < Rank(S, k)
  <2>0. j \in Int /\ k \in Int /\ \A x \in S : x \in Int
    OBVIOUS
  <2>1. below(j) \in SUBSET below(k) /\ j \in below(k) /\ j \notin below(j)
    <3>1. ASSUME NEW x \in below(j)
          PROVE  x \in below(k)
      <4>1. x \in S /\ x < j
        OBVIOUS
      <4>2. x < k
        BY <1>3, <2>0, <4>1
      <4>3. QED
        BY <4>1, <4>2
    <3>2. j \in below(k) /\ j \notin below(j)
      BY <1>3, <2>0
    <3>3. QED
      BY <3>1, <3>2
  <2>2. Cardinality(below(j)) <= Cardinality(below(k)) /\ Cardinality(below(j)) # Cardinality(below(k))
    BY <1>2, <2>1, FS_Subset
  <2>3. Cardinality(below(j)) \in Nat /\ Cardinality(below(k)) \in Nat
    BY <1>2 DEF Rank
  <2>4. QED
    BY <2>2, <2>3 DEF Rank
<1>4. f \in Injection(S, R)
  <2>1. f \in [S -> R]
    BY <1>2
  <2>2. \A j, k \in S : f[j] = f[k] => j = k
    <3>1. ASSUME NEW j \in S, NEW k \in S, j < k
          PROVE  f[j] # f[k]
      <4>1. Rank(S, j) < Rank(S, k)
        BY <1>3, <3>1
      <4>2. Rank(S, j) \in Nat /\ Rank(S, k) \in Nat
        BY ONLY <1>2
      <4>3. QED
        BY <4>1, <4>2
    <3>2. QED
      BY <3>1
  <2>3. QED
    BY <2>1, <2>2 DEF Injection, IsInjective
<1>5. IsFiniteSet(R) /\ Cardinality(R) = Cardinality(S)
  BY <1>1, FS_Interval
<1>6. f \in Surjection(S, R)
  BY <1>4, <1>5, FS_Injection
<1>7. ASSUME NEW m \in R
      PROVE  \E i \in S : Rank(S, i) = m
  <2>1. PICK i \in S : f[i] = m
    <3> HIDE DEF f, R
    <3>1. QED
      BY <1>6 DEF Surjection
  <2>2. QED
    BY <2>1
<1>8. QED
  BY <1>1, <1>2, <1>3, <1>7

-----------------------------------------------------------------------------
(* Queues *)

Modes == {"read", "write"}
Entries == [task : Tasks, mode : Modes]

\* The places of q that others than t have.
KeptPlaces(q, t) == {i \in DOMAIN q : q[i].task # t}

\* Dropping the requests of t keeps the others, in their order: what was granted
\* remains granted.
LEMMA OthersFacts ==
  ASSUME NEW q \in Seq(Entries), NEW t
  PROVE  /\ Others(q, t) \in Seq(Entries)
         /\ \A k \in DOMAIN Others(q, t) :
              \E i \in DOMAIN q : q[i].task # t /\ Others(q, t)[k] = q[i]
         /\ \A i \in DOMAIN q : q[i].task # t /\ GrantedAt(q, i) =>
              \E k \in DOMAIN Others(q, t) : Others(q, t)[k] = q[i] /\ GrantedAt(Others(q, t), k)
<1> DEFINE S == KeptPlaces(q, t)
           n == Cardinality(S)
           place(k) == CHOOSE i \in S : Rank(S, i) = k - 1
           o == Others(q, t)
<1>1. o = [k \in 1 .. n |-> q[place(k)]]
  BY DEF Others, KeptPlaces, Rank
<1>2. Len(q) \in Nat /\ DOMAIN q = 1 .. Len(q) /\ S \subseteq 1 .. Len(q)
  BY DEF KeptPlaces
<1>3. IsFiniteSet(S) /\ S \subseteq Int
  <2>1. IsFiniteSet(1 .. Len(q))
    BY <1>2, FS_Interval
  <2>2. QED
    BY <1>2, <2>1, FS_Subset
<1>4. /\ n \in Nat
      /\ \A i \in S : Rank(S, i) \in 0 .. n - 1
      /\ \A i, j \in S : i < j => Rank(S, i) < Rank(S, j)
      /\ \A m \in 0 .. n - 1 : \E i \in S : Rank(S, i) = m
  BY <1>3, Ranks
<1> HIDE DEF n, o
<1>5. ASSUME NEW k \in 1 .. n
      PROVE  place(k) \in S /\ Rank(S, place(k)) = k - 1 /\ o[k] = q[place(k)]
  <2>1. k - 1 \in 0 .. n - 1
    BY <1>4
  <2>2. \E i \in S : Rank(S, i) = k - 1
    BY <1>4, <2>1
  <2>3. place(k) \in S /\ Rank(S, place(k)) = k - 1
    BY <2>2
  <2>4. QED
    BY <1>1, <2>3
<1> HIDE DEF place, S
<1>6. DOMAIN o = 1 .. n
  BY <1>1
<1>7. o \in Seq(Entries)
  <2>1. \A k \in 1 .. n : q[place(k)] \in Entries
    <3>1. \A i \in 1 .. Len(q) : q[i] \in Entries
      BY <1>2
    <3>2. QED
      BY <1>2, <1>5, <3>1
  <2>2. o \in [1 .. n -> Entries]
    BY <1>1, <2>1
  <2>3. QED
    BY <1>4, <2>2
<1>8. \A k \in DOMAIN o : \E i \in DOMAIN q : q[i].task # t /\ o[k] = q[i]
  BY <1>5, <1>6 DEF S, KeptPlaces
<1>9. ASSUME NEW i \in DOMAIN q, q[i].task # t, GrantedAt(q, i)
      PROVE  \E k \in DOMAIN o : o[k] = q[i] /\ GrantedAt(o, k)
  <2>1. i \in S /\ i \in Nat
    BY <1>2, <1>9 DEF S, KeptPlaces
  <2>2. PICK k \in 1 .. n : k = Rank(S, i) + 1 /\ Rank(S, i) \in Nat
    BY <1>4, <2>1
  <2>3. ASSUME NEW j \in 1 .. k
        PROVE  place(j) \in S /\ place(j) <= i /\ o[j] = q[place(j)] /\ (j = k => place(j) = i)
    <3>1. j \in 1 .. n
      BY <1>4
    <3>2. place(j) \in S /\ Rank(S, place(j)) = j - 1 /\ o[j] = q[place(j)]
      BY <1>5, <3>1
    <3>3. place(j) \in Int /\ j \in Int /\ k \in Int /\ j <= k
      <4>1. place(j) \in Int
        BY <1>3, <3>2
      <4>2. QED
        BY <1>4, <4>1
    <3>4. ~(i < place(j))
      <4>1. i < place(j) => Rank(S, i) < Rank(S, place(j))
        BY <1>4, <2>1, <3>2
      <4>2. QED
        BY <2>2, <3>2, <3>3, <4>1
    <3>5. j = k => ~(place(j) < i)
      <4>1. place(j) < i => Rank(S, place(j)) < Rank(S, i)
        BY <1>4, <2>1, <3>2
      <4>2. QED
        BY <2>2, <3>2, <3>3, <4>1
    <3>6. QED
      BY <2>1, <3>2, <3>3, <3>4, <3>5
  <2>4. o[k] = q[i]
    BY <2>2, <2>3
  <2>5. GrantedAt(o, k)
    <3>1. CASE i = 1
      <4>1. {j \in S : j < i} = {}
        <5>1. \A j \in S : j \in Int /\ ~(j < 1)
          BY <1>2
        <5>2. QED
          BY <3>1, <5>1
      <4>2. Rank(S, i) = 0
        BY <4>1, FS_EmptySet DEF Rank
      <4>3. QED
        BY <2>2, <4>2 DEF GrantedAt
    <3>2. CASE \A j \in 1 .. i : q[j].mode = "read"
      <4>1. ASSUME NEW j \in 1 .. k
            PROVE  o[j].mode = "read"
        <5>1. place(j) \in 1 .. i
          BY <1>2, <2>1, <2>3
        <5>2. QED
          BY <2>3, <3>2, <5>1
      <4>2. QED
        BY <4>1 DEF GrantedAt
    <3>3. QED
      BY <1>9, <3>1, <3>2 DEF GrantedAt
  <2>6. QED
    BY <1>6, <2>4, <2>5
<1>10. QED
  BY <1>7, <1>8, <1>9 DEF o
-----------------------------------------------------------------------------
(* Locks *)

Queues == [Locks -> Seq(Entries)]

\* Holds for a queue that is not the current one.
HoldsIn(q, u, l, mode) ==
  \E i \in DOMAIN q[l] : q[l][i] = [task |-> u, mode |-> mode] /\ GrantedAt(q[l], i)

\* A change of the queues by t takes nothing from the others.
Kept(q, r, t) ==
  \A u \in Tasks \ {t}, l \in Locks, m \in Modes : HoldsIn(q, u, l, m) => HoldsIn(r, u, l, m)

\* Experiments are served, so that there are caches for them.
BothClients == "exp" \in Clients

\* The locks.
LEMMA LockNames ==
  ASSUME BothClients
  PROVE  /\ Clients = {"cac", "exp"}
         /\ Caches("cac") = <<"config">> /\ Caches("exp") = <<"experiments", "groups">>
         /\ Len(WriteLocks("cac")) = 2 /\ DOMAIN WriteLocks("cac") = 1 .. 2
         /\ WriteLocks("cac")[1] = "config" /\ WriteLocks("cac")[2] = "cacUpdated"
         /\ Len(WriteLocks("exp")) = 3 /\ DOMAIN WriteLocks("exp") = 1 .. 3
         /\ WriteLocks("exp")[1] = "experiments" /\ WriteLocks("exp")[2] = "groups"
         /\ WriteLocks("exp")[3] = "expUpdated"
         /\ CacheLocks = {"config", "experiments", "groups"}
         /\ Locks = {"config", "experiments", "groups", "cacUpdated", "expUpdated", "cacTask", "expTask"}
<1>1. Clients = {"cac", "exp"}
  BY ClientsAssumption DEF BothClients
<1>2. Caches("cac") = <<"config">> /\ Caches("exp") = <<"experiments", "groups">>
  BY DEF Caches
<1>3. /\ Len(WriteLocks("cac")) = 2 /\ DOMAIN WriteLocks("cac") = 1 .. 2
      /\ WriteLocks("cac")[1] = "config" /\ WriteLocks("cac")[2] = "cacUpdated"
  <2>1. PICK s : s = <<"config">> /\ s \in Seq({"config", "cacUpdated"}) /\ Len(s) = 1 /\ s[1] = "config"
    <3>1. <<"config">> \in Seq({"config", "cacUpdated"})
      OBVIOUS
    <3>2. Len(<<"config">>) = 1 /\ <<"config">>[1] = "config"
      OBVIOUS
    <3>3. QED
      BY <3>1, <3>2
  <2>2. WriteLocks("cac") = Append(s, "cacUpdated")
    BY <1>2, <2>1 DEF WriteLocks, UpdatedLock
  <2>3. QED
    BY <2>1, <2>2
<1>4. /\ Len(WriteLocks("exp")) = 3 /\ DOMAIN WriteLocks("exp") = 1 .. 3
      /\ WriteLocks("exp")[1] = "experiments" /\ WriteLocks("exp")[2] = "groups"
      /\ WriteLocks("exp")[3] = "expUpdated"
  <2>1. PICK s : /\ s = <<"experiments", "groups">>
                 /\ s \in Seq({"experiments", "groups", "expUpdated"}) /\ Len(s) = 2
                 /\ s[1] = "experiments" /\ s[2] = "groups"
    <3>1. <<"experiments", "groups">> \in Seq({"experiments", "groups", "expUpdated"})
      OBVIOUS
    <3>2. /\ Len(<<"experiments", "groups">>) = 2
          /\ <<"experiments", "groups">>[1] = "experiments" /\ <<"experiments", "groups">>[2] = "groups"
      OBVIOUS
    <3>3. QED
      BY <3>1, <3>2
  <2>2. WriteLocks("exp") = Append(s, "expUpdated")
    BY <1>2, <2>1 DEF WriteLocks, UpdatedLock
  <2>3. QED
    BY <2>1, <2>2
<1>5. CacheLocks = {"config", "experiments", "groups"}
  <2>1. {Caches("cac")[i] : i \in DOMAIN Caches("cac")} = {"config"}
    BY <1>2
  <2>2. {Caches("exp")[i] : i \in DOMAIN Caches("exp")} = {"experiments", "groups"}
    <3>1. DOMAIN Caches("exp") = 1 .. 2
      BY <1>2
    <3>2. Caches("exp")[1] = "experiments" /\ Caches("exp")[2] = "groups"
      BY <1>2
    <3>3. \A i \in 1 .. 2 : i = 1 \/ i = 2
      OBVIOUS
    <3>4. QED
      BY <3>1, <3>2, <3>3
  <2>3. CacheLocks = {Caches("cac")[i] : i \in DOMAIN Caches("cac")}
                       \cup {Caches("exp")[i] : i \in DOMAIN Caches("exp")}
    BY <1>1 DEF CacheLocks
  <2>4. QED
    BY <2>1, <2>2, <2>3
<1>6. {UpdatedLock(c) : c \in Clients} = {"cacUpdated", "expUpdated"}
  BY <1>1 DEF UpdatedLock
<1>7. {TaskLock(c) : c \in Clients} = {"cacTask", "expTask"}
  BY <1>1 DEF TaskLock
<1>8. QED
  BY <1>1, <1>2, <1>3, <1>4, <1>5, <1>6, <1>7 DEF Locks

\* A writer has the lock for itself.
LEMMA Exclusive ==
  ASSUME NEW q \in Queues, NEW l \in Locks, NEW t, NEW u, NEW m,
         HoldsIn(q, t, l, "write"), HoldsIn(q, u, l, m)
  PROVE  u = t /\ m = "write"
<1>1. PICK s : s = q[l] /\ s \in Seq(Entries)
  BY DEF Queues
<1>2. PICK i \in DOMAIN s : s[i] = [task |-> t, mode |-> "write"] /\ GrantedAt(s, i)
  BY <1>1 DEF HoldsIn
<1>3. PICK j \in DOMAIN s : s[j] = [task |-> u, mode |-> m] /\ GrantedAt(s, j)
  BY <1>1 DEF HoldsIn
<1>4. i \in Nat /\ j \in Nat /\ 1 <= i /\ 1 <= j
  BY <1>1
<1>5. i = 1
  <2>1. s[i].mode = "write"
    BY <1>2
  <2>2. QED
    BY <1>2, <1>4, <2>1 DEF GrantedAt
<1>6. j = 1
  <2>1. s[1].mode = "write"
    BY <1>2, <1>5
  <2>2. QED
    BY <1>3, <1>4, <2>1 DEF GrantedAt
<1>7. [task |-> t, mode |-> "write"] = [task |-> u, mode |-> m]
  BY <1>2, <1>3, <1>5, <1>6
<1>8. QED
  BY <1>7

\* What is asked for comes last.
LEMMA RequestFacts ==
  ASSUME BothClients, NEW q \in Queues, NEW t \in Tasks, NEW l \in Locks, NEW mode \in Modes
  PROVE  LET r == Request(q, t, l, mode)
         IN  /\ r \in Queues
             /\ Kept(q, r, t)
             /\ \A x \in Locks, m \in Modes : HoldsIn(q, t, x, m) => HoldsIn(r, t, x, m)
<1> DEFINE r == Request(q, t, l, mode)
           e == [task |-> t, mode |-> mode]
<1>1. e \in Entries /\ q[l] \in Seq(Entries)
  BY DEF Entries, Queues
<1>2. r = [q EXCEPT ![l] = Append(q[l], e)]
  BY DEF Request
<1>3. /\ DOMAIN r = Locks /\ r[l] = Append(q[l], e)
      /\ \A x \in Locks \ {l} : r[x] = q[x]
  BY <1>2 DEF Queues
<1>4. r \in Queues
  BY <1>1, <1>2 DEF Queues
<1> HIDE DEF r, e
<1>5. /\ DOMAIN r[l] = 1 .. Len(q[l]) + 1 /\ DOMAIN q[l] = 1 .. Len(q[l]) /\ Len(q[l]) \in Nat
      /\ \A i \in DOMAIN q[l] : r[l][i] = q[l][i]
      /\ r[l][Len(q[l]) + 1] = e
  BY <1>1, <1>3
<1>6. ASSUME NEW u \in Tasks, NEW x \in Locks, NEW m \in Modes, HoldsIn(q, u, x, m)
      PROVE  HoldsIn(r, u, x, m)
  <2>1. CASE x = l
    <3>1. PICK i \in DOMAIN q[l] : q[l][i] = [task |-> u, mode |-> m] /\ GrantedAt(q[l], i)
      BY <1>6, <2>1 DEF HoldsIn
    <3>2. i \in DOMAIN r[l] /\ r[l][i] = q[l][i]
      BY <1>5
    <3>3. \A j \in 1 .. i : j \in DOMAIN q[l]
      BY <1>5
    <3>4. GrantedAt(r[l], i)
      BY <1>5, <3>1, <3>3 DEF GrantedAt
    <3>5. QED
      BY <2>1, <3>1, <3>2, <3>4 DEF HoldsIn
  <2>2. CASE x # l
    BY <1>3, <1>6, <2>2 DEF HoldsIn
  <2>3. QED
    BY <2>1, <2>2
<1>7. Kept(q, r, t)
  BY <1>6 DEF Kept
<1>8. QED
  BY <1>4, <1>6, <1>7 DEF r

\* What is dropped is t's alone.
LEMMA ReleaseFacts ==
  ASSUME BothClients, NEW q \in Queues, NEW t \in Tasks
  PROVE  LET r == Release(q, t)
         IN  r \in Queues /\ Kept(q, r, t)
<1> DEFINE r == Release(q, t)
<1>1. DOMAIN r = Locks /\ \A l \in Locks : r[l] = Others(q[l], t) /\ q[l] \in Seq(Entries)
  BY DEF Release, Queues
<1>2. r \in Queues
  <2>1. r = [l \in Locks |-> r[l]]
    BY DEF Release
  <2>2. \A l \in Locks : r[l] \in Seq(Entries)
    BY <1>1, OthersFacts
  <2>3. QED
    BY <2>1, <2>2 DEF Queues
<1> HIDE DEF r
<1>3. ASSUME NEW u \in Tasks \ {t}, NEW l \in Locks, NEW m \in Modes, HoldsIn(q, u, l, m)
      PROVE  HoldsIn(r, u, l, m)
  <2>1. PICK s : s = q[l] /\ s \in Seq(Entries) /\ r[l] = Others(s, t)
    BY <1>1
  <2>2. PICK i \in DOMAIN s : s[i] = [task |-> u, mode |-> m] /\ GrantedAt(s, i)
    BY <1>3, <2>1 DEF HoldsIn
  <2>3. s[i].task # t
    BY <2>2
  <2>4. PICK k \in DOMAIN Others(s, t) : Others(s, t)[k] = s[i] /\ GrantedAt(Others(s, t), k)
    BY <2>1, <2>2, <2>3, OthersFacts
  <2>5. QED
    BY <2>1, <2>2, <2>4 DEF HoldsIn
<1>4. QED
  BY <1>2, <1>3 DEF r, Kept
-----------------------------------------------------------------------------
(* The invariant *)

Fields == {"op", "client", "pc", "k", "at", "base", "got", "spawned", "awake", "aborted"}

\* A refresh of the experiments that has written the first cache.
Filling(s) == s.pc = "store" /\ s.client = "exp" /\ s.k \in {2, 3}

\* ... and not yet the second.
Between(s) == s.pc = "store" /\ s.client = "exp" /\ s.k = 2

\* Where a task can be.
Control(s) ==
  /\ DOMAIN s = Fields
  /\ s.op = "idle" <=> s.pc = "idle"
  /\ s.pc # "idle" => s.client \in Clients
  /\ s.pc = "got" => s.k = 0
  /\ s.pc = "store" => s.k \in DOMAIN WriteLocks(s.client)

\* A refresh keeps the lock of the experiments.
Locked(s, q, t) == Filling(s) => HoldsIn(q, t, "experiments", "write")

\* The inductive invariant.  While the caches differ a refresh is between them, or
\* one was dropped there.
PairInv ==
  /\ queue \in Queues
  /\ DOMAIN cache = CacheLocks
  /\ DOMAIN task = Tasks
  /\ DOMAIN history = {"closed", "replaced", "torn"}
  /\ \A t \in Tasks : Control(task[t]) /\ Locked(task[t], queue, t)
  /\ \A t \in Tasks : Between(task[t]) => cache["experiments"] = task[t].got
  /\ cache["experiments"] # None /\ cache["experiments"] # cache["groups"] =>
       history.torn \/ \E t \in Tasks : Between(task[t])

\* What a step of another task may do to a task: abort it, or spawn it.
Alike(s, r) ==
  /\ DOMAIN r = DOMAIN s
  /\ r.op = s.op /\ r.client = s.client /\ r.pc = s.pc /\ r.k = s.k /\ r.got = s.got

Untouched(s, r) == Alike(s, r) \/ (s.op = "idle" /\ Control(r) /\ r.pc = "fetch")

\* The others keep what they have.
LEMMA UntouchedFacts ==
  ASSUME NEW s, NEW r, NEW q, NEW p, NEW t, NEW u \in Tasks \ {t}, BothClients,
         Control(s), Locked(s, q, u), Untouched(s, r), Kept(q, p, t)
  PROVE  /\ Control(r) /\ Locked(r, p, u)
         /\ Between(r) => Between(s) /\ r.got = s.got
         /\ Between(s) => Between(r)
<1>1. "experiments" \in Locks /\ "write" \in Modes
  BY LockNames DEF Modes
<1>2. HoldsIn(q, u, "experiments", "write") => HoldsIn(p, u, "experiments", "write")
  BY <1>1 DEF Kept
<1>3. CASE Alike(s, r)
  BY <1>2, <1>3 DEF Alike, Control, Locked, Filling, Between
<1>4. CASE s.op = "idle" /\ Control(r) /\ r.pc = "fetch"
  <2>1. s.pc = "idle"
    BY <1>4 DEF Control
  <2>2. QED
    BY <1>2, <1>4, <2>1 DEF Locked, Filling, Between
<1>5. QED
  BY <1>3, <1>4 DEF Untouched

\* t makes a step that is not one of those that write the caches of the experiments.
Calm(t) ==
  /\ queue' \in Queues /\ Kept(queue, queue', t)
  /\ DOMAIN task' = Tasks /\ \A u \in Tasks \ {t} : Untouched(task[u], task'[u])
  /\ Control(task'[t]) /\ Locked(task'[t], queue', t)

KeepsCaches ==
  /\ DOMAIN cache' = DOMAIN cache
  /\ cache'["experiments"] = cache["experiments"] /\ cache'["groups"] = cache["groups"]
  /\ DOMAIN history' = DOMAIN history /\ (history.torn => history'.torn)

\* Such a step keeps the invariant.
LEMMA CalmPair ==
  ASSUME BothClients, PairInv, NEW t \in Tasks, Calm(t), KeepsCaches,
         ~Between(task'[t]), Between(task[t]) => history'.torn
  PROVE  PairInv'
<1>1. ASSUME NEW u \in Tasks \ {t}
      PROVE  /\ Control(task'[u]) /\ Locked(task'[u], queue', u)
             /\ Between(task'[u]) => Between(task[u]) /\ task'[u].got = task[u].got
             /\ Between(task[u]) => Between(task'[u])
  <2>1. PICK s, r, q, p : s = task[u] /\ r = task'[u] /\ q = queue /\ p = queue'
    OBVIOUS
  <2>2. Control(s) /\ Locked(s, q, u) /\ Untouched(s, r) /\ Kept(q, p, t)
    BY <2>1 DEF PairInv, Calm
  <2>3. /\ Control(r) /\ Locked(r, p, u)
        /\ Between(r) => Between(s) /\ r.got = s.got
        /\ Between(s) => Between(r)
    BY <2>2, UntouchedFacts
  <2>4. QED
    BY <2>1, <2>3
<1>2. \A u \in Tasks : Control(task'[u]) /\ Locked(task'[u], queue', u)
  BY <1>1 DEF Calm
<1>3. \A u \in Tasks : Between(task'[u]) => cache'["experiments"] = task'[u].got
  BY <1>1 DEF PairInv, KeepsCaches
<1>4. ASSUME cache'["experiments"] # None, cache'["experiments"] # cache'["groups"]
      PROVE  history'.torn \/ \E u \in Tasks : Between(task'[u])
  <2>1. history.torn \/ \E u \in Tasks : Between(task[u])
    BY <1>4 DEF PairInv, KeepsCaches
  <2>2. CASE history.torn
    BY <2>2 DEF KeepsCaches
  <2>3. ASSUME NEW u \in Tasks, Between(task[u])
        PROVE  history'.torn \/ \E v \in Tasks : Between(task'[v])
    BY <1>1, <2>3
  <2>4. QED
    BY <2>1, <2>2, <2>3
<1>5. /\ queue' \in Queues /\ DOMAIN cache' = CacheLocks /\ DOMAIN task' = Tasks
      /\ DOMAIN history' = {"closed", "replaced", "torn"}
  BY DEF PairInv, Calm, KeepsCaches
<1>6. (\A u \in Tasks : Control(task[u]) /\ Locked(task[u], queue, u))'
  BY <1>2 DEF Control, Locked, Filling, HoldsIn
<1>7. (\A u \in Tasks : Between(task[u]) => cache["experiments"] = task[u].got)'
  BY <1>3 DEF Between
<1>8. (cache["experiments"] # None /\ cache["experiments"] # cache["groups"] =>
         history.torn \/ \E u \in Tasks : Between(task[u]))'
  BY <1>4 DEF Between
<1>9. QED
  BY <1>5, <1>6, <1>7, <1>8 DEF PairInv
-----------------------------------------------------------------------------
(* The steps *)

\* What a step may do to the queues: nothing, ask for a lock, drop the guards, or both.
QuietQueue(t) ==
  \/ queue' = queue
  \/ \E l \in Locks, m \in Modes : queue' = Request(queue, t, l, m)
  \/ queue' = Release(queue, t)
  \/ \E l \in Locks, m \in Modes : queue' = Request(Release(queue, t), t, l, m)

\* The queues after it.
LEMMA QuietFacts ==
  ASSUME BothClients, PairInv, NEW t \in Tasks, QuietQueue(t)
  PROVE  queue' \in Queues /\ Kept(queue, queue', t)
<1>1. PICK q : q = queue /\ q \in Queues
  BY DEF PairInv
<1>2. CASE queue' = queue
  BY <1>1, <1>2 DEF Kept
<1>3. ASSUME NEW l \in Locks, NEW m \in Modes, queue' = Request(q, t, l, m)
      PROVE  queue' \in Queues /\ Kept(q, queue', t)
  BY <1>1, <1>3, RequestFacts
<1>4. CASE queue' = Release(q, t)
  BY <1>1, <1>4, ReleaseFacts
<1>5. ASSUME NEW l \in Locks, NEW m \in Modes, queue' = Request(Release(q, t), t, l, m)
      PROVE  queue' \in Queues /\ Kept(q, queue', t)
  <2>1. PICK r : r = Release(q, t) /\ r \in Queues /\ Kept(q, r, t)
    BY <1>1, ReleaseFacts
  <2>2. queue' \in Queues /\ Kept(r, queue', t)
    BY <1>5, <2>1, RequestFacts
  <2>3. QED
    BY <2>1, <2>2 DEF Kept
<1>6. QED
  BY <1>1, <1>2, <1>3, <1>4, <1>5 DEF QuietQueue

\* Only t changes.
Alone(t) == DOMAIN task' = Tasks /\ \A u \in Tasks \ {t} : task'[u] = task[u]

\* Most steps are of this kind.
LEMMA QuietPair ==
  ASSUME BothClients, PairInv, NEW t \in Tasks, QuietQueue(t), KeepsCaches,
         DOMAIN task' = Tasks, \A u \in Tasks \ {t} : Untouched(task[u], task'[u]),
         Control(task'[t]), ~Filling(task'[t]),
         Between(task[t]) => history'.torn
  PROVE  PairInv'
<1>1. queue' \in Queues /\ Kept(queue, queue', t)
  BY QuietFacts
<1>2. Calm(t)
  BY <1>1 DEF Calm, Locked
<1>3. ~Between(task'[t])
  BY DEF Between, Filling
<1>4. QED
  BY <1>2, <1>3, CalmPair

\* ... and most of those change no other task.
LEMMA QuietAlone ==
  ASSUME BothClients, PairInv, NEW t \in Tasks, QuietQueue(t), KeepsCaches, Alone(t),
         Control(task'[t]), ~Filling(task'[t]),
         Between(task[t]) => history'.torn
  PROVE  PairInv'
<1>1. DOMAIN task' = Tasks /\ \A u \in Tasks \ {t} : Untouched(task[u], task'[u])
  BY DEF Alone, Untouched, Alike
<1>2. QED
  BY <1>1, QuietPair

\* A task that does not store is not between the caches.
LEMMA NoClaim ==
  ASSUME NEW t \in Tasks, task[t].pc # "store"
  PROVE  ~Between(task[t])
  BY DEF Between

\* The fields of a task.
LEMMA TaskFields ==
  ASSUME PairInv, NEW t \in Tasks
  PROVE  DOMAIN task = Tasks /\ DOMAIN task[t] = Fields /\ Control(task[t])
  BY DEF PairInv, Control

\* An idle task.
LEMMA IdleControl == Control(Idle) /\ Idle.pc = "idle" /\ ~Filling(Idle)
  BY DEF Idle, Control, Fields, Filling

\* The end of a call, and the drop of a task that is suspended.
LEMMA ReturnPair ==
  ASSUME BothClients, PairInv, NEW t \in Tasks, Return(t), KeepsCaches,
         Between(task[t]) => history'.torn
  PROVE  PairInv'
<1>1. queue' = Release(queue, t) /\ task' = [task EXCEPT ![t] = Idle]
  BY DEF Return
<1>2. QuietQueue(t)
  BY <1>1 DEF QuietQueue
<1>3. Alone(t) /\ task'[t] = Idle
  BY <1>1, TaskFields DEF Alone
<1>4. QED
  BY <1>2, <1>3, IdleControl, QuietAlone

\* A task that waits for a lock other than that of the groups.
LEMMA AwaitPair ==
  ASSUME BothClients, PairInv, NEW t \in Tasks, KeepsCaches,
         NEW l \in Locks, NEW m \in Modes, NEW pc, NEW k,
         Await(t, queue, l, m, pc, k),
         task[t].pc # "store", task[t].pc # "idle",
         pc \notin {"idle", "got"}, pc = "store" => k \in DOMAIN WriteLocks(task[t].client) \ {2, 3}
  PROVE  PairInv'
<1>1. /\ queue' = Request(queue, t, l, m)
      /\ \E b : task' = [task EXCEPT ![t].pc = pc, ![t].k = k, ![t].awake = b]
  BY DEF Await
<1>2. QuietQueue(t)
  BY <1>1 DEF QuietQueue
<1>3. Alone(t) /\ task'[t].pc = pc /\ task'[t].k = k /\ task'[t].op = task[t].op
      /\ task'[t].client = task[t].client /\ DOMAIN task'[t] = Fields
  BY <1>1, TaskFields DEF Alone, Fields
<1>4. Control(task'[t]) /\ ~Filling(task'[t])
  BY <1>3, TaskFields DEF Control, Filling
<1>5. QED
  BY <1>2, <1>3, <1>4, NoClaim, QuietAlone

\* The same with the guards dropped first.
LEMMA DropAndAwaitPair ==
  ASSUME BothClients, PairInv, NEW t \in Tasks, KeepsCaches,
         NEW l \in Locks, NEW m \in Modes, NEW pc, NEW k,
         Await(t, Release(queue, t), l, m, pc, k),
         task[t].pc # "store", task[t].pc # "idle",
         pc \notin {"idle", "got", "store"}
  PROVE  PairInv'
<1>1. /\ queue' = Request(Release(queue, t), t, l, m)
      /\ \E b : task' = [task EXCEPT ![t].pc = pc, ![t].k = k, ![t].awake = b]
  BY DEF Await
<1>2. QuietQueue(t)
  BY <1>1 DEF QuietQueue
<1>3. Alone(t) /\ task'[t].pc = pc /\ task'[t].k = k /\ task'[t].op = task[t].op
      /\ task'[t].client = task[t].client /\ DOMAIN task'[t] = Fields
  BY <1>1, TaskFields DEF Alone, Fields
<1>4. Control(task'[t]) /\ ~Filling(task'[t])
  BY <1>3, TaskFields DEF Control, Filling
<1>5. ~Between(task[t])
  BY DEF Between
<1>6. QED
  BY <1>2, <1>3, <1>4, <1>5, QuietAlone

\* What is noted of close and of create_config does not change what was torn.
LEMMA ClosedTorn ==
  ASSUME PairInv, NEW c, NEW b, NEW R
  PROVE  /\ LET h == [history EXCEPT !.closed[c] = b]
             IN  DOMAIN h = DOMAIN history /\ (history.torn => h.torn)
         /\ LET h == [history EXCEPT !.closed[c] = b, !.replaced = R]
             IN  DOMAIN h = DOMAIN history /\ (history.torn => h.torn)
  BY DEF PairInv

\* A call begins.
LEMMA CallPair ==
  ASSUME BothClients, PairInv, NEW t \in Tasks, NewCall(t)
  PROVE  PairInv'
<1>1. ASSUME NEW s, Control(s), ~Filling(s), task' = [task EXCEPT ![t] = s],
             QuietQueue(t), KeepsCaches, task[t].op = "idle"
      PROVE  PairInv'
  <2>1. Alone(t) /\ task'[t] = s
    BY <1>1, TaskFields DEF Alone
  <2>2. task[t].pc = "idle"
    BY <1>1, TaskFields DEF Control
  <2>3. ~Between(task[t])
    BY <2>2 DEF Between
  <2>4. QED
    BY <1>1, <2>1, <2>3, QuietAlone
<1>2. ASSUME NEW c \in Clients, CallCreate(t, c)
      PROVE  PairInv'
  <2>1. /\ task' = [task EXCEPT ![t] = Call("create", c, "fetch")]
        /\ queue' = queue /\ cache' = cache /\ task[t].op = "idle"
        /\ history' = [history EXCEPT !.closed[c] = FALSE]
    BY <1>2 DEF CallCreate
  <2>2. QuietQueue(t) /\ KeepsCaches
    BY <2>1, ClosedTorn DEF QuietQueue, KeepsCaches
  <2>3. Control(Call("create", c, "fetch")) /\ ~Filling(Call("create", c, "fetch"))
    BY DEF Call, Idle, Control, Fields, Filling
  <2>4. QED
    BY <1>1, <2>1, <2>2, <2>3
<1>3. ASSUME NEW op, op # "idle", NEW c \in Clients, NEW l \in Locks, NEW m \in Modes,
             CallFor(t, op, c, l, m)
      PROVE  PairInv'
  <2>1. /\ task' = [task EXCEPT ![t] = Call(op, c, "begin")]
        /\ queue' = Request(queue, t, l, m) /\ cache' = cache /\ history' = history
        /\ task[t].op = "idle"
    BY <1>3 DEF CallFor
  <2>2. QuietQueue(t) /\ KeepsCaches
    BY <2>1 DEF QuietQueue, KeepsCaches
  <2>3. Control(Call(op, c, "begin")) /\ ~Filling(Call(op, c, "begin"))
    BY <1>3 DEF Call, Idle, Control, Fields, Filling
  <2>4. QED
    BY <1>1, <2>1, <2>2, <2>3
<1>4. ASSUME NEW c \in Clients
      PROVE  /\ UpdatedLock(c) \in Locks /\ TaskLock(c) \in Locks
             /\ "config" \in Locks /\ "cac" \in Clients
             /\ "read" \in Modes /\ "write" \in Modes
  BY LockNames DEF UpdatedLock, TaskLock, Modes
<1>5. ASSUME NEW c \in Clients, CallOnDemand(t, c)
      PROVE  PairInv'
  BY <1>3, <1>4, <1>5 DEF CallOnDemand
<1>6. ASSUME NEW c \in Clients, CallClose(t, c)
      PROVE  PairInv'
  BY <1>3, <1>4, <1>6 DEF CallClose
<1>7. ASSUME CallEval(t)
      PROVE  PairInv'
  <2>1. "cac" \in Clients /\ "config" \in Locks /\ "read" \in Modes
    BY LockNames DEF Modes
  <2>2. QED
    BY <1>3, <1>7, <2>1 DEF CallEval
<1>8. ASSUME NEW c \in Clients, CallGet(t, c)
      PROVE  PairInv'
  <2>1. PICK k \in DOMAIN Caches(c) : CallFor(t, "get", c, Caches(c)[k], "read")
    BY <1>8 DEF CallGet
  <2>2. Caches(c)[k] \in Locks
    <3>1. Caches(c)[k] \in CacheLocks
      BY DEF CacheLocks
    <3>2. QED
      BY <3>1 DEF Locks
  <2>3. QED
    BY <1>3, <1>4, <2>1, <2>2
<1>9. QED
  BY <1>2, <1>5, <1>6, <1>7, <1>8 DEF NewCall

\* A fetch answers.
LEMMA FetchOkPair ==
  ASSUME BothClients, PairInv, NEW t \in Tasks, FetchOk(t)
  PROVE  PairInv'
<1>1. /\ task[t].pc = "fetch" /\ queue' = queue /\ cache' = cache /\ history' = history
      /\ \E got : task' = [task EXCEPT ![t].pc = "got", ![t].k = 0, ![t].base = 0, ![t].got = got,
                                       ![t].awake = TRUE]
  BY DEF FetchOk, At
<1>2. ~Between(task[t])
  BY <1>1, NoClaim
<1>3. Alone(t) /\ task'[t].pc = "got" /\ task'[t].k = 0 /\ task'[t].op = task[t].op
      /\ task'[t].client = task[t].client /\ DOMAIN task'[t] = Fields
  BY <1>1, TaskFields DEF Alone, Fields
<1>4. Control(task'[t]) /\ ~Filling(task'[t])
  BY <1>1, <1>3, TaskFields DEF Control, Filling
<1>5. QuietQueue(t) /\ KeepsCaches
  BY <1>1, <1>2 DEF QuietQueue, KeepsCaches
<1>6. QED
  BY <1>2, <1>3, <1>4, <1>5, QuietAlone

\* The first lock of a refresh.
LEMMA BeginStorePair ==
  ASSUME BothClients, PairInv, NEW t \in Tasks, BeginStore(t)
  PROVE  PairInv'
<1>1. /\ task[t].pc = "got" /\ cache' = cache /\ history' = history
      /\ Await(t, queue, WriteLocks(task[t].client)[task[t].k + 1], "write", "store", task[t].k + 1)
  BY DEF BeginStore, At
<1>2. task[t].k = 0 /\ task[t].client \in Clients
  BY <1>1, TaskFields DEF Control
<1>3. Await(t, queue, WriteLocks(task[t].client)[1], "write", "store", 1)
  <2>1. task[t].k + 1 = 1
    BY <1>2
  <2>2. QED
    BY <1>1, <2>1
<1>4. WriteLocks(task[t].client)[1] \in Locks /\ 1 \in DOMAIN WriteLocks(task[t].client) \ {2, 3}
  BY <1>2, LockNames
<1>5. KeepsCaches /\ "write" \in Modes
  BY <1>1 DEF KeepsCaches, Modes
<1>6. QED
  BY <1>1, <1>3, <1>4, <1>5, AwaitPair

\* The caches of the experiments are written with the lock of the experiments held.
LEMMA StorePair ==
  ASSUME BothClients, PairInv, NEW t \in Tasks, Store(t)
  PROVE  PairInv'
<1> DEFINE c == task[t].client
           k == task[t].k
<1>1. /\ task[t].pc = "store" /\ k \in DOMAIN Caches(c)
      /\ HoldsIn(queue, t, WriteLocks(c)[k], "write")
      /\ cache' = [cache EXCEPT ![WriteLocks(c)[k]] = task[t].got]
      /\ queue' = Request(queue, t, WriteLocks(c)[k + 1], "write")
      /\ task' = [task EXCEPT ![t].pc = "store", ![t].k = k + 1,
                              ![t].awake = AtOnce(queue', WriteLocks(c)[k + 1])]
      /\ history' = [history EXCEPT !.torn = history.torn /\ ~HalfStored(t)]
  BY DEF Store, At, Await, Holds, HoldsIn
<1>2. c \in Clients /\ DOMAIN cache = CacheLocks
  BY <1>1, TaskFields DEF Control, PairInv
<1>3. /\ Alone(t) /\ task'[t].pc = "store" /\ task'[t].k = k + 1 /\ task'[t].op = task[t].op
      /\ task'[t].client = c /\ task'[t].got = task[t].got /\ DOMAIN task'[t] = Fields
  BY <1>1, TaskFields DEF Alone, Fields
<1>4. \A u \in Tasks \ {t} : Untouched(task[u], task'[u])
  BY <1>3 DEF Alone, Untouched, Alike
<1>5. "write" \in Modes /\ "experiments" \in Locks
  BY LockNames DEF Modes
<1>6. DOMAIN history' = {"closed", "replaced", "torn"}
  BY <1>1 DEF PairInv
<1>7. CASE c = "cac"
  <2>1. k = 1 /\ WriteLocks(c)[k] = "config" /\ WriteLocks(c)[k + 1] = "cacUpdated"
    <3>1. DOMAIN Caches(c) = 1 .. 1
      BY <1>7, LockNames
    <3>2. k = 1
      BY <1>1, <3>1
    <3>3. QED
      BY <1>7, <3>2, LockNames
  <2>2. KeepsCaches
    <3>1. ~HalfStored(t)
      BY <1>7 DEF HalfStored
    <3>2. DOMAIN history' = DOMAIN history /\ (history.torn => history'.torn)
      BY <1>1, <3>1 DEF PairInv
    <3>3. QED
      BY <1>1, <1>2, <2>1, <3>2, LockNames DEF KeepsCaches
  <2>3. ~Between(task[t])
    BY <1>7 DEF Between
  <2>4. QuietQueue(t)
    <3>1. "cacUpdated" \in Locks
      BY LockNames
    <3>2. QED
      BY <1>1, <1>5, <2>1, <2>3, <3>1 DEF QuietQueue
  <2>5. Control(task'[t]) /\ ~Filling(task'[t])
    <3>1. task'[t].k = 2 /\ 2 \in DOMAIN WriteLocks(c)
      BY <1>3, <1>7, <2>1, LockNames
    <3>2. QED
      BY <1>1, <1>2, <1>3, <1>7, <3>1, TaskFields DEF Control, Filling
  <2>6. QED
    BY <1>3, <2>2, <2>3, <2>4, <2>5, QuietAlone
<1>8. CASE c = "exp" /\ k = 1
  <2>1. /\ WriteLocks(c)[k] = "experiments" /\ WriteLocks(c)[k + 1] = "groups"
        /\ "groups" \in Locks
    BY <1>8, LockNames
  <2>2. HoldsIn(queue, t, "experiments", "write") /\ queue' = Request(queue, t, "groups", "write")
    BY <1>1, <2>1
  <2>3. PICK q : q = queue /\ q \in Queues
    BY DEF PairInv
  <2>4. Between(task'[t]) /\ task'[t].k = 2
    BY <1>3, <1>8, <2>1 DEF Between
  <2>5. queue' \in Queues /\ Kept(queue, queue', t) /\ HoldsIn(queue', t, "experiments", "write")
    BY <1>5, <2>1, <2>2, <2>3, RequestFacts
  <2>6. Control(task'[t]) /\ Locked(task'[t], queue', t)
    <3>1. Control(task'[t])
      BY <1>1, <1>2, <1>3, <1>8, <2>4, LockNames, TaskFields DEF Control
    <3>2. Filling(task'[t])
      BY <2>4 DEF Between, Filling
    <3>3. QED
      BY <1>3, <2>5, <3>1, <3>2 DEF Locked
  <2>7. cache'["experiments"] = task[t].got /\ DOMAIN cache' = CacheLocks
    BY <1>1, <1>2, <2>1, LockNames
  <2>8. Calm(t)
    BY <1>3, <1>4, <2>5, <2>6 DEF Calm, Alone
  <2>9. ASSUME NEW u \in Tasks \ {t}
         PROVE  Control(task'[u]) /\ Locked(task'[u], queue', u) /\ ~Between(task'[u])
    <3>1. PICK s, r, p : s = task[u] /\ r = task'[u] /\ p = queue'
      OBVIOUS
    <3>2. Control(s) /\ Locked(s, q, u) /\ Untouched(s, r) /\ Kept(q, p, t)
      BY <1>4, <2>3, <2>5, <3>1 DEF PairInv
    <3>3. /\ Control(r) /\ Locked(r, p, u)
          /\ Between(r) => Between(s) /\ r.got = s.got
      BY <3>2, UntouchedFacts
    <3>4. ~Between(s)
      <4>1. Between(s) => HoldsIn(q, u, "experiments", "write")
        BY <3>2 DEF Locked, Filling, Between
      <4>2. QED
        BY <1>5, <2>2, <2>3, <4>1, Exclusive
    <3>5. QED
      BY <3>1, <3>3, <3>4
  <2>10. (\A u \in Tasks : Control(task[u]) /\ Locked(task[u], queue, u))'
    <3>1. \A u \in Tasks : Control(task'[u]) /\ Locked(task'[u], queue', u)
      BY <2>6, <2>9
    <3>2. QED
      BY <3>1 DEF Control, Locked, Filling, HoldsIn
  <2>11. (\A u \in Tasks : Between(task[u]) => cache["experiments"] = task[u].got)'
    <3>1. \A u \in Tasks : Between(task'[u]) => cache'["experiments"] = task'[u].got
      BY <1>3, <2>7, <2>9
    <3>2. QED
      BY <3>1 DEF Between
  <2>12. (\E u \in Tasks : Between(task[u]))'
    BY <2>4 DEF Between
  <2>13. QED
    BY <1>3, <1>6, <2>5, <2>7, <2>10, <2>11, <2>12 DEF PairInv, Alone
<1>9. CASE c = "exp" /\ k = 2
  <2>1. /\ WriteLocks(c)[k] = "groups" /\ WriteLocks(c)[k + 1] = "expUpdated"
        /\ "expUpdated" \in Locks /\ "groups" \in Locks
    BY <1>9, LockNames
  <2>2. Between(task[t]) /\ Filling(task[t])
    BY <1>1, <1>9 DEF Between, Filling
  <2>3. HoldsIn(queue, t, "experiments", "write") /\ cache["experiments"] = task[t].got
    BY <2>2 DEF PairInv, Locked
  <2>4. queue' \in Queues /\ Kept(queue, queue', t) /\ HoldsIn(queue', t, "experiments", "write")
    <3>1. queue' = Request(queue, t, "expUpdated", "write") /\ queue \in Queues
      BY <1>1, <2>1 DEF PairInv
    <3>2. QED
      BY <1>5, <2>1, <2>3, <3>1, RequestFacts
  <2>5. cache'["experiments"] = cache["experiments"] /\ cache'["groups"] = task[t].got
        /\ DOMAIN cache' = CacheLocks
    BY <1>1, <1>2, <2>1, LockNames
  <2>6. task'[t].k = 3 /\ Filling(task'[t]) /\ ~Between(task'[t])
    BY <1>3, <1>9 DEF Filling, Between
  <2>7. Control(task'[t]) /\ Locked(task'[t], queue', t)
    <3>1. Control(task'[t])
      BY <1>1, <1>2, <1>3, <1>9, <2>6, LockNames, TaskFields DEF Control
    <3>2. QED
      BY <1>3, <2>4, <2>6, <3>1 DEF Locked
  <2>8. ASSUME NEW u \in Tasks \ {t}
        PROVE  /\ Control(task'[u]) /\ Locked(task'[u], queue', u)
               /\ Between(task'[u]) => cache["experiments"] = task'[u].got
    <3>1. PICK s, r, q, p : s = task[u] /\ r = task'[u] /\ q = queue /\ p = queue'
      OBVIOUS
    <3>2. Control(s) /\ Locked(s, q, u) /\ Untouched(s, r) /\ Kept(q, p, t)
      BY <1>4, <2>4, <3>1 DEF PairInv
    <3>3. /\ Control(r) /\ Locked(r, p, u)
          /\ Between(r) => Between(s) /\ r.got = s.got
      BY <3>2, UntouchedFacts
    <3>4. QED
      BY <3>1, <3>3 DEF PairInv
  <2>9. (\A u \in Tasks : Control(task[u]) /\ Locked(task[u], queue, u))'
    <3>1. \A u \in Tasks : Control(task'[u]) /\ Locked(task'[u], queue', u)
      BY <2>7, <2>8
    <3>2. QED
      BY <3>1 DEF Control, Locked, Filling, HoldsIn
  <2>10. (\A u \in Tasks : Between(task[u]) => cache["experiments"] = task[u].got)'
    <3>1. \A u \in Tasks : Between(task'[u]) => cache'["experiments"] = task'[u].got
      BY <2>5, <2>6, <2>8
    <3>2. QED
      BY <3>1 DEF Between
  <2>11. cache'["experiments"] = cache'["groups"]
    BY <2>3, <2>5
  <2>12. QED
    BY <1>3, <1>6, <2>4, <2>5, <2>9, <2>10, <2>11 DEF PairInv, Alone
<1>10. QED
  <2>1. c = "exp" => DOMAIN Caches(c) = 1 .. 2
    BY LockNames
  <2>2. QED
    BY <1>1, <1>2, <1>7, <1>8, <1>9, <2>1, LockNames
\* The guards are dropped and t goes on without them.
LEMMA DropPair ==
  ASSUME BothClients, PairInv, NEW t \in Tasks, KeepsCaches, queue' = Release(queue, t),
         Alone(t), DOMAIN task'[t] = Fields,
         task'[t].op = task[t].op, task'[t].client = task[t].client,
         task'[t].pc \in {"sleep", "strategy"}, task[t].pc # "idle",
         Between(task[t]) => history'.torn
  PROVE  PairInv'
<1>1. QuietQueue(t)
  BY DEF QuietQueue
<1>2. Control(task'[t]) /\ ~Filling(task'[t])
  BY TaskFields DEF Control, Filling
<1>3. QED
  BY <1>1, <1>2, QuietAlone

\* What follows a refresh.
LEMMA AfterRefreshPair ==
  ASSUME BothClients, PairInv, NEW t \in Tasks, KeepsCaches, AfterRefresh(t), task[t].pc # "idle",
         Between(task[t]) => history'.torn
  PROVE  PairInv'
<1>1. CASE task[t].op = "poll"
  <2>1. /\ queue' = Release(queue, t)
        /\ task' = [task EXCEPT ![t].pc = "sleep", ![t].k = 0, ![t].got = None,
                                ![t].awake = FALSE]
    BY <1>1 DEF AfterRefresh
  <2>2. Alone(t) /\ task'[t].pc = "sleep" /\ task'[t].op = task[t].op
        /\ task'[t].client = task[t].client /\ DOMAIN task'[t] = Fields
    BY <2>1, TaskFields DEF Alone, Fields
  <2>3. QED
    BY <2>1, <2>2, DropPair
<1>2. CASE task[t].op = "onDemand"
  BY <1>2, ReturnPair DEF AfterRefresh
<1>3. CASE task[t].op # "poll" /\ task[t].op # "onDemand"
  <2>1. /\ queue' = Release(queue, t)
        /\ task' = [task EXCEPT ![t].pc = "strategy", ![t].k = 0, ![t].got = None]
    BY <1>3 DEF AfterRefresh
  <2>2. Alone(t) /\ task'[t].pc = "strategy" /\ task'[t].op = task[t].op
        /\ task'[t].client = task[t].client /\ DOMAIN task'[t] = Fields
    BY <2>1, TaskFields DEF Alone, Fields
  <2>3. QED
    BY <2>1, <2>2, DropPair
<1>4. QED
  BY <1>1, <1>2, <1>3

\* The end of a refresh.
LEMMA StampPair ==
  ASSUME BothClients, PairInv, NEW t \in Tasks, Stamp(t)
  PROVE  PairInv'
<1>1. /\ task[t].pc = "store" /\ task[t].k = Len(WriteLocks(task[t].client))
      /\ cache' = cache /\ history' = history /\ AfterRefresh(t)
  BY DEF Stamp, At
<1>2. ~Between(task[t])
  BY <1>1, LockNames DEF Between
<1>3. QED
  BY <1>1, <1>2, AfterRefreshPair DEF KeepsCaches

\* A fetch fails.
LEMMA FetchFailsPair ==
  ASSUME BothClients, PairInv, NEW t \in Tasks, FetchFails(t)
  PROVE  PairInv'
<1>1. /\ task[t].pc = "fetch" /\ cache' = cache /\ history' = history
      /\ \/ PollFails(t)
         \/ OnDemandFails(t)
         \/ CreateFails(t)
  BY DEF FetchFails, At
<1>2. ~Between(task[t]) /\ KeepsCaches /\ task[t].client \in Clients
  BY <1>1, NoClaim, TaskFields DEF KeepsCaches, Control
<1>3. CASE PollFails(t)
  <2>1. task' = [task EXCEPT ![t].pc = "sleep", ![t].base = 0, ![t].awake = FALSE] /\ queue' = queue
    BY <1>3 DEF PollFails
  <2>2. Alone(t) /\ task'[t].pc = "sleep" /\ task'[t].op = task[t].op
        /\ task'[t].client = task[t].client /\ DOMAIN task'[t] = Fields
    BY <2>1, TaskFields DEF Alone, Fields
  <2>3. QuietQueue(t)
    BY <1>2, <2>1 DEF QuietQueue
  <2>4. Control(task'[t]) /\ ~Filling(task'[t])
    BY <1>1, <2>2, TaskFields DEF Control, Filling
  <2>5. QED
    BY <1>2, <2>2, <2>3, <2>4, QuietAlone
<1>4. "read" \in Modes /\ "write" \in Modes /\ "config" \in Locks
      /\ Caches(task[t].client)[1] \in Locks
  BY <1>2, LockNames DEF Modes
<1>5. CASE OnDemandFails(t)
  <2>1. \/ Await(t, queue, Caches(task[t].client)[1], "read", "cached", 0)
        \/ Return(t)
    BY <1>5 DEF OnDemandFails
  <2>2. QED
    BY <1>1, <1>2, <1>4, <2>1, AwaitPair, ReturnPair
<1>6. CASE CreateFails(t)
  <2>1. \/ Await(t, queue, "config", "write", "fallback", 0)
        \/ Return(t)
    BY <1>6 DEF CreateFails
  <2>2. QED
    BY <1>1, <1>2, <1>4, <2>1, AwaitPair, ReturnPair
<1>7. QED
  BY <1>1, <1>3, <1>5, <1>6

\* The fallback is a configuration.
LEMMA UseFallbackPair ==
  ASSUME BothClients, PairInv, NEW t \in Tasks, UseFallback(t) \/ FallbackFails(t)
  PROVE  PairInv'
<1>1. /\ task[t].pc = "fallback" /\ history' = history
      /\ \/ /\ \E f : cache' = [cache EXCEPT !["config"] = f]
            /\ AfterRefresh(t)
         \/ Return(t) /\ cache' = cache
  BY DEF UseFallback, FallbackFails, At
<1>2. KeepsCaches
  BY <1>1, LockNames DEF KeepsCaches, PairInv
<1>3. ~Between(task[t])
  BY <1>1, NoClaim
<1>4. QED
  BY <1>1, <1>2, <1>3, AfterRefreshPair, ReturnPair

\* A polling task is spawned.
LEMMA StartPollingPair ==
  ASSUME BothClients, PairInv, NEW t \in Tasks, StartPolling(t)
  PROVE  PairInv'
<1>1. PICK p \in Pollers :
        /\ task[t].pc = "strategy" /\ task[p].op = "idle" /\ cache' = cache /\ history' = history
        /\ queue' = Request(queue, t, TaskLock(task[t].client), "write")
        /\ task' = [task EXCEPT ![p] = [Call("poll", task[t].client, "fetch") EXCEPT !.at = 0,
                                                                                     !.awake = FALSE],
                                ![t].pc = "adopt", ![t].spawned = p]
  BY DEF StartPolling, At
<1>2. ~Between(task[t]) /\ KeepsCaches /\ task[t].client \in Clients
      /\ task[t].op # "idle"
  BY <1>1, NoClaim, TaskFields DEF KeepsCaches, Control
<1>3. p \in Tasks /\ p # t
  BY <1>1, <1>2 DEF Tasks
<1>4. QuietQueue(t)
  <2>1. TaskLock(task[t].client) \in Locks /\ "write" \in Modes
    BY <1>2, LockNames DEF TaskLock, Modes
  <2>2. QED
    BY <1>1, <1>2, <2>1 DEF QuietQueue
<1>5. PICK s : s = [Call("poll", task[t].client, "fetch") EXCEPT !.at = 0, !.awake = FALSE]
  OBVIOUS
<1>6. Control(s) /\ s.pc = "fetch"
  BY <1>2, <1>5 DEF Call, Idle, Control, Fields
<1>7. /\ DOMAIN task' = Tasks /\ task'[p] = s /\ \A u \in Tasks \ {t, p} : task'[u] = task[u]
      /\ task'[t].pc = "adopt" /\ task'[t].op = task[t].op
      /\ task'[t].client = task[t].client /\ DOMAIN task'[t] = Fields
  BY <1>1, <1>3, <1>5, TaskFields DEF Fields
<1>8. \A u \in Tasks \ {t} : Untouched(task[u], task'[u])
  BY <1>1, <1>6, <1>7 DEF Untouched, Alike
<1>9. Control(task'[t]) /\ ~Filling(task'[t])
  BY <1>1, <1>7, TaskFields DEF Control, Filling
<1>10. QED
  BY <1>2, <1>4, <1>7, <1>8, <1>9, QuietPair

\* Steps that only end a call.
LEMMA EndPair ==
  ASSUME BothClients, PairInv, NEW t \in Tasks,
         AdoptTask(t) \/ StartOnDemand(t) \/ ReturnCached(t) \/ GetCached(t) \/ Evaluate(t)
  PROVE  PairInv'
<1>1. Return(t) /\ cache' = cache /\ ~Between(task[t])
  BY DEF AdoptTask, StartOnDemand, ReturnCached, GetCached, Evaluate, At, Between
<1>2. \/ history' = history
      \/ \E c : history' = [history EXCEPT !.closed[c] = FALSE]
      \/ \E c, R : history' = [history EXCEPT !.closed[c] = FALSE, !.replaced = R]
  BY DEF AdoptTask, StartOnDemand, ReturnCached, GetCached, Evaluate
<1>3. DOMAIN history' = DOMAIN history /\ (history.torn => history'.torn)
  BY <1>2, ClosedTorn
<1>4. QED
  BY <1>1, <1>3, ReturnPair DEF KeepsCaches

\* A task that is dropped between the caches leaves them torn.
LEMMA CancelPair ==
  ASSUME BothClients, PairInv, NEW t \in Tasks, Cancel(t)
  PROVE  PairInv'
<1>1. /\ Return(t) /\ cache' = cache
      /\ history' = [history EXCEPT !.torn = history.torn \/ HalfStored(t)]
  BY DEF Cancel
<1>2. /\ DOMAIN history' = DOMAIN history /\ (history.torn => history'.torn)
      /\ HalfStored(t) => history'.torn
  BY <1>1 DEF PairInv
<1>3. Between(task[t]) => history'.torn
  BY <1>2 DEF Between, HalfStored
<1>4. QED
  BY <1>1, <1>2, <1>3, ReturnPair DEF KeepsCaches

\* The polling task fetches again.
LEMMA PollPair ==
  ASSUME BothClients, PairInv, NEW t \in Tasks, Poll(t)
  PROVE  PairInv'
<1>1. /\ task[t].pc = "sleep" /\ queue' = queue /\ cache' = cache /\ history' = history
      /\ task' = [task EXCEPT ![t].pc = "fetch", ![t].base = version[task[t].client]]
  BY DEF Poll, At
<1>2. ~Between(task[t]) /\ KeepsCaches
  BY <1>1, NoClaim DEF KeepsCaches
<1>3. Alone(t) /\ task'[t].pc = "fetch" /\ task'[t].op = task[t].op
      /\ task'[t].client = task[t].client /\ DOMAIN task'[t] = Fields
  BY <1>1, TaskFields DEF Alone, Fields
<1>4. Control(task'[t]) /\ ~Filling(task'[t])
  BY <1>1, <1>3, TaskFields DEF Control, Filling
<1>5. QuietQueue(t)
  BY <1>1, <1>2 DEF QuietQueue
<1>6. QED
  BY <1>2, <1>3, <1>4, <1>5, QuietAlone

\* The time to live.
LEMMA CheckTtlPair ==
  ASSUME BothClients, PairInv, NEW t \in Tasks, CheckTtl(t)
  PROVE  PairInv'
<1>1. /\ task[t].pc = "begin" /\ cache' = cache /\ history' = history
      /\ \/ /\ task' = [task EXCEPT ![t].pc = "fetch", ![t].base = version[task[t].client]]
            /\ queue' = queue
         \/ Await(t, queue, Caches(task[t].client)[1], "read", "cached", 0)
  BY DEF CheckTtl, At
<1>2. ~Between(task[t]) /\ KeepsCaches /\ task[t].client \in Clients
  BY <1>1, NoClaim, TaskFields DEF KeepsCaches, Control
<1>3. CASE /\ task' = [task EXCEPT ![t].pc = "fetch", ![t].base = version[task[t].client]]
           /\ queue' = queue
  <2>1. Alone(t) /\ task'[t].pc = "fetch" /\ task'[t].op = task[t].op
        /\ task'[t].client = task[t].client /\ DOMAIN task'[t] = Fields
    BY <1>3, TaskFields DEF Alone, Fields
  <2>2. Control(task'[t]) /\ ~Filling(task'[t])
    BY <1>1, <2>1, TaskFields DEF Control, Filling
  <2>3. QuietQueue(t)
    BY <1>2, <1>3 DEF QuietQueue
  <2>4. QED
    BY <1>2, <2>1, <2>2, <2>3, QuietAlone
<1>4. CASE Await(t, queue, Caches(task[t].client)[1], "read", "cached", 0)
  <2>1. "read" \in Modes /\ Caches(task[t].client)[1] \in Locks
    BY <1>2, LockNames DEF Modes
  <2>2. QED
    BY <1>1, <1>2, <1>4, <2>1, AwaitPair
<1>5. QED
  BY <1>1, <1>3, <1>4
\* close aborts the polling task, wherever it is.
LEMMA StopPollingPair ==
  ASSUME BothClients, PairInv, NEW t \in Tasks, StopPolling(t)
  PROVE  PairInv'
<1>1. PICK h, o :
        /\ task[t].pc = "begin" /\ cache' = cache /\ history' = history
        /\ queue' = Request(queue, t, Caches(task[t].client)[1], "write")
        /\ o = task \/ o = [task EXCEPT ![h].aborted = TRUE]
        /\ task' = [o EXCEPT ![t].pc = "clear"]
  BY DEF StopPolling, At, Abort
<1>2. ~Between(task[t]) /\ KeepsCaches /\ task[t].client \in Clients
  BY <1>1, NoClaim, TaskFields DEF KeepsCaches, Control
<1>3. QuietQueue(t)
  <2>1. Caches(task[t].client)[1] \in Locks /\ "write" \in Modes
    BY <1>2, LockNames DEF Modes
  <2>2. QED
    BY <1>1, <1>2, <2>1 DEF QuietQueue
<1>4. DOMAIN o = Tasks /\ \A u \in Tasks : Alike(task[u], o[u])
  <2>1. CASE o = task
    BY <2>1, TaskFields DEF Alike
  <2>2. CASE o = [task EXCEPT ![h].aborted = TRUE]
    <3>1. DOMAIN o = Tasks /\ \A u \in Tasks \ {h} : o[u] = task[u]
      BY <2>2, TaskFields
    <3>2. h \in Tasks => Alike(task[h], o[h])
      BY <2>2, TaskFields DEF Alike, Fields
    <3>3. QED
      BY <3>1, <3>2 DEF Alike
  <2>3. QED
    BY <1>1, <2>1, <2>2
<1>5. /\ DOMAIN task' = Tasks /\ \A u \in Tasks \ {t} : task'[u] = o[u]
      /\ task'[t] = [o[t] EXCEPT !.pc = "clear"]
  BY <1>1, <1>4
<1>6. \A u \in Tasks \ {t} : Untouched(task[u], task'[u])
  BY <1>4, <1>5 DEF Untouched
<1>7. DOMAIN o[t] = Fields /\ o[t].op = task[t].op /\ o[t].client = task[t].client
  BY <1>4, TaskFields DEF Alike
<1>8. task'[t].pc = "clear" /\ task'[t].op = task[t].op
      /\ task'[t].client = task[t].client /\ DOMAIN task'[t] = Fields
  BY <1>5, <1>7 DEF Fields
<1>9. Control(task'[t]) /\ ~Filling(task'[t])
  BY <1>1, <1>8, TaskFields DEF Control, Filling
<1>10. QED
  BY <1>2, <1>3, <1>5, <1>6, <1>8, <1>9, QuietPair

\* close empties the first cache under its lock: nobody is between the two.
LEMMA ClearCachesPair ==
  ASSUME BothClients, PairInv, NEW t \in Tasks, ClearCaches(t)
  PROVE  PairInv'
<1>1. /\ task[t].pc = "clear" /\ HoldsIn(queue, t, Caches(task[t].client)[1], "write")
      /\ cache' = [cache EXCEPT ![Caches(task[t].client)[1]] = None] /\ Return(t)
      /\ history' = [history EXCEPT !.closed[task[t].client] = TRUE,
                                    !.torn = history.torn /\ task[t].client # "exp"]
  BY DEF ClearCaches, At, Holds, HoldsIn
<1>2. ~Between(task[t]) /\ task[t].client \in Clients /\ DOMAIN cache = CacheLocks
  BY <1>1, NoClaim, TaskFields DEF Control, PairInv
<1>3. CASE task[t].client = "cac"
  <2>1. Caches(task[t].client)[1] = "config"
    BY <1>3, LockNames
  <2>2. KeepsCaches
    <3>1. DOMAIN history' = DOMAIN history /\ (history.torn => history'.torn)
      BY <1>1, <1>3 DEF PairInv
    <3>2. QED
      BY <1>1, <1>2, <2>1, <3>1, LockNames DEF KeepsCaches
  <2>3. QED
    BY <1>1, <1>2, <2>2, ReturnPair
<1>4. CASE task[t].client = "exp"
  <2>1. Caches(task[t].client)[1] = "experiments" /\ "experiments" \in Locks
    BY <1>4, LockNames
  <2>2. HoldsIn(queue, t, "experiments", "write") /\ queue \in Queues
    BY <1>1, <2>1 DEF PairInv
  <2>3. queue' = Release(queue, t) /\ task' = [task EXCEPT ![t] = Idle]
    BY <1>1 DEF Return
  <2>4. QuietQueue(t)
    BY <2>3 DEF QuietQueue
  <2>5. queue' \in Queues /\ Kept(queue, queue', t)
    BY <2>4, QuietFacts
  <2>6. DOMAIN task' = Tasks /\ task'[t] = Idle /\ \A u \in Tasks \ {t} : task'[u] = task[u]
    BY <2>3, TaskFields
  <2>7. Control(task'[t]) /\ Locked(task'[t], queue', t) /\ ~Between(task'[t])
    BY <2>5, <2>6, IdleControl DEF Locked, Between
  <2>8. ASSUME NEW u \in Tasks \ {t}
        PROVE  Control(task'[u]) /\ Locked(task'[u], queue', u) /\ ~Between(task'[u])
    <3>1. PICK s, r, q, p : s = task[u] /\ r = task'[u] /\ q = queue /\ p = queue'
      OBVIOUS
    <3>2. Control(s) /\ Locked(s, q, u) /\ Untouched(s, r) /\ Kept(q, p, t)
      BY <2>5, <2>6, <3>1 DEF PairInv, Untouched, Alike
    <3>3. /\ Control(r) /\ Locked(r, p, u)
          /\ Between(r) => Between(s) /\ r.got = s.got
      BY <3>2, UntouchedFacts
    <3>4. ~Between(s)
      <4>1. Between(s) => HoldsIn(q, u, "experiments", "write")
        BY <3>2 DEF Locked, Filling, Between
      <4>2. QED
        BY <2>1, <2>2, <3>1, <4>1, Exclusive
    <3>5. QED
      BY <3>1, <3>3, <3>4
  <2>9. (\A u \in Tasks : Control(task[u]) /\ Locked(task[u], queue, u))'
    <3>1. \A u \in Tasks : Control(task'[u]) /\ Locked(task'[u], queue', u)
      BY <2>7, <2>8
    <3>2. QED
      BY <3>1 DEF Control, Locked, Filling, HoldsIn
  <2>10. (\A u \in Tasks : Between(task[u]) => cache["experiments"] = task[u].got)'
    <3>1. \A u \in Tasks : ~Between(task'[u])
      BY <2>7, <2>8
    <3>2. QED
      BY <3>1 DEF Between
  <2>11. cache'["experiments"] = None /\ DOMAIN cache' = CacheLocks
    BY <1>1, <1>2, <2>1, LockNames
  <2>12. DOMAIN history' = {"closed", "replaced", "torn"}
    BY <1>1 DEF PairInv
  <2>13. QED
    BY <2>5, <2>6, <2>9, <2>10, <2>11, <2>12 DEF PairInv
<1>5. QED
  BY <1>2, <1>3, <1>4, LockNames

\* The evaluation.
LEMMA EvalPair ==
  ASSUME BothClients, PairInv, NEW t \in Tasks, ReadDimensions(t) \/ ReadFirst(t) \/ ReadSecond(t)
  PROVE  PairInv'
<1>1. "read" \in Modes /\ {"config", "experiments"} \subseteq Locks /\ "groups" \in Locks
  BY LockNames DEF Modes
<1>2. ReadOrder[1] = "experiments" /\ ReadOrder[2] = "groups"
  BY DEF ReadOrder
<1>3. CASE ReadDimensions(t)
  <2>1. /\ task[t].pc = "begin" /\ KeepsCaches
        /\ \/ Await(t, Release(queue, t), "experiments", "read", "first", 0)
           \/ Await(t, Release(queue, t), "config", "read", "evaluate", 0)
    BY <1>2, <1>3 DEF ReadDimensions, At, KeepsCaches
  <2>2. QED
    BY <1>1, <2>1, DropAndAwaitPair
<1>4. CASE ReadFirst(t)
  <2>1. /\ task[t].pc = "first" /\ cache' = cache /\ history' = history
        /\ HoldsIn(queue, t, "experiments", "read")
        /\ queue' = Request(queue, t, "groups", "read")
        /\ \E b : task' = [task EXCEPT ![t].pc = "second", ![t].k = 0, ![t].awake = b]
    BY <1>2, <1>4 DEF ReadFirst, At, Await, Holds, HoldsIn
  <2>2. Alone(t) /\ task'[t].pc = "second" /\ task'[t].op = task[t].op
        /\ task'[t].client = task[t].client /\ DOMAIN task'[t] = Fields
    BY <2>1, TaskFields DEF Alone, Fields
  <2>3. queue' \in Queues /\ Kept(queue, queue', t) /\ HoldsIn(queue', t, "experiments", "read")
    <3>1. queue \in Queues
      BY DEF PairInv
    <3>2. QED
      BY <1>1, <2>1, <3>1, RequestFacts
  <2>4. Control(task'[t]) /\ Locked(task'[t], queue', t) /\ ~Between(task'[t])
    BY <2>1, <2>2, <2>3, TaskFields DEF Control, Locked, Filling, Between
  <2>5. Calm(t)
    BY <2>2, <2>3, <2>4 DEF Calm, Alone, Untouched, Alike
  <2>6. QED
    BY <2>1, <2>4, <2>5, NoClaim, CalmPair DEF KeepsCaches
<1>5. CASE ReadSecond(t)
  <2>1. /\ task[t].pc = "second" /\ KeepsCaches
        /\ \/ Return(t)
           \/ Await(t, Release(queue, t), "config", "read", "evaluate", 0)
    BY <1>5 DEF ReadSecond, At, KeepsCaches
  <2>2. ~Between(task[t])
    BY <2>1 DEF Between
  <2>3. QED
    BY <1>1, <2>1, <2>2, ReturnPair, DropAndAwaitPair
<1>6. QED
  BY <1>3, <1>4, <1>5

\* A new provider.
LEMMA PairInit == ASSUME BothClients PROVE Init => PairInv
<1> SUFFICES ASSUME Init
             PROVE  PairInv
  OBVIOUS
<1>1. /\ cache = [l \in CacheLocks |-> None] /\ queue = [l \in Locks |-> <<>>]
      /\ task = [t \in Tasks |-> Idle]
      /\ DOMAIN history = {"closed", "replaced", "torn"}
  BY DEF Init
<1>2. <<>> \in Seq(Entries) /\ DOMAIN <<>> = {}
  OBVIOUS
<1>3. queue \in Queues /\ queue["groups"] = <<>>
  BY <1>1, <1>2, LockNames DEF Queues
<1>4. \A t \in Tasks : Control(task[t]) /\ Locked(task[t], queue, t) /\ ~Between(task[t])
  BY <1>1, <1>2, <1>3, IdleControl DEF Locked, Between
<1>5. cache["experiments"] = None
  BY <1>1, LockNames
<1>6. QED
  BY <1>1, <1>3, <1>4, <1>5 DEF PairInv

\* Every step.
LEMMA PairNext == ASSUME BothClients PROVE PairInv /\ [Next]_vars => PairInv'
<1> SUFFICES ASSUME PairInv, [Next]_vars
             PROVE  PairInv'
  OBVIOUS
<1>1. ASSUME UNCHANGED <<cache, queue, task, history>>
      PROVE  PairInv'
  BY <1>1 DEF PairInv, Control, Locked, Filling, Between, HoldsIn
<1>2. CASE Tick
  BY <1>1, <1>2 DEF Tick
<1>3. ASSUME NEW c \in Clients, Change(c)
      PROVE  PairInv'
  BY <1>1, <1>3 DEF Change
<1>4. ASSUME NEW t \in Callers, NewCall(t)
      PROVE  PairInv'
  BY <1>4, CallPair DEF Tasks
<1>5. ASSUME NEW t \in Tasks, Step(t)
      PROVE  PairInv'
  BY <1>5, FetchOkPair, FetchFailsPair, BeginStorePair, StorePair, StampPair, UseFallbackPair,
     StartPollingPair, EndPair, CancelPair, PollPair, CheckTtlPair, StopPollingPair, ClearCachesPair, EvalPair
     DEF Step
<1>6. CASE UNCHANGED vars
  BY <1>1, <1>6 DEF vars
<1>7. QED
  BY <1>2, <1>3, <1>4, <1>5, <1>6 DEF Next

\* However many tasks evaluate, refresh, poll, read one cache and close, a task with the
\* read guards of both caches sees experiments and groups of one fetch, unless a polling
\* task was aborted between the two caches and neither was written or emptied since.
THEOREM SnapshotPairedCorrect == ASSUME BothClients PROVE FairSpec => []SnapshotPaired
<1>1. PairInv => SnapshotPaired
  <2> SUFFICES ASSUME PairInv, NEW t \in Callers, Holds(t, "experiments", "read"),
                      cache["experiments"] # None, ~history.torn,
                      cache["experiments"] # cache["groups"]
               PROVE  FALSE
    BY DEF SnapshotPaired
  <2>1. PICK u \in Tasks : Between(task[u])
    BY DEF PairInv
  <2>2. HoldsIn(queue, u, "experiments", "write") /\ HoldsIn(queue, t, "experiments", "read")
    BY <2>1 DEF PairInv, Locked, Filling, Between, Holds, HoldsIn
  <2>3. "experiments" \in Locks /\ queue \in Queues
    BY LockNames DEF PairInv
  <2>4. "read" = "write"
    BY <2>2, <2>3, Exclusive
  <2>5. QED
    BY <2>4
<1>2. QED
  BY <1>1, PairInit, PairNext, PTL DEF FairSpec
=============================================================================
