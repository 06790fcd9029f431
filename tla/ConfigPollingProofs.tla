------------------------ MODULE ConfigPollingProofs -------------------------
(***************************************************************************)
(* The client of the configuration, for any number of requests that the    *)
(* service handles at once, and the requests one at a time: the copy in    *)
(* Redis, and the abstract store that their transactions implement.        *)
(***************************************************************************)
EXTENDS ConfigPolling, WellFoundedInduction, TLAPS

(***************************************************************************)
(* The shapes of the records.                                              *)
(***************************************************************************)
ClientType ==
  client = [config |-> client.config, last_modified |-> client.last_modified,
            version |-> client.version]

PollType ==
  /\ poll = [phase |-> poll.phase, created |-> poll.created, config |-> poll.config,
             version |-> poll.version]
  /\ poll.phase \in {"idle", "asked", "answered", "received"}

-----------------------------------------------------------------------------
(* The cache *)

\* A thread that reads keeps the configuration it read, and no update is halfway
\* while one reads: an older result cannot reach the cache after Invalidate.
CacheInv ==
  /\ ClientType
  /\ PollType
  /\ reader # None => reader = client.config
  /\ poll.phase = "received" => reader = None
  /\ CacheFresh

\* Every step of the client keeps the invariant.
LEMMA ClientCacheInv == CacheInv /\ ClientStep => CacheInv'
<1> SUFFICES ASSUME CacheInv, ClientStep
             PROVE  CacheInv'
  OBVIOUS
<1> USE DEF CacheInv, ClientType, PollType, CacheFresh
<1>1. CASE Skip
  BY <1>1 DEF Skip, pollingVars, clientVars
<1>2. CASE Ask
  BY <1>2 DEF Ask, Idle
<1>3. CASE Answer
  <2>1. poll' = [phase |-> "answered", created |-> poll.created, config |-> latest.config,
                 version |-> latest.created]
    BY <1>3 DEF Answer
  <2>2. QED
    BY <2>1, <1>3 DEF Answer
<1>4. CASE PollFails
  BY <1>4 DEF PollFails, Idle
<1>5. CASE Receive
  BY <1>5 DEF Receive
<1>6. CASE Invalidate
  BY <1>6 DEF Invalidate, Idle
<1>7. CASE ResolveStart
  BY <1>7 DEF ResolveStart
<1>8. CASE ResolveEnd
  BY <1>8 DEF ResolveEnd
<1>9. QED
  BY <1>1, <1>2, <1>3, <1>4, <1>5, <1>6, <1>7, <1>8 DEF ClientStep

\* A cached result was evaluated from the configuration the client has, unless an
\* update is just replacing it, whatever the service does meanwhile.
THEOREM CacheFreshCorrect == PollingSpec => []CacheFresh
<1>1. PollingInit => CacheInv
  BY DEF PollingInit, CacheInv, ClientType, PollType, CacheFresh, Idle
<1>2. CacheInv /\ [PollingNext]_pollingVars => CacheInv'
  <2> SUFFICES ASSUME CacheInv, [PollingNext]_pollingVars
               PROVE  CacheInv'
    OBVIOUS
  <2>1. CASE ClientStep
    BY <2>1, ClientCacheInv
  <2>2. CASE UNCHANGED clientVars
    BY <2>2 DEF clientVars, CacheInv, ClientType, PollType, CacheFresh
  <2>3. QED
    BY <2>1, <2>2 DEF PollingNext, pollingVars
<1>3. CacheInv => CacheFresh
  BY DEF CacheInv
<1>4. QED
  BY <1>1, <1>2, <1>3, PTL DEF PollingSpec

-----------------------------------------------------------------------------
(* The requests of the service *)

Fields == {"ops", "todo", "phase", "writes", "merged", "config", "created"}

Phases == {"operations", "merge", "snapshot", "commit", "publish", "setConfig", "setVersion"}

IsRequest(r) == DOMAIN r = Fields /\ r.phase \in Phases /\ r.created \in Nat

RequestsType ==
  /\ DOMAIN requests = Workers
  /\ \A w \in Workers : requests[w] # None => IsRequest(requests[w])
  /\ clock \in Nat
  /\ latest.created \in Nat

\* A statement that writes changes its row in what the request sees, and leaves
\* the request in the phase of operations.
LEMMA WriteEffect ==
  ASSUME RequestsType, NEW w \in Workers, requests[w] # None,
         NEW value, NEW next, Write(w, value, next)
  PROVE  /\ RequestsType'
         /\ requests'[w].writes = Over([x \in {Statement(w).row} |-> value], requests[w].writes)
         /\ requests'[w].todo = next \o Tail(requests[w].todo)
         /\ requests'[w].phase = "operations"
         /\ requests'[w].ops = requests[w].ops
         /\ UNCHANGED storeVars
  BY DEF RequestsType, IsRequest, Write, Fields, Phases, storeVars

\* The request of a worker goes from phase to phase; the others stay as they are.
LEMMA StepType == ASSUME RequestsType, NEW w \in Workers, Step(w) PROVE RequestsType'
<1> USE DEF Fields, Phases
<1>1. CASE Refuse(w)
  BY <1>1 DEF Refuse, Abort, storeVars, RequestsType
<1>2. ASSUME NEW value, NEW next, Operating(w), Write(w, value, next)
      PROVE  RequestsType'
  BY <1>2, WriteEffect DEF Operating
<1>3. CASE Upsert(w)
  <2>1. CASE Statement(w).row \in DOMAIN View(w)
    BY <1>3, <2>1 DEF Upsert, Ready, Operating, storeVars, RequestsType, IsRequest
  <2>2. CASE Statement(w).row \notin DOMAIN View(w)
    BY <1>3, <2>2, <1>2 DEF Upsert, Ready
  <2>3. QED
    BY <2>1, <2>2
<1>4. CASE MergeWrite(w) \/ Replace(w) \/ Move(w) \/ Remove(w) \/ SetDefault(w)
  BY <1>4, <1>2 DEF MergeWrite, Replace, Move, Remove, SetDefault, Ready
<1>5. CASE SnapshotContexts(w)
  BY <1>5 DEF SnapshotContexts, InPhase, storeVars, RequestsType, IsRequest
<1>6. CASE SnapshotDefaults(w)
  BY <1>6 DEF SnapshotDefaults, InPhase, RequestsType, IsRequest
<1>7. CASE Commit(w)
  <2>1. latest'.created \in Nat /\ clock' \in Nat
    BY <1>7 DEF Commit, InPhase, RequestsType, IsRequest
  <2>2. CASE HighPerformance
    BY <1>7, <2>1, <2>2 DEF Commit, InPhase, RequestsType, IsRequest
  <2>3. CASE ~HighPerformance
    BY <1>7, <2>1, <2>3 DEF Commit, InPhase, RequestsType, IsRequest
  <2>4. QED
    BY <2>2, <2>3
<1>8. CASE GenerateForRedis(w)
  BY <1>8 DEF GenerateForRedis, InPhase, storeVars, RequestsType, IsRequest
<1>9. CASE SetRedisConfig(w)
  BY <1>9 DEF SetRedisConfig, InPhase, RequestsType, IsRequest
<1>10. CASE GenerateFails(w) \/ SetRedisVersion(w)
  BY <1>10 DEF GenerateFails, SetRedisVersion, InPhase, RequestsType, IsRequest
<1>11. QED
  BY <1>1, <1>3, <1>4, <1>5, <1>6, <1>7, <1>8, <1>9, <1>10 DEF Step

\* A new request starts without writes.
LEMMA BeginEffect ==
  ASSUME RequestsType, NEW w \in Workers, NEW ops, Begin(w, ops)
  PROVE  /\ RequestsType'
         /\ requests'[w].ops = ops
         /\ requests'[w].todo = ops
         /\ requests'[w].phase = "operations"
         /\ requests'[w].writes = NoRows
         /\ UNCHANGED storeVars
  BY DEF RequestsType, IsRequest, Begin, Fields, Phases, storeVars

\* The newest version is replaced by a newer one only.
LEMMA LatestGrows ==
  ASSUME RequestsType, Next
  PROVE  RequestsType' /\ (latest' = latest \/ latest'.created > latest.created)
<1>1. ASSUME NEW w \in Workers, NEW ops, Begin(w, ops)
      PROVE  RequestsType' /\ latest' = latest
  BY <1>1, BeginEffect DEF storeVars
<1>2. ASSUME NEW w \in Workers, Step(w)
      PROVE  latest' = latest \/ latest'.created > latest.created
  <2>1. CASE Commit(w)
    BY <2>1 DEF Commit
  <2>2. CASE ~Commit(w)
    BY <1>2, <2>2 DEF Step, Refuse, Abort, Upsert, MergeWrite, Replace, Move, Remove, SetDefault,
         Write, SnapshotContexts, SnapshotDefaults, GenerateForRedis, GenerateFails,
         SetRedisConfig, SetRedisVersion, storeVars
  <2>3. QED
    BY <2>1, <2>2
<1>3. QED
  BY <1>1, <1>2, StepType DEF Next

-----------------------------------------------------------------------------
(* Polls that are skipped *)

\* Times keep their order when what is below a second is dropped.
LEMMA SecondMonotone ==
  ASSUME NEW s \in Nat, NEW t \in Nat, s <= t
  PROVE  Second(s) \in Nat /\ Second(t) \in Nat /\ Second(s) <= Second(t)
<1> DEFINE n == TicksPerSecond
           a == s \div n
           b == t \div n
<1>1. n \in Nat /\ n > 0
  BY TicksAssumption
<1>2. /\ a \in Nat /\ b \in Nat
      /\ s = n * a + (s % n) /\ t = n * b + (t % n)
      /\ s % n \in 0 .. (n - 1) /\ t % n \in 0 .. (n - 1)
  BY <1>1
<1>3. ASSUME a > b
      PROVE  FALSE
  <2>1. a - b \in Nat /\ a - b >= 1
    BY <1>2, <1>3
  <2>2. n * a = n * b + n * (a - b) /\ n * (a - b) >= n
    BY <1>1, <1>2, <2>1
  <2>3. n * a \in Nat /\ n * b \in Nat /\ n * (a - b) \in Nat
    BY <1>1, <1>2, <2>1
  <2>4. QED
    BY <1>1, <1>2, <2>2, <2>3
<1>4. QED
  BY <1>2, <1>3 DEF Second

\* The time the client keeps is that of a version which was newest before it
\* read the configuration.  So the version it has is at least as new as its time.
SkipInv ==
  /\ RequestsType
  /\ ClientType
  /\ PollType
  /\ client.version \in Nat /\ client.version <= latest.created
  /\ client.version = latest.created => client.config = latest.config
  /\ client.last_modified \in Nat
  /\ poll.phase # "received" => client.last_modified <= Second(client.version)
  /\ poll.phase # "idle" => poll.created \in Nat /\ poll.created <= latest.created
  /\ poll.phase \in {"answered", "received"} =>
       /\ poll.version \in Nat /\ poll.created <= poll.version /\ poll.version <= latest.created
       /\ poll.version = latest.created => poll.config = latest.config
  /\ poll.phase = "received" => client.version = poll.version

\* Steps of the service replace the newest version by a newer one, and the steps
\* of the client read it.
LEMMA SkipInvStep ==
  ASSUME SkipInv, [PollingNext]_pollingVars
  PROVE  SkipInv'
<1>1. CASE UNCHANGED vars
  <2>0. RequestsType' /\ latest' = latest /\ latest.created \in Nat
    BY <1>1 DEF vars, SkipInv, RequestsType, IsRequest
  <2> USE <2>0 DEF SkipInv, ClientType, PollType
  <2>1. CASE Skip \/ UNCHANGED clientVars
    BY <2>1 DEF Skip, pollingVars, clientVars
  <2>2. CASE Ask
    <3>1. /\ poll' = [phase |-> "asked", created |-> latest.created, config |-> NoRows, version |-> 0]
          /\ client' = client /\ poll.phase = "idle"
      BY <2>2 DEF Ask, Idle
    <3>2. QED
      BY <3>1
  <2>3. CASE Answer
    <3>1. /\ poll' = [phase |-> "answered", created |-> poll.created, config |-> latest.config,
                      version |-> latest.created]
          /\ client' = client /\ poll.phase = "asked"
      BY <2>3 DEF Answer
    <3>2. QED
      BY <3>1
  <2>4. CASE PollFails
    BY <2>4 DEF PollFails, Idle
  <2>5. CASE Receive
    BY <2>5 DEF Receive
  <2>6. CASE Invalidate
    <3>1. /\ client' = [config |-> client.config, last_modified |-> Second(poll.created),
                        version |-> client.version]
          /\ poll' = Idle /\ poll.phase = "received"
      BY <2>6 DEF Invalidate
    <3>2. Second(poll.created) \in Nat /\ Second(poll.created) <= Second(client.version)
      BY <3>1, SecondMonotone
    <3>3. QED
      BY <3>1, <3>2 DEF Idle
  <2>7. CASE ResolveStart \/ ResolveEnd
    BY <2>7 DEF ResolveStart, ResolveEnd
  <2>8. CASE Next /\ UNCHANGED clientVars
    BY <2>1, <2>8
  <2>9. QED
    BY <2>1, <2>2, <2>3, <2>4, <2>5, <2>6, <2>7, <2>8 DEF PollingNext, ClientStep, pollingVars
<1>2. CASE Next /\ UNCHANGED clientVars
  <2>1. RequestsType' /\ (latest' = latest \/ latest'.created > latest.created)
    BY <1>2, LatestGrows DEF SkipInv
  <2>2. client' = client /\ poll' = poll
    BY <1>2 DEF clientVars
  <2>3. latest.created \in Nat /\ latest'.created \in Nat
    BY <2>1 DEF RequestsType, SkipInv
  <2>4. QED
    BY <2>1, <2>2, <2>3 DEF SkipInv, ClientType, PollType
<1>3. CASE ClientStep
  BY <1>3, <1>1 DEF ClientStep, Skip, Ask, Answer, PollFails, Receive, Invalidate, ResolveStart,
       ResolveEnd, pollingVars
<1>4. QED
  BY <1>1, <1>2, <1>3 DEF PollingNext, pollingVars

\* When the service says that nothing was modified, the client lacks at most
\* versions of the second in which its own was created, however many versions a
\* second has, although the service reads the time and the configuration in two
\* queries and any number of other requests commit between.
THEOREM SkipsOnlyUnmodifiedCorrect == PollingSpec => []SkipsOnlyUnmodified
<1>1. PollingInit => SkipInv
  <2>1. Second(0) \in Nat /\ Second(0) <= Second(0)
    BY SecondMonotone
  <2>2. QED
    BY <2>1 DEF PollingInit, Init, SkipInv, RequestsType, ClientType, PollType, Idle
<1>2. SkipInv /\ [PollingNext]_pollingVars => SkipInv'
  BY SkipInvStep
<1>3. SkipInv => SkipsOnlyUnmodified
  <2> SUFFICES ASSUME SkipInv, poll = Idle, is_not_modified
               PROVE  UpToDate
    BY DEF SkipsOnlyUnmodified
  <2>1. /\ client.version \in Nat /\ latest.created \in Nat
        /\ client.version <= latest.created
        /\ client.last_modified \in Nat
        /\ client.last_modified <= Second(client.version)
        /\ Second(latest.created) <= client.last_modified
    BY DEF SkipInv, RequestsType, Idle, is_not_modified
  <2>2. /\ Second(client.version) \in Nat /\ Second(latest.created) \in Nat
        /\ Second(client.version) <= Second(latest.created)
    BY <2>1, SecondMonotone
  <2>3. Second(client.version) = Second(latest.created)
    BY <2>1, <2>2
  <2>4. QED
    BY <2>1, <2>3 DEF UpToDate, SkipInv
<1>4. QED
  BY <1>1, <1>2, <1>3, PTL DEF PollingSpec

-----------------------------------------------------------------------------
(* One request at a time: the newest version and its copy in Redis *)

Rows == Conditions \union Keys

\* A list of operations on conditions and keys.
Listed(ops) ==
  \E S : /\ ops \in Seq(S)
         /\ \A o \in S : o.row \in Rows /\ (o.op = "move" => o.to \in Rows)

OneWorker == \A v, w \in Workers : v = w

\* What is taken of the constants: operations name conditions and keys, and None
\* is not the record of a request.
InputsOK ==
  /\ DOMAIN Start \subseteq Rows
  /\ \A ops \in Requests : Listed(ops)
  /\ DOMAIN None # Fields

\* The first operation of a list, and what is left when a statement has replaced
\* it by at most one more.
LEMMA ListedParts ==
  ASSUME NEW ops, Listed(ops), ops # <<>>
  PROVE  /\ Head(ops).row \in Rows
         /\ Head(ops).op = "move" => Head(ops).to \in Rows
         /\ Listed(<<>> \o Tail(ops))
         /\ \A o : o.row \in Rows /\ o.op # "move" => Listed(<<o>> \o Tail(ops))
<1>1. PICK S : ops \in Seq(S) /\ \A o \in S : o.row \in Rows /\ (o.op = "move" => o.to \in Rows)
  BY DEF Listed
<1>2. Head(ops) \in S /\ Tail(ops) \in Seq(S) /\ <<>> \o Tail(ops) \in Seq(S)
  BY <1>1
<1>3. ASSUME NEW o, o.row \in Rows, o.op # "move"
      PROVE  Listed(<<o>> \o Tail(ops))
  <2> DEFINE T == S \union {o}
  <2>1. Tail(ops) \in Seq(T) /\ <<o>> \in Seq(T)
    BY <1>2
  <2>2. <<o>> \o Tail(ops) \in Seq(T)
    BY <2>1
  <2>3. \A p \in T : p.row \in Rows /\ (p.op = "move" => p.to \in Rows)
    BY <1>1, <1>3
  <2>4. QED
    BY <2>2, <2>3 DEF Listed
<1>4. QED
  BY <1>1, <1>2, <1>3 DEF Listed

\* The contexts and the default values that generate_cac reads make up all rows.
LEMMA SnapshotIsView ==
  ASSUME NEW w, DOMAIN requests[w].writes \subseteq Rows, DOMAIN rows \subseteq Rows
  PROVE  /\ DOMAIN View(w) \subseteq Rows
         /\ Over(Restricted(View(w), Keys), Restricted(View(w), Conditions)) = View(w)
<1> DEFINE seen == Over(requests[w].writes, rows)
           D == DOMAIN seen \intersect {x \in DOMAIN seen : seen[x] # Deleted}
<1>1. View(w) = [x \in D |-> seen[x]]
  BY DEF View, Restricted
<1>2. D \subseteq Rows
  BY DEF Over
<1> HIDE DEF D, seen
<1>3. QED
  BY <1>1, <1>2 DEF Over, Restricted, Rows

\* The invariant of one request at a time.  Nobody else commits, so that what the
\* request saw in its first snapshot is what it commits.
VersionInv ==
  /\ RequestsType
  /\ DOMAIN rows \subseteq Rows
  /\ latest.config = rows
  /\ latest.created <= clock
  /\ \A w \in Workers : requests[w] # None =>
       LET r == requests[w] IN
       /\ DOMAIN r.writes \subseteq Rows
       /\ r.phase \in {"operations", "merge"} => Listed(r.todo)
       /\ r.phase = "snapshot" => r.config = Restricted(View(w), Conditions)
       /\ r.phase = "commit" =>
            r.config = View(w) /\ r.created = clock /\ latest.created < clock
       /\ r.phase \in {"publish", "setConfig", "setVersion"} => r.created = latest.created

\* A statement keeps the rows of the request among the conditions and keys.
LEMMA WriteVersionInv ==
  ASSUME OneWorker, VersionInv, NEW w \in Workers, NEW value, NEW next, Operating(w),
         Write(w, value, next),
         next = <<>> \/ \E o : next = <<o>> /\ o.row \in Rows /\ o.op # "move"
  PROVE  VersionInv'
<1>1. requests[w] # None /\ requests[w].phase \in {"operations", "merge"} /\ requests[w].todo # <<>>
  BY DEF Operating
<1>2. Listed(requests[w].todo) /\ Statement(w).row \in Rows
  BY <1>1, ListedParts DEF VersionInv, Statement
<1>3. Listed(next \o Tail(requests[w].todo))
  BY <1>1, <1>2, ListedParts
<1>4. /\ RequestsType'
      /\ requests'[w].writes = Over([x \in {Statement(w).row} |-> value], requests[w].writes)
      /\ Listed(requests'[w].todo)
      /\ requests'[w].phase = "operations"
      /\ UNCHANGED storeVars
  BY <1>1, <1>3, WriteEffect DEF VersionInv
<1>5. DOMAIN requests'[w].writes \subseteq Rows
  BY <1>1, <1>2, <1>4 DEF VersionInv, Over
<1>6. QED
  BY <1>4, <1>5 DEF VersionInv, OneWorker, storeVars

\* Every step of a request keeps the invariant.
LEMMA StepVersionInv ==
  ASSUME OneWorker, InputsOK, VersionInv, NEW w \in Workers, Step(w)
  PROVE  VersionInv'
<1>0. RequestsType' /\ RequestsType
  BY StepType DEF VersionInv
<1>1. ASSUME requests'[w] = None, UNCHANGED <<rows, latest, clock>>
      PROVE  VersionInv'
  BY <1>0, <1>1 DEF VersionInv, OneWorker
<1>2. CASE Refuse(w)
  BY <1>1, <1>2 DEF Refuse, Abort, storeVars, VersionInv, RequestsType
<1>3. CASE Upsert(w)
  <2>1. Operating(w) /\ requests[w].phase = "operations"
    BY <1>3 DEF Upsert, Ready
  <2>2. CASE Statement(w).row \in DOMAIN View(w)
    <3>1. /\ requests'[w].phase = "merge"
          /\ requests'[w].todo = requests[w].todo
          /\ requests'[w].writes = requests[w].writes
          /\ UNCHANGED storeVars
      BY <1>0, <1>3, <2>1, <2>2 DEF Upsert, RequestsType, IsRequest, Operating, Fields
    <3>2. QED
      BY <1>0, <2>1, <3>1 DEF VersionInv, OneWorker, storeVars, Operating
  <2>3. CASE Statement(w).row \notin DOMAIN View(w)
    BY <1>3, <2>1, <2>3, WriteVersionInv DEF Upsert
  <2>4. QED
    BY <2>2, <2>3
<1>4. CASE MergeWrite(w) \/ Replace(w) \/ Remove(w) \/ SetDefault(w)
  BY <1>4, WriteVersionInv DEF MergeWrite, Replace, Remove, SetDefault, Ready
<1>5. CASE Move(w)
  <2> DEFINE o == [op |-> "arrive", row |-> Statement(w).to, override |-> View(w)[Statement(w).row]]
  <2>1. Operating(w) /\ Statement(w).op = "move" /\ Write(w, Deleted, <<o>>)
    BY <1>5 DEF Move, Ready
  <2>2. Statement(w).to \in Rows
    BY <2>1, ListedParts DEF Operating, Statement, VersionInv
  <2>3. o.row \in Rows /\ o.op # "move"
    BY <2>2
  <2>4. QED
    BY <2>1, <2>3, WriteVersionInv
<1>6. CASE SnapshotContexts(w)
  <2>1. requests[w] # None /\ UNCHANGED storeVars
    BY <1>6 DEF SnapshotContexts, InPhase
  <2>2. /\ requests'[w].config = Restricted(View(w), Conditions)
        /\ requests'[w].phase = "snapshot"
        /\ requests'[w].writes = requests[w].writes
    BY <1>0, <1>6, <2>1 DEF SnapshotContexts, RequestsType, IsRequest, Fields
  <2>3. View(w)' = View(w)
    BY <2>1, <2>2 DEF View, storeVars
  <2>4. QED
    BY <1>0, <2>1, <2>2, <2>3 DEF VersionInv, OneWorker, storeVars
<1>7. CASE SnapshotDefaults(w)
  <2>1. requests[w] # None /\ requests[w].phase = "snapshot" /\ UNCHANGED <<rows, latest>>
        /\ clock' = clock + 1
    BY <1>7 DEF SnapshotDefaults, InPhase
  <2>2. /\ requests'[w].config = Over(Restricted(View(w), Keys), requests[w].config)
        /\ requests'[w].created = clock + 1
        /\ requests'[w].phase = "commit"
        /\ requests'[w].writes = requests[w].writes
    BY <1>0, <1>7, <2>1 DEF SnapshotDefaults, RequestsType, IsRequest, Fields
  <2>3. View(w)' = View(w)
    BY <2>1, <2>2 DEF View
  <2>4. requests'[w].config = View(w)'
    BY <2>1, <2>2, <2>3, SnapshotIsView DEF VersionInv
  <2>5. latest'.created < clock' /\ latest'.created <= clock'
    BY <1>0, <2>1 DEF VersionInv, RequestsType
  <2>6. QED
    BY <1>0, <2>1, <2>2, <2>4, <2>5 DEF VersionInv, OneWorker
<1>8. CASE Commit(w)
  <2>1. requests[w] # None /\ requests[w].phase = "commit" /\ clock' = clock /\ rows' = View(w)
    BY <1>8 DEF Commit, InPhase
  <2>2. latest' = [config |-> View(w), created |-> clock]
    BY <1>8, <2>1 DEF Commit, VersionInv
  <2>3. DOMAIN rows' \subseteq Rows
    BY <2>1, SnapshotIsView DEF VersionInv
  <2>4. CASE HighPerformance
    <3>1. /\ requests'[w].phase = "publish"
          /\ requests'[w].writes = NoRows
          /\ requests'[w].created = clock
      BY <1>0, <1>8, <2>1, <2>4 DEF Commit, RequestsType, IsRequest, Fields, VersionInv
    <3>2. QED
      BY <1>0, <2>1, <2>2, <2>3, <3>1 DEF VersionInv, OneWorker, RequestsType, NoRows
  <2>5. CASE ~HighPerformance
    <3>1. requests'[w] = None
      BY <1>0, <1>8, <2>5 DEF Commit, RequestsType
    <3>2. QED
      BY <1>0, <2>1, <2>2, <2>3, <3>1 DEF VersionInv, OneWorker, RequestsType
  <2>6. QED
    BY <2>4, <2>5
<1>9. CASE GenerateForRedis(w)
  <2>1. /\ requests[w] # None /\ requests[w].phase = "publish" /\ UNCHANGED storeVars
        /\ requests'[w].phase = "setConfig"
        /\ requests'[w].writes = requests[w].writes
        /\ requests'[w].created = requests[w].created
    BY <1>0, <1>9 DEF GenerateForRedis, InPhase, RequestsType, IsRequest, Fields
  <2>2. QED
    BY <1>0, <2>1 DEF VersionInv, OneWorker, storeVars
<1>10. CASE SetRedisConfig(w)
  <2>1. /\ requests[w] # None /\ requests[w].phase = "setConfig"
        /\ UNCHANGED <<rows, latest, clock>>
        /\ requests'[w].phase = "setVersion"
        /\ requests'[w].writes = requests[w].writes
        /\ requests'[w].created = requests[w].created
    BY <1>0, <1>10 DEF SetRedisConfig, InPhase, RequestsType, IsRequest, Fields
  <2>2. QED
    BY <1>0, <2>1 DEF VersionInv, OneWorker
<1>11. CASE GenerateFails(w) \/ SetRedisVersion(w)
  BY <1>1, <1>11 DEF GenerateFails, SetRedisVersion, VersionInv, RequestsType
<1>12. QED
  BY <1>2, <1>3, <1>4, <1>5, <1>6, <1>7, <1>8, <1>9, <1>10, <1>11 DEF Step

\* So does a request that begins, and what begins is a list of operations.
LEMMA BeginVersionInv ==
  ASSUME OneWorker, InputsOK, VersionInv, NEW w \in Workers, NEW ops \in Requests, Begin(w, ops)
  PROVE  VersionInv'
<1>1. /\ RequestsType'
      /\ requests'[w].todo = ops
      /\ requests'[w].phase = "operations"
      /\ requests'[w].writes = NoRows
      /\ UNCHANGED storeVars
  BY BeginEffect DEF VersionInv
<1>2. Listed(ops)
  BY DEF InputsOK
<1>3. QED
  BY <1>1, <1>2 DEF VersionInv, OneWorker, storeVars, NoRows

ConfigCopied  == "config" \in redis.lost \/ redis.config = latest.config

VersionCopied == "version" \in redis.lost \/ redis.version = latest.created

\* From the commit to the last write to Redis the copies are behind; before and
\* after they are those of the newest version.
RedisInv ==
  /\ VersionInv
  /\ DOMAIN redis = {"config", "version", "lost"}
  /\ \A w \in Workers : requests[w] # None =>
       LET r == requests[w] IN
       /\ r.phase \in {"operations", "merge", "snapshot", "commit"} => ConfigCopied /\ VersionCopied
       /\ r.phase = "setConfig" => r.config = rows
       /\ r.phase = "setVersion" => ConfigCopied
  /\ RedisCurrent

\* Every step of a request keeps the copies as current as they must be.
LEMMA StepRedisInv ==
  ASSUME OneWorker, InputsOK, HighPerformance, RedisInv, NEW w \in Workers, Step(w)
  PROVE  RedisInv'
<1>0. VersionInv' /\ VersionInv /\ RequestsType' /\ RequestsType
  BY StepVersionInv DEF RedisInv, VersionInv
<1>1. ASSUME UNCHANGED <<redis, latest>>, requests[w] # None,
             requests[w].phase \in {"operations", "merge", "snapshot", "commit"},
             requests'[w] # None =>
               requests'[w].phase \in {"operations", "merge", "snapshot", "commit"}
      PROVE  RedisInv'
  BY <1>0, <1>1 DEF RedisInv, OneWorker, RedisCurrent, ConfigCopied, VersionCopied
<1>2. CASE Refuse(w)
  BY <1>0, <1>1, <1>2 DEF Refuse, Abort, Operating, storeVars, RequestsType
<1>3. ASSUME NEW value, NEW next, Operating(w), Write(w, value, next)
      PROVE  RedisInv'
  BY <1>0, <1>1, <1>3, WriteEffect DEF Operating, storeVars
<1>4. CASE Upsert(w)
  <2>1. CASE Statement(w).row \in DOMAIN View(w)
    <3>1. /\ requests[w] # None /\ requests[w].phase = "operations"
          /\ requests'[w].phase = "merge"
          /\ UNCHANGED storeVars
      BY <1>0, <1>4, <2>1 DEF Upsert, Ready, RequestsType, IsRequest, Operating, Fields
    <3>2. QED
      BY <1>1, <3>1 DEF storeVars
  <2>2. CASE Statement(w).row \notin DOMAIN View(w)
    BY <1>3, <1>4, <2>2 DEF Upsert, Ready
  <2>3. QED
    BY <2>1, <2>2
<1>5. CASE MergeWrite(w) \/ Replace(w) \/ Move(w) \/ Remove(w) \/ SetDefault(w)
  BY <1>3, <1>5 DEF MergeWrite, Replace, Move, Remove, SetDefault, Ready
<1>6. CASE SnapshotContexts(w)
  <2>1. /\ requests[w] # None /\ requests[w].phase = "operations" /\ requests'[w].phase = "snapshot"
        /\ UNCHANGED storeVars
    BY <1>0, <1>6 DEF SnapshotContexts, InPhase, RequestsType, IsRequest, Fields
  <2>2. QED
    BY <1>1, <2>1 DEF storeVars
<1>7. CASE SnapshotDefaults(w)
  <2>1. /\ requests[w] # None /\ requests[w].phase = "snapshot" /\ requests'[w].phase = "commit"
        /\ UNCHANGED <<redis, latest>>
    BY <1>0, <1>7 DEF SnapshotDefaults, InPhase, RequestsType, IsRequest, Fields
  <2>2. QED
    BY <1>1, <2>1
<1>8. CASE Commit(w)
  <2>1. DOMAIN requests'[w] = Fields /\ requests'[w].phase = "publish" /\ redis' = redis
    BY <1>0, <1>8 DEF Commit, InPhase, RequestsType, IsRequest, Fields
  <2>2. ~Quiet'
    BY <2>1 DEF Quiet, InputsOK
  <2>3. QED
    BY <1>0, <2>1, <2>2 DEF RedisInv, OneWorker, RedisCurrent
<1>9. CASE GenerateForRedis(w)
  <2>1. /\ DOMAIN requests'[w] = Fields
        /\ requests'[w].phase = "setConfig"
        /\ requests'[w].config = rows'
        /\ redis' = redis
    BY <1>0, <1>9 DEF GenerateForRedis, InPhase, RequestsType, IsRequest, Fields, storeVars
  <2>2. ~Quiet'
    BY <2>1 DEF Quiet, InputsOK
  <2>3. QED
    BY <1>0, <2>1, <2>2 DEF RedisInv, OneWorker, RedisCurrent
<1>10. CASE SetRedisConfig(w)
  <2>1. /\ requests[w] # None /\ requests[w].phase = "setConfig"
        /\ DOMAIN requests'[w] = Fields /\ requests'[w].phase = "setVersion"
        /\ UNCHANGED <<rows, latest, clock>>
    BY <1>0, <1>10 DEF SetRedisConfig, InPhase, RequestsType, IsRequest, Fields
  <2>2. ~Quiet'
    BY <2>1 DEF Quiet, InputsOK
  <2>3. requests[w].config = latest.config
    BY <2>1 DEF RedisInv, VersionInv
  <2>4. DOMAIN redis' = {"config", "version", "lost"} /\ ConfigCopied'
    BY <1>10, <2>1, <2>3 DEF SetRedisConfig, RedisInv, ConfigCopied
  <2>5. QED
    BY <1>0, <2>1, <2>2, <2>4 DEF RedisInv, OneWorker, RedisCurrent
<1>11. CASE SetRedisVersion(w)
  <2>1. /\ requests[w] # None /\ requests[w].phase = "setVersion"
        /\ requests'[w] = None
        /\ UNCHANGED <<rows, latest, clock>>
    BY <1>0, <1>11 DEF SetRedisVersion, InPhase, RequestsType
  <2>2. requests[w].created = latest.created /\ ConfigCopied
    BY <2>1 DEF RedisInv, VersionInv
  <2>3. DOMAIN redis' = {"config", "version", "lost"} /\ VersionCopied'
    BY <1>11, <2>1, <2>2 DEF SetRedisVersion, RedisInv, VersionCopied
  <2>4. ConfigCopied'
    BY <1>11, <2>1, <2>2 DEF SetRedisVersion, RedisInv, ConfigCopied
  <2>5. QED
    BY <1>0, <2>1, <2>3, <2>4 DEF RedisInv, OneWorker, RedisCurrent, ConfigCopied, VersionCopied
<1>12. CASE GenerateFails(w)
  <2>1. requests'[w] = None
    BY <1>0, <1>12 DEF GenerateFails, InPhase, RequestsType
  <2>2. DOMAIN redis' = {"config", "version", "lost"} /\ redis'.lost = {"config", "version"}
    BY <1>12 DEF GenerateFails, RedisInv
  <2>3. QED
    BY <1>0, <2>1, <2>2 DEF RedisInv, OneWorker, RedisCurrent
<1>13. QED
  BY <1>2, <1>4, <1>5, <1>6, <1>7, <1>8, <1>9, <1>10, <1>11, <1>12 DEF Step

\* One request at a time, in the high performance mode, Redis has between requests
\* the configuration of the newest version and its number, each unless the last
\* request that committed did not write it: put_config_in_redis generates the
\* configuration again, after the commit, and, when that and the command succeed,
\* it is the one that the version was built from.
THEOREM RedisCurrentCorrect ==
  ASSUME OneWorker, InputsOK, HighPerformance
  PROVE  Spec => []RedisCurrent
<1>1. Init => RedisInv
  BY DEF Init, RedisInv, VersionInv, RequestsType, RedisCurrent, InputsOK
<1>2. RedisInv /\ [Next]_vars => RedisInv'
  <2> SUFFICES ASSUME RedisInv, [Next]_vars
               PROVE  RedisInv'
    OBVIOUS
  <2>1. ASSUME NEW w \in Workers, Step(w)
        PROVE  RedisInv'
    BY <2>1, StepRedisInv
  <2>2. ASSUME NEW w \in Workers, NEW ops \in Requests, Begin(w, ops)
        PROVE  RedisInv'
    <3>1. VersionInv' /\ requests'[w].phase = "operations" /\ UNCHANGED storeVars
      BY <2>2, BeginVersionInv, BeginEffect DEF RedisInv, VersionInv
    <3>2. ConfigCopied /\ VersionCopied
      BY <2>2 DEF Begin, RedisInv, RedisCurrent, Quiet, OneWorker, ConfigCopied, VersionCopied
    <3>3. QED
      BY <3>1, <3>2 DEF RedisInv, OneWorker, RedisCurrent, ConfigCopied, VersionCopied, storeVars
  <2>3. CASE UNCHANGED vars
    <3>1. \A w : View(w)' = View(w)
      BY <2>3 DEF vars, View
    <3>2. RequestsType'
      BY <2>3 DEF vars, RedisInv, VersionInv, RequestsType, IsRequest
    <3>3. VersionInv'
      BY <2>3, <3>1, <3>2 DEF vars, RedisInv, VersionInv
    <3>4. QED
      BY <2>3, <3>3 DEF vars, RedisInv, RedisCurrent, Quiet, ConfigCopied, VersionCopied
  <2>4. QED
    BY <2>1, <2>2, <2>3 DEF Next
<1>3. RedisInv => RedisCurrent
  BY DEF RedisInv
<1>4. QED
  BY <1>1, <1>2, <1>3, PTL DEF Spec

-----------------------------------------------------------------------------
(* One request at a time: the transactions implement ConfigStore *)

\* What the refinement takes of the constants beyond InputsOK: the operations are
\* those of the handlers, a default value is removed by a request of its own (only
\* the requests for contexts have several operations), and the mark of a deleted
\* row is neither a value nor an override.
StoreInputsOK ==
  /\ Start = [x \in DOMAIN Start |-> Start[x]]
  /\ \A x \in DOMAIN Start : Start[x] # Deleted
  /\ \A f, g : merge(f, g) # Deleted
  /\ \A ops \in Requests : \A i \in 1 .. Len(ops) :
       /\ ops[i].op \in {"put", "replace", "delete", "move", "create", "update", "remove"}
       /\ ops[i].op \in {"put", "replace"} => ops[i].override # Deleted
       /\ ops[i].op \in {"create", "update"} => ops[i].value # Deleted
       /\ ops[i].op = "remove" => i = 1

\* g[i] are the rows after the first i operations, all of which are allowed.
Applied(s, ops, n, g) ==
  /\ g[0] = s
  /\ \A i \in 1 .. n : Store!Allowed(g[i - 1], ops[i]) /\ g[i] = Store!Effect(g[i - 1], ops[i])

\* n operations are done, and todo has the others.
Left(todo, ops, n) ==
  /\ n \in 0 .. Len(ops)
  /\ \E S : todo \in Seq(S)
  /\ Len(todo) = Len(ops) - n
  /\ \A j \in 1 .. Len(todo) : todo[j] = ops[n + j]

\* A set of numbers that is not empty has a least one.
LEMMA Least ==
  ASSUME NEW S, S \subseteq Nat, S # {}
  PROVE  \E m \in S : \A x \in S : m <= x
<1> DEFINE R == OpToRel(<, Nat)
<1>1. R = {ss \in Nat \X Nat : ss[1] < ss[2]}
  BY DEF OpToRel
<1>2. IsWellFoundedOn(R, Nat)
  BY NatLessThanWellFounded
<1> HIDE DEF R
<1>3. PICK m \in S : \A y \in S : <<y, m>> \notin R
  BY <1>2, WFMin
<1>4. ASSUME NEW x \in S
      PROVE  m <= x
  <2>1. x \in Nat /\ m \in Nat
    OBVIOUS
  <2>2. x < m => <<x, m>> \in R
    BY <1>1, <2>1
  <2>3. QED
    BY <1>3, <2>1, <2>2
<1>5. QED
  BY <1>4

\* One more operation.
LEMMA AppliedOneMore ==
  ASSUME NEW s, NEW ops, NEW n \in Nat, NEW g, Applied(s, ops, n, g),
         Store!Allowed(g[n], ops[n + 1])
  PROVE  \E h : Applied(s, ops, n + 1, h) /\ h[n + 1] = Store!Effect(g[n], ops[n + 1])
<1> DEFINE v == Store!Effect(g[n], ops[n + 1])
           h == [i \in 0 .. n + 1 |-> IF i = n + 1 THEN v ELSE g[i]]
<1> HIDE DEF v
<1>1. h[n + 1] = v /\ h[0] = s /\ \A i \in 0 .. n : h[i] = g[i]
  BY DEF Applied
<1> HIDE DEF h
<1>2. ASSUME NEW i \in 1 .. n + 1
      PROVE  Store!Allowed(h[i - 1], ops[i]) /\ h[i] = Store!Effect(h[i - 1], ops[i])
  <2>1. CASE i = n + 1
    BY <1>1, <2>1 DEF v
  <2>2. CASE i # n + 1
    <3>1. i \in 1 .. n /\ i - 1 \in 0 .. n /\ i \in 0 .. n
      BY <2>2
    <3>2. QED
      BY <1>1, <3>1 DEF Applied
  <2>3. QED
    BY <2>1, <2>2
<1>3. QED
  BY <1>1, <1>2 DEF Applied, v

\* The recursion in ConfigStore has one solution, and g is one.
LEMMA AppliedRequest ==
  ASSUME NEW ops, Len(ops) \in Nat, NEW g, Applied(rows, ops, Len(ops), g),
         rows' = g[Len(ops)], latest'.config = rows'
  PROVE  Store!Request(ops)
<1> DEFINE N == 0 .. Len(ops)
           Good(f) == f = [i \in N |-> IF i = 0 THEN rows ELSE Store!Effect(f[i - 1], ops[i])]
           G == [i \in N |-> g[i]]
           after == CHOOSE f : Good(f)
<1>1. Good(G)
  <2>1. ASSUME NEW i \in N
        PROVE  G[i] = IF i = 0 THEN rows ELSE Store!Effect(G[i - 1], ops[i])
    <3>1. CASE i = 0
      BY <3>1 DEF Applied
    <3>2. CASE i # 0
      <4>1. i \in 1 .. Len(ops) /\ i - 1 \in N
        BY <3>2
      <4>2. QED
        BY <3>2, <4>1 DEF Applied
    <3>3. QED
      BY <3>1, <3>2
  <2>2. QED
    BY <2>1
<1>2. Good(after)
  BY <1>1
<1> HIDE DEF after, G
<1>3. \A i \in N : after[i] = g[i]
  <2> DEFINE S == {i \in N : after[i] # g[i]}
  <2>1. SUFFICES ASSUME S # {}
                 PROVE  FALSE
    OBVIOUS
  <2>2. PICK m \in S : \A x \in S : m <= x
    <3>1. S \subseteq Nat
      OBVIOUS
    <3>2. QED
      BY <2>1, <3>1, Least
  <2>3. m # 0
    BY <1>2 DEF Applied
  <2>4. m - 1 \in N /\ m - 1 \notin S /\ m \in 1 .. Len(ops)
    BY <2>2, <2>3
  <2>5. after[m - 1] = g[m - 1]
    BY <2>4
  <2>6. after[m] = Store!Effect(g[m - 1], ops[m])
    BY <1>2, <2>3, <2>4, <2>5
  <2>7. QED
    BY <2>4, <2>6 DEF Applied
<1>4. /\ \A i \in 1 .. Len(ops) : Store!Allowed(after[i - 1], ops[i])
      /\ rows' = after[Len(ops)]
      /\ latest'.config = rows'
  <2>1. ASSUME NEW i \in 1 .. Len(ops)
        PROVE  Store!Allowed(after[i - 1], ops[i])
    <3>1. i - 1 \in N
      OBVIOUS
    <3>2. QED
      BY <1>3, <3>1 DEF Applied
  <2>2. QED
    BY <1>3, <2>1
<1>5. QED
  BY <1>4 DEF Store!Request, after
\* What is left after the next operation.
LEMMA LeftNext ==
  ASSUME NEW todo, NEW ops, NEW n, Len(ops) \in Nat, Left(todo, ops, n), todo # <<>>
  PROVE  /\ n + 1 \in 1 .. Len(ops)
         /\ Head(todo) = ops[n + 1]
         /\ Left(<<>> \o Tail(todo), ops, n + 1)
<1>1. PICK S : todo \in Seq(S)
  BY DEF Left
<1>2. Len(todo) \in Nat /\ Len(todo) # 0 /\ n \in 0 .. Len(ops) /\ Len(todo) = Len(ops) - n
  BY <1>1 DEF Left
<1>3. n \in Nat /\ n + 1 \in 1 .. Len(ops) /\ Head(todo) = ops[n + 1]
  BY <1>1, <1>2 DEF Left
<1> DEFINE rest == Tail(todo)
<1>4. rest \in Seq(S) /\ <<>> \o rest = rest /\ Len(rest) = Len(ops) - (n + 1)
  BY <1>1, <1>2
<1>5. ASSUME NEW j \in 1 .. Len(rest)
      PROVE  rest[j] = ops[(n + 1) + j]
  <2>1. rest[j] = todo[j + 1]
    BY <1>1
  <2>2. j + 1 \in 1 .. Len(todo) /\ n + (j + 1) = (n + 1) + j
    BY <1>2, <1>4
  <2>3. QED
    BY <2>1, <2>2 DEF Left
<1>6. Left(rest, ops, n + 1)
  BY <1>3, <1>4, <1>5 DEF Left
<1>7. QED
  BY <1>3, <1>4, <1>6

\* The same with one more statement before what is left.
LEMMA LeftOneMore ==
  ASSUME NEW todo, NEW ops, NEW n, Len(ops) \in Nat, Left(todo, ops, n), todo # <<>>, NEW o
  PROVE  /\ <<o>> \o Tail(todo) # <<>>
         /\ Head(<<o>> \o Tail(todo)) = o
         /\ Left(<<>> \o Tail(<<o>> \o Tail(todo)), ops, n + 1)
<1>1. PICK S : todo \in Seq(S)
  BY DEF Left
<1> DEFINE rest == Tail(todo)
           T == S \union {o}
<1>2. rest \in Seq(T) /\ <<o>> \in Seq(T)
  BY <1>1
<1>3. Left(<<>> \o rest, ops, n + 1)
  BY LeftNext
<1> HIDE DEF rest
<1>4. /\ <<o>> \o rest \in Seq(T) /\ Len(<<o>> \o rest) = 1 + Len(rest)
      /\ (<<o>> \o rest)[1] = o
      /\ \A j \in 1 .. Len(rest) : (<<o>> \o rest)[j + 1] = rest[j]
  BY <1>2
<1>5. <<o>> \o rest # <<>> /\ Head(<<o>> \o rest) = o
  BY <1>2, <1>4
<1>6. Tail(<<o>> \o rest) = rest
  BY <1>2, <1>4, <1>5
<1>7. QED
  BY <1>3, <1>5, <1>6 DEF rest

\* A statement that writes a value or takes a row away, in what the request sees.
LEMMA ViewAfterWrite ==
  ASSUME NEW w, NEW x, NEW value, rows' = rows,
         requests'[w].writes = Over([y \in {x} |-> value], requests[w].writes)
  PROVE  /\ value # Deleted => View(w)' = Store!With(View(w), x, value)
         /\ value = Deleted => View(w)' = Store!Without(View(w), x)
<1> DEFINE seen == Over(requests[w].writes, rows)
           next == Over(requests'[w].writes, rows)
           D == {y \in DOMAIN seen : seen[y] # Deleted}
           E == {y \in DOMAIN next : next[y] # Deleted}
<1>1. View(w) = [y \in D |-> seen[y]] /\ View(w)' = [y \in E |-> next[y]]
  BY DEF View, Restricted
<1>2. /\ DOMAIN next = DOMAIN seen \cup {x}
      /\ next[x] = value
      /\ \A y \in DOMAIN seen \ {x} : next[y] = seen[y]
  BY DEF Over
<1> HIDE DEF seen, next
<1>3. CASE value # Deleted
  BY <1>1, <1>2, <1>3 DEF Store!With
<1>4. CASE value = Deleted
  BY <1>1, <1>2, <1>4 DEF Store!Without
<1>5. QED
  BY <1>3, <1>4

\* Between two operations, or in the merge of a put, a request sees the rows after
\* the operations that are done.
Between(w, n, g) ==
  LET r == requests[w]
      o == Head(r.todo)
  IN /\ View(w) = g[n]
     /\ Left(r.todo, r.ops, n)
     /\ r.phase = "merge" =>
          /\ r.todo # <<>> /\ o.op = "put" /\ o.row \in DOMAIN View(w)
          /\ r.merged = merge(View(w)[o.row], o.override)

\* Within a move, a request sees the rows without the one that is moved, and the
\* override that was there is what it will put.
Moved(w, n, g) ==
  LET r == requests[w]
      o == r.ops[n + 1]
  IN /\ o.op = "move" /\ n + 1 \in 1 .. Len(r.ops) /\ Store!Allowed(g[n], o)
     /\ g[n][o.row] # Deleted
     /\ View(w) = Store!Without(g[n], o.row)
     /\ r.todo # <<>>
     /\ Head(r.todo) = [op |-> "arrive", row |-> o.to, override |-> g[n][o.row]]
     /\ Left(<<>> \o Tail(r.todo), r.ops, n + 1)
     /\ r.phase = "merge" =>
          o.to \in DOMAIN View(w) /\ r.merged = merge(View(w)[o.to], g[n][o.row])

InTransaction == {"operations", "merge", "snapshot", "commit"}

\* Before its commit a request has the effects of some of its operations, in their
\* order, and of all of them when it builds the version.
Progress(w) ==
  LET r == requests[w] IN
  /\ r.ops \in Requests
  /\ \A i \in 1 .. Len(r.ops) : r.ops[i].op = "remove" => ~Store!Used(rows, r.ops[i].row)
  /\ \E n \in Nat : \E g :
       /\ Applied(rows, r.ops, n, g)
       /\ r.phase \in {"operations", "merge"} => Between(w, n, g) \/ Moved(w, n, g)
       /\ r.phase \in {"snapshot", "commit"} => n = Len(r.ops) /\ View(w) = g[n]

RowsOK == rows = [x \in DOMAIN rows |-> rows[x]] /\ \A x \in DOMAIN rows : rows[x] # Deleted

StoreInv ==
  /\ VersionInv
  /\ RowsOK
  /\ \A w \in Workers : requests[w] # None /\ requests[w].phase \in InTransaction => Progress(w)

\* What a request sees has no deleted rows.
LEMMA ViewOK == \A w : View(w) = [x \in DOMAIN View(w) |-> View(w)[x]]
                       /\ \A x \in DOMAIN View(w) : View(w)[x] # Deleted
  BY DEF View, Restricted

\* The lists of operations that clients send.
LEMMA RequestLists ==
  ASSUME InputsOK, StoreInputsOK, NEW ops \in Requests
  PROVE  /\ Len(ops) \in Nat /\ DOMAIN ops = 1 .. Len(ops) /\ Left(ops, ops, 0)
         /\ \A i \in 1 .. Len(ops) :
              /\ ops[i].op \in {"put", "replace", "delete", "move", "create", "update", "remove"}
              /\ ops[i].op \in {"put", "replace"} => ops[i].override # Deleted
              /\ ops[i].op \in {"create", "update"} => ops[i].value # Deleted
              /\ ops[i].op = "remove" => i = 1
<1>1. PICK S : ops \in Seq(S)
  BY DEF InputsOK, Listed
<1>2. QED
  BY <1>1 DEF StoreInputsOK, Left

\* A merged override is not a deleted row.
LEMMA MergeNotDeleted == ASSUME StoreInputsOK PROVE \A f, g : merge(f, g) # Deleted
  BY DEF StoreInputsOK

\* An operation is done: the request sees its effect, and the others are left.
LEMMA OperationDone ==
  ASSUME NEW w \in Workers, Progress(w), rows' = rows,
         NEW n \in Nat, NEW g, Applied(rows, requests[w].ops, n, g),
         Store!Allowed(g[n], requests[w].ops[n + 1]),
         View(w)' = Store!Effect(g[n], requests[w].ops[n + 1]),
         requests'[w].ops = requests[w].ops,
         requests'[w].phase = "operations",
         Left(requests'[w].todo, requests[w].ops, n + 1)
  PROVE  Progress(w)'
<1> DEFINE ops == requests[w].ops
<1>1. PICK h : Applied(rows, ops, n + 1, h) /\ h[n + 1] = Store!Effect(g[n], ops[n + 1])
  BY AppliedOneMore
<1>2. Between(w, n + 1, h)'
  BY <1>1 DEF Between
<1>3. /\ ops \in Requests
      /\ \A i \in 1 .. Len(ops) : ops[i].op = "remove" => ~Store!Used(rows', ops[i].row)
  BY DEF Progress
<1>4. n + 1 \in Nat /\ Applied(rows', ops, n + 1, h)
  BY <1>1
<1>5. QED
  BY <1>2, <1>3, <1>4 DEF Progress

\* The statements of the operations but for the first statement of an upsert on a
\* row that exists, and of a move.
LEMMA StatementsDone ==
  ASSUME OneWorker, InputsOK, StoreInputsOK, StoreInv, NEW w \in Workers,
         \/ Upsert(w) /\ Statement(w).row \notin DOMAIN View(w)
         \/ MergeWrite(w) \/ Replace(w) \/ Remove(w) \/ SetDefault(w)
  PROVE  Progress(w)'
<1> DEFINE r == requests[w]
           ops == r.ops
           s == Head(r.todo)
<1>1. /\ r # None /\ r.phase \in {"operations", "merge"} /\ r.todo # <<>> /\ ~Fails(w)
      /\ RequestsType /\ Progress(w) /\ ops \in Requests /\ Statement(w) = s /\ ~Locked(w, s.row)
  BY DEF Upsert, MergeWrite, Replace, Remove, SetDefault, Ready, Operating, StoreInv, VersionInv,
         InTransaction, Progress, Statement
<1>2. PICK n \in Nat : \E h : Applied(rows, ops, n, h) /\ (Between(w, n, h) \/ Moved(w, n, h))
  BY <1>1 DEF Progress
<1> PICK g : Applied(rows, ops, n, g) /\ (Between(w, n, g) \/ Moved(w, n, g))
  BY <1>2
<1>3. /\ Len(ops) \in Nat
      /\ \A i \in 1 .. Len(ops) :
           /\ ops[i].op \in {"put", "replace", "delete", "move", "create", "update", "remove"}
           /\ ops[i].op \in {"put", "replace"} => ops[i].override # Deleted
           /\ ops[i].op \in {"create", "update"} => ops[i].value # Deleted
           /\ ops[i].op = "remove" => i = 1
  BY <1>1, RequestLists
<1> DEFINE value == CASE s.op \in {"delete", "remove"} -> Deleted
                      [] s.op \in {"create", "update"} -> s.value
                      [] s.op = "replace" -> s.override
                      [] s.op \in {"put", "arrive"} ->
                           IF r.phase = "merge" THEN r.merged ELSE s.override
<1>4. /\ Write(w, value, <<>>)
      /\ s.op \in {"delete", "remove", "create", "update", "replace", "put", "arrive"}
      /\ s.op \in {"put", "arrive"} /\ r.phase # "merge" => s.row \notin DOMAIN View(w)
  BY <1>1 DEF Upsert, MergeWrite, Replace, Remove, SetDefault, Ready
<1>5. /\ requests'[w].writes = Over([x \in {s.row} |-> value], r.writes)
      /\ requests'[w].todo = <<>> \o Tail(r.todo)
      /\ requests'[w].phase = "operations"
      /\ requests'[w].ops = ops
      /\ rows' = rows
  BY <1>1, <1>4, WriteEffect DEF storeVars
<1>6. /\ value # Deleted => View(w)' = Store!With(View(w), s.row, value)
      /\ value = Deleted => View(w)' = Store!Without(View(w), s.row)
  BY <1>5, ViewAfterWrite
<1>7. CASE Between(w, n, g)
  <2>1. /\ View(w) = g[n] /\ n + 1 \in 1 .. Len(ops) /\ s = ops[n + 1]
        /\ Left(requests'[w].todo, ops, n + 1)
    <3>1. View(w) = g[n] /\ Left(r.todo, ops, n)
      BY <1>7 DEF Between
    <3>2. n + 1 \in 1 .. Len(ops) /\ s = ops[n + 1] /\ Left(<<>> \o Tail(r.todo), ops, n + 1)
      <4>1. r.todo # <<>> /\ Len(ops) \in Nat
        BY <1>1, <1>3
      <4>2. QED
        BY <3>1, <4>1, LeftNext
    <3>3. QED
      BY <1>5, <3>1, <3>2
  <2>2. Store!Allowed(g[n], s)
    <3>1. s.op = "remove" => ~Store!Used(g[n], s.row)
      BY <1>1, <1>2, <1>3, <2>1 DEF Progress, Applied
    <3>2. QED
      BY <1>1, <2>1, <3>1 DEF Store!Allowed, Fails
  <2>3. View(w)' = Store!Effect(g[n], s)
    <3>1. CASE s.op \in {"delete", "remove"}
      BY <1>6, <2>1, <3>1 DEF Store!Effect
    <3>2. CASE s.op \in {"create", "update"}
      BY <1>3, <1>6, <2>1, <3>2 DEF Store!Effect
    <3>3. CASE s.op = "replace"
      BY <1>3, <1>6, <2>1, <3>3 DEF Store!Effect
    <3>4. CASE s.op = "put" /\ r.phase # "merge"
      BY <1>3, <1>4, <1>6, <2>1, <3>4 DEF Store!Effect, Store!Put
    <3>5. CASE s.op = "put" /\ r.phase = "merge"
      <4>0. value = r.merged
        BY <3>5
      <4>1. value = merge(g[n][s.row], s.override) /\ s.row \in DOMAIN g[n]
        BY <1>7, <2>1, <3>5, <4>0 DEF Between
      <4> HIDE DEF value
      <4>2. value # Deleted
        BY <4>1, MergeNotDeleted
      <4>3. value = Store!Merged(s.override, g[n][s.row])
        BY <4>1 DEF merge, Over, Store!Merged
      <4>4. View(w)' = Store!With(g[n], s.row, value)
        BY <1>6, <2>1, <4>2
      <4>5. Store!Effect(g[n], s) = Store!Put(g[n], s.row, s.override)
        BY <3>5 DEF Store!Effect
      <4>6. QED
        BY <4>1, <4>3, <4>4, <4>5 DEF Store!Put
    <3>6. QED
      BY <1>3, <1>4, <2>1, <3>1, <3>2, <3>3, <3>4, <3>5
  <2>4. QED
    BY <1>1, <1>2, <1>5, <2>1, <2>2, <2>3, OperationDone
<1>8. CASE Moved(w, n, g)
  <2> DEFINE o == ops[n + 1]
             before == Store!Without(g[n], o.row)
             override == g[n][o.row]
  <2>1. /\ o.op = "move" /\ Store!Allowed(g[n], o)
        /\ View(w) = before /\ override # Deleted
        /\ s = [op |-> "arrive", row |-> o.to, override |-> override]
        /\ Left(requests'[w].todo, ops, n + 1)
    BY <1>5, <1>8 DEF Moved
  <2>2. Store!Effect(g[n], o) = Store!Put(before, o.to, override)
    BY <2>1 DEF Store!Effect
  <2>3. View(w)' = Store!Put(before, o.to, override)
    <3>1. CASE r.phase # "merge"
      <4>0. s.op = "arrive" /\ s.row = o.to /\ s.override = override
        BY <2>1
      <4>1. value = override /\ s.row = o.to /\ o.to \notin DOMAIN before
        BY <1>4, <2>1, <3>1, <4>0
      <4> HIDE DEF value, before, override, o
      <4>2. View(w)' = Store!With(before, o.to, override)
        BY <1>6, <2>1, <4>1
      <4>3. QED
        BY <4>1, <4>2 DEF Store!Put
    <3>2. CASE r.phase = "merge"
      <4>0. s.op = "arrive" /\ s.row = o.to
        BY <2>1
      <4>1. value = r.merged
        BY <3>2, <4>0
      <4>2. r.merged = merge(before[o.to], override) /\ o.to \in DOMAIN before
        BY <1>8, <2>1, <3>2 DEF Moved
      <4> HIDE DEF value, before, override, o
      <4>3. value # Deleted
        BY <4>1, <4>2, MergeNotDeleted
      <4>4. value = Store!Merged(override, before[o.to])
        BY <4>1, <4>2 DEF merge, Over, Store!Merged
      <4>5. View(w)' = Store!With(before, o.to, Store!Merged(override, before[o.to]))
        BY <1>6, <2>1, <4>0, <4>3, <4>4
      <4>6. QED
        BY <4>2, <4>5 DEF Store!Put
    <3>3. QED
      BY <3>1, <3>2
  <2>4. QED
    BY <1>1, <1>2, <1>5, <2>1, <2>2, <2>3, OperationDone
<1>9. QED
  BY <1>2, <1>7, <1>8

\* The two first statements: of an upsert that finds a row, and of a move.
LEMMA StatementsBegun ==
  ASSUME OneWorker, InputsOK, StoreInputsOK, StoreInv, NEW w \in Workers,
         \/ Upsert(w) /\ Statement(w).row \in DOMAIN View(w)
         \/ Move(w)
  PROVE  Progress(w)'
<1> DEFINE r == requests[w]
           ops == r.ops
           s == Head(r.todo)
<1>1. /\ r # None /\ r.phase \in {"operations", "merge"} /\ r.todo # <<>> /\ ~Fails(w)
      /\ RequestsType /\ Progress(w) /\ ops \in Requests /\ Statement(w) = s
  BY DEF Upsert, Move, Ready, Operating, StoreInv, VersionInv, InTransaction, Progress, Statement
<1>2. PICK n \in Nat : \E h : Applied(rows, ops, n, h) /\ (Between(w, n, h) \/ Moved(w, n, h))
  BY <1>1 DEF Progress
<1> PICK g : Applied(rows, ops, n, g) /\ (Between(w, n, g) \/ Moved(w, n, g))
  BY <1>2
<1>3. /\ Len(ops) \in Nat
      /\ \A i \in 1 .. Len(ops) :
           ops[i].op \in {"put", "replace", "delete", "move", "create", "update", "remove"}
  BY <1>1, RequestLists
<1>4. ASSUME Between(w, n, g)
      PROVE  /\ View(w) = g[n] /\ Left(r.todo, ops, n)
             /\ n + 1 \in 1 .. Len(ops) /\ s = ops[n + 1]
  <2>1. View(w) = g[n] /\ Left(r.todo, ops, n)
    BY <1>4 DEF Between
  <2>2. r.todo # <<>> /\ Len(ops) \in Nat
    BY <1>1, <1>3
  <2>3. QED
    BY <2>1, <2>2, LeftNext
<1>5. ASSUME rows' = rows, requests'[w].ops = ops, requests'[w].phase \in {"operations", "merge"},
             Between(w, n, g)' \/ Moved(w, n, g)'
      PROVE  Progress(w)'
  BY <1>1, <1>5 DEF Progress
<1>6. CASE Upsert(w) /\ Statement(w).row \in DOMAIN View(w)
  <2>1. s.op \in {"put", "arrive"} /\ s.row \in DOMAIN View(w)
    BY <1>1, <1>6 DEF Upsert, Ready
  <2>2. /\ requests'[w].phase = "merge"
        /\ requests'[w].merged = merge(View(w)[s.row], s.override)
        /\ requests'[w].ops = ops
        /\ requests'[w].todo = r.todo
        /\ requests'[w].writes = r.writes
        /\ rows' = rows
    BY <1>1, <1>6 DEF Upsert, storeVars, RequestsType, IsRequest, Fields
  <2>3. View(w)' = View(w)
    BY <2>2 DEF View
  <2>4. CASE Between(w, n, g)
    <3>1. s.op = "put"
      BY <1>3, <1>4, <2>1, <2>4
    <3>2. Between(w, n, g)'
      BY <1>1, <1>4, <2>1, <2>2, <2>3, <2>4, <3>1 DEF Between
    <3>3. QED
      BY <1>5, <2>2, <3>2
  <2>5. CASE Moved(w, n, g)
    <3>1. Moved(w, n, g)'
      <4>1. /\ ops[n + 1].op = "move" /\ n + 1 \in 1 .. Len(ops) /\ Store!Allowed(g[n], ops[n + 1])
            /\ g[n][ops[n + 1].row] # Deleted
            /\ View(w) = Store!Without(g[n], ops[n + 1].row)
            /\ s = [op |-> "arrive", row |-> ops[n + 1].to, override |-> g[n][ops[n + 1].row]]
            /\ Left(<<>> \o Tail(r.todo), ops, n + 1)
        BY <2>5 DEF Moved
      <4>2. s.row = ops[n + 1].to /\ s.override = g[n][ops[n + 1].row]
        BY <4>1
      <4>3. /\ ops[n + 1].to \in DOMAIN View(w)
            /\ requests'[w].merged = merge(View(w)[ops[n + 1].to], g[n][ops[n + 1].row])
        BY <2>1, <2>2, <4>2
      <4>4. QED
        BY <1>1, <2>2, <2>3, <4>1, <4>3 DEF Moved
    <3>2. QED
      BY <1>5, <2>2, <3>1
  <2>6. QED
    BY <2>4, <2>5
<1>7. CASE Move(w)
  <2> DEFINE arrive == [op |-> "arrive", row |-> s.to, override |-> View(w)[s.row]]
  <2>1. s.op = "move" /\ Write(w, Deleted, <<arrive>>) /\ s.row \in DOMAIN View(w)
    BY <1>1, <1>7 DEF Move, Ready, Fails
  <2>2. /\ requests'[w].writes = Over([x \in {s.row} |-> Deleted], r.writes)
        /\ requests'[w].todo = <<arrive>> \o Tail(r.todo)
        /\ requests'[w].phase = "operations"
        /\ requests'[w].ops = ops
        /\ rows' = rows
    BY <1>1, <2>1, WriteEffect DEF storeVars
  <2>3. View(w)' = Store!Without(View(w), s.row)
    BY <2>2, ViewAfterWrite
  <2>4. ~Moved(w, n, g)
    BY <2>1 DEF Moved
  <2>5. View(w) = g[n] /\ Left(r.todo, ops, n) /\ n + 1 \in 1 .. Len(ops) /\ s = ops[n + 1]
    BY <1>4, <2>4
  <2>6. Store!Allowed(g[n], s)
    BY <2>1, <2>5 DEF Store!Allowed
  <2>7. g[n][s.row] # Deleted
    BY <2>1, <2>5, ViewOK
  <2>8. /\ requests'[w].todo # <<>>
        /\ Head(requests'[w].todo) = arrive
        /\ Left(<<>> \o Tail(requests'[w].todo), ops, n + 1)
    <3>1. r.todo # <<>> /\ Len(ops) \in Nat
      BY <1>1, <1>3
    <3> HIDE DEF arrive
    <3>2. QED
      BY <2>2, <2>5, <3>1, LeftOneMore
  <2>9. Moved(w, n, g)'
    BY <2>1, <2>2, <2>3, <2>5, <2>6, <2>7, <2>8 DEF Moved
  <2>10. QED
    BY <1>5, <2>2, <2>9
<1>8. QED
  BY <1>6, <1>7

\* Every step of a request keeps the invariant, and is a request of ConfigStore or
\* leaves the rows and the newest version alone.
LEMMA StepStoreInv ==
  ASSUME OneWorker, InputsOK, StoreInputsOK, StoreInv, NEW w \in Workers, Step(w)
  PROVE  StoreInv' /\ [Store!Next]_(Store!storeVars)
<1>0. VersionInv' /\ VersionInv /\ RequestsType' /\ RequestsType
  BY StepVersionInv DEF StoreInv, VersionInv
<1>1. ASSUME UNCHANGED <<rows, latest>>,
             requests'[w] # None /\ requests'[w].phase \in InTransaction => Progress(w)'
      PROVE  StoreInv' /\ [Store!Next]_(Store!storeVars)
  BY <1>0, <1>1 DEF StoreInv, RowsOK, OneWorker, Store!storeVars
<1>2. CASE Refuse(w)
  BY <1>0, <1>1, <1>2 DEF Refuse, Abort, storeVars, RequestsType
<1>3. CASE Upsert(w) \/ MergeWrite(w) \/ Replace(w) \/ Move(w) \/ Remove(w) \/ SetDefault(w)
  <2>1. UNCHANGED <<rows, latest>>
    BY <1>3 DEF Upsert, MergeWrite, Replace, Move, Remove, SetDefault, Write, storeVars
  <2>2. Progress(w)'
    BY <1>3, StatementsBegun, StatementsDone
  <2>3. QED
    BY <1>1, <2>1, <2>2
<1>4. CASE SnapshotContexts(w) \/ SnapshotDefaults(w)
  <2>1. /\ requests[w] # None
        /\ \/ requests[w].phase = "operations" /\ requests[w].todo = <<>>
           \/ requests[w].phase = "snapshot"
        /\ requests'[w].phase \in {"snapshot", "commit"}
        /\ requests'[w].ops = requests[w].ops
        /\ requests'[w].writes = requests[w].writes
        /\ UNCHANGED <<rows, latest>>
    BY <1>0, <1>4 DEF SnapshotContexts, SnapshotDefaults, InPhase, RequestsType, IsRequest, Fields,
                      storeVars
  <2>2. Progress(w) /\ View(w)' = View(w) /\ Len(requests[w].ops) \in Nat
    BY <2>1, RequestLists DEF StoreInv, InTransaction, View, Progress
  <2>3. PICK n \in Nat : \E g : /\ Applied(rows, requests[w].ops, n, g)
                                /\ n = Len(requests[w].ops) /\ View(w) = g[n]
    BY <2>1, <2>2 DEF Progress, Between, Moved, Left
  <2>4. Progress(w)'
    BY <2>1, <2>2, <2>3 DEF Progress
  <2>5. QED
    BY <1>1, <2>1, <2>4
<1>5. CASE Commit(w)
  <2>1. requests[w] # None /\ requests[w].phase = "commit" /\ clock' = clock /\ rows' = View(w)
    BY <1>5 DEF Commit, InPhase
  <2>2. latest'.config = View(w)
    BY <1>0, <1>5, <2>1 DEF Commit, VersionInv
  <2>3. Progress(w) /\ Len(requests[w].ops) \in Nat /\ requests[w].ops \in Requests
    BY <2>1, RequestLists DEF StoreInv, InTransaction, Progress
  <2>4. PICK g : /\ Applied(rows, requests[w].ops, Len(requests[w].ops), g)
                 /\ View(w) = g[Len(requests[w].ops)]
    BY <2>1, <2>3 DEF Progress
  <2>5. Store!Request(requests[w].ops)
    BY <2>1, <2>2, <2>3, <2>4, AppliedRequest
  <2>6. Store!Next
    BY <2>3, <2>5 DEF Store!Next
  <2>7. RowsOK'
    BY <2>1, ViewOK DEF RowsOK
  <2>8. requests'[w] = None \/ requests'[w].phase = "publish"
    BY <1>0, <1>5, <2>1, ModesAssumption DEF Commit, RequestsType, IsRequest, Fields
  <2>9. QED
    BY <1>0, <2>6, <2>7, <2>8 DEF StoreInv, OneWorker, InTransaction
<1>6. CASE GenerateForRedis(w)
  <2>1. requests'[w].phase = "setConfig" /\ UNCHANGED <<rows, latest>>
    BY <1>0, <1>6 DEF GenerateForRedis, InPhase, RequestsType, IsRequest, Fields, storeVars
  <2>2. QED
    BY <1>1, <2>1 DEF InTransaction
<1>7. CASE SetRedisConfig(w)
  <2>1. requests'[w].phase = "setVersion" /\ UNCHANGED <<rows, latest>>
    BY <1>0, <1>7 DEF SetRedisConfig, InPhase, RequestsType, IsRequest, Fields
  <2>2. QED
    BY <1>1, <2>1 DEF InTransaction
<1>8. CASE GenerateFails(w) \/ SetRedisVersion(w)
  BY <1>0, <1>1, <1>8 DEF GenerateFails, SetRedisVersion, RequestsType
<1>9. QED
  BY <1>2, <1>3, <1>4, <1>5, <1>6, <1>7, <1>8 DEF Step

\* A request begins with all of its operations to do.
LEMMA BeginStoreInv ==
  ASSUME OneWorker, InputsOK, StoreInputsOK, StoreInv, NEW w \in Workers, NEW ops \in Requests,
         Begin(w, ops)
  PROVE  StoreInv' /\ UNCHANGED <<rows, latest>>
<1>1. /\ VersionInv'
      /\ requests'[w].ops = ops
      /\ requests'[w].todo = ops
      /\ requests'[w].phase = "operations"
      /\ requests'[w].writes = NoRows
      /\ UNCHANGED <<rows, latest>>
  BY BeginVersionInv, BeginEffect DEF StoreInv, VersionInv, storeVars
<1>2. View(w)' = rows
  <2>1. RowsOK
    BY DEF StoreInv
  <2>2. QED
    BY <1>1, <2>1 DEF View, Restricted, Over, NoRows, RowsOK
<1>3. Len(ops) \in Nat /\ DOMAIN ops = 1 .. Len(ops) /\ Left(ops, ops, 0)
  BY RequestLists
<1>4. \A i \in 1 .. Len(ops) : ops[i].op = "remove" => ~Store!Used(rows, ops[i].row)
  BY <1>3 DEF Begin, Acceptable, get_key_usage_context_ids, Store!Used
<1>5. PICK g : Applied(rows, ops, 0, g) /\ g[0] = rows
  <2> DEFINE h == [i \in 0 .. 0 |-> rows]
  <2>1. Applied(rows, ops, 0, h) /\ h[0] = rows
    BY DEF Applied
  <2>2. QED
    BY <2>1
<1>6. Between(w, 0, g)'
  BY <1>1, <1>2, <1>3, <1>5 DEF Between
<1>7. Progress(w)'
  BY <1>1, <1>4, <1>5, <1>6 DEF Progress
<1>8. QED
  BY <1>1, <1>7 DEF StoreInv, OneWorker, RowsOK

\* One request at a time, the transactions of several statements implement the
\* abstract store: with the commit the operations of a request are applied all, in
\* their order and with merges and moves in one piece, or, when a statement fails,
\* none; and the newest version is the configuration that results.
THEOREM ImplementsStoreCorrect ==
  ASSUME OneWorker, InputsOK, StoreInputsOK
  PROVE  Spec => ImplementsStore
<1>1. Init => StoreInv /\ Store!Init
  BY DEF Init, StoreInv, RowsOK, VersionInv, RequestsType, InputsOK, StoreInputsOK, Store!Init
<1>2. StoreInv /\ [Next]_vars => StoreInv' /\ [Store!Next]_(Store!storeVars)
  <2> SUFFICES ASSUME StoreInv, [Next]_vars
               PROVE  StoreInv' /\ [Store!Next]_(Store!storeVars)
    OBVIOUS
  <2>1. ASSUME NEW w \in Workers, Step(w)
        PROVE  StoreInv' /\ [Store!Next]_(Store!storeVars)
    BY <2>1, StepStoreInv
  <2>2. ASSUME NEW w \in Workers, NEW ops \in Requests, Begin(w, ops)
        PROVE  StoreInv' /\ [Store!Next]_(Store!storeVars)
    BY <2>2, BeginStoreInv DEF Store!storeVars
  <2>3. CASE UNCHANGED vars
    <3>1. \A w : View(w)' = View(w)
      BY <2>3 DEF vars, View
    <3>2. VersionInv'
      BY <2>3, <3>1 DEF vars, StoreInv, VersionInv, RequestsType, IsRequest
    <3>3. ASSUME NEW w, Progress(w)
          PROVE  Progress(w)'
      <4>1. \A n, g : (Between(w, n, g) => Between(w, n, g)') /\ (Moved(w, n, g) => Moved(w, n, g)')
        BY <2>3, <3>1 DEF vars, Between, Moved
      <4>2. QED
        BY <2>3, <3>1, <3>3, <4>1 DEF vars, Progress
    <3>4. QED
      BY <2>3, <3>2, <3>3 DEF vars, StoreInv, RowsOK, Store!storeVars
  <2>4. QED
    BY <2>1, <2>2, <2>3 DEF Next
<1>3. QED
  BY <1>1, <1>2, PTL DEF Spec, ImplementsStore, Store!Spec
=============================================================================
