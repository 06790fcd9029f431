--------------------------- MODULE ConfigRequests ---------------------------
(***************************************************************************)
(* The handlers of contexts and default values as the service runs them:   *)
(* several requests at once, each a transaction of several statements at   *)
(* the database's default isolation level.  A statement sees the committed *)
(* rows and the request's own writes; a row written by a transaction in    *)
(* progress is locked for the others, and the database aborts one of the   *)
(* transactions that wait for each other.  After its operations a request  *)
(* builds a config version from what it sees, commits, and, in the high    *)
(* performance mode, copies the configuration to Redis.                    *)
(*                                                                         *)
(* The rows of both tables are one function: a condition has an override,  *)
(* a key has its default value.  Values, schemas, validation functions,    *)
(* descriptions and the weights (see Dimensions) are left out.             *)
(***************************************************************************)
EXTENDS FiniteSets, Integers, Relation, Sequences

CONSTANTS Conditions, Keys, Workers,
          Requests,          \* the lists of operations that clients send
          Start,             \* the rows to begin with
          HighPerformance,   \* the feature high-performance-mode is on
          MaxVersions,       \* bound: versions after which no request is accepted
          Deleted, None

ASSUME ModesAssumption == HighPerformance \in BOOLEAN
ASSUME MaxVersionsAssumption == MaxVersions \in Nat

VARIABLES rows,       \* the committed rows
          latest,     \* the config version that is newest by created_at
          redis,      \* what was copied to Redis; history: the parts that the last
                      \* request failed to write
          clock,      \* the created_at of the last version that was built
          requests    \* worker -> its request

storeVars == <<rows, latest, redis, clock>>
vars == <<rows, latest, redis, clock, requests>>

NoRows == [x \in {} |-> None]

Restricted(f, S) == [x \in DOMAIN f \cap S |-> f[x]]

\* The entries of f, and those of g where f has none.
Over(f, g) == [x \in DOMAIN f \cup DOMAIN g |-> IF x \in DOMAIN f THEN f[x] ELSE g[x]]

\* What the statements of w see.
View(w) ==
  LET seen == Over(requests[w].writes, rows)
  IN Restricted(seen, {x \in DOMAIN seen : seen[x] # Deleted})

Writes(v) == IF requests[v] = None THEN {} ELSE DOMAIN requests[v].writes

Locked(w, x) == \E v \in Workers \ {w} : x \in Writes(v)

get_key_usage_context_ids(k) == {c \in DOMAIN rows \cap Conditions : k \in DOMAIN rows[c]}

Init ==
  /\ rows = Start
  /\ latest = [config |-> Start, created |-> 0]
  /\ redis = [config |-> Start, version |-> 0, lost |-> {}]
  /\ clock = 0
  /\ requests = [w \in Workers |-> None]

-----------------------------------------------------------------------------
(* A request from its acceptance to its last operation *)

\* What is checked before the transaction: the default value to update exists,
\* the one to delete is not used.
Acceptable(o) ==
  /\ o.op = "update" => o.row \in DOMAIN rows
  /\ o.op = "remove" => get_key_usage_context_ids(o.row) = {}

Begin(w, ops) ==
  /\ requests[w] = None
  /\ clock < MaxVersions
  /\ \A i \in DOMAIN ops : Acceptable(ops[i])
  /\ requests' = [requests EXCEPT ![w] =
       [ops |-> ops, todo |-> ops, phase |-> "operations", writes |-> NoRows,
        merged |-> NoRows, config |-> NoRows, created |-> 0]]
  /\ UNCHANGED storeVars

InPhase(w, phase) == requests[w] # None /\ requests[w].phase = phase

Operating(w) ==
  /\ requests[w] # None
  /\ requests[w].phase \in {"operations", "merge"}
  /\ requests[w].todo # <<>>

Statement(w) == Head(requests[w].todo)

\* A statement that finds no row, or finds one it must not find, or names a key
\* without a default value.
Fails(w) ==
  LET o == Statement(w) IN
  \/ o.op \in {"put", "replace"} /\ ~(DOMAIN o.override \subseteq DOMAIN View(w))
  \/ o.op \in {"replace", "delete", "move", "update", "remove"} /\ o.row \notin DOMAIN View(w)
  \/ o.op = "create" /\ o.row \in DOMAIN View(w) /\ ~Locked(w, o.row)
  \/ requests[w].phase = "merge" /\ o.row \notin DOMAIN View(w)

Abort(w) ==
  /\ requests' = [requests EXCEPT ![w] = None]
  /\ UNCHANGED storeVars

WaitsFor(w, v) ==
  /\ w # v
  /\ Operating(w)
  /\ ~Fails(w)
  /\ Statement(w).row \in Writes(v)

\* The database aborts a transaction of a cycle of transactions that wait.
InDeadlock(w) ==
  TransitiveClosure([p \in Workers \X Workers |-> WaitsFor(p[1], p[2])], Workers)[w, w]

\* The statement ends with an error, and with it the request.
Refuse(w) == Operating(w) /\ (Fails(w) \/ InDeadlock(w)) /\ Abort(w)

\* A statement that writes x waits for the transaction that has x locked.
Ready(w, ops) ==
  /\ Operating(w)
  /\ Statement(w).op \in ops
  /\ ~Fails(w)
  /\ ~Locked(w, Statement(w).row)

\* The statement writes value to its row; the operations in next come before
\* what is left to do.
Write(w, value, next) ==
  /\ requests' = [requests EXCEPT
       ![w].writes = Over([x \in {Statement(w).row} |-> value], @),
       ![w].todo = next \o Tail(@),
       ![w].phase = "operations"]
  /\ UNCHANGED storeVars

\* Fault: an override replaces the one it should be merged into.
Overwrite(existing, override) == override

merge(existing, override) == Over(override, existing)

\* operations::upsert, and the end of operations::move ("arrive"): an insert, or,
\* after a unique violation, a read of the existing override.
Upsert(w) ==
  /\ Ready(w, {"put", "arrive"})
  /\ requests[w].phase = "operations"
  /\ LET o == Statement(w) IN
     IF o.row \in DOMAIN View(w)
     THEN /\ requests' = [requests EXCEPT ![w].phase = "merge",
                                          ![w].merged = merge(View(w)[o.row], o.override)]
          /\ UNCHANGED storeVars
     ELSE Write(w, o.override, <<>>)

\* update_override_of_existing_ctx: the second statement writes what was merged
\* with the override read by the first.
MergeWrite(w) ==
  /\ Ready(w, {"put", "arrive"})
  /\ requests[w].phase = "merge"
  /\ Write(w, requests[w].merged, <<>>)

Replace(w) == Ready(w, {"replace"}) /\ Write(w, Statement(w).override, <<>>)

\* A move takes the row away and puts its override at the new condition; the
\* keys of the override are not checked again.
Move(w) ==
  /\ Ready(w, {"move"})
  /\ LET o == Statement(w)
     IN Write(w, Deleted,
              <<[op |-> "arrive", row |-> o.to, override |-> View(w)[o.row]]>>)

Remove(w) == Ready(w, {"delete", "remove"}) /\ Write(w, Deleted, <<>>)

SetDefault(w) == Ready(w, {"create", "update"}) /\ Write(w, Statement(w).value, <<>>)

-----------------------------------------------------------------------------
(* add_config_version, the commit and put_config_in_redis *)

\* generate_cac reads the contexts and the default values in two statements.
SnapshotContexts(w) ==
  /\ InPhase(w, "operations")
  /\ requests[w].todo = <<>>
  /\ requests' = [requests EXCEPT ![w].config = Restricted(View(w), Conditions),
                                  ![w].phase = "snapshot"]
  /\ UNCHANGED storeVars

SnapshotDefaults(w) ==
  /\ InPhase(w, "snapshot")
  /\ clock' = clock + 1
  /\ requests' = [requests EXCEPT ![w].config = Over(Restricted(View(w), Keys), @),
                                  ![w].created = clock + 1,
                                  ![w].phase = "commit"]
  /\ UNCHANGED <<rows, latest, redis>>

Commit(w) ==
  /\ InPhase(w, "commit")
  /\ rows' = View(w)
  /\ latest' = IF requests[w].created > latest.created
               THEN [config |-> requests[w].config, created |-> requests[w].created]
               ELSE latest
  /\ requests' = [requests EXCEPT ![w] =
       IF HighPerformance THEN [@ EXCEPT !.phase = "publish", !.writes = NoRows] ELSE None]
  /\ UNCHANGED <<redis, clock>>

\* put_config_in_redis: the configuration is generated from the committed rows ...
GenerateForRedis(w) ==
  /\ InPhase(w, "publish")
  /\ requests' = [requests EXCEPT ![w].config = rows, ![w].phase = "setConfig"]
  /\ UNCHANGED storeVars

\* ... or the request ends with an error, after its commit, and writes nothing ...
GenerateFails(w) ==
  /\ InPhase(w, "publish")
  /\ redis' = [redis EXCEPT !.lost = {"config", "version"}]
  /\ requests' = [requests EXCEPT ![w] = None]
  /\ UNCHANGED <<rows, latest, clock>>

\* ... and written in several writes whose failures are ignored.
SetRedisConfig(w) ==
  /\ InPhase(w, "setConfig")
  /\ \/ redis' = [redis EXCEPT !.config = requests[w].config, !.lost = @ \ {"config"}]
     \/ redis' = [redis EXCEPT !.lost = @ \cup {"config"}]
  /\ requests' = [requests EXCEPT ![w].phase = "setVersion"]
  /\ UNCHANGED <<rows, latest, clock>>

\* Fault: the version is not written.
KeepRedisVersion(w) ==
  /\ InPhase(w, "setVersion")
  /\ requests' = [requests EXCEPT ![w] = None]
  /\ UNCHANGED <<rows, latest, redis, clock>>

SetRedisVersion(w) ==
  /\ InPhase(w, "setVersion")
  /\ \/ redis' = [redis EXCEPT !.version = requests[w].created, !.lost = @ \ {"version"}]
     \/ redis' = [redis EXCEPT !.lost = @ \cup {"version"}]
  /\ requests' = [requests EXCEPT ![w] = None]
  /\ UNCHANGED <<rows, latest, clock>>

Step(w) ==
  \/ Refuse(w)
  \/ Upsert(w)
  \/ MergeWrite(w)
  \/ Replace(w)
  \/ Move(w)
  \/ Remove(w)
  \/ SetDefault(w)
  \/ SnapshotContexts(w)
  \/ SnapshotDefaults(w)
  \/ Commit(w)
  \/ GenerateForRedis(w)
  \/ GenerateFails(w)
  \/ SetRedisConfig(w)
  \/ SetRedisVersion(w)

Next == \E w \in Workers : Step(w) \/ \E ops \in Requests : Begin(w, ops)

Spec == Init /\ [][Next]_vars

-----------------------------------------------------------------------------
(* Properties *)

Store == INSTANCE ConfigStore WITH store <- rows, version <- latest.config

\* One request at a time, the transactions of several statements apply the
\* operations of a request all or none, merge and move included, and the newest
\* version is the configuration that results.
ImplementsStore == Store!Spec

Quiet == \A w \in Workers : requests[w] = None

\* One request at a time, Redis has between requests the configuration of the
\* newest version and its number, each unless the last request that committed did
\* not write it: what a lost command or a failed generation leaves behind is made
\* good by the next request, and the two parts do not depend on each other.
RedisCurrent ==
  Quiet => /\ "config" \in redis.lost \/ redis.config = latest.config
           /\ "version" \in redis.lost \/ redis.version = latest.created
=============================================================================
