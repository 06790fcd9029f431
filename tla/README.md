# Superposition: a verification project

TLA+ models of Superposition's two services and of the clients that follow them,
the checks TLC makes on small instances, and theorems that TLAPS proves for all
instances.

Run from this directory:

    tlc -workers 2 -config ExperimentGroups.cfg MCVariantServing
    tlapm ExperimentGroupsProofs.tla

## 1. The system

Superposition is a configuration service. **Context-aware config** (CAC) stores
default values for keys and *contexts*: conditions on dimensions with the values
that hold where the condition does. The **experimentation platform** runs
experiments over it. The variants of an experiment are contexts whose condition
has one more dimension, `variantIds`. Clients poll both services and resolve
configurations on their own.

| Component | State | Operations that change it | Talks to |
|---|---|---|---|
| Experiments (`experimentation_platform/api/experiments`) | table `experiments`: status, traffic percentage, group id, chosen variant | create, update, ramp, conclude, discard, pause, resume | CAC over HTTP; group helpers in its transactions; webhooks after the commit |
| Experiment groups (`api/experiment_groups`) | table `experiment_groups`: type, context, traffic, members, 100 buckets | create, update, add and remove members, delete, backfill; from the experiment handlers: system groups, detach, bucket update | writes `experiments.experiment_group_id` |
| Variant serving (`get_applicable_variants_helper`, `experimentation_client`, `superposition_core/experiment.rs`) | none | none | reads both tables |
| CAC contexts (`context_aware_config/api/context`) | table `contexts` | put, replace, move, delete, bulk, weight recompute | config versions; called by the experiment handlers |
| CAC default configs | table `default_configs` | create, update, delete | config versions; functions; called by conclude |
| CAC dimensions | positions, dependency graph of cohorts | create, update, delete | gives contexts their weights |
| CAC functions | draft and published code | create, update, publish, delete | validate and compute values |
| Config versions, Redis (`helpers.rs`) | snapshots of the configuration, a copy of the newest one | added by every write | read by clients |
| Config resolution (`cac_client/eval.rs`, `superposition_types/logic.rs`, `api/config`) | none | reduce writes contexts | reads contexts, defaults, dimensions |
| CAC client, experimentation client | a copy, the time of the last poll, a cache | poll, resolve | the services |
| OpenFeature provider (`superposition_provider`) | caches, locks, polling tasks | init, refresh, evaluate, close | the services, through the SDK |
| Workspaces | the config version that is served | update | every request reads it |
| Variables, type templates, audit log, organisations, webhooks | rows of their own | one statement each | |
| Frontend, generated SDKs, macros, TOML front end | none of their own | | |

What is hard in it:

* **Two databases, one experiment.** A handler reads the experiment without a
  lock, calls CAC, which commits on its own, and then writes its own tables in a
  transaction that does not look at the status again. Between any two of these
  steps another request may run, the call may fail or the process may die.
* **Check, then write.** Nearly every handler of CAC validates against rows it
  reads before its transaction: positions against a count, deletions against
  uses, values against schemas and functions.
* **Redundant state.** Group id and member list; the dependency graph in the row
  of every base; weights computed from positions; config versions and Redis
  computed from the tables.
* **The bucket array.** It is filled from the front and freed from the back,
  variant by variant. Users must keep their variant as long as they can.
* **Clients.** 304 answers compare times of different clocks and precisions; two
  lists are fetched with two requests; caches are filled and emptied by
  different threads; locks are taken in different orders; tasks are aborted.

What makes each part correct:

* groups: the tables agree; each variant owns exactly its buckets; a system
  group has one owner and its traffic; a member's context contains the group's;
* serving: one variant per user, kept as long as possible, and the share that
  the docs promise, where the code achieves it;
* requests: what a row says about a terminated experiment has happened in CAC;
  with one request at a time the steps implement the atomic handlers;
* dimensions: positions are a list, cohorts below their bases, graphs exact;
* resolution: the override of the highest weight wins, whatever was filtered
  before, and cohorts have the values their definitions say;
* writes: all or nothing, with a version that follows; a reduction changes no value;
* clients: what they have is consistent, and what changes arrives.

## 2. The modules

| Module | Models |
|---|---|
| `Buckets` | the bucket array and `update_bucket_allocation` with its helpers, as operators |
| `ExperimentGroups` | both tables of the platform; every handler that writes them as one step |
| `VariantServing` | which variant an identifier gets, on top of `ExperimentGroups` |
| `ExperimentRequests` | the experiment handlers in steps, concurrent, with CAC and failures |
| `ExperimentIsolation` | the flags that say which experiments may run beside each other |
| `DeleteOverrides` | experiments of type DELETE_OVERRIDES against a CAC that users go on editing |
| `ExperimentPolling` | the experimentation client and the 304 answers of its service |
| `Dimensions` | checks and writes of the dimension handlers and of the weight recompute, as operators; contexts |
| `DimensionRequests` | the dimension handlers in two steps each |
| `DimensionList` | abstract: a list in which cohorts come before their bases |
| `CohortEvaluation` | remote and local cohorts of a query |
| `ConfigResolution` | merge of overrides by weight, filters |
| `ConfigReduce` | `reduce` with and without approval, on top of `ConfigResolution` |
| `ConfigRequests` | writes to contexts and default keys as transactions of several statements, config versions, Redis |
| `ConfigStore` | abstract: a store whose version follows every update |
| `ConfigPolling` | the CAC client on top of `ConfigRequests` |
| `ValueValidation` | default values, schemas, functions and overrides |
| `WorkspaceVersions` | the config version of a workspace and a client that polls |
| `ProviderRefresh` | the OpenFeature provider: caches, locks, polling, on demand, close |
| `SideBySide` | puts five parts that share no state into one specification |
| `*Proofs` | theorems about the module of that name (section 4). `ExperimentGroupsProofs` is also about `VariantServing`, `DimensionsProofs` about `DimensionRequests`, `ConfigPollingProofs` also about `ConfigRequests`, `ConfigReduceProofs` also about `ConfigResolution`, `SideBySideProofs` about four of the parts of `SideBySide` |
| `MC*` | values of the constants for TLC |

Operators marked *Fault* are what a plausible mistake would make of the
definition that follows them. Each of them makes one of the checked properties
fail when it takes that definition's place.

### ExperimentGroups

`experiments` and `groups` are functions from ids to rows; `None` is an id
without a row, `Deleted` the row of a deleted group (its snowflake id is not
used again). A row has the columns the properties tell apart. A context is a set
of (dimension, value) pairs. A variant `"<id>-<name>"` is the pair `<<e, i>>`.
`NumBuckets` stands for the 100 of the array and for the 100 of the percentage,
which are the same number: one percent for a variant is one bucket.

A transaction is an operator of the row that the handler has read (`snap`):
`CommitCreate`, `CommitRamp`, `CommitTermination` (conclude and discard),
`CommitStatus` (pause and resume), `CommitMove` (update), `CommitAddMembers`.
The actions `Create` ... `Backfill` are the handlers: the checks, then the
transaction on the current row. A request that the code refuses is no step.

Abstractions. Validation that only refuses more requests (overrides, change
reasons, self-approval, isolation between experiments, which has a module of its own) is left out: the model
allows those requests, and a safety property that holds for it holds for the
code. `check_max_allowed` and the products with the number of variants are
computed in `u8`. For up to 255 variants this is exact; beyond, the casts
truncate, but every nonzero traffic then fails in the bucket count (computed in
`usize`), so that the outcome is the model's: a refusal. `Init` lets
experiments run or be paused without a group, as in a database of a release
before groups: they are what `backfill_handler` looks for.

### VariantServing

A user is the index `h` that the hash gives for a group; any index is possible
for any group. `BucketApplies` and `Toss` are `get_applicable_buckets_from_group`,
`Serves` is `get_applicable_variants_from_group_response` on the INPROGRESS
experiments. The client and the core library repeat this code. (They hash the
group id differently, as an integer and as a string; see the hazards.)
`rampedDown` is a history variable that `SystemGroupFairShare` needs.

### ExperimentRequests

`requests[w]` is the request that worker `w` handles: its kind, where it is
(`defaults`, `bulk`, `commit`), the row it read and its argument. `contexts` is
the set of variants whose context exists in CAC; `base[e][k]` says whose value
CAC has for key `k` where the experiment applies (in the default configuration
if its context is empty), 0 being the value from before. Contexts of different
experiments are taken to be different. `Read*` are the reads and checks,
`PutDefault` and `BulkOperations` the calls to CAC, `Commit` and `Rollback` the
transaction. `Crash` cuts a request short anywhere: a dead process, a broken
connection, an answer that never came.

A transaction is one step, since those that touch a group lock its row first
(`fetch_experiment_group`, `FOR UPDATE`). The group handlers are one step each
(`GroupRequest`), except add-members for one experiment, whose read comes before
its transaction (`ReadJoin`). Experiments are of type DEFAULT.
`crashed` is a history variable: the experiments a crash has cut a request on
short for. Properties that crashes break are stated for the others.

### ExperimentIsolation

`Accepts` is `is_valid_experiment` for two experiments and one set of flags.
Create and update compare (`Compare`) and write later (`Commit`); ramp, pause,
resume and terminations write the status without a comparison. A context fixes
the values of some dimensions; `are_overlapping_contexts` is the code's notion of
overlap (one is contained in the other).

### DeleteOverrides

One experiment over one context and one outer context with the same keys (the
rest of the configuration). Create and update fetch the context and the resolved
values from CAC (`FetchContext`, `Validate`), then put the variants and commit;
ramp validates again; conclude replaces the context by what it has read without
the keys of the winner. Users edit both contexts between any two steps. Requests
carry exactly the dimensions of the context; `Offered` is the set of variants that
requests bring. An update whose transaction fails after CAC has answered leaves
variants and row apart, until an update succeeds. The history variable `apart`
says so: a conclusion then still does what the winner in the row says, but that is
not what the winner's users were served.

### ExperimentPolling and WorkspaceVersions

A table is the number of changes made to it, times tick faster than seconds. In
`ExperimentPolling` an event carries the time at which its transaction began; the
client asks for experiments and groups in two requests, applies both or none,
and remembers its own time. In `WorkspaceVersions` a poll carries the settings
that the middleware read before the handler. Versions are created at any tick, and
`is_not_modified` compares times without their nanoseconds, as the code does
(`TicksPerSecond`): a version of the client's own second is answered with 304.

### Dimensions, DimensionRequests, DimensionList

`dimensions` maps a name to its row: position, type, base, dependency graph.
`contexts` maps a condition, a set of dimensions, to its weight; values in
conditions make no difference to weights. `Dimensions` has what the handlers
check (`Can*`) and what their transactions make of the table (`Inserted`,
`Moved`, `Removed`, `Reweighed`). `DimensionRequests` makes actions of them:
`Begin*` reads and checks, `Commit*` writes with what was read; the unique
constraint on positions is deferred to the commit. `ImplementsList` maps the
rows to the list of names by position; it implies that positions are dense and
that a cohort is below its base. The weight of a condition, a sum of powers of
two in the code, is summed up from the highest position down (`2 * weight + digit`):
the same number, in a form that can be reasoned about.

### CohortEvaluation

A behaviour is one query on one forest of dimensions (`Sent` has the value that a
dimension is queried with). The starts of a walk, and
each round of it, are chosen in any order, as the hash maps of the code do. The
function of a remote cohort gets the whole context as it is at that point of the
walk and may return any value; one that is missing, not published or fails ends the
query with an error (`RemoteFails`). `calls` is a history: what each function was
given and what it returned.

`EvaluationExact` compares the result with a definition that has no walk; the
dimensions above another one (`Ancestors`) are the least set closed under bases. It
is stated for dimensions that are `Connected`, between which and their topmost
queried ancestor all have values; what becomes of a queried cohort below a gap is
where the code and its comment at `logic.rs:148` disagree (section 3).

### ConfigResolution, ConfigReduce

`contexts` is a sequence, the position being the age. A value is an atom or an
object; MERGE patches objects field by field, REPLACE takes the value as it is.
Conditions are equalities on dimensions. Resolution and the filter by dimensions
first evaluate the local cohorts of the query (`evaluate_local_cohorts`; `Base`,
`Schema` and `Otherwise` are the cohort definitions), here by what
`CohortEvaluation` shows the walk to compute: `Reached` are the dimensions that keep
or get a value, every other local cohort is "otherwise". The filter does this with the
part of the query it is given, so that a cohort which only the rest determines is taken for
"otherwise" and its contexts are dropped; `FilterCommutes` is therefore stated for
parts that determine the cohorts that matter (`Determines`).

The preview of `reduce` is a function of the contexts (`Reduced`). With approval,
`reducing` is a request in steps: the contexts are read for each key
(`ReadContexts`), and each redundant override is removed with statements that commit
on their own: delete (`RemoveContext`), the query for the description
(`query_description`), upsert of the other overrides (`PutAgain`). Failures of delete
and upsert are ignored, that of the query in between ends the request. Others write in between
(`Other`, at most `MaxWrites` times during one reduction). `start` and `touched` are histories: the contexts
when the reduction began and the conditions that others have written since.
`ReductionInvisible` leaves out the states between delete and query (`"describe"`), since there
the other overrides of a context are gone (and, the query failing, stay so).
Candidates of equal weight are taken in any order.
`Sorted` is the listing of the contexts in an order, `Kept` the listing of some of
them in the order they have; the fold over the matching contexts
(`get_overrides`) is a recursive function of how many have been merged. As in
`Dimensions`, weights are summed up from the highest position down.
`PositionAssumption` says that there are finitely many dimensions, whose positions
are below their number (as `DimensionsProofs` shows of the table).

### ConfigStore, ConfigRequests, ConfigPolling

`ConfigStore` has what is promised: a request is a list of operations, applied one
after the other, all or none, and the newest version is the result (`after` is the
store after each of them). In `ConfigRequests`, `rows` has contexts and default
keys. A request is a sequence of operations
(one, or a bulk), each a statement that locks its row, reads what is committed
or written by itself (READ COMMITTED) and may be refused; then the version is
generated in two reads, committed, and, in high-performance mode, generated
again and written to Redis in two commands; that second generation may fail, after
the commit (`GenerateFails`). A waiting transaction that closes a
cycle is aborted by the database. `redis.lost` is a history: what the last request
that committed did not write. `ConfigPolling` adds a client that polls, the
threads that read its cache, and the read lock they hold; times are compared by
the second, `client.version` is a history.

### ValueValidation

A schema is the set of values that conform, the code of a validation function
the set of values it accepts. Every handler validates (`Begin*`) and writes
later. The functions that a default key names are foreign keys.

### ProviderRefresh

Callers and polling tasks; tokio's fair RwLocks as queues; guards are held until
the end of their scope, which is where the code's hazards come from. `Calls` and
`Answers` say what the application does and how fetches end: initialise, evaluate,
read the caches with the getters (`CallGet`, `GetCached`), refresh on demand, close.
With a fallback configuration a failed first fetch goes on with it, unless its
conversion fails too (`FallbackFails`). Aborted tasks run
on to their next suspension (`Cancel`). `history` has what the properties need:
which clients are `closed`, the polling tasks whose handle a second init has
`replaced`, and whether an abort has left the two caches `torn`.

### SideBySide

`CohortEvaluation`, `ExperimentPolling`, `ExperimentIsolation`,
`WorkspaceVersions` and `ValueValidation` share no state. The module instantiates
all five with variables of their own, and `Init` chooses the one that takes
steps. The reachable states are the disjoint union of theirs, and the fairness
of a part is guarded by its being the one that runs; so each property holds in
the run if and only if it holds of its part.

## 3. What TLC checks

| Run | States | Shows |
|---|---|---|
| `groups` | 163,826 | `TypeOK`, `MembershipConsistent`, `AllocationExact`, `SystemGroupOwned`, `MembersMatchContext`, `OneVariantPerUser`, `SystemGroupFairShare`, `StickyVariants` over every history of requests |
| `requests` | 442,184 | `TerminationMatchesCac`: two requests at once, with crashes |
| `requests_serial` | 108,592 | one worker with crashes: `ImplementsSerial` (the refinement of `ExperimentGroups!Spec`), `GlobalWinnerIsDefault`, `LiveHaveContexts`, and the liveness property `DiscardTakesEffect` |
| `dimensions` | 374,269 | `ImplementsList` (the refinement of `DimensionList!Spec`), `GraphExact`, `ContextsWellFormed`, `RecomputeRanks`, one request at a time |
| `resolution` | 4,888 | `ResolvesByWeight`, `FilterCommutes` |
| `reduce` | 172,828 | `ReduceNestedSound`, `ReductionInvisible`: an approved reduction in steps, beside a write of someone else |
| `config_serial` | 926,491 | `ImplementsStore` (the refinement of `ConfigStore!Spec`), `RedisCurrent`, one request at a time |
| `config_polling` | 37,504 | two transactions at once beside a client: `CacheFresh`, `SkipsOnlyUnmodified`, `Converges` |
| `provider` | 105,813 | `SnapshotPaired`, `CallsReturn`, `PollingCatchesUp`, `PollingStops` |
| `delete_overrides` | 2,142,934 | `ConcludeAsServed` |
| `side_by_side` | 210,387 | cohorts: `EvaluationExact`, `RemoteResolved`, `Completes`; the experimentation client: `GroupsNotOlder`, `RecentChangeArrives`; isolation: `OnlyResumeConflicts`; versions: `NextVersionBringsSetting`; values: `ComputePublished` |
| `terminal_race` | | `TerminalIsFinal` is **violated** by two requests at once |

Bounds. `groups` has two experiments, of two and of three variants, three group
ids and seven buckets. Seven is divisible by neither two nor three, holds both
experiments at one per variant and one of them at more, so that ramps are refused
for want of buckets, ramps down leave holes, and the other experiment's buckets
fill them; three group ids suffice for a user's group and the system groups of
both experiments. The request runs have one experiment of two variants, two keys
(so that a conclusion can stop between them), two buckets and at most two
workers: the hazards are between two requests on one experiment. `dimensions` has
four names, `variantIds` among them: a cohort, its base and a third one that moves
past both, or a cohort of a cohort. `resolution` has every
set of up to three contexts, on a dimension and on a local cohort of a remote cohort
of it with each of two variants (two of equal
weight), with a key of objects and one of atoms, and queries with and without each dimension; `reduce` two dimensions, a
context, one that is more specific and one of an experiment, two keys, and one
write of someone else during a reduction.
`config_serial` has every operation on two contexts and two keys, bulks of two,
and four versions; `config_polling` two bulks that lock two rows in opposite
orders, and three versions at two ticks to the second, so that versions of one and
of different seconds happen. `delete_overrides` has a control variant and two that
delete a key each, two keys and two values. `provider` has one caller, two polling tasks,
two initialisations of the experiments, a change of them, fetches that succeed and
fail under both strategies, and a fallback. (With one caller nobody reads while another
caller closes; the theorem `SnapshotPairedCorrect` is for any number.) `side_by_side` has four dimensions (a
remote cohort of a remote cohort and a local one below it), two changes in two
seconds of two ticks, two experiments, two updates of a workspace's version among
four versions at two ticks to the second, one key with one function.

Symmetry is used for group ids and workers, in runs without liveness properties.

Deadlock is not checked where a bound ends the histories (ids that are not used
again, versions, time) or where nothing forces another request; a request that
is stuck is found by the liveness properties instead.

Fairness.

* `ExperimentRequests`: weak fairness of `Proceed(w)`: the executor polls an
  accepted request until it is done, and the calls it awaits return, with an
  error if need be. A crash is never forced.
* `ConfigPolling`: strong fairness of a worker's steps, since the database hands a
  row lock to the transactions in its queue, so that one that waits is not passed
  over for ever by later ones that lock the row and fail; the client polls for
  ever and not every poll fails (strong fairness of `Answer` and `Receive`).
* `ExperimentPolling`, `WorkspaceVersions`: the same for their polls.
* `CohortEvaluation`: a function that is running goes on.
* `ProviderRefresh`: the runtime runs every task that can go on; fetches of a
  polling task do not all fail.

Nothing forces anyone to send a request.

### What the violation shows

A ramp reads an INPROGRESS experiment, a conclude commits, the ramp writes
INPROGRESS over CONCLUDED. The contexts are gone, so no conclude or discard
succeeds again.

### Known disagreements that no run lists

The models have these behaviours too. They break what a doc, a comment or a
message of the code says, and are why some properties are stated for one worker,
or with a history variable.

* *Ramp down.* Two variants at 3% have buckets 0-2 and 3-5. A ramp to 1% leaves
  buckets 0 and 3 and sets the group's traffic to 2: nobody gets the second variant.
* *User groups.* In a group with all of the traffic, a member whose buckets come
  after another member's has tosses above traffic x variants and is not served.
* *Two groups, one member.* A ramp that read the experiment before a backfill, a
  new group or another ramp gave it a group writes the stale group id back.
* *Mixed default values.* Two conclusions of a global experiment with different
  winners write the defaults key by key; only one passes the bulk operation.
* *Dimensions.* A cohort is created while its base is deleted; a position is
  checked against a count that a deletion lowers, which leaves a gap; a recompute
  writes weights of positions read before a move.
* *Cohorts.* A remote cohort in the query is dropped when its base has no value
  and one further up has (`logic.rs:148` says it is retained). A configuration filtered for a part of a
  query lacks the contexts on local cohorts that the part does not determine.
* *Reduce.* Only contexts contained in the reduced one are looked at: one that
  merely overlaps decides the value afterwards. With approval, a context with
  further overrides is deleted, its description is then not found, and the request
  ends: the other overrides are lost. The deletions before are not undone.
* *Config versions.* Of two writes at once neither version has both, and the
  newest is served until the next write; two puts to one context lose one merge;
  a context put during the deletion of a default key keeps its override; an older
  configuration may be written to Redis last, or none, when its generation fails after the commit.
* *304 answers.* Versions of one second are the same to `is_not_modified`: a client
  that has the first does not get the second before one of a later second; an
  experiment whose transaction began before a poll and committed after it, and
  a group that changes alone, are not delivered; a change of the workspace's
  config version is not seen before the next version.
* *Isolation.* Pause, create, resume; two creations at once; contexts on
  different dimensions that one request can be in do not count as overlapping.
* *Deleting experiments.* An update that fails after CAC took its variants leaves
  users with variants that a conclusion does not know of.
* *Provider.* `on_demand_config` holds the read guard of `last_updated` when it
  asks for the write lock: with a service that answers, its first refresh never
  returns, and it holds up all others (`CallsReturn` names this as the one exception). Polling and on demand take two locks in opposite orders. Evaluation
  never looks at the TTL. A poll may fill caches that close has cleared. A second
  init loses the handle of the first polling task, which no close stops (the
  exception of `PollingStops`). While someone reads the groups with
  `get_cached_experiment_groups`, a poll waits between its two writes, and a close that
  aborts it there leaves new experiments with old groups (the exception of
  `SnapshotPaired`).
* *Values.* An update that brings a value without a schema is not validated
  against the stored one; a new schema looks at no override; a validation function without
  published code accepts everything; a draft updated between the two statements
  of publish is not what is published; a function deleted and created again
  between check and write leaves a compute function without published code.
* *Webhooks* (not modelled). Two webhooks for one event can be created at once.

## 4. What is proved

Each theorem states a property that a run checks, for all values of the constants
and not for the run's. `Spec` stands for the specification of the module that the
proofs are about.

| Module | Theorems | Hypotheses |
|---|---|---|
| `ExperimentGroupsProofs` | `TypeCorrect`, `MembershipCorrect`, `MembersMatchContextCorrect`, `AllocationExactCorrect`, `SystemGroupOwnedCorrect`, `StickyVariantsCorrect`, `OneVariantPerUserCorrect`, `SystemGroupFairShareCorrect` | none |
| `ExperimentRequestsProofs` | `TerminationMatchesCacCorrect` | none: any number of requests at once, and crashes |
| | `ImplementsSerialCorrect`, `LiveHaveContextsCorrect`, `GlobalWinnerIsDefaultCorrect`, `TerminalIsFinalCorrect` | `OneWorker` |
| `DimensionsProofs` | `GraphExactCorrect`, `ContextsWellFormedCorrect`, `RecomputeRanksCorrect`, `ImplementsListCorrect` | `OneWorker` |
| `ConfigPollingProofs` | `CacheFreshCorrect`, `SkipsOnlyUnmodifiedCorrect` | none |
| | `RedisCurrentCorrect` | `OneWorker`, `InputsOK`, `HighPerformance` |
| | `ImplementsStoreCorrect` | `OneWorker`, `InputsOK`, `StoreInputsOK` |
| `ConfigReduceProofs` | `ResolvesByWeightCorrect`, `FilterCommutesCorrect`, `ReduceNestedSoundCorrect`, `ReductionInvisibleCorrect`; the invariants they rest on are `WorkspaceInvariant` and `ReduceInvariant` | none |
| `ProviderRefreshProofs` | `SnapshotPairedCorrect` | `BothClients` |
| `SideBySideProofs` | `GroupsNotOlderCorrect`, `EvaluationExactCorrect`, `RemoteResolvedCorrect`; the invariant of the last two is `CohortInvariant` | none |
| | `OnlyResumeConflictsCorrect`, `ComputePublishedCorrect` | `OneWorker` |
| `DeleteOverridesProofs` | `ConcludeAsServedCorrect` | none |

The assumptions on constants are named in the modules that declare them and TLC
evaluates them: at least one bucket, at least two variants, typed inputs, finitely
many dimensions at positions below their number, and sentinels (`None`, `Deleted`, `NoBucket`) that are not rows, ids, variants,
requests or codes. A hypothesis of a theorem is one of three things:

* the run's own scope. `OneWorker` is one request at a time: with two, the races of
  section 3 (*Known disagreements*) make the properties false;
* a choice of the deployment that the property is about. `HighPerformance` is the
  mode that writes to Redis, `BothClients` a provider with an experimentation
  client;
* the form of the inputs. `InputsOK`: operations name conditions and keys, and
  `None` is not the record of a request. `StoreInputsOK`: operations are those of the
  handlers, a default key is removed by a request of its own (bulks are for contexts
  only), and `Deleted` is neither a value nor an override.

### The arguments

**Groups.** `MembershipConsistent` is not inductive: conclude and discard delete a
system-generated group, and a second member would be left with the id of a
deleted group. `SystemSolo` (such a group has exactly one member) excludes it, and
is kept because add-members, update and remove-members refuse system groups:

    IndInv == TypeOK /\ MembershipConsistent /\ SystemSolo /\ MembersMatchContext

There is one lemma per handler (`CreateIndInv`, `RampIndInv`, ...), the types of the
rows first and then one step per conjunct. Membership is argued on `GroupOf(e)`
and `Members(g)`, what each table says, rather than on rows.

    AllocInv == IndInv /\ CreatedIdle /\ AllocationExact /\ SystemGroupOwned

adds the array. Lemmas on the operators of `Buckets`, in terms of cardinalities, say
what `assign_additional_buckets` and `unassign_excess_buckets` give and take, and
that variants other than the experiment's own keep their buckets. `update_bucket_allocation`
counts what an experiment has over all its variants and divides; the division is
exact only because each variant had its share before, which is why `AllocationExact` is
part of what is assumed of the state. `CreatedIdle` (an experiment not started
has no traffic) is what its first ramp starts from. `StickyVariants` follows step by
step from the same lemmas.

**Serving.** `OneVariantPerUser` is immediate from the allocation: only the group of an
experiment has buckets of it. The share of a system group needs `FrontLoaded`: the
buckets taken are the first ones until a ramp down leaves holes, so that the tosses
below the group's traffic are exactly those that find one.

**Requests.** `CacInv` has what a terminated experiment leaves in CAC, and the same for a
request that CAC has answered and that has not committed. It survives any
interleaving since CAC deletes all contexts of the variants or none and refuses a
request that does not find them: only one conclude or discard gets past it, and until
one does the context has its old values. For one worker, `SerialInv` says that what
a request read is still so; each transaction is then a step of an atomic handler
(`CommitIsHandler`), and a call, a rollback or a crash is a stutter. With
`ImplementsSerial`, all that is proved about `ExperimentGroups` holds for the
handlers in steps; and since no atomic handler touches a final status,
`TerminalIsFinal` holds too. The run `terminal_race` shows it violated by two requests:
the race is the only cause. `LiveInv` and `GlobalInv` add where a request that deletes
contexts, or writes the defaults key by key, is.

**Dimensions.** `GraphExact` needs more than itself (`Sound`): that a cohort is below its base
and positions are unique, so that there are no cycles and a graph becomes empty with
the last cohort below its dimension; and that what a pending request checked and read
still holds (`Current`). `GrownExact` and `PrunedExact` say what connecting and removing a cohort
makes of the graph of a row above it. `ListInv` adds `Placed`: positions are `0 .. n-1`, with
`variantIds` first. The refinement maps the rows to the sequence of names by position;
`InsertedList`, `RemovedList` and `MovedList` say that shifting positions is inserting into,
removing from and moving within it. `RecomputeRanks` needs of the same invariant that the
weights a pending recompute has calculated are those of the rows as they are, and
that positions are unique: the digits of a weight are then 0 or 1, two weights agree
down to the highest position where the conditions differ, and from there on the
greater one stays ahead (`WeightRanks`).

**Configuration.** `CacheInv`: a thread that reads keeps the read lock, so that no update
is halfway while an old result is on its way to the cache. `SkipInv`: the
client's time is that of a version that was newest before it read the configuration,
so that the configuration is at least as new, and what it lacks on a 304 is of that second. `VersionInv` and `RedisInv`: nobody else
commits between a request's reads, so that the version has its rows and what is
generated a second time for Redis is the version. `StoreInv` is what makes the
refinement of `ConfigStore` go through: a request has a history, the store after each
of the operations it has executed, which ends in what its transaction has written
over the committed rows; a move, two statements in the code, is one operation
halfway. The commit is the step of the abstract store, everything else a stutter.

**Resolution.** The invariant (`WorkspaceInv`) is small: the contexts are a list, and no
two of them have the same condition. The work is in what the operators compute.
`Sorted` exists and is unique for an order that is total on finitely many
contexts; the fold over the matching contexts leaves under each key, and under each
field when merging, what the last context that sets it wrote, which in the order of
weights is the highest. A filter removes only contexts that do not match the
query or do not set the keys, and a fold does not see them; that the part of the query
gives the cohorts in question the same values as the whole is `LocalSame`. For `reduce`, a context with fewer dimensions
weighs less whatever the positions (`WeightGrows`), so that of nested contexts
the highest below the removed one is the next more general one, and that is the one
`can_be_reduced` compared with.

**Reduction with approval.** `ReduceInv` has two claims that take turns. Between two keys, what
has been done so far cannot be seen (`Unseen`). While the overrides of a key are removed
(`Working`), that holds of what was read for the key; and apart from the conditions that others
have written, the contexts are some of those that were read, unchanged, and one that is missing was
redundant and had no other override (or the request is between its delete and the query for its
description). `Invisible` leads from the second claim back to the first: of nested
contexts the missing ones make no difference, by the argument for the preview, taken
for all missing ones at once.

**Induction over data.** The induction theorems of the library cannot be used, as their
parameter is an operator. Where a recursive function or a walk is followed step by step, the
proofs take the least number for which the claim fails (`Least`, from the
well-foundedness of the natural numbers as a theorem about sets) and derive a contradiction.

**Provider.** `PairInv`: the lock of the groups is asked for with that of the
experiments held, and while the two caches differ some refresh is between them and
has not been suspended since it wrote the first, so that an abort, which takes
effect at a suspension, cannot stop it there. The exception is a refresh that had to wait for a getter and was
stopped waiting (`torn`). `Exclusive`, `RequestFacts` and
`ReleaseFacts` are about tokio's queues.

**Side by side.** A step of the whole is a step of a part or leaves it alone (`StepOfPart`), so
that an invariant of the part alone is enough:
a client never has an experiment without the change of groups committed with it
(the list of groups is asked for second); what a pending request compared is what will be
in the table; what a request checked about a function is still so. For the cohorts,
`CohortInv` says where a walk is: a start has nothing queried above it, a value
assigned is a start's own or the one its base determines, and a child of what is done
is done or pending; for the functions, that what they were given has not changed
since. Dimensions are numbered and a base has the smaller number, so that
claims along a branch go by the least dimension that fails.

**Deleting overrides.** `ShownInv`: the contexts in CAC are those of the row, they were
validated against the context as it is unless someone edited it since, and the
conclusion has read it as it is. After a failed update the first part is given up (`apart`)
and the second is kept, which is about the variants of the row. The action property follows at the one step that
replaces the context.

### What is only model-checked

* Liveness: `DiscardTakesEffect`, `Converges`, `CallsReturn`,
  `PollingCatchesUp`, `PollingStops`, `Completes`, `RecentChangeArrives`,
  `NextVersionBringsSetting`. The proof system does not do fairness.

Every safety property, action property and refinement that a passing run checks is
stated by a theorem.

## 5. Not modelled, and the plan

The repository has about 159,000 lines of implementation. 106,000 of them are SDKs
generated from the Smithy model (serialisation and HTTP bindings) and 25,000 the
frontend (forms, tables, fetches). Neither keeps state that a property could be
about. What is modelled is the part that remains and changes state: the handlers
of the two services, the resolution of configurations and the clients. The share
of all lines that the models stand for is therefore small and will stay so.

Left out, and why:

* variables, type templates, audit log, organisations, webhooks: rows written by one
  statement after a check of that row alone, or calls after the commit;
* functions' JavaScript runtime, change-reason functions, self-approval of ramps:
  they only refuse requests;
* authentication, authorisation, connection pools and HTTP plumbing;
* conversions between SDK and library types, the reasoning output of resolve,
  list handlers, the TOML front end, macros and derives: no state.

Plan:

1. *Without `OneWorker`*: what remains true of positions, config versions and
   memberships with several requests at once, as weaker properties of their own (for
   a membership, which group's buckets still serve the experiment).
2. *Variables and secrets in functions*, should they come to have a lifecycle.
