--------------------------- MODULE ProviderRefresh --------------------------
(***************************************************************************)
(* The OpenFeature provider: a client for configurations ("cac"), a client *)
(* for experiments ("exp"), and the evaluation that reads the caches of    *)
(* both.  A client keeps what it fetched last and the time of that fetch,  *)
(* each behind a tokio RwLock, and refreshes them from a task that polls   *)
(* or from a call on demand.  Locks are held until the guard goes out of   *)
(* scope, which in these functions is the end of a match arm or of the     *)
(* function.                                                               *)
(***************************************************************************)
EXTENDS Integers, Sequences, FiniteSets

CONSTANTS Callers,       \* tasks of the application
          Pollers,       \* tasks that start_polling may spawn
          Clients,       \* {"cac"} or {"cac", "exp"}
          Calls,         \* per refresh_strategy: the operations the application calls,
                         \* each with the client
          Answers,       \* what may become of a fetch, per operation
          UseStale,      \* use_stale_on_error
          HasFallback,   \* is there a fallback_config?
          Ttl,           \* of on_demand_config
          MaxCreates,    \* bound, per client: calls of create_config
          MaxVersion,    \* bound, per client: versions of what the service stores
          MaxTime,       \* bound, per refresh_strategy: the time at which the clock stops
          None

ASSUME ClientsAssumption == "cac" \in Clients /\ Clients \subseteq {"cac", "exp"}
ASSUME TasksAssumption == Callers \cap Pollers = {}
ASSUME BoundsAssumption ==
  /\ Ttl \in Nat
  /\ MaxCreates \in [Clients -> Nat]
  /\ MaxTime \in [DOMAIN Calls -> Nat]
  /\ MaxVersion \in [Clients -> Nat]

VARIABLES clock,     \* the time
          version,   \* per client: the version the service would send
          cache,     \* per cache: the fetch it was filled from, or None
          stamp,     \* per client: last_updated
          handle,    \* per client: polling_task
          queue,     \* per lock: who holds it and who waits, in order of arrival
          task,      \* per task: the operation it runs and where it is in it
          creates,   \* per client: calls of create_config
          history,   \* per client, has close ended after the last create_config;
                     \* the polling tasks whose handle another one replaced; was a
                     \* task dropped between the caches of the experiments, and none
                     \* of them written or emptied since?
          strategy   \* the refresh_strategy of the provider: "polling" or "onDemand"

vars == <<clock, version, cache, stamp, handle, queue, task, creates, history, strategy>>

Tasks == Callers \cup Pollers

\* The locks a refresh writes under, in the order in which it takes them.
Caches(c) == IF c = "cac" THEN <<"config">> ELSE <<"experiments", "groups">>
UpdatedLock(c) == IF c = "cac" THEN "cacUpdated" ELSE "expUpdated"
TaskLock(c) == IF c = "cac" THEN "cacTask" ELSE "expTask"
WriteLocks(c) == Append(Caches(c), UpdatedLock(c))

CacheLocks == UNION {{Caches(c)[i] : i \in DOMAIN Caches(c)} : c \in Clients}
Locks == CacheLocks \cup {UpdatedLock(c) : c \in Clients} \cup {TaskLock(c) : c \in Clients}

\* What one fetch brought: the version of each part of the answer.
Fetches(c, low, high) == [DOMAIN Caches(c) -> low..high]
Fallback == <<0>>

Idle == [op |-> "idle", client |-> None, pc |-> "idle", k |-> 0, at |-> 0, base |-> 0,
         got |-> None, spawned |-> None, awake |-> TRUE, aborted |-> FALSE]

Init ==
  /\ clock = 0
  /\ version = [c \in Clients |-> 1]
  /\ cache = [l \in CacheLocks |-> None]
  /\ stamp = [c \in Clients |-> None]
  /\ handle = [c \in Clients |-> None]
  /\ queue = [l \in Locks |-> <<>>]
  /\ task = [t \in Tasks |-> Idle]
  /\ creates = [c \in Clients |-> 0]
  /\ history = [closed |-> [c \in Clients |-> FALSE], replaced |-> {}, torn |-> FALSE]
  /\ strategy \in DOMAIN Calls

Tick ==
  /\ clock < MaxTime[strategy]
  /\ clock' = clock + 1
  /\ UNCHANGED <<version, cache, stamp, handle, queue, task, creates, history>>

\* Someone changes what the service stores.
Change(c) ==
  /\ version[c] < MaxVersion[c]
  /\ version' = [version EXCEPT ![c] = @ + 1]
  /\ UNCHANGED <<clock, cache, stamp, handle, queue, task, creates, history>>

-----------------------------------------------------------------------------
(* tokio's RwLock: requests are served in the order of their arrival, so a *)
(* reader waits behind a writer that waits.                                *)

\* The i-th request of a queue has been granted.
GrantedAt(q, i) == i = 1 \/ \A j \in 1..i : q[j].mode = "read"

Holds(t, l, mode) ==
  \E i \in DOMAIN queue[l] :
    queue[l][i] = [task |-> t, mode |-> mode] /\ GrantedAt(queue[l], i)

Request(q, t, l, mode) == [q EXCEPT ![l] = Append(@, [task |-> t, mode |-> mode])]

\* The requests of q that are not t's, in their order.
Others(q, t) ==
  LET kept == {i \in DOMAIN q : q[i].task # t}
  IN [k \in 1 .. Cardinality(kept) |->
        q[CHOOSE i \in kept : Cardinality({j \in kept : j < i}) = k - 1]]

\* The guards of t are dropped, and what it waited for is given up.
Release(q, t) == [l \in Locks |-> Others(q[l], t)]

\* A request that is granted at once does not suspend the task.
AtOnce(q, l) == GrantedAt(q[l], Len(q[l]))

\* A task that was aborted runs on until it suspends.
MayRun(t) == task[t].awake \/ ~ task[t].aborted

At(t, pc) == task[t].pc = pc /\ MayRun(t)

\* t asks for l, in place of the guards it has or beside them, and is then at pc.
Await(t, q, l, mode, pc, k) ==
  LET asked == Request(q, t, l, mode) IN
  /\ queue' = asked
  /\ task' = [task EXCEPT ![t].pc = pc, ![t].k = k, ![t].awake = AtOnce(asked, l)]

Return(t) ==
  /\ queue' = Release(queue, t)
  /\ task' = [task EXCEPT ![t] = Idle]

-----------------------------------------------------------------------------
(* Calls of the application *)

Call(op, c, pc) ==
  [Idle EXCEPT !.op = op, !.client = c, !.pc = pc, !.at = clock, !.base = version[c]]

CallCreate(t, c) ==
  /\ task[t].op = "idle"
  /\ creates[c] < MaxCreates[c]
  /\ creates' = [creates EXCEPT ![c] = @ + 1]
  /\ history' = [history EXCEPT !.closed[c] = FALSE]
  /\ task' = [task EXCEPT ![t] = Call("create", c, "fetch")]
  /\ UNCHANGED <<clock, version, cache, stamp, handle, queue>>

\* A call that begins by asking for a lock.
CallFor(t, op, c, l, mode) ==
  /\ task[t].op = "idle"
  /\ queue' = Request(queue, t, l, mode)
  /\ task' = [task EXCEPT ![t] = Call(op, c, "begin")]
  /\ UNCHANGED <<clock, version, cache, stamp, handle, creates, history>>

CallOnDemand(t, c) == CallFor(t, "onDemand", c, UpdatedLock(c), "read")
CallClose(t, c) == CallFor(t, "close", c, TaskLock(c), "write")
CallEval(t) == CallFor(t, "eval", "cac", "config", "read")

\* get_cached_config, get_cached_experiments and get_cached_experiment_groups: each
\* copies one cache under its lock.
CallGet(t, c) == \E k \in DOMAIN Caches(c) : CallFor(t, "get", c, Caches(c)[k], "read")

-----------------------------------------------------------------------------
(* Refreshing: create_config, the polling task and on_demand_config share  *)
(* the fetch and the way its result is stored.                             *)

\* The parts of the answer are read at any moments of the fetch (tokio::join!).
FetchOk(t) ==
  /\ At(t, "fetch")
  /\ "ok" \in Answers[task[t].op]
  /\ \E got \in Fetches(task[t].client, task[t].base, version[task[t].client]) :
       task' = [task EXCEPT ![t].pc = "got", ![t].k = 0, ![t].base = 0, ![t].got = got,
                               ![t].awake = TRUE]
  /\ UNCHANGED <<clock, version, cache, stamp, handle, queue, creates, history>>

\* The answer has been converted: the first cache is locked.
BeginStore(t) ==
  LET k == task[t].k + 1 IN
  /\ At(t, "got")
  /\ Await(t, queue, WriteLocks(task[t].client)[k], "write", "store", k)
  /\ UNCHANGED <<clock, version, cache, stamp, handle, creates, history>>

\* t has written the first cache of the experiments and not the second.
HalfStored(t) == task[t].pc = "store" /\ task[t].client = "exp" /\ task[t].k = 2

\* Fault: the guards are in blocks of their own.
StoreUnpaired(t) ==
  LET c == task[t].client
      k == task[t].k
  IN
  /\ At(t, "store")
  /\ k \in DOMAIN Caches(c)
  /\ Holds(t, WriteLocks(c)[k], "write")
  /\ cache' = [cache EXCEPT ![WriteLocks(c)[k]] = task[t].got]
  /\ queue' = Release(queue, t)
  /\ task' = [task EXCEPT ![t].pc = "got"]
  /\ UNCHANGED <<clock, version, stamp, handle, creates, history>>

\* One cache is filled and the next lock is asked for, all guards kept.
Store(t) ==
  LET c == task[t].client
      k == task[t].k
  IN
  /\ At(t, "store")
  /\ k \in DOMAIN Caches(c)
  /\ Holds(t, WriteLocks(c)[k], "write")
  /\ cache' = [cache EXCEPT ![WriteLocks(c)[k]] = task[t].got]
  /\ Await(t, queue, WriteLocks(c)[k + 1], "write", "store", k + 1)
  /\ history' = [history EXCEPT !.torn = @ /\ ~HalfStored(t)]
  /\ UNCHANGED <<clock, version, stamp, handle, creates>>

\* What follows a refresh: the guards are dropped, a poll sleeps, on_demand_config
\* returns and create_config starts the refresh strategy.
AfterRefresh(t) ==
  CASE task[t].op = "poll" ->
         /\ queue' = Release(queue, t)
         /\ task' = [task EXCEPT ![t].pc = "sleep", ![t].k = 0, ![t].got = None, ![t].awake = FALSE]
    [] task[t].op = "onDemand" -> Return(t)
    [] OTHER ->
         /\ queue' = Release(queue, t)
         /\ task' = [task EXCEPT ![t].pc = "strategy", ![t].k = 0, ![t].got = None]

\* last_updated is set under the last of the locks.
Stamp(t) ==
  LET c == task[t].client IN
  /\ At(t, "store")
  /\ task[t].k = Len(WriteLocks(c))
  /\ Holds(t, UpdatedLock(c), "write")
  /\ stamp' = [stamp EXCEPT ![c] = clock]
  /\ AfterRefresh(t)
  /\ UNCHANGED <<clock, version, cache, handle, creates, history>>

\* Fault: a poll that fails ends the loop.
PollEnds(t) ==
  /\ task' = [task EXCEPT ![t] = Idle]
  /\ UNCHANGED queue

\* The match arm Err of a poll: the error is logged.
PollFails(t) ==
  /\ task' = [task EXCEPT ![t].pc = "sleep", ![t].base = 0, ![t].awake = FALSE]
  /\ UNCHANGED queue

\* The match arm Err of on_demand_config.
OnDemandFails(t) ==
  IF UseStale
  THEN Await(t, queue, Caches(task[t].client)[1], "read", "cached", 0)
  ELSE Return(t)

\* The match arm Err of create_config.
CreateFails(t) ==
  IF task[t].client = "cac"
  THEN Await(t, queue, "config", "write", "fallback", 0)
  ELSE Return(t)

FetchFails(t) ==
  /\ At(t, "fetch")
  /\ "err" \in Answers[task[t].op]
  /\ CASE task[t].op = "poll" -> PollFails(t)
       [] task[t].op = "onDemand" -> OnDemandFails(t)
       [] OTHER -> CreateFails(t)
  /\ UNCHANGED <<clock, version, cache, stamp, handle, creates, history>>

\* Without a cached configuration the fallback, if any, becomes the cached one ...
UseFallback(t) ==
  /\ At(t, "fallback")
  /\ Holds(t, "config", "write")
  /\ cache["config"] = None
  /\ cache' = [cache EXCEPT !["config"] = IF HasFallback THEN Fallback ELSE None]
  /\ AfterRefresh(t)
  /\ UNCHANGED <<clock, version, stamp, handle, creates, history>>

\* ... unless it cannot be converted; with a cached configuration create_config ends
\* with the error of the fetch.
FallbackFails(t) ==
  /\ At(t, "fallback")
  /\ Holds(t, "config", "write")
  /\ cache["config"] # None \/ HasFallback
  /\ Return(t)
  /\ UNCHANGED <<clock, version, cache, stamp, handle, creates, history>>

\* The end of create_config: the polling task is spawned, then its handle is stored
\* in place of the one that was there.
StartPolling(t) ==
  /\ At(t, "strategy")
  /\ strategy = "polling"
  /\ \E p \in Pollers :
       LET c == task[t].client
           asked == Request(queue, t, TaskLock(c), "write")
       IN
       /\ task[p].op = "idle"
       /\ queue' = asked
       /\ task' = [task EXCEPT ![p] = [Call("poll", c, "fetch") EXCEPT !.at = 0,
                                                                           !.awake = FALSE],
                               ![t].pc = "adopt", ![t].spawned = p]
  /\ UNCHANGED <<clock, version, cache, stamp, handle, creates, history>>

AdoptTask(t) ==
  LET c == task[t].client IN
  /\ At(t, "adopt")
  /\ Holds(t, TaskLock(c), "write")
  /\ handle' = [handle EXCEPT ![c] = task[t].spawned]
  /\ history' = [history EXCEPT !.closed[c] = FALSE,
                                !.replaced = @ \cup ({handle[c]} \ {None})]
  /\ Return(t)
  /\ UNCHANGED <<clock, version, cache, stamp, creates>>

StartOnDemand(t) ==
  /\ At(t, "strategy")
  /\ strategy = "onDemand"
  /\ history' = [history EXCEPT !.closed[task[t].client] = FALSE]
  /\ Return(t)
  /\ UNCHANGED <<clock, version, cache, stamp, handle, creates>>

\* The polling task sleeps for its interval and fetches again.
Poll(t) ==
  /\ At(t, "sleep")
  /\ task' = [task EXCEPT ![t].pc = "fetch", ![t].base = version[task[t].client]]
  /\ UNCHANGED <<clock, version, cache, stamp, handle, queue, creates, history>>

\* An aborted task that is suspended is dropped, and its guards with it.
Cancel(t) ==
  /\ task[t].aborted
  /\ ~ task[t].awake
  /\ history' = [history EXCEPT !.torn = @ \/ HalfStored(t)]
  /\ Return(t)
  /\ UNCHANGED <<clock, version, cache, stamp, handle, creates>>

-----------------------------------------------------------------------------
(* on_demand_config: the guard of last_updated is kept to the end.         *)

should_refresh(t) ==
  LET last == stamp[task[t].client] IN
  IF last = None THEN TRUE ELSE task[t].at - last > Ttl

CheckTtl(t) ==
  LET c == task[t].client IN
  /\ At(t, "begin")
  /\ task[t].op = "onDemand"
  /\ Holds(t, UpdatedLock(c), "read")
  /\ IF should_refresh(t)
     THEN /\ task' = [task EXCEPT ![t].pc = "fetch", ![t].base = version[c]]
          /\ UNCHANGED queue
     ELSE Await(t, queue, Caches(c)[1], "read", "cached", 0)
  /\ UNCHANGED <<clock, version, cache, stamp, handle, creates, history>>

ReturnCached(t) ==
  /\ At(t, "cached")
  /\ Holds(t, Caches(task[t].client)[1], "read")
  /\ Return(t)
  /\ UNCHANGED <<clock, version, cache, stamp, handle, creates, history>>

GetCached(t) ==
  /\ At(t, "begin")
  /\ task[t].op = "get"
  /\ \E k \in DOMAIN Caches(task[t].client) : Holds(t, Caches(task[t].client)[k], "read")
  /\ Return(t)
  /\ UNCHANGED <<clock, version, cache, stamp, handle, creates, history>>

-----------------------------------------------------------------------------
(* close *)

\* Fault: the handle is taken and dropped, which detaches the task.
Detach(c) == [task EXCEPT ![handle[c]].aborted = FALSE]

\* The task whose handle it is will stop when it next suspends.
Abort(c) == [task EXCEPT ![handle[c]].aborted = TRUE]

StopPolling(t) ==
  LET c == task[t].client
      l == Caches(c)[1]
      asked == Request(queue, t, l, "write")
      others == IF handle[c] = None THEN task ELSE Abort(c)
  IN
  /\ At(t, "begin")
  /\ task[t].op = "close"
  /\ Holds(t, TaskLock(c), "write")
  /\ handle' = [handle EXCEPT ![c] = None]
  /\ queue' = asked
  /\ task' = [others EXCEPT ![t].pc = "clear"]
  /\ UNCHANGED <<clock, version, cache, stamp, creates, history>>

ClearCaches(t) ==
  LET c == task[t].client IN
  /\ At(t, "clear")
  /\ Holds(t, Caches(c)[1], "write")
  /\ cache' = [cache EXCEPT ![Caches(c)[1]] = None]
  /\ history' = [history EXCEPT !.closed[c] = TRUE, !.torn = @ /\ c # "exp"]
  /\ Return(t)
  /\ UNCHANGED <<clock, version, stamp, handle, creates>>

-----------------------------------------------------------------------------
(* eval_config of the provider *)

\* Fault: a refresh locks them the other way round.
ReadOrderSwapped == <<"groups", "experiments">>

\* The order in which get_applicable_variants locks the two caches.
ReadOrder == <<"experiments", "groups">>

\* get_dimensions_info copies the dimensions of the configuration.
ReadDimensions(t) ==
  /\ At(t, "begin")
  /\ task[t].op = "eval"
  /\ Holds(t, "config", "read")
  /\ IF "exp" \in Clients
     THEN Await(t, Release(queue, t), ReadOrder[1], "read", "first", 0)
     ELSE Await(t, Release(queue, t), "config", "read", "evaluate", 0)
  /\ UNCHANGED <<clock, version, cache, stamp, handle, creates, history>>

ReadFirst(t) ==
  /\ At(t, "first")
  /\ Holds(t, ReadOrder[1], "read")
  /\ Await(t, queue, ReadOrder[2], "read", "second", 0)
  /\ UNCHANGED <<clock, version, cache, stamp, handle, creates, history>>

\* get_applicable_variants has both caches, or ends the evaluation with an error.
ReadSecond(t) ==
  /\ At(t, "second")
  /\ Holds(t, ReadOrder[2], "read")
  /\ IF None \in {cache["experiments"], cache["groups"]}
     THEN Return(t)
     ELSE Await(t, Release(queue, t), "config", "read", "evaluate", 0)
  /\ UNCHANGED <<clock, version, cache, stamp, handle, creates, history>>

\* evaluate_config resolves the configuration or finds none.
Evaluate(t) ==
  /\ At(t, "evaluate")
  /\ Holds(t, "config", "read")
  /\ Return(t)
  /\ UNCHANGED <<clock, version, cache, stamp, handle, creates, history>>

-----------------------------------------------------------------------------
NewCall(t) ==
  \E c \in Clients :
    \/ <<"create", c>> \in Calls[strategy] /\ CallCreate(t, c)
    \/ <<"onDemand", c>> \in Calls[strategy] /\ CallOnDemand(t, c)
    \/ <<"close", c>> \in Calls[strategy] /\ CallClose(t, c)
    \/ <<"get", c>> \in Calls[strategy] /\ CallGet(t, c)
    \/ <<"eval", c>> \in Calls[strategy] /\ c = "cac" /\ CallEval(t)

Step(t) ==
  \/ FetchOk(t) \/ FetchFails(t) \/ BeginStore(t) \/ Store(t) \/ Stamp(t)
  \/ UseFallback(t) \/ FallbackFails(t) \/ StartPolling(t) \/ AdoptTask(t) \/ StartOnDemand(t)
  \/ Poll(t) \/ Cancel(t) \/ CheckTtl(t) \/ ReturnCached(t) \/ GetCached(t)
  \/ StopPolling(t) \/ ClearCaches(t)
  \/ ReadDimensions(t) \/ ReadFirst(t) \/ ReadSecond(t) \/ Evaluate(t)

Next ==
  /\ \/ Tick
     \/ \E c \in Clients : Change(c)
     \/ \E t \in Callers : NewCall(t)
     \/ \E t \in Tasks : Step(t)
  /\ UNCHANGED strategy

\* The runtime runs every task that can go on, and the service answers every fetch;
\* it does not fail all the fetches of a task for ever.
Fairness ==
  /\ \A t \in Tasks : WF_vars(Step(t) /\ UNCHANGED strategy)
  /\ \A t \in Pollers : SF_vars(FetchOk(t) /\ UNCHANGED strategy)

FairSpec == Init /\ [][Next]_vars /\ Fairness

-----------------------------------------------------------------------------
(* Properties *)

\* A reader that has both guards sees experiments and groups of one fetch: a refresh
\* keeps the guard of the first cache until it has filled the second.  Only a task
\* that was aborted while it waited for the lock of the groups leaves them apart.
SnapshotPaired ==
  \A t \in Callers :
    ( /\ Holds(t, "experiments", "read")
      /\ Holds(t, "groups", "read")
      /\ cache["experiments"] # None
      /\ ~history.torn )
      => cache["experiments"] = cache["groups"]

\* t waits for the write lock of last_updated and has the read guard of it.
WaitsForItself(t) ==
  \E c \in Clients :
    /\ Holds(t, UpdatedLock(c), "read")
    /\ \E i \in DOMAIN queue[UpdatedLock(c)] :
         queue[UpdatedLock(c)][i] = [task |-> t, mode |-> "write"]

\* Every call returns, unless a call of on_demand_config whose fetch succeeded waits
\* for itself: that is the only way in which tasks come to wait for ever.
CallsReturn ==
  \A t \in Callers :
    task[t].op # "idle" ~>
      \/ task[t].op = "idle"
      \/ \E u \in Callers : task[u].op = "onDemand" /\ task[u].got # None /\ WaitsForItself(u)

\* While a client polls, a change of the service reaches its caches, unless the
\* client is closed.
PollingCatchesUp ==
  \A c \in Clients : \A v \in 1..MaxVersion[c] :
    (version[c] >= v /\ handle[c] # None)
      ~> ( \/ handle[c] = None
           \/ \A i \in DOMAIN Caches(c) :
                LET f == cache[Caches(c)[i]] IN
                IF f = None THEN FALSE ELSE f[i] >= v )

\* A client that was closed does not poll any more: close stops every polling task
\* but those whose handles were replaced by that of a later create_config.
PollingStops ==
  \A c \in Clients :
    history.closed[c] ~>
      \/ ~history.closed[c]
      \/ \A p \in Pollers : task[p].client = c => p \in history.replaced
=============================================================================
