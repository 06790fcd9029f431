------------------------- MODULE ExperimentRequests -------------------------
(***************************************************************************)
(* The experiment handlers as the service runs them: several requests at   *)
(* once, each in its steps.  A handler reads the experiment without a      *)
(* lock, checks it, calls the context-aware-config service (CAC) over HTTP *)
(* and, when CAC has answered, writes its own tables in one transaction    *)
(* that does not look at the status again.  CAC commits on its own: its    *)
(* part is never undone.  The process may die, a connection may break and  *)
(* an answer may be lost between any two steps (Crash).                    *)
(*                                                                         *)
(* A transaction takes effect as one step: the transactions that touch a   *)
(* group lock its row first (fetch_experiment_group: FOR UPDATE), so they  *)
(* run one after the other.  Modelled here are experiments of type         *)
(* DEFAULT.                                                                *)
(***************************************************************************)
EXTENDS ExperimentGroups

CONSTANTS Workers,   \* the requests that can be in progress at once
          Keys,      \* the configuration keys that variants override
          Faults     \* TRUE iff requests may be cut short by a failure

ASSUME FaultsAssumption == Faults \in BOOLEAN

VARIABLES requests,  \* worker -> the request it handles
          contexts,  \* CAC: the variants whose context exists
          base,      \* CAC: for every key the variant whose value the context
                     \* of the experiment holds (the default configuration if
                     \* that context is empty); 0 is the value of old
          crashed    \* history: the experiments one of whose requests was cut short

requestVars == <<experiments, groups, requests, contexts, base, crashed>>

cacVars == <<contexts, base>>

VariantsOf(e) == {<<e, i>> : i \in 1 .. Variants[e]}

Request == [kind : {"create", "ramp", "conclude", "discard", "pause", "resume", "update", "join"},
            pc   : {"defaults", "bulk", "commit"},
            exp  : ExpIds,
            snap : Experiment \cup {None},      \* the row as it was read
            arg  : Nat \cup GroupIds \cup {None},
            todo : SUBSET Keys]                 \* default values still to write

\* An idle worker is told from one with a request.
ASSUME RequestSentinelAssumption == None \notin Request

Idle(w) == requests[w] = None

Accept(w, kind, pc, e, arg, todo) ==
  /\ Idle(w)
  /\ requests' = [requests EXCEPT
       ![w] = [kind |-> kind, pc |-> pc, exp |-> e, snap |-> experiments[e],
               arg |-> arg, todo |-> todo]]
  /\ UNCHANGED <<experiments, groups, contexts, base>>

Finish(w) == requests' = [requests EXCEPT ![w] = None]

-----------------------------------------------------------------------------
(* The read and the checks that begin a request *)

\* The experiment's id is a new snowflake id.
NewExperimentId(e) ==
  /\ ~InDb(e)
  /\ contexts \cap VariantsOf(e) = {}
  /\ \A w \in Workers : ~Idle(w) => requests[w].exp # e

ReadCreate(w, e, g) == NewExperimentId(e) /\ Accept(w, "create", "bulk", e, g, {})

ReadRamp(w, e, traffic) ==
  /\ InDb(e)
  /\ CanRamp(e, experiments[e], traffic)
  /\ Accept(w, "ramp", "commit", e, traffic, {})

\* With an empty context the winner's overrides become default values, key by
\* key, before the variants' contexts are touched.
ReadConclude(w, e, chosen) ==
  /\ InDb(e)
  /\ concludable(experiments[e].status)
  /\ IF Context[e] = {} THEN Accept(w, "conclude", "defaults", e, chosen, Keys)
                        ELSE Accept(w, "conclude", "bulk", e, chosen, {})

ReadDiscard(w, e) ==
  /\ InDb(e)
  /\ discardable(experiments[e].status)
  /\ Accept(w, "discard", "bulk", e, None, {})

ReadPause(w, e) ==
  /\ InDb(e)
  /\ pausable(experiments[e].status)
  /\ Accept(w, "pause", "commit", e, None, {})

ReadResume(w, e) ==
  /\ InDb(e)
  /\ resumable(experiments[e].status)
  /\ Accept(w, "resume", "commit", e, None, {})

\* Fault: an experiment in any state is updated.
ReadUpdateAnyStatus(w, e, g) == InDb(e) /\ Accept(w, "update", "bulk", e, g, {})

\* arg is the group to be in afterwards.
ReadUpdate(w, e, g) ==
  /\ InDb(e)
  /\ experiments[e].status = "CREATED"
  /\ Accept(w, "update", "bulk", e, g, {})

\* add_members_handler for one experiment: the members are read and checked
\* before the transaction.
ReadJoin(w, e, g) ==
  /\ CanJoin({e}, g)
  /\ Accept(w, "join", "commit", e, g, {})

-----------------------------------------------------------------------------
(* The calls to CAC *)

\* Fault: the loop over the keys ends after the first.
PutFirstDefault(w) ==
  /\ ~Idle(w) /\ requests[w].pc = "defaults"
  /\ \E k \in requests[w].todo :
       /\ base' = [base EXCEPT ![requests[w].exp][k] = requests[w].arg]
       /\ requests' = [requests EXCEPT ![w].todo = {}, ![w].pc = "bulk"]
  /\ UNCHANGED <<experiments, groups, contexts>>

\* PUT /default-config/{key}: one request, one commit, for every key.
PutDefault(w) ==
  /\ ~Idle(w) /\ requests[w].pc = "defaults"
  /\ \E k \in requests[w].todo :
       /\ base' = [base EXCEPT ![requests[w].exp][k] = requests[w].arg]
       /\ requests' = [requests EXCEPT ![w].todo = @ \ {k},
                                       ![w].pc = IF requests[w].todo = {k} THEN "bulk" ELSE @]
  /\ UNCHANGED <<experiments, groups, contexts>>

\* Fault: operations on contexts that do not exist succeed.
BulkAlwaysAccepted(q) == TRUE

\* PUT /context/bulk-operations is one transaction of CAC.  Delete, Move and
\* Replace of a context that does not exist fail, and with them the others.
BulkAccepted(q) == q.kind = "create" \/ VariantsOf(q.exp) \subseteq contexts

\* Fault: create makes the control variant's context only.
BulkContextsOfControl(q) ==
  CASE q.kind = "create"                  -> contexts \cup {<<q.exp, 1>>}
    [] q.kind \in {"conclude", "discard"} -> contexts \ VariantsOf(q.exp)
    [] OTHER                              -> contexts

BulkContexts(q) ==
  CASE q.kind = "create"                  -> contexts \cup VariantsOf(q.exp)
    [] q.kind \in {"conclude", "discard"} -> contexts \ VariantsOf(q.exp)
    [] OTHER                              -> contexts

\* The Move of the winner's context to the context of the experiment.
BulkBase(q) ==
  IF q.kind = "conclude" /\ Context[q.exp] # {}
  THEN [base EXCEPT ![q.exp] = [k \in Keys |-> q.arg]]
  ELSE base

BulkOperations(w) ==
  /\ ~Idle(w) /\ requests[w].pc = "bulk"
  /\ IF BulkAccepted(requests[w])
     THEN /\ contexts' = BulkContexts(requests[w])
          /\ base' = BulkBase(requests[w])
          /\ requests' = [requests EXCEPT ![w].pc = "commit"]
     ELSE Finish(w) /\ UNCHANGED cacVars
  /\ UNCHANGED <<experiments, groups>>

-----------------------------------------------------------------------------
(* The transaction that ends a request *)

CanCommitMove(q) ==
  LET g == q.snap.experiment_group_id IN
  q.arg # g => /\ g # None => CanRemoveMembers(g)
               /\ q.arg # None => CanAddMembers(q.arg, {q.exp})

CanCommit(q) ==
  CASE q.kind = "create"                  -> CanCommitCreate(q.exp, q.arg)
    [] q.kind = "ramp"                    -> q.snap.experiment_group_id # None =>
                                               CanUpdateBuckets(q.exp, q.snap.experiment_group_id, q.arg)
    [] q.kind \in {"conclude", "discard"} -> CanDetach(q.snap)
    [] q.kind = "update"                  -> CanCommitMove(q)
    [] q.kind = "join"                    -> CanAddMembers(q.arg, {q.exp})
    [] OTHER                              -> TRUE

Transaction(q) ==
  \/ q.kind = "create"   /\ CommitCreate(q.exp, q.arg)
  \/ q.kind = "ramp"     /\ CommitRamp(q.exp, q.snap, q.arg)
  \/ q.kind = "conclude" /\ CommitTermination(q.exp, q.snap, "CONCLUDED", q.arg)
  \/ q.kind = "discard"  /\ CommitTermination(q.exp, q.snap, "DISCARDED", None)
  \/ q.kind = "pause"    /\ CommitStatus(q.exp, "PAUSED")
  \/ q.kind = "resume"   /\ CommitStatus(q.exp, "INPROGRESS")
  \/ q.kind = "update"   /\ CommitMove(q.exp, q.snap, q.arg)
  \/ q.kind = "update"   /\ q.arg = q.snap.experiment_group_id /\ CommitKeepGroup(q.exp, q.snap)
  \/ q.kind = "join"     /\ CommitAddMembers(q.arg, {q.exp})

Commit(w) ==
  /\ ~Idle(w) /\ requests[w].pc = "commit"
  /\ CanCommit(requests[w])
  /\ Transaction(requests[w])
  /\ Finish(w)
  /\ UNCHANGED cacVars

\* The transaction returns an error and is rolled back; what CAC did stays.
Rollback(w) ==
  /\ ~Idle(w) /\ requests[w].pc = "commit"
  /\ ~CanCommit(requests[w])
  /\ Finish(w)
  /\ UNCHANGED <<experiments, groups, contexts, base>>

\* The request is cut short.
Crash(w) ==
  /\ Faults
  /\ ~Idle(w)
  /\ Finish(w)
  /\ crashed' = crashed \cup {requests[w].exp}
  /\ UNCHANGED <<experiments, groups, contexts, base>>

\* The requests of api/experiment_groups, which only use the two tables.
GroupRequest ==
  /\ \E w \in Workers : Idle(w)
  /\ NextGroup
  /\ UNCHANGED <<requests, contexts, base, crashed>>

-----------------------------------------------------------------------------

RequestInit ==
  /\ Init
  /\ requests = [w \in Workers |-> None]
  /\ contexts = UNION {VariantsOf(e) : e \in {x \in ExpIds : InDb(x)}}
  /\ base = [e \in ExpIds |-> [k \in Keys |-> 0]]
  /\ crashed = {}

Read(w) ==
  /\ UNCHANGED crashed
  /\ \E e \in ExpIds :
       \/ \E g \in GroupIds \cup {None} : ReadCreate(w, e, g)
       \/ \E t \in TrafficPercentage : ReadRamp(w, e, t)
       \/ \E i \in 1 .. Variants[e] : ReadConclude(w, e, i)
       \/ ReadDiscard(w, e)
       \/ ReadPause(w, e)
       \/ ReadResume(w, e)
       \/ \E g \in GroupIds \cup {None} : ReadUpdate(w, e, g)
       \/ \E g \in GroupIds : ReadJoin(w, e, g)

\* The steps that a request in progress takes on its own.
Proceed(w) ==
  /\ UNCHANGED crashed
  /\ PutDefault(w) \/ BulkOperations(w) \/ Commit(w) \/ Rollback(w)

RequestNext ==
  \/ \E w \in Workers : Read(w) \/ Proceed(w) \/ Crash(w)
  \/ GroupRequest

(***************************************************************************)
(* The executor keeps polling a request it has accepted, and the calls it  *)
(* awaits return: a request in progress goes on.  Nothing makes anybody    *)
(* send a request.                                                         *)
(***************************************************************************)
RequestSpec == /\ RequestInit
               /\ [][RequestNext]_requestVars
               /\ \A w \in Workers : WF_requestVars(Proceed(w))

-----------------------------------------------------------------------------
(* Properties *)

\* Requests and CAC rows have their types.
RequestTypeOK ==
  /\ requests \in [Workers -> Request \cup {None}]
  /\ contexts \subseteq VariantIds
  /\ base \in [ExpIds -> [Keys -> Nat]]
  /\ crashed \subseteq ExpIds

(***************************************************************************)
(* What the row of a terminated experiment says has happened in CAC,       *)
(* whatever requests raced or died: its variants' contexts are gone, the   *)
(* chosen variant's values, and no others, are in the experiment's         *)
(* context, and a discarded experiment left no value behind.  (Experiments *)
(* with a context; for those without one see GlobalWinnerIsDefault.)       *)
(***************************************************************************)
TerminationMatchesCac ==
  \A e \in ExpIds : InDb(e) /\ Context[e] # {} =>
    /\ experiments[e].status = "CONCLUDED" =>
         /\ contexts \cap VariantsOf(e) = {}
         /\ \A k \in Keys : base[e][k] = experiments[e].chosen_variant
    /\ experiments[e].status = "DISCARDED" =>
         /\ contexts \cap VariantsOf(e) = {}
         /\ \A k \in Keys : base[e][k] = 0

(***************************************************************************)
(* With one request at a time the handlers in steps, calls to CAC, refused *)
(* calls and crashes included, do to the two tables only what the atomic   *)
(* handlers of ExperimentGroups do.                                        *)
(***************************************************************************)
ImplementsSerial == Spec

Live(e) == InDb(e) /\ discardable(experiments[e].status)

(***************************************************************************)
(* One request at a time, a live experiment has the contexts of all its    *)
(* variants in CAC, unless a request on it was cut short: a conclude or    *)
(* discard that dies between CAC's commit and its own leaves a live        *)
(* experiment without contexts.                                            *)
(***************************************************************************)
LiveHaveContexts ==
  \A e \in ExpIds \ crashed :
    Live(e) /\ (\A w \in Workers : Idle(w)) => VariantsOf(e) \subseteq contexts

(***************************************************************************)
(* ... and a request to discard an experiment, once accepted, does it      *)
(* unless a request on that experiment is cut short.                       *)
(***************************************************************************)
DiscardTakesEffect ==
  \A w \in Workers, e \in ExpIds :
    (~Idle(w) /\ requests[w].kind = "discard" /\ requests[w].exp = e)
      ~> (e \in crashed \/ (InDb(e) /\ experiments[e].status = "DISCARDED"))

(***************************************************************************)
(* handlers.rs:1195 refuses to "ramp a concluded experiment", and no       *)
(* handler accepts a terminated one: CONCLUDED and DISCARDED are final.    *)
(***************************************************************************)
TerminalIsFinal ==
  [][\A e \in ExpIds :
       (InDb(e) /\ experiments[e].status \in {"CONCLUDED", "DISCARDED"})
         => experiments'[e].status = experiments[e].status]_requestVars

(***************************************************************************)
(* memory-bank/features.md:167: "If global experiment (empty context):     *)
(* Winning variant's overrides become new DefaultConfig values."  Stated   *)
(* for the moments when no request is in progress.                         *)
(***************************************************************************)
GlobalWinnerIsDefault ==
  \A e \in ExpIds :
    (/\ \A w \in Workers : Idle(w)
     /\ InDb(e) /\ Context[e] = {} /\ experiments[e].status = "CONCLUDED")
    => \A k \in Keys : base[e][k] = experiments[e].chosen_variant
=============================================================================
