-------------------------- MODULE ExperimentGroups --------------------------
(***************************************************************************)
(* Experiments and experiment groups as the experimentation service keeps  *)
(* them in its two tables, every request handler of api/experiments and    *)
(* api/experiment_groups that writes them being one step.                  *)
(*                                                                         *)
(* A handler reads the experiment before its transaction, without a lock.  *)
(* The transaction of a handler is an operator of the row it read (snap)   *)
(* so that ExperimentRequests can run it later than the read; here the     *)
(* read and the transaction are one step and snap is the current row.      *)
(* A request that the code refuses changes nothing: it is no step.         *)
(***************************************************************************)
EXTENDS Buckets

CONSTANTS ExpIds,        \* ids of experiments
          GroupIds,      \* snowflake ids for groups
          Variants,      \* Variants[e]: number of variants of experiment e
          Conditions,    \* the (dimension, value) pairs contexts are made of
          Context,       \* Context[e]: the context of e, a set of conditions
          GroupContexts, \* the contexts that requests give to a new group
          GroupTraffics, \* the traffic percentages that requests give to a group
          None,          \* Option::None: no experiment, group or variant
          Deleted        \* the row of a group that was deleted

VARIABLES experiments,   \* table experiments: id -> row
          groups         \* table experiment_groups: id -> row

vars == <<experiments, groups>>

\* An experiment has one control and at least one experimental variant.
ASSUME VariantsAssumption == Variants \in [ExpIds -> Nat \ {0, 1}]
ASSUME ContextAssumption == Context \in [ExpIds -> SUBSET Conditions]
ASSUME GroupInputsAssumption == /\ GroupContexts \subseteq SUBSET Conditions
                                /\ GroupTraffics \subseteq 0 .. NumBuckets

-----------------------------------------------------------------------------
(* Rows *)

Statuses == {"CREATED", "INPROGRESS", "PAUSED", "CONCLUDED", "DISCARDED"}

active(s)      == s \in {"CREATED", "INPROGRESS"}
concludable(s) == s = "INPROGRESS"
discardable(s) == s \in {"CREATED", "PAUSED", "INPROGRESS"}
pausable(s)    == s = "INPROGRESS"
resumable(s)   == s = "PAUSED"

TrafficPercentage == 0 .. NumBuckets

\* TrafficPercentage::check_max_allowed and compare_old.
check_max_allowed(t, n) == t <= IF n < 2 THEN NumBuckets ELSE NumBuckets \div n

compare_old(t, old) == ~(t # 0 /\ t = old)

VariantIds == UNION {{<<e, i>> : i \in 1 .. Variants[e]} : e \in ExpIds}

Experiment == [status              : Statuses,
               traffic_percentage  : TrafficPercentage,
               experiment_group_id : GroupIds \cup {None},
               chosen_variant      : Nat \cup {None}]

ExperimentGroup == [group_type            : {"USER_CREATED", "SYSTEM_GENERATED"},
                    context               : SUBSET Conditions,
                    traffic_percentage    : TrafficPercentage,
                    member_experiment_ids : SUBSET ExpIds,
                    buckets               : [BucketIndices -> VariantIds \cup {NoBucket}]]

ASSUME SentinelAssumption ==
  /\ None \notin Nat \cup GroupIds \cup Experiment \cup ExperimentGroup
  /\ Deleted \notin ExperimentGroup
  /\ NoBucket \notin VariantIds

InDb(e) == experiments[e] # None

IsGroup(g) == groups[g] \notin {None, Deleted}

\* A snowflake id is new: it was never the id of a group.
FreshGroupIds == {g \in GroupIds : groups[g] = None}

-----------------------------------------------------------------------------
(* Helpers of the group handlers *)

\* Condition::contains, a context being the set of its (dimension, value) pairs.
contains(context, group_context) == group_context \subseteq context

validate_experiment_group_constraints(members, group_context) ==
  \A e \in members : contains(Context[e], group_context)

\* Fault: the members' contexts are not looked at.
CanAddAnyMembers(g, members) == IsGroup(g) /\ groups[g].group_type # "SYSTEM_GENERATED"

\* The group row that add_members writes, and the cases in which it fails.
CanAddMembers(g, members) ==
  /\ IsGroup(g)
  /\ groups[g].group_type # "SYSTEM_GENERATED"
  /\ validate_experiment_group_constraints(members, groups[g].context)

add_members(row, members) ==
  [row EXCEPT !.member_experiment_ids = @ \cup members]

\* Fault: who leaves keeps the buckets.
keep_buckets(b, exps) == b

\* update_bucket_allocation(e, b, 0) for every experiment e of the set: each
\* call reads and frees only the buckets of its own experiment.
release_buckets(b, exps) ==
  [k \in BucketIndices |->
     IF \E e \in exps : k \in ExperimentBuckets(b, e, Variants[e])
     THEN LET e == CHOOSE e \in exps : k \in ExperimentBuckets(b, e, Variants[e])
          IN  update_bucket_allocation(b, e, Variants[e], 0)[k]
     ELSE b[k]]

remove_members(row, members) ==
  [row EXCEPT !.member_experiment_ids = @ \ members,
              !.buckets = release_buckets(@, members)]

CanRemoveMembers(g) == IsGroup(g) /\ groups[g].group_type # "SYSTEM_GENERATED"

\* The n * traffic product must again be a traffic percentage.
CanCreateSystemGroup(e, traffic) == Variants[e] * traffic \in TrafficPercentage

create_system_generated_experiment_group(e, traffic) ==
  [group_type            |-> "SYSTEM_GENERATED",
   context               |-> Context[e],
   traffic_percentage    |-> Variants[e] * traffic,
   member_experiment_ids |-> {e},
   buckets               |-> update_bucket_allocation(EmptyBuckets, e, Variants[e], traffic)]

CanUpdateBuckets(e, g, traffic) ==
  /\ IsGroup(g)
  /\ groups[g].group_type = "SYSTEM_GENERATED" => Variants[e] * traffic \in TrafficPercentage
  /\ EnoughBuckets(groups[g].buckets, e, Variants[e], traffic)

\* Fault: the traffic of a system-generated group is not refreshed.
update_buckets_only(row, e, traffic) ==
  [row EXCEPT !.buckets = update_bucket_allocation(@, e, Variants[e], traffic)]

update_experiment_group_buckets(row, e, traffic) ==
  [row EXCEPT
     !.traffic_percentage = IF row.group_type = "SYSTEM_GENERATED"
                            THEN Variants[e] * traffic ELSE @,
     !.buckets = update_bucket_allocation(@, e, Variants[e], traffic)]

detach_experiment_from_group(row, e) ==
  IF row.group_type = "SYSTEM_GENERATED" THEN Deleted ELSE remove_members(row, {e})

Running(e) == experiments[e].status \in {"INPROGRESS", "PAUSED"}

\* New system-generated groups, one for each experiment of exps, at the ids
\* that newId gives them.
Injective(newId, exps) == \A e, f \in exps : newId[e] = newId[f] => e = f

WithSystemGroups(rows, exps, newId) ==
  [g \in GroupIds |->
     IF \E e \in exps : newId[e] = g
     THEN LET e == CHOOSE e \in exps : newId[e] = g
          IN  create_system_generated_experiment_group(e, experiments[e].traffic_percentage)
     ELSE rows[g]]

-----------------------------------------------------------------------------
(* Transactions of the experiment handlers *)

\* create_handler: insert the experiment and, if asked, join a group.
CanCommitCreate(e, g) ==
  /\ ~InDb(e)
  /\ g # None => CanAddMembers(g, {e})

CommitCreate(e, g) ==
  /\ CanCommitCreate(e, g)
  /\ experiments' = [experiments EXCEPT
       ![e] = [status |-> "CREATED", traffic_percentage |-> 0,
               experiment_group_id |-> g, chosen_variant |-> None]]
  /\ groups' = [x \in GroupIds |-> IF x = g THEN add_members(groups[x], {e}) ELSE groups[x]]

\* ramp_handler.
CanRamp(e, snap, traffic) ==
  /\ active(snap.status)
  /\ check_max_allowed(traffic, Variants[e])
  /\ compare_old(traffic, snap.traffic_percentage)

RampExperiment(e, traffic, g) ==
  experiments' = [experiments EXCEPT ![e].traffic_percentage = traffic,
                                     ![e].status = "INPROGRESS",
                                     ![e].experiment_group_id = g]

RampFirst(e, snap, traffic) ==
  /\ snap.status = "CREATED" /\ snap.experiment_group_id = None
  /\ CanCreateSystemGroup(e, traffic)
  /\ \E g \in FreshGroupIds :
       /\ groups' = [groups EXCEPT ![g] = create_system_generated_experiment_group(e, traffic)]
       /\ RampExperiment(e, traffic, g)

RampInGroup(e, snap, traffic) ==
  LET g == snap.experiment_group_id IN
  /\ g # None
  /\ CanUpdateBuckets(e, g, traffic)
  /\ groups' = [groups EXCEPT ![g] = update_experiment_group_buckets(@, e, traffic)]
  /\ RampExperiment(e, traffic, g)

\* A running experiment from before groups existed has no buckets to change.
RampUngrouped(e, snap, traffic) ==
  /\ snap.status # "CREATED" /\ snap.experiment_group_id = None
  /\ RampExperiment(e, traffic, None)
  /\ UNCHANGED groups

CommitRamp(e, snap, traffic) ==
  \/ RampFirst(e, snap, traffic)
  \/ RampInGroup(e, snap, traffic)
  \/ RampUngrouped(e, snap, traffic)

\* Fault: only a user-created group can be left.
CanDetachFromUserGroup(snap) ==
  snap.experiment_group_id # None => CanRemoveMembers(snap.experiment_group_id)

\* The end of conclude and of discard.
CanDetach(snap) == snap.experiment_group_id # None => IsGroup(snap.experiment_group_id)

\* Fault: the experiment keeps its group id.
CommitTerminationKeepsId(e, snap, status, chosen) ==
  /\ CanDetach(snap)
  /\ groups' = [g \in GroupIds |-> IF g = snap.experiment_group_id
                                   THEN detach_experiment_from_group(groups[g], e)
                                   ELSE groups[g]]
  /\ experiments' = [experiments EXCEPT ![e].status = status, ![e].chosen_variant = chosen]

CommitTermination(e, snap, status, chosen) ==
  /\ CanDetach(snap)
  /\ groups' = [g \in GroupIds |-> IF g = snap.experiment_group_id
                                   THEN detach_experiment_from_group(groups[g], e)
                                   ELSE groups[g]]
  /\ experiments' = [experiments EXCEPT ![e].status = status,
                                        ![e].chosen_variant = chosen,
                                        ![e].experiment_group_id = None]

\* pause and resume write the status and nothing else.
CommitStatus(e, status) ==
  /\ experiments' = [experiments EXCEPT ![e].status = status]
  /\ UNCHANGED groups

(***************************************************************************)
(* handle_experiment_group_membership, in update_handler.  newGroup is the *)
(* id to move to, or None to leave the group.  A request that names no     *)
(* group, or the group the experiment is in, keeps the snapshot's group.   *)
(* The code's branch for a running experiment that leaves its group is     *)
(* unreachable: update_handler goes on only for CREATED.                   *)
(***************************************************************************)
CommitMove(e, snap, newGroup) ==
  LET g == snap.experiment_group_id IN
  /\ newGroup # g
  /\ g # None => CanRemoveMembers(g)
  /\ newGroup # None => CanAddMembers(newGroup, {e})
  /\ groups' = [x \in GroupIds |-> CASE x = g        -> remove_members(groups[x], {e})
                                     [] x = newGroup -> add_members(groups[x], {e})
                                     [] OTHER        -> groups[x]]
  /\ experiments' = [experiments EXCEPT ![e].experiment_group_id = newGroup]

CommitKeepGroup(e, snap) ==
  /\ experiments' = [experiments EXCEPT ![e].experiment_group_id = snap.experiment_group_id]
  /\ UNCHANGED groups

-----------------------------------------------------------------------------
(* Transactions of the group handlers *)

\* fetch_and_validate_members, before the transaction.
CanJoin(members, g) ==
  \A e \in members : /\ InDb(e)
                     /\ experiments[e].status = "CREATED"
                     /\ experiments[e].experiment_group_id \in {None, g}

\* validate_and_add_experiment_group_id.
SetGroupId(members, g) ==
  experiments' = [e \in ExpIds |-> IF e \in members
                                   THEN [experiments[e] EXCEPT !.experiment_group_id = g]
                                   ELSE experiments[e]]

CommitAddMembers(g, members) ==
  /\ CanAddMembers(g, members)
  /\ SetGroupId(members, g)
  /\ groups' = [groups EXCEPT ![g] = add_members(@, members)]

-----------------------------------------------------------------------------
(* One step per request *)

Create(e, g) == CommitCreate(e, g)

Ramp(e, traffic) ==
  /\ InDb(e)
  /\ CanRamp(e, experiments[e], traffic)
  /\ CommitRamp(e, experiments[e], traffic)

Conclude(e, chosen) ==
  /\ InDb(e)
  /\ concludable(experiments[e].status)
  /\ chosen \in 1 .. Variants[e]
  /\ CommitTermination(e, experiments[e], "CONCLUDED", chosen)

Discard(e) ==
  /\ InDb(e)
  /\ discardable(experiments[e].status)
  /\ CommitTermination(e, experiments[e], "DISCARDED", None)

Pause(e) ==
  /\ InDb(e)
  /\ pausable(experiments[e].status)
  /\ CommitStatus(e, "PAUSED")

Resume(e) ==
  /\ InDb(e)
  /\ resumable(experiments[e].status)
  /\ CommitStatus(e, "INPROGRESS")

\* An update that keeps the group changes no variable of this module.
Move(e, newGroup) ==
  /\ InDb(e)
  /\ experiments[e].status = "CREATED"
  /\ CommitMove(e, experiments[e], newGroup)

CreateGroup(g, context, traffic, members) ==
  /\ g \in FreshGroupIds
  /\ CanJoin(members, g)
  /\ validate_experiment_group_constraints(members, context)
  /\ SetGroupId(members, g)
  /\ groups' = [groups EXCEPT
       ![g] = [group_type |-> "USER_CREATED", context |-> context,
               traffic_percentage |-> traffic, member_experiment_ids |-> members,
               buckets |-> EmptyBuckets]]

UpdateGroup(g, traffic) ==
  /\ IsGroup(g)
  /\ groups[g].group_type # "SYSTEM_GENERATED"
  /\ groups' = [groups EXCEPT ![g].traffic_percentage = traffic]
  /\ UNCHANGED experiments

AddMembers(g, members) ==
  /\ members # {}
  /\ CanJoin(members, g)
  /\ CommitAddMembers(g, members)

(***************************************************************************)
(* remove_members_handler reads the members again inside its transaction   *)
(* (validate_and_remove_experiment_group_id): a running experiment leaves  *)
(* into a new system-generated group of its own.                           *)
(***************************************************************************)
RemoveMembers(g, members, newId) ==
  LET leaving == {e \in members : Running(e)} IN
  /\ members # {}
  /\ CanRemoveMembers(g)
  /\ \A e \in members : InDb(e) /\ experiments[e].experiment_group_id = g
  /\ \A e \in leaving : /\ newId[e] \in FreshGroupIds
                        /\ CanCreateSystemGroup(e, experiments[e].traffic_percentage)
  /\ Injective(newId, leaving)
  /\ groups' = WithSystemGroups([groups EXCEPT ![g] = remove_members(@, members)],
                                leaving, newId)
  /\ experiments' = [e \in ExpIds |->
       IF e \in members
       THEN [experiments[e] EXCEPT !.experiment_group_id =
               IF e \in leaving THEN newId[e] ELSE None]
       ELSE experiments[e]]

DeleteGroup(g) ==
  /\ IsGroup(g)
  /\ groups[g].member_experiment_ids = {}
  /\ groups' = [groups EXCEPT ![g] = Deleted]
  /\ UNCHANGED experiments

\* backfill_handler: a group for every running experiment that has none.
Ungrouped == {e \in ExpIds : InDb(e) /\ Running(e) /\ experiments[e].experiment_group_id = None}

Backfill(newId) ==
  /\ Ungrouped # {}
  /\ \A e \in Ungrouped : /\ newId[e] \in FreshGroupIds
                          /\ CanCreateSystemGroup(e, experiments[e].traffic_percentage)
  /\ Injective(newId, Ungrouped)
  /\ groups' = WithSystemGroups(groups, Ungrouped, newId)
  /\ experiments' = [e \in ExpIds |->
       IF e \in Ungrouped THEN [experiments[e] EXCEPT !.experiment_group_id = newId[e]]
                          ELSE experiments[e]]

-----------------------------------------------------------------------------

(***************************************************************************)
(* The tables when the release with groups starts: experiments of the      *)
(* earlier releases run or are paused without a group (they are what       *)
(* backfill_handler looks for), and there are no groups.                   *)
(***************************************************************************)
LegacyExperiments ==
  {[status |-> s, traffic_percentage |-> t,
    experiment_group_id |-> None, chosen_variant |-> None] :
      s \in {"INPROGRESS", "PAUSED"}, t \in TrafficPercentage}

Init ==
  /\ experiments \in [ExpIds -> LegacyExperiments \cup {None}]
  /\ \A e \in ExpIds :
       InDb(e) => check_max_allowed(experiments[e].traffic_percentage, Variants[e])
  /\ groups = [g \in GroupIds |-> None]

NextExperiment ==
  \E e \in ExpIds :
    \/ \E g \in GroupIds \cup {None} : Create(e, g)
    \/ \E t \in TrafficPercentage : Ramp(e, t)
    \/ \E i \in 1 .. Variants[e] : Conclude(e, i)
    \/ Discard(e)
    \/ Pause(e)
    \/ Resume(e)
    \/ \E g \in GroupIds \cup {None} : Move(e, g)

NextGroup ==
  \/ \E g \in GroupIds :
       \/ \E c \in GroupContexts, t \in GroupTraffics, m \in SUBSET ExpIds : CreateGroup(g, c, t, m)
       \/ \E t \in GroupTraffics : UpdateGroup(g, t)
       \/ \E m \in SUBSET ExpIds : AddMembers(g, m)
       \/ \E m \in SUBSET ExpIds, newId \in [ExpIds -> GroupIds] : RemoveMembers(g, m, newId)
       \/ DeleteGroup(g)
  \/ \E newId \in [ExpIds -> GroupIds] : Backfill(newId)

Next == NextExperiment \/ NextGroup

Spec == Init /\ [][Next]_vars

-----------------------------------------------------------------------------
(* Properties *)

\* Both tables hold rows of their types.
TypeOK ==
  /\ experiments \in [ExpIds -> Experiment \cup {None}]
  /\ groups \in [GroupIds -> ExperimentGroup \cup {None, Deleted}]

(***************************************************************************)
(* The two tables agree on who is in which group: the group id in the row  *)
(* of an experiment and the member list in the row of a group are written  *)
(* by different statements of eight handlers.                              *)
(***************************************************************************)
MembershipConsistent ==
  \A e \in ExpIds, g \in GroupIds :
    (InDb(e) /\ experiments[e].experiment_group_id = g)
      <=> (IsGroup(g) /\ e \in groups[g].member_experiment_ids)

(***************************************************************************)
(* In its group every variant of an experiment owns exactly as many        *)
(* buckets as the traffic percentage of the experiment says, and an        *)
(* experiment owns none in any other group: after any history of ramps up  *)
(* and down, removals, moves, conclusions and backfills.                   *)
(***************************************************************************)
AllocationExact ==
  \A g \in GroupIds : IsGroup(g) =>
    \A e \in ExpIds : \A i \in 1 .. Variants[e] :
      Cardinality(VariantBuckets(groups[g].buckets, e, i)) =
        IF e \in groups[g].member_experiment_ids
        THEN experiments[e].traffic_percentage ELSE 0

(***************************************************************************)
(* A system-generated group belongs to one experiment, which runs or is    *)
(* paused, and has the whole of that experiment's traffic.                 *)
(***************************************************************************)
SystemGroupOwned ==
  \A g \in GroupIds : (IsGroup(g) /\ groups[g].group_type = "SYSTEM_GENERATED") =>
    \E e \in ExpIds :
      /\ groups[g].member_experiment_ids = {e}
      /\ Running(e)
      /\ groups[g].traffic_percentage = Variants[e] * experiments[e].traffic_percentage

(***************************************************************************)
(* A member's context contains the context of its group: a request that    *)
(* reaches the experiment also reaches the group that holds its buckets.   *)
(***************************************************************************)
MembersMatchContext ==
  \A g \in GroupIds : IsGroup(g) =>
    \A e \in groups[g].member_experiment_ids : contains(Context[e], groups[g].context)

(***************************************************************************)
(* Users keep their variant: while an experiment stays in its group, a     *)
(* step that does not lower its traffic takes no bucket from any of its    *)
(* variants, and no step hands a bucket of one variant directly to         *)
(* another.                                                                *)
(***************************************************************************)
KeepsBuckets(g, e) ==
  (/\ IsGroup(g) /\ IsGroup(g)'
   /\ e \in groups[g].member_experiment_ids \cap groups'[g].member_experiment_ids
   /\ experiments'[e].traffic_percentage >= experiments[e].traffic_percentage)
  => \A i \in 1 .. Variants[e] :
       VariantBuckets(groups[g].buckets, e, i) \subseteq VariantBuckets(groups'[g].buckets, e, i)

NoHandOver(g) ==
  (IsGroup(g) /\ IsGroup(g)') =>
    \A k \in BucketIndices :
      groups[g].buckets[k] # NoBucket => groups'[g].buckets[k] \in {groups[g].buckets[k], NoBucket}

StickyVariants ==
  [][\A g \in GroupIds : NoHandOver(g) /\ \A e \in ExpIds : KeepsBuckets(g, e)]_vars
=============================================================================
