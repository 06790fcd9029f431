----------------------- MODULE ExperimentGroupsProofs -----------------------
(***************************************************************************)
(* Proofs about ExperimentGroups, for every number of buckets, experiments,*)
(* variants and groups.  The inductive invariant joins the two tables'     *)
(* types, their agreement on membership, the members' contexts, and that a *)
(* system-generated group has one member.  The last is needed where        *)
(* conclude and discard delete such a group: another member would keep the *)
(* id of a deleted group.                                                  *)
(***************************************************************************)
EXTENDS VariantServing, FiniteSetTheorems, TLAPS

\* Bucket arrays, the type of a group's buckets.
BucketsType == [BucketIndices -> VariantIds \cup {NoBucket}]

\* assign_additional_buckets writes only ids of the experiment's variants.
LEMMA AssignType ==
  ASSUME NEW b \in BucketsType, NEW e \in ExpIds, NEW d
  PROVE  assign_additional_buckets(b, e, Variants[e], d) \in BucketsType
<1> DEFINE n == Variants[e]
           q == d \div n
           takes(k, i) == /\ b[k] = NoBucket
                          /\ (i - 1) * q <= Cardinality({j \in Unassigned(b) : j < k})
                          /\ Cardinality({j \in Unassigned(b) : j < k}) < i * q
<1>1. ASSUME NEW k \in BucketIndices, \E i \in 1 .. n : takes(k, i)
      PROVE  <<e, CHOOSE i \in 1 .. n : takes(k, i)>> \in VariantIds
  <2> HIDE DEF takes
  <2>1. (CHOOSE i \in 1 .. n : takes(k, i)) \in 1 .. n
    BY <1>1
  <2> QED BY <2>1 DEF VariantIds
<1> QED BY <1>1 DEF assign_additional_buckets, BucketsType

\* unassign_excess_buckets only empties buckets.
LEMMA UnassignType ==
  ASSUME NEW b \in BucketsType, NEW e \in ExpIds, NEW d
  PROVE  unassign_excess_buckets(b, e, Variants[e], d) \in BucketsType
BY DEF unassign_excess_buckets, BucketsType

\* update_bucket_allocation maps bucket arrays to bucket arrays.
LEMMA AllocationType ==
  ASSUME NEW b \in BucketsType, NEW e \in ExpIds, NEW t
  PROVE  update_bucket_allocation(b, e, Variants[e], t) \in BucketsType
BY AssignType, UnassignType DEF update_bucket_allocation

\* So does the release of the buckets of several experiments.
LEMMA ReleaseType ==
  ASSUME NEW b \in BucketsType, NEW S \in SUBSET ExpIds
  PROVE  release_buckets(b, S) \in BucketsType
<1>1. ASSUME NEW k \in BucketIndices, \E e \in S : k \in ExperimentBuckets(b, e, Variants[e])
      PROVE  LET e == CHOOSE e \in S : k \in ExperimentBuckets(b, e, Variants[e])
             IN  update_bucket_allocation(b, e, Variants[e], 0)[k] \in VariantIds \cup {NoBucket}
  <2> DEFINE e == CHOOSE e \in S : k \in ExperimentBuckets(b, e, Variants[e])
  <2>1. e \in ExpIds
    BY <1>1
  <2> HIDE DEF e
  <2>2. update_bucket_allocation(b, e, Variants[e], 0) \in BucketsType
    BY <2>1, AllocationType
  <2> QED BY <2>2 DEF BucketsType, e
<1> QED BY <1>1 DEF release_buckets, BucketsType

-----------------------------------------------------------------------------

\* The row of a new system-generated group is well typed when n * traffic is
\* a traffic percentage.
LEMMA SystemGroupType ==
  ASSUME NEW e \in ExpIds, NEW t, CanCreateSystemGroup(e, t)
  PROVE  create_system_generated_experiment_group(e, t) \in ExperimentGroup
<1>1. EmptyBuckets \in BucketsType
  BY DEF EmptyBuckets, BucketsType
<1>2. update_bucket_allocation(EmptyBuckets, e, Variants[e], t) \in BucketsType
  BY <1>1, AllocationType
<1>3. Context[e] \in SUBSET Conditions
  BY ContextAssumption
<1> QED
  BY <1>2, <1>3 DEF create_system_generated_experiment_group, CanCreateSystemGroup,
                    ExperimentGroup, BucketsType

\* What add_members keeps and changes of a group's row.
LEMMA AddMembersType ==
  ASSUME NEW row \in ExperimentGroup, NEW S \in SUBSET ExpIds
  PROVE  /\ add_members(row, S) \in ExperimentGroup
         /\ add_members(row, S).member_experiment_ids = row.member_experiment_ids \cup S
         /\ add_members(row, S).group_type = row.group_type
         /\ add_members(row, S).context = row.context
BY DEF add_members, ExperimentGroup

\* What remove_members keeps and changes of a group's row.
LEMMA RemoveMembersType ==
  ASSUME NEW row \in ExperimentGroup, NEW S \in SUBSET ExpIds
  PROVE  /\ remove_members(row, S) \in ExperimentGroup
         /\ remove_members(row, S).member_experiment_ids = row.member_experiment_ids \ S
         /\ remove_members(row, S).group_type = row.group_type
         /\ remove_members(row, S).context = row.context
<1>1. row.buckets \in BucketsType
  BY DEF ExperimentGroup, BucketsType
<1>2. release_buckets(row.buckets, S) \in BucketsType
  BY <1>1, ReleaseType
<1> QED BY <1>2 DEF remove_members, ExperimentGroup, BucketsType

\* A ramp changes the buckets and the traffic of a group, never its members.
LEMMA UpdateBucketsType ==
  ASSUME NEW row \in ExperimentGroup, NEW e \in ExpIds, NEW t,
         row.group_type = "SYSTEM_GENERATED" => Variants[e] * t \in TrafficPercentage
  PROVE  LET new == update_experiment_group_buckets(row, e, t)
         IN  /\ new \in ExperimentGroup
             /\ new.member_experiment_ids = row.member_experiment_ids
             /\ new.group_type = row.group_type
             /\ new.context = row.context
<1>1. row.buckets \in BucketsType
  BY DEF ExperimentGroup, BucketsType
<1>2. update_bucket_allocation(row.buckets, e, Variants[e], t) \in BucketsType
  BY <1>1, AllocationType
<1> QED BY <1>2 DEF update_experiment_group_buckets, ExperimentGroup, BucketsType

-----------------------------------------------------------------------------

\* A system-generated group has exactly one member.
SystemSolo ==
  \A g \in GroupIds : (IsGroup(g) /\ groups[g].group_type = "SYSTEM_GENERATED") =>
    \E e \in ExpIds : groups[g].member_experiment_ids = {e}

\* The inductive invariant.
IndInv == TypeOK /\ MembershipConsistent /\ SystemSolo /\ MembersMatchContext

\* Membership read from each of the two tables.
GroupOf(e) == IF InDb(e) THEN experiments[e].experiment_group_id ELSE None

Members(g) == IF IsGroup(g) THEN groups[g].member_experiment_ids ELSE {}

\* MembershipConsistent in terms of GroupOf and Members.
LEMMA MembershipForm ==
  MembershipConsistent <=> \A e \in ExpIds, g \in GroupIds : GroupOf(e) = g <=> e \in Members(g)
BY SentinelAssumption DEF MembershipConsistent, GroupOf, Members

\* The same after a step.
LEMMA MembershipFormPrime ==
  MembershipConsistent' <=> \A e \in ExpIds, g \in GroupIds : GroupOf(e)' = g <=> e \in Members(g)'
BY SentinelAssumption DEF MembershipConsistent, GroupOf, Members

\* Legacy experiments have no group and there are none.
LEMMA InitIndInv == Init => IndInv
<1> SUFFICES ASSUME Init PROVE IndInv
  OBVIOUS
<1>1. LegacyExperiments \subseteq Experiment
  BY DEF LegacyExperiments, Experiment, Statuses
<1>2. \A g \in GroupIds : ~IsGroup(g)
  BY DEF Init, IsGroup
<1>3. TypeOK
  BY <1>1 DEF Init, TypeOK
<1>4. \A e \in ExpIds : InDb(e) => experiments[e].experiment_group_id = None
  BY DEF Init, InDb, LegacyExperiments
<1>5. MembershipConsistent
  BY <1>2, <1>4, SentinelAssumption DEF MembershipConsistent
<1> QED
  BY <1>2, <1>3, <1>5 DEF IndInv, SystemSolo, MembersMatchContext

\* A new experiment may join a user-created group whose context it contains.
LEMMA CreateIndInv ==
  ASSUME IndInv, NEW e \in ExpIds, NEW g \in GroupIds \cup {None}, Create(e, g)
  PROVE  IndInv'
<1> DEFINE new == [status |-> "CREATED", traffic_percentage |-> 0,
                   experiment_group_id |-> g, chosen_variant |-> None]
<1>1. new \in Experiment /\ new # None
  BY SentinelAssumption, NumBucketsAssumption DEF Experiment, Statuses, TrafficPercentage
<1>2. /\ experiments' = [experiments EXCEPT ![e] = new]
      /\ ~InDb(e)
      /\ g # None => CanAddMembers(g, {e})
      /\ groups' = [x \in GroupIds |-> IF x = g THEN add_members(groups[x], {e}) ELSE groups[x]]
  BY DEF Create, CommitCreate, CanCommitCreate
<1>3. ASSUME g \in GroupIds
      PROVE  /\ groups[g] \in ExperimentGroup
             /\ groups'[g] \in ExperimentGroup
             /\ groups'[g].member_experiment_ids = groups[g].member_experiment_ids \cup {e}
             /\ groups'[g].group_type = groups[g].group_type
             /\ groups'[g].context = groups[g].context
             /\ groups[g].group_type # "SYSTEM_GENERATED"
             /\ contains(Context[e], groups[g].context)
  BY <1>2, <1>3, AddMembersType, SentinelAssumption
     DEF IndInv, TypeOK, CanAddMembers, IsGroup, validate_experiment_group_constraints
<1>4. TypeOK'
  BY <1>1, <1>2, <1>3 DEF IndInv, TypeOK
<1>5. MembershipConsistent'
  <2>1. \A f \in ExpIds : GroupOf(f)' = IF f = e THEN g ELSE GroupOf(f)
    BY <1>1, <1>2 DEF IndInv, TypeOK, GroupOf, InDb
  <2>2. \A x \in GroupIds : Members(x)' = IF x = g THEN Members(x) \cup {e} ELSE Members(x)
    BY <1>2, <1>3, SentinelAssumption DEF IndInv, TypeOK, Members, IsGroup
  <2>3. GroupOf(e) = None
    BY <1>2 DEF GroupOf
  <2> QED
    BY <2>1, <2>2, <2>3, MembershipForm, MembershipFormPrime, SentinelAssumption DEF IndInv
<1>6. SystemSolo'
  BY <1>2, <1>3, SentinelAssumption DEF IndInv, TypeOK, SystemSolo, IsGroup
<1>7. MembersMatchContext'
  BY <1>2, <1>3, SentinelAssumption DEF IndInv, TypeOK, MembersMatchContext, IsGroup
<1> QED BY <1>4, <1>5, <1>6, <1>7 DEF IndInv

\* The first ramp of an ungrouped experiment creates its group; a later one
\* changes buckets only.
LEMMA RampIndInv ==
  ASSUME IndInv, NEW e \in ExpIds, NEW t \in TrafficPercentage, Ramp(e, t)
  PROVE  IndInv'
<1> DEFINE snap == experiments[e]
<1>1. snap \in Experiment /\ snap.experiment_group_id \in GroupIds \cup {None} /\ InDb(e)
  BY DEF Ramp, IndInv, TypeOK, InDb, Experiment
<1>2. ASSUME NEW g \in GroupIds \cup {None}, RampExperiment(e, t, g)
      PROVE  /\ experiments' \in [ExpIds -> Experiment \cup {None}]
             /\ \A f \in ExpIds : GroupOf(f)' = IF f = e THEN g ELSE GroupOf(f)
  <2>1. experiments' = [experiments EXCEPT ![e] =
          [snap EXCEPT !.traffic_percentage = t, !.status = "INPROGRESS", !.experiment_group_id = g]]
    BY <1>2 DEF RampExperiment, IndInv, TypeOK
  <2>2. experiments'[e] \in Experiment /\ experiments'[e].experiment_group_id = g
    BY <1>1, <2>1 DEF IndInv, TypeOK, Experiment, Statuses
  <2>3. \A f \in ExpIds : f # e => experiments'[f] = experiments[f]
    BY <2>1 DEF IndInv, TypeOK
  <2>4. experiments'[e] # None
    BY <2>2, SentinelAssumption
  <2> QED BY <2>1, <2>2, <2>3, <2>4 DEF IndInv, TypeOK, GroupOf, InDb
<1>3. CASE RampFirst(e, snap, t)
  <2>1. PICK g \in FreshGroupIds :
          /\ groups' = [groups EXCEPT ![g] = create_system_generated_experiment_group(e, t)]
          /\ RampExperiment(e, t, g)
    BY <1>3 DEF RampFirst
  <2> DEFINE new == create_system_generated_experiment_group(e, t)
  <2>2. g \in GroupIds /\ ~IsGroup(g)
    BY DEF FreshGroupIds, IsGroup
  <2>3. /\ new \in ExperimentGroup
        /\ new.member_experiment_ids = {e}
        /\ new.context = Context[e]
    BY <1>3, SystemGroupType DEF RampFirst, create_system_generated_experiment_group
  <2> HIDE DEF new
  <2>4. /\ groups' \in [GroupIds -> ExperimentGroup \cup {None, Deleted}]
        /\ groups'[g] = new
        /\ \A x \in GroupIds : x # g => groups'[x] = groups[x]
    BY <2>1, <2>2, <2>3 DEF IndInv, TypeOK, new
  <2>5. TypeOK'
    BY <1>2, <2>1, <2>2, <2>4 DEF TypeOK
  <2>6. MembershipConsistent'
    <3>1. \A x \in GroupIds : Members(x)' = IF x = g THEN {e} ELSE Members(x)
      BY <2>3, <2>4, SentinelAssumption DEF Members, IsGroup
    <3>2. Members(g) = {} /\ GroupOf(e) = None
      BY <1>1, <1>3, <2>2 DEF Members, GroupOf, RampFirst
    <3> QED
      BY <1>2, <2>1, <2>2, <3>1, <3>2, MembershipForm, MembershipFormPrime, SentinelAssumption DEF IndInv
  <2>7. SystemSolo'
    BY <2>3, <2>4 DEF IndInv, SystemSolo, IsGroup
  <2>8. MembersMatchContext'
    BY <2>3, <2>4 DEF IndInv, MembersMatchContext, IsGroup, contains
  <2> QED BY <2>5, <2>6, <2>7, <2>8 DEF IndInv
<1>4. CASE RampInGroup(e, snap, t)
  <2> DEFINE g == snap.experiment_group_id
             new == update_experiment_group_buckets(groups[g], e, t)
  <2>1. /\ g \in GroupIds
        /\ CanUpdateBuckets(e, g, t)
        /\ groups' = [groups EXCEPT ![g] = new]
        /\ RampExperiment(e, t, g)
    BY <1>1, <1>4 DEF RampInGroup, IndInv, TypeOK
  <2>2. groups[g] \in ExperimentGroup
    BY <2>1 DEF IndInv, TypeOK, CanUpdateBuckets, IsGroup
  <2>3. /\ new \in ExperimentGroup
        /\ new.member_experiment_ids = groups[g].member_experiment_ids
        /\ new.group_type = groups[g].group_type
        /\ new.context = groups[g].context
    BY <2>1, <2>2, UpdateBucketsType DEF CanUpdateBuckets
  <2> HIDE DEF new
  <2>4. /\ groups' \in [GroupIds -> ExperimentGroup \cup {None, Deleted}]
        /\ groups'[g] = new
        /\ \A x \in GroupIds : x # g => groups'[x] = groups[x]
    BY <2>1, <2>3 DEF IndInv, TypeOK
  <2>5. TypeOK'
    BY <1>2, <2>1, <2>4 DEF TypeOK
  <2>6. MembershipConsistent'
    <3>1. \A x \in GroupIds : Members(x)' = Members(x)
      BY <2>2, <2>3, <2>4, SentinelAssumption DEF Members, IsGroup
    <3>2. GroupOf(e) = g
      BY <1>1 DEF GroupOf
    <3>3. \A f \in ExpIds : GroupOf(f)' = GroupOf(f)
      BY <1>2, <2>1, <3>2
    <3> QED BY <3>1, <3>3, MembershipForm, MembershipFormPrime DEF IndInv
  <2>7. SystemSolo'
    BY <2>2, <2>3, <2>4, SentinelAssumption DEF IndInv, SystemSolo, IsGroup
  <2>8. MembersMatchContext'
    BY <2>2, <2>3, <2>4, SentinelAssumption DEF IndInv, MembersMatchContext, IsGroup
  <2> QED BY <2>5, <2>6, <2>7, <2>8 DEF IndInv
<1>5. CASE RampUngrouped(e, snap, t)
  <2>1. snap.experiment_group_id = None /\ RampExperiment(e, t, None) /\ groups' = groups
    BY <1>5 DEF RampUngrouped
  <2>2. TypeOK'
    BY <1>2, <2>1 DEF IndInv, TypeOK
  <2>3. MembershipConsistent'
    <3>1. \A x \in GroupIds : Members(x)' = Members(x)
      BY <2>1 DEF Members, IsGroup
    <3>2. GroupOf(e) = None
      BY <1>1, <2>1 DEF GroupOf
    <3>3. \A f \in ExpIds : GroupOf(f)' = GroupOf(f)
      BY <1>2, <2>1, <3>2
    <3> QED BY <3>1, <3>3, MembershipForm, MembershipFormPrime DEF IndInv
  <2> QED BY <2>1, <2>2, <2>3 DEF IndInv, SystemSolo, MembersMatchContext, IsGroup
<1> QED BY <1>3, <1>4, <1>5 DEF Ramp, CommitRamp

\* Leaving the group on conclude and discard: a system-generated group, which
\* has no other member, is deleted; a user's group drops the member.
LEMMA TerminationIndInv ==
  ASSUME IndInv, NEW e \in ExpIds, InDb(e), NEW s \in Statuses, NEW c \in Nat \cup {None},
         CommitTermination(e, experiments[e], s, c)
  PROVE  IndInv'
<1> DEFINE snap == experiments[e]
           g == snap.experiment_group_id
           new == detach_experiment_from_group(groups[g], e)
<1>1. snap \in Experiment /\ g \in GroupIds \cup {None}
  BY DEF IndInv, TypeOK, InDb, Experiment
<1>2. /\ g # None => IsGroup(g)
      /\ groups' = [x \in GroupIds |-> IF x = g THEN new ELSE groups[x]]
      /\ experiments' = [experiments EXCEPT ![e] =
           [snap EXCEPT !.status = s, !.chosen_variant = c, !.experiment_group_id = None]]
  BY DEF CommitTermination, CanDetach, IndInv, TypeOK
<1>3. experiments'[e] \in Experiment /\ experiments'[e].experiment_group_id = None
  BY <1>1, <1>2 DEF IndInv, TypeOK, Experiment
<1>4. \A f \in ExpIds : f # e => experiments'[f] = experiments[f]
  BY <1>2 DEF IndInv, TypeOK
<1>5. \A f \in ExpIds : GroupOf(f)' = IF f = e THEN None ELSE GroupOf(f)
  BY <1>3, <1>4 DEF GroupOf, InDb
<1>6. ASSUME g \in GroupIds
      PROVE  /\ groups[g] \in ExperimentGroup
             /\ \/ new = Deleted /\ groups[g].member_experiment_ids = {e}
                \/ /\ new \in ExperimentGroup
                   /\ new.member_experiment_ids = groups[g].member_experiment_ids \ {e}
                   /\ new.group_type = groups[g].group_type
                   /\ new.context = groups[g].context
                   /\ new.group_type # "SYSTEM_GENERATED"
  <2>1. groups[g] \in ExperimentGroup /\ IsGroup(g)
    BY <1>2, <1>6, SentinelAssumption DEF IndInv, TypeOK, IsGroup
  <2>2. CASE groups[g].group_type = "SYSTEM_GENERATED"
    <3>1. e \in groups[g].member_experiment_ids
      BY <1>6 DEF IndInv, MembershipConsistent
    <3> QED BY <1>6, <2>1, <2>2, <3>1 DEF IndInv, SystemSolo, detach_experiment_from_group
  <2>3. CASE groups[g].group_type # "SYSTEM_GENERATED"
    <3>1. new = remove_members(groups[g], {e})
      BY <2>3 DEF detach_experiment_from_group
    <3> QED BY <2>1, <2>3, <3>1, RemoveMembersType
  <2> QED BY <2>2, <2>3
<1> HIDE DEF new
<1>7. TypeOK'
  BY <1>2, <1>3, <1>4, <1>6 DEF IndInv, TypeOK
<1>8. MembershipConsistent'
  <2>1. \A x \in GroupIds : Members(x)' = Members(x) \ {e}
    <3>1. ASSUME NEW x \in GroupIds, x # g PROVE Members(x)' = Members(x) \ {e}
      <4>1. e \notin Members(x)
        BY <3>1, MembershipForm DEF IndInv, GroupOf
      <4> QED BY <1>2, <3>1, <4>1 DEF Members, IsGroup
    <3>2. ASSUME NEW x \in GroupIds, x = g PROVE Members(x)' = Members(x) \ {e}
      <4>1. groups'[x] = new
        BY <1>2, <3>2
      <4> QED BY <1>6, <3>2, <4>1, SentinelAssumption DEF Members, IsGroup
    <3> QED BY <3>1, <3>2
  <2> QED BY <1>5, <2>1, MembershipForm, MembershipFormPrime, SentinelAssumption DEF IndInv
<1>9. SystemSolo'
  BY <1>2, <1>6 DEF IndInv, SystemSolo, IsGroup
<1>10. MembersMatchContext'
  BY <1>2, <1>6, SentinelAssumption DEF IndInv, MembersMatchContext, IsGroup
<1> QED BY <1>7, <1>8, <1>9, <1>10 DEF IndInv

\* pause and resume change no group.
LEMMA StatusIndInv ==
  ASSUME IndInv, NEW e \in ExpIds, InDb(e), NEW s \in Statuses, CommitStatus(e, s)
  PROVE  IndInv'
<1>1. groups' = groups /\ experiments' = [experiments EXCEPT ![e] = [experiments[e] EXCEPT !.status = s]]
  BY DEF CommitStatus, IndInv, TypeOK
<1>2. experiments[e] \in Experiment
  BY DEF IndInv, TypeOK, InDb
<1>3. /\ experiments'[e] \in Experiment
      /\ experiments'[e].experiment_group_id = experiments[e].experiment_group_id
  BY <1>1, <1>2 DEF IndInv, TypeOK, Experiment
<1>4. \A f \in ExpIds : GroupOf(f)' = GroupOf(f)
  BY <1>1, <1>3, SentinelAssumption DEF GroupOf, InDb, IndInv, TypeOK
<1>5. \A x \in GroupIds : Members(x)' = Members(x)
  BY <1>1 DEF Members, IsGroup
<1>6. TypeOK'
  BY <1>1, <1>3 DEF IndInv, TypeOK
<1>7. MembershipConsistent'
  BY <1>4, <1>5, MembershipForm, MembershipFormPrime DEF IndInv
<1> QED BY <1>1, <1>6, <1>7 DEF IndInv, SystemSolo, MembersMatchContext, IsGroup

\* A CREATED experiment leaves one user-created group and joins another.
LEMMA MoveIndInv ==
  ASSUME IndInv, NEW e \in ExpIds, NEW h \in GroupIds \cup {None}, Move(e, h)
  PROVE  IndInv'
<1> DEFINE snap == experiments[e]
           g == snap.experiment_group_id
           rem == remove_members(groups[g], {e})
           add == add_members(groups[h], {e})
<1>1. snap \in Experiment /\ g \in GroupIds \cup {None} /\ InDb(e)
  BY DEF Move, IndInv, TypeOK, InDb, Experiment
<1>2. /\ h # g
      /\ g # None => CanRemoveMembers(g)
      /\ h # None => CanAddMembers(h, {e})
      /\ groups' = [x \in GroupIds |-> IF x = g THEN remove_members(groups[x], {e})
                                       ELSE IF x = h THEN add_members(groups[x], {e})
                                       ELSE groups[x]]
      /\ experiments' = [experiments EXCEPT ![e] = [snap EXCEPT !.experiment_group_id = h]]
  BY DEF Move, CommitMove, IndInv, TypeOK
<1>3. experiments'[e] \in Experiment /\ experiments'[e].experiment_group_id = h
  BY <1>1, <1>2 DEF IndInv, TypeOK, Experiment
<1>4. \A f \in ExpIds : f # e => experiments'[f] = experiments[f]
  BY <1>2 DEF IndInv, TypeOK
<1>5. \A f \in ExpIds : GroupOf(f)' = IF f = e THEN h ELSE GroupOf(f)
  BY <1>3, <1>4, SentinelAssumption DEF GroupOf, InDb
<1>6. ASSUME g \in GroupIds
      PROVE  /\ groups[g] \in ExperimentGroup
             /\ groups'[g] \in ExperimentGroup
             /\ groups'[g].member_experiment_ids = groups[g].member_experiment_ids \ {e}
             /\ groups'[g].group_type = groups[g].group_type
             /\ groups'[g].context = groups[g].context
             /\ groups[g].group_type # "SYSTEM_GENERATED"
  BY <1>2, <1>6, RemoveMembersType, SentinelAssumption DEF IndInv, TypeOK, CanRemoveMembers, IsGroup
<1>7. ASSUME h \in GroupIds
      PROVE  /\ groups[h] \in ExperimentGroup
             /\ groups'[h] \in ExperimentGroup
             /\ groups'[h].member_experiment_ids = groups[h].member_experiment_ids \cup {e}
             /\ groups'[h].group_type = groups[h].group_type
             /\ groups'[h].context = groups[h].context
             /\ groups[h].group_type # "SYSTEM_GENERATED"
             /\ contains(Context[e], groups[h].context)
  BY <1>2, <1>7, AddMembersType, SentinelAssumption
     DEF IndInv, TypeOK, CanAddMembers, IsGroup, validate_experiment_group_constraints
<1>8. \A x \in GroupIds : x \notin {g, h} => groups'[x] = groups[x]
  BY <1>2
<1>9. TypeOK'
  BY <1>2, <1>3, <1>4, <1>6, <1>7, <1>8 DEF IndInv, TypeOK
<1>10. MembershipConsistent'
  <2>1. \A x \in GroupIds : Members(x)' = IF x = g THEN Members(x) \ {e}
                                          ELSE IF x = h THEN Members(x) \cup {e}
                                          ELSE Members(x)
    <3>1. ASSUME NEW x \in GroupIds, x = g PROVE Members(x)' = Members(x) \ {e}
      BY <1>6, <3>1, SentinelAssumption DEF Members, IsGroup
    <3>2. ASSUME NEW x \in GroupIds, x = h PROVE Members(x)' = Members(x) \cup {e}
      BY <1>7, <3>2, SentinelAssumption DEF Members, IsGroup
    <3>3. ASSUME NEW x \in GroupIds, x \notin {g, h} PROVE Members(x)' = Members(x)
      BY <1>8, <3>3 DEF Members, IsGroup
    <3> QED BY <1>2, <3>1, <3>2, <3>3
  <2>2. GroupOf(e) = g
    BY <1>1 DEF GroupOf
  <2> QED
    BY <1>2, <1>5, <2>1, <2>2, MembershipForm, MembershipFormPrime, SentinelAssumption DEF IndInv
<1>11. SystemSolo'
  BY <1>6, <1>7, <1>8, SentinelAssumption DEF IndInv, SystemSolo, IsGroup
<1>12. MembersMatchContext'
  BY <1>6, <1>7, <1>8, SentinelAssumption DEF IndInv, MembersMatchContext, IsGroup
<1> QED BY <1>9, <1>10, <1>11, <1>12 DEF IndInv

\* What validate_and_add_experiment_group_id does to the experiments table.
LEMMA SetGroupIdFacts ==
  ASSUME TypeOK, NEW g \in GroupIds, NEW M \in SUBSET ExpIds, CanJoin(M, g), SetGroupId(M, g)
  PROVE  /\ experiments' \in [ExpIds -> Experiment \cup {None}]
         /\ \A f \in ExpIds : GroupOf(f)' = IF f \in M THEN g ELSE GroupOf(f)
         /\ \A f \in M : GroupOf(f) \in {None, g}
<1>1. \A f \in M : /\ experiments[f] \in Experiment
                   /\ GroupOf(f) \in {None, g}
  BY DEF TypeOK, CanJoin, InDb, GroupOf
<1>2. \A f \in M : /\ experiments'[f] \in Experiment
                   /\ experiments'[f].experiment_group_id = g
  BY <1>1 DEF SetGroupId, Experiment
<1>3. \A f \in ExpIds \ M : experiments'[f] = experiments[f]
  BY DEF SetGroupId
<1>4. experiments' \in [ExpIds -> Experiment \cup {None}]
  BY <1>2, <1>3 DEF SetGroupId, TypeOK
<1>5. \A f \in ExpIds : GroupOf(f)' = IF f \in M THEN g ELSE GroupOf(f)
  BY <1>2, <1>3, SentinelAssumption DEF GroupOf, InDb
<1> QED BY <1>1, <1>4, <1>5

\* A group that a user creates with its first members.
LEMMA CreateGroupIndInv ==
  ASSUME IndInv, NEW g \in GroupIds, NEW c \in GroupContexts, NEW t \in GroupTraffics,
         NEW M \in SUBSET ExpIds, CreateGroup(g, c, t, M)
  PROVE  IndInv'
<1> DEFINE new == [group_type |-> "USER_CREATED", context |-> c, traffic_percentage |-> t,
                   member_experiment_ids |-> M, buckets |-> EmptyBuckets]
<1>1. new \in ExperimentGroup
  BY GroupInputsAssumption DEF ExperimentGroup, TrafficPercentage, EmptyBuckets
<1>2. /\ groups' = [groups EXCEPT ![g] = new]
      /\ groups[g] = None
      /\ CanJoin(M, g) /\ SetGroupId(M, g)
      /\ \A e \in M : contains(Context[e], c)
  BY DEF CreateGroup, FreshGroupIds, validate_experiment_group_constraints
<1>3. /\ new.group_type = "USER_CREATED"
      /\ new.member_experiment_ids = M
      /\ new.context = c
  OBVIOUS
<1> HIDE DEF new
<1>4. /\ groups' \in [GroupIds -> ExperimentGroup \cup {None, Deleted}]
      /\ groups'[g] = new
      /\ \A x \in GroupIds : x # g => groups'[x] = groups[x]
  BY <1>1, <1>2 DEF IndInv, TypeOK
<1>5. TypeOK'
  BY <1>2, <1>4, SetGroupIdFacts DEF IndInv, TypeOK
<1>6. MembershipConsistent'
  <2>1. \A x \in GroupIds : Members(x)' = IF x = g THEN M ELSE Members(x)
    BY <1>1, <1>3, <1>4, SentinelAssumption DEF Members, IsGroup
  <2>2. Members(g) = {}
    BY <1>2 DEF Members, IsGroup
  <2> QED
    BY <1>2, <2>1, <2>2, SetGroupIdFacts, MembershipForm, MembershipFormPrime, SentinelAssumption DEF IndInv
<1>7. SystemSolo'
  BY <1>3, <1>4 DEF IndInv, SystemSolo, IsGroup
<1>8. MembersMatchContext'
  BY <1>2, <1>3, <1>4 DEF IndInv, MembersMatchContext, IsGroup
<1> QED BY <1>5, <1>6, <1>7, <1>8 DEF IndInv

\* A new traffic percentage for a user-created group.
LEMMA UpdateGroupIndInv ==
  ASSUME IndInv, NEW g \in GroupIds, NEW t \in GroupTraffics, UpdateGroup(g, t)
  PROVE  IndInv'
<1> DEFINE new == [groups[g] EXCEPT !.traffic_percentage = t]
<1>1. groups' = [groups EXCEPT ![g] = new] /\ experiments' = experiments /\ IsGroup(g)
  BY DEF UpdateGroup, IndInv, TypeOK
<1>2. groups[g] \in ExperimentGroup
  BY <1>1 DEF IndInv, TypeOK, IsGroup
<1>3. /\ new \in ExperimentGroup
      /\ new.member_experiment_ids = groups[g].member_experiment_ids
      /\ new.group_type = groups[g].group_type
      /\ new.context = groups[g].context
  BY <1>2, GroupInputsAssumption DEF ExperimentGroup, TrafficPercentage
<1> HIDE DEF new
<1>4. /\ groups' \in [GroupIds -> ExperimentGroup \cup {None, Deleted}]
      /\ groups'[g] = new
      /\ \A x \in GroupIds : x # g => groups'[x] = groups[x]
  BY <1>1, <1>3 DEF IndInv, TypeOK
<1>5. TypeOK'
  BY <1>1, <1>4 DEF IndInv, TypeOK
<1>6. MembershipConsistent'
  <2>1. \A x \in GroupIds : Members(x)' = Members(x)
    BY <1>2, <1>3, <1>4, SentinelAssumption DEF Members, IsGroup
  <2>2. \A f \in ExpIds : GroupOf(f)' = GroupOf(f)
    BY <1>1 DEF GroupOf, InDb
  <2> QED BY <2>1, <2>2, MembershipForm, MembershipFormPrime DEF IndInv
<1>7. SystemSolo'
  BY <1>2, <1>3, <1>4, SentinelAssumption DEF IndInv, SystemSolo, IsGroup
<1>8. MembersMatchContext'
  BY <1>2, <1>3, <1>4, SentinelAssumption DEF IndInv, MembersMatchContext, IsGroup
<1> QED BY <1>5, <1>6, <1>7, <1>8 DEF IndInv

\* CREATED experiments without a group join a user-created one.
LEMMA AddMembersIndInv ==
  ASSUME IndInv, NEW g \in GroupIds, NEW M \in SUBSET ExpIds, AddMembers(g, M)
  PROVE  IndInv'
<1> DEFINE new == add_members(groups[g], M)
<1>1. /\ groups' = [groups EXCEPT ![g] = new]
      /\ CanJoin(M, g) /\ SetGroupId(M, g)
      /\ IsGroup(g)
      /\ groups[g].group_type # "SYSTEM_GENERATED"
      /\ \A e \in M : contains(Context[e], groups[g].context)
  BY DEF AddMembers, CommitAddMembers, CanAddMembers, validate_experiment_group_constraints
<1>2. groups[g] \in ExperimentGroup
  BY <1>1 DEF IndInv, TypeOK, IsGroup
<1>3. /\ new \in ExperimentGroup
      /\ new.member_experiment_ids = groups[g].member_experiment_ids \cup M
      /\ new.group_type = groups[g].group_type
      /\ new.context = groups[g].context
  BY <1>2, AddMembersType
<1> HIDE DEF new
<1>4. /\ groups' \in [GroupIds -> ExperimentGroup \cup {None, Deleted}]
      /\ groups'[g] = new
      /\ \A x \in GroupIds : x # g => groups'[x] = groups[x]
  BY <1>1, <1>3 DEF IndInv, TypeOK
<1>5. TypeOK'
  BY <1>1, <1>4, SetGroupIdFacts DEF IndInv, TypeOK
<1>6. MembershipConsistent'
  <2>1. \A x \in GroupIds : Members(x)' = IF x = g THEN Members(x) \cup M ELSE Members(x)
    BY <1>2, <1>3, <1>4, SentinelAssumption DEF Members, IsGroup
  <2> QED
    BY <1>1, <2>1, SetGroupIdFacts, MembershipForm, MembershipFormPrime, SentinelAssumption DEF IndInv
<1>7. SystemSolo'
  BY <1>1, <1>3, <1>4 DEF IndInv, SystemSolo, IsGroup
<1>8. MembersMatchContext'
  BY <1>1, <1>2, <1>3, <1>4, SentinelAssumption DEF IndInv, MembersMatchContext, IsGroup
<1> QED BY <1>5, <1>6, <1>7, <1>8 DEF IndInv

\* Only a group without members is deleted.
LEMMA DeleteGroupIndInv ==
  ASSUME IndInv, NEW g \in GroupIds, DeleteGroup(g)
  PROVE  IndInv'
<1>1. /\ groups' \in [GroupIds -> ExperimentGroup \cup {None, Deleted}]
      /\ groups'[g] = Deleted
      /\ \A x \in GroupIds : x # g => groups'[x] = groups[x]
      /\ experiments' = experiments
      /\ Members(g) = {}
  BY DEF DeleteGroup, IndInv, TypeOK, Members
<1>2. TypeOK'
  BY <1>1 DEF IndInv, TypeOK
<1>3. MembershipConsistent'
  <2>1. \A x \in GroupIds : Members(x)' = Members(x)
    BY <1>1 DEF Members, IsGroup
  <2>2. \A f \in ExpIds : GroupOf(f)' = GroupOf(f)
    BY <1>1 DEF GroupOf, InDb
  <2> QED BY <2>1, <2>2, MembershipForm, MembershipFormPrime DEF IndInv
<1>4. SystemSolo'
  BY <1>1 DEF IndInv, SystemSolo, IsGroup
<1>5. MembersMatchContext'
  BY <1>1 DEF IndInv, MembersMatchContext, IsGroup
<1> QED BY <1>2, <1>3, <1>4, <1>5 DEF IndInv

\* r is rows with system-generated groups inserted: at each new id the group
\* of its one experiment, everywhere else the row of before.
SystemGroupsAdded(r, rows, exps, newId) ==
  /\ r \in [GroupIds -> ExperimentGroup \cup {None, Deleted}]
  /\ \A e \in exps : /\ r[newId[e]] = create_system_generated_experiment_group(
                                          e, experiments[e].traffic_percentage)
                     /\ r[newId[e]] \in ExperimentGroup
                     /\ r[newId[e]].member_experiment_ids = {e}
                     /\ r[newId[e]].context = Context[e]
  /\ \A x \in GroupIds : (\A e \in exps : newId[e] # x) => r[x] = rows[x]

\* WithSystemGroups, which remove_members and backfill use, does just that.
LEMMA WithSystemGroupsFacts ==
  ASSUME NEW rows \in [GroupIds -> ExperimentGroup \cup {None, Deleted}],
         NEW S \in SUBSET ExpIds, NEW newId \in [ExpIds -> GroupIds], Injective(newId, S),
         \A e \in S : CanCreateSystemGroup(e, experiments[e].traffic_percentage)
  PROVE  SystemGroupsAdded(WithSystemGroups(rows, S, newId), rows, S, newId)
<1> DEFINE r == WithSystemGroups(rows, S, newId)
           sys(e) == create_system_generated_experiment_group(e, experiments[e].traffic_percentage)
<1>1. \A e \in S : /\ sys(e) \in ExperimentGroup
                   /\ sys(e).member_experiment_ids = {e}
                   /\ sys(e).context = Context[e]
  BY SystemGroupType DEF create_system_generated_experiment_group
<1>2. r = [g \in GroupIds |-> IF \E e \in S : newId[e] = g
                              THEN sys(CHOOSE e \in S : newId[e] = g) ELSE rows[g]]
  BY DEF WithSystemGroups
<1> HIDE DEF sys, r
<1>3. ASSUME NEW e \in S PROVE r[newId[e]] = sys(e)
  <2>1. newId[e] \in GroupIds
    OBVIOUS
  <2>2. (CHOOSE f \in S : newId[f] = newId[e]) = e
    BY DEF Injective
  <2> QED BY <1>2, <2>1, <2>2
<1>4. \A x \in GroupIds : (\A e \in S : newId[e] # x) => r[x] = rows[x]
  BY <1>2
<1>5. ASSUME NEW x \in GroupIds PROVE r[x] \in ExperimentGroup \cup {None, Deleted}
  <2>1. CASE \E e \in S : newId[e] = x
    BY <1>1, <1>3, <2>1
  <2>2. CASE \A e \in S : newId[e] # x
    BY <1>4, <2>2
  <2> QED BY <2>1, <2>2
<1>6. r \in [GroupIds -> ExperimentGroup \cup {None, Deleted}]
  BY <1>2, <1>5
<1>7. SystemGroupsAdded(r, rows, S, newId)
  BY <1>1, <1>3, <1>4, <1>6 DEF SystemGroupsAdded, sys
<1> QED BY <1>7 DEF r

\* Members leave a user-created group, the running ones into groups of their own.
LEMMA RemoveMembersIndInv ==
  ASSUME IndInv, NEW g \in GroupIds, NEW M \in SUBSET ExpIds, NEW newId \in [ExpIds -> GroupIds],
         RemoveMembers(g, M, newId)
  PROVE  IndInv'
<1> DEFINE leaving == {e \in M : Running(e)}
           rem == remove_members(groups[g], M)
           rows == [groups EXCEPT ![g] = rem]
           newGroup(e) == IF e \in leaving THEN newId[e] ELSE None
<1>1. /\ IsGroup(g)
      /\ groups[g].group_type # "SYSTEM_GENERATED"
      /\ \A e \in M : InDb(e) /\ experiments[e].experiment_group_id = g
      /\ \A e \in leaving : groups[newId[e]] = None
      /\ \A e \in leaving : CanCreateSystemGroup(e, experiments[e].traffic_percentage)
      /\ Injective(newId, leaving)
      /\ groups' = WithSystemGroups(rows, leaving, newId)
      /\ experiments' = [e \in ExpIds |->
           IF e \in M THEN [experiments[e] EXCEPT !.experiment_group_id = newGroup(e)]
                      ELSE experiments[e]]
  BY DEF RemoveMembers, CanRemoveMembers, FreshGroupIds
<1>2. groups[g] \in ExperimentGroup
  BY <1>1 DEF IndInv, TypeOK, IsGroup
<1>3. /\ rem \in ExperimentGroup
      /\ rem.member_experiment_ids = groups[g].member_experiment_ids \ M
      /\ rem.group_type = groups[g].group_type
      /\ rem.context = groups[g].context
  BY <1>2, RemoveMembersType
<1> HIDE DEF rem
<1>4. rows \in [GroupIds -> ExperimentGroup \cup {None, Deleted}]
  BY <1>3 DEF IndInv, TypeOK
<1>5. leaving \in SUBSET ExpIds
  OBVIOUS
<1> HIDE DEF leaving, rows
<1>6. /\ groups' \in [GroupIds -> ExperimentGroup \cup {None, Deleted}]
      /\ \A e \in leaving : /\ groups'[newId[e]] \in ExperimentGroup
                            /\ groups'[newId[e]].member_experiment_ids = {e}
                            /\ groups'[newId[e]].context = Context[e]
      /\ \A x \in GroupIds : (\A e \in leaving : newId[e] # x) => groups'[x] = rows[x]
  <2>1. groups' = WithSystemGroups(rows, leaving, newId) /\ Injective(newId, leaving)
    BY <1>1
  <2>2. \A e \in leaving : CanCreateSystemGroup(e, experiments[e].traffic_percentage)
    BY <1>1
  <2>3. SystemGroupsAdded(groups', rows, leaving, newId)
    BY <1>4, <1>5, <2>1, <2>2, WithSystemGroupsFacts
  <2> QED BY <2>3 DEF SystemGroupsAdded
<1>7. \A e \in leaving : newId[e] # g
  BY <1>1 DEF IsGroup
<1>8. groups'[g] = rem
  BY <1>6, <1>7 DEF rows, IndInv, TypeOK
<1>9. ASSUME NEW x \in GroupIds, x # g, \A e \in leaving : newId[e] # x
      PROVE  groups'[x] = groups[x]
  BY <1>6, <1>9 DEF rows, IndInv, TypeOK
<1>10. \A e \in M : /\ experiments[e] \in Experiment
                    /\ newGroup(e) \in GroupIds \cup {None}
  BY <1>1 DEF IndInv, TypeOK, InDb, leaving
<1>11. \A e \in M : /\ experiments'[e] \in Experiment
                    /\ experiments'[e].experiment_group_id = newGroup(e)
  BY <1>1, <1>10 DEF Experiment
<1>12. \A e \in ExpIds \ M : experiments'[e] = experiments[e]
  BY <1>1
<1>13. TypeOK'
  BY <1>1, <1>6, <1>11, <1>12 DEF IndInv, TypeOK
<1>14. MembershipConsistent'
  <2>1. \A f \in ExpIds : GroupOf(f)' = IF f \in M THEN newGroup(f) ELSE GroupOf(f)
    BY <1>11, <1>12, SentinelAssumption DEF GroupOf, InDb
  <2>2. Members(g)' = Members(g) \ M
    BY <1>1, <1>3, <1>8, SentinelAssumption DEF Members, IsGroup
  <2>3. \A e \in leaving : Members(newId[e])' = {e} /\ Members(newId[e]) = {}
    BY <1>1, <1>6, SentinelAssumption DEF Members, IsGroup
  <2>4. \A x \in GroupIds : (x # g /\ \A e \in leaving : newId[e] # x) => Members(x)' = Members(x)
    BY <1>9 DEF Members, IsGroup
  <2>5. \A e \in M : GroupOf(e) = g
    BY <1>1 DEF GroupOf
  <2>6. ASSUME NEW f \in ExpIds, NEW x \in GroupIds
        PROVE  GroupOf(f)' = x <=> f \in Members(x)'
    <3>1. GroupOf(f) = x <=> f \in Members(x)
      BY MembershipForm DEF IndInv
    <3>2. CASE x = g
      BY <1>7, <2>1, <2>2, <3>1, <3>2, SentinelAssumption DEF leaving
    <3>3. CASE \E e \in leaving : newId[e] = x
      <4>1. PICK e \in leaving : newId[e] = x
        BY <3>3
      <4>2. Members(x)' = {e} /\ Members(x) = {}
        BY <2>3, <4>1
      <4>3. f \in leaving /\ newId[f] = x => f = e
        BY <1>1, <4>1 DEF Injective
      <4>4. e \in M
        BY DEF leaving
      <4> QED BY <2>1, <3>1, <4>1, <4>2, <4>3, <4>4, SentinelAssumption
    <3>4. CASE x # g /\ \A e \in leaving : newId[e] # x
      BY <2>1, <2>4, <2>5, <3>1, <3>4, SentinelAssumption
    <3> QED BY <3>2, <3>3, <3>4
  <2> QED BY <2>6, MembershipFormPrime
<1>15. SystemSolo'
  <2>1. ASSUME NEW x \in GroupIds, IsGroup(x)', groups'[x].group_type = "SYSTEM_GENERATED"
        PROVE  \E e \in ExpIds : groups'[x].member_experiment_ids = {e}
    <3>1. CASE x = g
      BY <1>1, <1>3, <1>8, <2>1, <3>1
    <3>2. CASE \E e \in leaving : newId[e] = x
      BY <1>5, <1>6, <3>2
    <3>3. CASE x # g /\ \A e \in leaving : newId[e] # x
      BY <1>9, <2>1, <3>3 DEF IndInv, SystemSolo, IsGroup
    <3> QED BY <3>1, <3>2, <3>3
  <2> QED BY <2>1 DEF SystemSolo
<1>16. MembersMatchContext'
  <2>1. ASSUME NEW x \in GroupIds, IsGroup(x)', NEW e \in groups'[x].member_experiment_ids
        PROVE  contains(Context[e], groups'[x].context)
    <3>1. CASE x = g
      BY <1>1, <1>3, <1>8, <2>1, <3>1 DEF IndInv, MembersMatchContext
    <3>2. CASE \E f \in leaving : newId[f] = x
      BY <1>6, <2>1, <3>2 DEF contains
    <3>3. CASE x # g /\ \A f \in leaving : newId[f] # x
      BY <1>9, <2>1, <3>3 DEF IndInv, MembersMatchContext, IsGroup
    <3> QED BY <3>1, <3>2, <3>3
  <2> QED BY <2>1 DEF MembersMatchContext
<1> QED BY <1>13, <1>14, <1>15, <1>16 DEF IndInv

\* Every running experiment without a group gets one.
LEMMA BackfillIndInv ==
  ASSUME IndInv, NEW newId \in [ExpIds -> GroupIds], Backfill(newId)
  PROVE  IndInv'
<1>1. PICK U \in SUBSET ExpIds : U = Ungrouped
  BY DEF Ungrouped
<1>2. /\ \A e \in U : InDb(e) /\ experiments[e].experiment_group_id = None
      /\ \A e \in U : groups[newId[e]] = None
      /\ \A e \in U : CanCreateSystemGroup(e, experiments[e].traffic_percentage)
      /\ Injective(newId, U)
      /\ groups' = WithSystemGroups(groups, U, newId)
      /\ experiments' = [e \in ExpIds |->
           IF e \in U THEN [experiments[e] EXCEPT !.experiment_group_id = newId[e]]
                      ELSE experiments[e]]
  BY <1>1 DEF Backfill, Ungrouped, FreshGroupIds
<1>3. /\ groups' \in [GroupIds -> ExperimentGroup \cup {None, Deleted}]
      /\ \A e \in U : /\ groups'[newId[e]] \in ExperimentGroup
                      /\ groups'[newId[e]].member_experiment_ids = {e}
                      /\ groups'[newId[e]].context = Context[e]
      /\ \A x \in GroupIds : (\A e \in U : newId[e] # x) => groups'[x] = groups[x]
  <2>1. groups \in [GroupIds -> ExperimentGroup \cup {None, Deleted}]
    BY DEF IndInv, TypeOK
  <2>2. groups' = WithSystemGroups(groups, U, newId) /\ Injective(newId, U)
    BY <1>2
  <2>3. \A e \in U : CanCreateSystemGroup(e, experiments[e].traffic_percentage)
    BY <1>2
  <2>4. SystemGroupsAdded(groups', groups, U, newId)
    BY <2>1, <2>2, <2>3, WithSystemGroupsFacts
  <2> QED BY <2>4 DEF SystemGroupsAdded
<1>4. \A e \in U : experiments[e] \in Experiment
  BY <1>2 DEF IndInv, TypeOK, InDb
<1>5. \A e \in U : /\ experiments'[e] \in Experiment
                   /\ experiments'[e].experiment_group_id = newId[e]
  BY <1>2, <1>4 DEF Experiment
<1>6. \A e \in ExpIds \ U : experiments'[e] = experiments[e]
  BY <1>2
<1>7. TypeOK'
  BY <1>2, <1>3, <1>5, <1>6 DEF IndInv, TypeOK
<1>8. MembershipConsistent'
  <2>1. \A f \in ExpIds : GroupOf(f)' = IF f \in U THEN newId[f] ELSE GroupOf(f)
    BY <1>5, <1>6, SentinelAssumption DEF GroupOf, InDb
  <2>2. \A e \in U : Members(newId[e])' = {e} /\ Members(newId[e]) = {}
    BY <1>2, <1>3, SentinelAssumption DEF Members, IsGroup
  <2>3. \A x \in GroupIds : (\A e \in U : newId[e] # x) => Members(x)' = Members(x)
    BY <1>3 DEF Members, IsGroup
  <2>4. \A e \in U : GroupOf(e) = None
    BY <1>2 DEF GroupOf
  <2>5. ASSUME NEW f \in ExpIds, NEW x \in GroupIds
        PROVE  GroupOf(f)' = x <=> f \in Members(x)'
    <3>1. GroupOf(f) = x <=> f \in Members(x)
      BY MembershipForm DEF IndInv
    <3>2. CASE \E e \in U : newId[e] = x
      <4>1. PICK e \in U : newId[e] = x
        BY <3>2
      <4>2. Members(x)' = {e} /\ Members(x) = {}
        BY <2>2, <4>1
      <4>3. f \in U /\ newId[f] = x => f = e
        BY <1>2, <4>1 DEF Injective
      <4> QED BY <2>1, <3>1, <4>1, <4>2, <4>3
    <3>3. CASE \A e \in U : newId[e] # x
      BY <2>1, <2>3, <2>4, <3>1, <3>3, SentinelAssumption
    <3> QED BY <3>2, <3>3
  <2> QED BY <2>5, MembershipFormPrime
<1>9. SystemSolo'
  <2>1. ASSUME NEW x \in GroupIds, IsGroup(x)', groups'[x].group_type = "SYSTEM_GENERATED"
        PROVE  \E e \in ExpIds : groups'[x].member_experiment_ids = {e}
    <3>1. CASE \E e \in U : newId[e] = x
      BY <1>3, <3>1
    <3>2. CASE \A e \in U : newId[e] # x
      BY <1>3, <2>1, <3>2 DEF IndInv, SystemSolo, IsGroup
    <3> QED BY <3>1, <3>2
  <2> QED BY <2>1 DEF SystemSolo
<1>10. MembersMatchContext'
  <2>1. ASSUME NEW x \in GroupIds, IsGroup(x)', NEW e \in groups'[x].member_experiment_ids
        PROVE  contains(Context[e], groups'[x].context)
    <3>1. CASE \E f \in U : newId[f] = x
      BY <1>3, <2>1, <3>1 DEF contains
    <3>2. CASE \A f \in U : newId[f] # x
      BY <1>3, <2>1, <3>2 DEF IndInv, MembersMatchContext, IsGroup
    <3> QED BY <3>1, <3>2
  <2> QED BY <2>1 DEF MembersMatchContext
<1> QED BY <1>7, <1>8, <1>9, <1>10 DEF IndInv

-----------------------------------------------------------------------------
(* The theorems *)

\* Every request leaves both tables as the inductive invariant says.
LEMMA NextIndInv == IndInv /\ [Next]_vars => IndInv'
<1> SUFFICES ASSUME IndInv, [Next]_vars PROVE IndInv'
  OBVIOUS
<1>1. CASE NextExperiment
  <2>1. PICK e \in ExpIds :
          \/ \E g \in GroupIds \cup {None} : Create(e, g)
          \/ \E t \in TrafficPercentage : Ramp(e, t)
          \/ \E i \in 1 .. Variants[e] : Conclude(e, i)
          \/ Discard(e)
          \/ Pause(e)
          \/ Resume(e)
          \/ \E g \in GroupIds \cup {None} : Move(e, g)
    BY <1>1 DEF NextExperiment
  <2>2. CASE \E g \in GroupIds \cup {None} : Create(e, g)
    BY <2>2, CreateIndInv
  <2>3. CASE \E t \in TrafficPercentage : Ramp(e, t)
    BY <2>3, RampIndInv
  <2>4. CASE \E i \in 1 .. Variants[e] : Conclude(e, i)
    <3>1. PICK i \in 1 .. Variants[e] : Conclude(e, i)
      BY <2>4
    <3>2. i \in Nat /\ "CONCLUDED" \in Statuses
      BY VariantsAssumption DEF Statuses
    <3> QED BY <3>1, <3>2, TerminationIndInv DEF Conclude
  <2>5. CASE Discard(e)
    <3>1. "DISCARDED" \in Statuses
      BY DEF Statuses
    <3> QED BY <2>5, <3>1, TerminationIndInv DEF Discard
  <2>6. CASE Pause(e) \/ Resume(e)
    <3>1. {"PAUSED", "INPROGRESS"} \subseteq Statuses
      BY DEF Statuses
    <3> QED BY <2>6, <3>1, StatusIndInv DEF Pause, Resume
  <2>7. CASE \E g \in GroupIds \cup {None} : Move(e, g)
    BY <2>7, MoveIndInv
  <2> QED BY <2>1, <2>2, <2>3, <2>4, <2>5, <2>6, <2>7
<1>2. CASE NextGroup
  <2>1. CASE \E newId \in [ExpIds -> GroupIds] : Backfill(newId)
    BY <2>1, BackfillIndInv
  <2>2. ASSUME NEW g \in GroupIds,
               \/ \E c \in GroupContexts, t \in GroupTraffics, m \in SUBSET ExpIds : CreateGroup(g, c, t, m)
               \/ \E t \in GroupTraffics : UpdateGroup(g, t)
               \/ \E m \in SUBSET ExpIds : AddMembers(g, m)
               \/ \E m \in SUBSET ExpIds, newId \in [ExpIds -> GroupIds] : RemoveMembers(g, m, newId)
               \/ DeleteGroup(g)
        PROVE  IndInv'
    BY <2>2, CreateGroupIndInv, UpdateGroupIndInv, AddMembersIndInv, RemoveMembersIndInv, DeleteGroupIndInv
  <2> QED BY <1>2, <2>1, <2>2 DEF NextGroup
<1>3. CASE UNCHANGED vars
  BY <1>3 DEF vars, IndInv, TypeOK, MembershipConsistent, SystemSolo, MembersMatchContext, InDb, IsGroup
<1> QED BY <1>1, <1>2, <1>3 DEF Next

\* The rows of both tables keep their types, for any number of buckets,
\* experiments, variants and groups.
THEOREM TypeCorrect == Spec => []TypeOK
<1>1. Init => IndInv
  BY InitIndInv
<1>2. IndInv /\ [Next]_vars => IndInv'
  BY NextIndInv
<1>3. IndInv => TypeOK
  BY DEF IndInv
<1> QED BY <1>1, <1>2, <1>3, PTL DEF Spec

\* An experiment's group id and the groups' member lists always agree: what
\* create, ramp, conclude, discard, update and the group handlers write with
\* separate statements never diverges when requests do not interleave.
THEOREM MembershipCorrect == Spec => []MembershipConsistent
<1>1. Init => IndInv
  BY InitIndInv
<1>2. IndInv /\ [Next]_vars => IndInv'
  BY NextIndInv
<1>3. IndInv => MembershipConsistent
  BY DEF IndInv
<1> QED BY <1>1, <1>2, <1>3, PTL DEF Spec

\* A member's context contains its group's context after any history of
\* creations, additions, moves, removals, ramps and backfills.
THEOREM MembersMatchContextCorrect == Spec => []MembersMatchContext
<1>1. Init => IndInv
  BY InitIndInv
<1>2. IndInv /\ [Next]_vars => IndInv'
  BY NextIndInv
<1>3. IndInv => MembersMatchContext
  BY DEF IndInv
<1> QED BY <1>1, <1>2, <1>3, PTL DEF Spec

(***************************************************************************)
(* How many buckets the variants of an experiment have, for every number   *)
(* of buckets, experiments, variants and groups: update_bucket_allocation  *)
(* counts empty buckets from the front and a variant's buckets from the    *)
(* back, and these proofs count along.                                     *)
(***************************************************************************)
-----------------------------------------------------------------------------
(* Counting *)

\* Sets of bucket indices are finite sets of numbers.
LEMMA IndexSets ==
  ASSUME NEW S \in SUBSET BucketIndices
  PROVE  IsFiniteSet(S) /\ Cardinality(S) \in Nat /\ S \subseteq Int
<1>1. NumBuckets - 1 \in Int /\ BucketIndices \subseteq Int
  BY NumBucketsAssumption DEF BucketIndices
<1>2. IsFiniteSet(BucketIndices)
  BY <1>1, FS_Interval DEF BucketIndices
<1>3. QED
  BY <1>1, <1>2, FS_Subset, FS_CardinalityType

\* The part of S that f maps into lo .. hi - 1.
Slice(S, f, lo, hi) == {k \in S : lo <= f[k] /\ f[k] < hi}

\* A bijection onto 0 .. c - 1 maps hi - lo elements there.
LEMMA SliceCount ==
  ASSUME NEW S, IsFiniteSet(S), NEW c \in Nat, NEW f \in Bijection(S, 0 .. (c - 1)),
         NEW lo \in Nat, NEW hi \in Nat, lo <= hi, hi <= c
  PROVE  Cardinality(Slice(S, f, lo, hi)) = hi - lo
<1> DEFINE T == {k \in S : lo <= f[k] /\ f[k] < hi}
           h == [k \in T |-> f[k]]
<1>1. /\ f \in [S -> 0 .. (c - 1)]
      /\ \A j, k \in S : f[j] = f[k] => j = k
      /\ \A r \in 0 .. (c - 1) : \E k \in S : f[k] = r
  BY DEF Bijection, Injection, Surjection, IsInjective
<1>2. h \in [T -> lo .. (hi - 1)]
  BY <1>1
<1>3. \A j, k \in T : h[j] = h[k] => j = k
  BY <1>1
<1>4. \A r \in lo .. (hi - 1) : \E k \in T : h[k] = r
  BY <1>1
<1>5. h \in Bijection(T, lo .. (hi - 1))
  BY <1>2, <1>3, <1>4 DEF Bijection, Injection, Surjection, IsInjective
<1>6. IsFiniteSet(T)
  BY FS_Subset
<1>7. Cardinality(T) = Cardinality(lo .. (hi - 1))
  BY <1>5, <1>6, FS_Bijection DEF ExistsBijection
<1>8. Cardinality(lo .. (hi - 1)) = hi - lo
  <2>1. lo \in Int /\ hi - 1 \in Int
    OBVIOUS
  <2>2. Cardinality(lo .. (hi - 1)) = IF lo > hi - 1 THEN 0 ELSE (hi - 1) - lo + 1
    BY <2>1, FS_Interval
  <2>3. QED
    BY <2>2
<1>9. QED
  BY <1>7, <1>8 DEF Slice

\* An index is determined by the number of smaller ones in its set.
LEMMA RankBijection ==
  ASSUME NEW S \in SUBSET BucketIndices
  PROVE  [k \in S |-> Cardinality({j \in S : j < k})] \in Bijection(S, 0 .. (Cardinality(S) - 1))
<1> DEFINE below(k) == {j \in S : j < k}
           f == [k \in S |-> Cardinality(below(k))]
           R == 0 .. (Cardinality(S) - 1)
<1>1. IsFiniteSet(S) /\ Cardinality(S) \in Nat /\ S \subseteq Int
  BY IndexSets
<1>2. ASSUME NEW k \in S
      PROVE  IsFiniteSet(below(k)) /\ Cardinality(below(k)) \in R
  <2>1. IsFiniteSet(below(k)) /\ Cardinality(below(k)) \in Nat /\ Cardinality(below(k)) <= Cardinality(S)
    BY <1>1, FS_Subset, FS_CardinalityType
  <2>2. below(k) # S
    BY <1>1
  <2>3. Cardinality(below(k)) # Cardinality(S)
    BY <1>1, <2>2, FS_Subset
  <2>4. QED
    BY <1>1, <2>1, <2>3
<1>3. ASSUME NEW j \in S, NEW k \in S, j < k
      PROVE  f[j] # f[k]
  <2>0. j \in Int /\ k \in Int /\ \A x \in S : x \in Int
    BY <1>1
  <2>1. below(j) \in SUBSET below(k) /\ j \in below(k) /\ j \notin below(j)
    <3>1. ASSUME NEW x \in below(j)
          PROVE  x \in below(k)
      <4>1. x \in S /\ x < j
        OBVIOUS
      <4>2. x < k
        BY <1>3, <2>0, <4>1
      <4>3. QED
        BY <4>1, <4>2
    <3>2. j \in below(k) /\ j \notin below(j)
      BY <1>3, <2>0
    <3>3. QED
      BY <3>1, <3>2
  <2>2. Cardinality(below(j)) # Cardinality(below(k))
    BY <1>2, <2>1, FS_Subset
  <2>3. QED
    BY <2>2
<1>4. f \in Injection(S, R)
  <2>1. f \in [S -> R]
    BY <1>2
  <2>2. \A j, k \in S : f[j] = f[k] => j = k
    BY <1>1, <1>3
  <2>3. QED
    BY <2>1, <2>2 DEF Injection, IsInjective
<1>5. IsFiniteSet(R) /\ Cardinality(R) = Cardinality(S)
  BY <1>1, FS_Interval
<1>6. f \in Surjection(S, R)
  BY <1>4, <1>5, FS_Injection
<1>7. QED
  BY <1>4, <1>6 DEF Bijection

\* ... and by the number of larger ones.
LEMMA ReverseRankBijection ==
  ASSUME NEW S \in SUBSET BucketIndices
  PROVE  [k \in S |-> Cardinality({j \in S : j > k})] \in Bijection(S, 0 .. (Cardinality(S) - 1))
<1> DEFINE above(k) == {j \in S : j > k}
           f == [k \in S |-> Cardinality(above(k))]
           R == 0 .. (Cardinality(S) - 1)
<1>1. IsFiniteSet(S) /\ Cardinality(S) \in Nat /\ S \subseteq Int
  BY IndexSets
<1>2. ASSUME NEW k \in S
      PROVE  IsFiniteSet(above(k)) /\ Cardinality(above(k)) \in R
  <2>1. IsFiniteSet(above(k)) /\ Cardinality(above(k)) \in Nat /\ Cardinality(above(k)) <= Cardinality(S)
    BY <1>1, FS_Subset, FS_CardinalityType
  <2>2. above(k) # S
    BY <1>1
  <2>3. Cardinality(above(k)) # Cardinality(S)
    BY <1>1, <2>2, FS_Subset
  <2>4. QED
    BY <1>1, <2>1, <2>3
<1>3. ASSUME NEW j \in S, NEW k \in S, j > k
      PROVE  f[j] # f[k]
  <2>0. j \in Int /\ k \in Int /\ \A x \in S : x \in Int
    BY <1>1
  <2>1. above(j) \in SUBSET above(k) /\ j \in above(k) /\ j \notin above(j)
    <3>1. ASSUME NEW x \in above(j)
          PROVE  x \in above(k)
      <4>1. x \in S /\ x > j
        OBVIOUS
      <4>2. x > k
        BY <1>3, <2>0, <4>1
      <4>3. QED
        BY <4>1, <4>2
    <3>2. j \in above(k) /\ j \notin above(j)
      BY <1>3, <2>0
    <3>3. QED
      BY <3>1, <3>2
  <2>2. Cardinality(above(j)) # Cardinality(above(k))
    BY <1>2, <2>1, FS_Subset
  <2>3. QED
    BY <2>2
<1>4. f \in Injection(S, R)
  <2>1. f \in [S -> R]
    BY <1>2
  <2>2. \A j, k \in S : f[j] = f[k] => j = k
    BY <1>1, <1>3
  <2>3. QED
    BY <2>1, <2>2 DEF Injection, IsInjective
<1>5. IsFiniteSet(R) /\ Cardinality(R) = Cardinality(S)
  BY <1>1, FS_Interval
<1>6. f \in Surjection(S, R)
  BY <1>4, <1>5, FS_Injection
<1>7. QED
  BY <1>4, <1>6 DEF Bijection

\* Arithmetic of the allocation: the division has no remainder, and the shares of
\* different variants do not overlap.
LEMMA ExactDivision ==
  ASSUME NEW n \in Nat \ {0}, NEW d \in Int
  PROVE  (d * n) \div n = d
  OBVIOUS

LEMMA ShareBounds ==
  ASSUME NEW n \in Nat, NEW p \in Nat, NEW i \in 1 .. n
  PROVE  /\ (i - 1) * p \in Nat /\ i * p \in Nat /\ i * p = (i - 1) * p + p
         /\ i * p <= n * p
         /\ \A j \in 1 .. n : j < i => j * p <= (i - 1) * p
<1>1. \A a, b \in Nat : a * b \in Nat
  OBVIOUS
<1>2. ASSUME NEW a \in Nat, NEW b \in Nat, a <= b
      PROVE  a * p <= b * p
  <2>1. (b - a) * p \in Nat
    BY <1>1, <1>2
  <2>2. b * p = a * p + (b - a) * p
    OBVIOUS
  <2>3. QED
    BY <1>1, <2>1, <2>2
<1>3. i - 1 \in Nat /\ i \in Nat
  OBVIOUS
<1>4. i * p = (i - 1) * p + p
  BY <1>3
<1>5. QED
  BY <1>1, <1>2, <1>3, <1>4

-----------------------------------------------------------------------------
(* Giving and taking buckets *)

\* Every variant of e has c buckets.
Share(b, e, c) == \A i \in 1 .. Variants[e] : Cardinality(VariantBuckets(b, e, i)) = c

\* Then all the variants together have n * c.
LEMMA ExperimentCount ==
  ASSUME NEW b, NEW e \in ExpIds, NEW c \in Nat, Share(b, e, c)
  PROVE  Cardinality(ExperimentBuckets(b, e, Variants[e])) = Variants[e] * c
<1> DEFINE n == Variants[e]
           V(i) == VariantBuckets(b, e, i)
           E == ExperimentBuckets(b, e, n)
           F(i) == CHOOSE f : f \in Bijection(1 .. c, V(i))
           P == (1 .. n) \X (1 .. c)
           g == [x \in P |-> F(x[1])[x[2]]]
<1>1. n \in Nat /\ \A i \in 1 .. n : V(i) \in SUBSET BucketIndices /\ Cardinality(V(i)) = c
  BY VariantsAssumption DEF VariantBuckets, Share
<1>2. E \in SUBSET BucketIndices /\ \A k \in BucketIndices : k \in E <=> \E i \in 1 .. n : k \in V(i)
  BY DEF ExperimentBuckets, VariantBuckets
<1>3. \A i, j \in 1 .. n : \A k : k \in V(i) /\ k \in V(j) => i = j
  BY DEF VariantBuckets
<1> HIDE DEF V, E, n
<1>4. ASSUME NEW i \in 1 .. n
      PROVE  F(i) \in Bijection(1 .. c, V(i))
  <2>1. IsFiniteSet(V(i)) /\ Cardinality(V(i)) = c
    BY <1>1, IndexSets
  <2>2. ExistsBijection(1 .. c, V(i))
    BY <2>1, FS_CardinalityType
  <2>3. QED
    BY <2>2 DEF ExistsBijection
<1> HIDE DEF F
<1>5. ASSUME NEW i \in 1 .. n
      PROVE  /\ \A j \in 1 .. c : F(i)[j] \in V(i)
             /\ \A j, l \in 1 .. c : F(i)[j] = F(i)[l] => j = l
             /\ \A k \in V(i) : \E j \in 1 .. c : F(i)[j] = k
  BY <1>4 DEF Bijection, Injection, Surjection, IsInjective
<1>6. \A x \in P : x[1] \in 1 .. n /\ x[2] \in 1 .. c /\ g[x] = F(x[1])[x[2]] /\ g[x] \in V(x[1])
  BY <1>5
<1>7. g \in [P -> E]
  <2>1. \A x \in P : g[x] \in E
    BY <1>1, <1>2, <1>6
  <2>2. QED
    BY <2>1
<1>8. ASSUME NEW x \in P, NEW y \in P, g[x] = g[y]
      PROVE  x = y
  <2>1. x[1] = y[1]
    BY <1>3, <1>6, <1>8
  <2>2. x[2] = y[2]
    BY <1>5, <1>6, <1>8, <2>1
  <2>3. QED
    BY <2>1, <2>2
<1>9. ASSUME NEW k \in E
      PROVE  \E x \in P : g[x] = k
  <2>1. PICK i \in 1 .. n : k \in V(i)
    BY <1>2
  <2>2. PICK j \in 1 .. c : F(i)[j] = k
    BY <1>5, <2>1
  <2>3. <<i, j>> \in P /\ g[<<i, j>>] = k
    BY <2>2
  <2>4. QED
    BY <2>3
<1>10. g \in Bijection(P, E)
  BY <1>7, <1>8, <1>9 DEF Bijection, Injection, Surjection, IsInjective
<1>11. /\ IsFiniteSet(1 .. n) /\ Cardinality(1 .. n) = n
       /\ IsFiniteSet(1 .. c) /\ Cardinality(1 .. c) = c
  <2>1. ASSUME NEW m \in Nat
        PROVE  IsFiniteSet(1 .. m) /\ Cardinality(1 .. m) = m
    <3>1. 1 \in Int /\ m \in Int
      OBVIOUS
    <3>2. IsFiniteSet(1 .. m) /\ Cardinality(1 .. m) = IF 1 > m THEN 0 ELSE m - 1 + 1
      BY <3>1, FS_Interval, Zenon
    <3>3. QED
      BY <3>2
  <2>2. QED
    BY <1>1, <2>1
<1>12. IsFiniteSet(P) /\ Cardinality(P) = n * c
  <2>1. IsFiniteSet(P) /\ Cardinality(P) = Cardinality(1 .. n) * Cardinality(1 .. c)
    BY <1>11, FS_Product, Zenon
  <2>2. QED
    BY <1>11, <2>1, Zenon
<1>13. Cardinality(E) = n * c
  BY <1>10, <1>12, FS_Bijection DEF ExistsBijection
<1>14. QED
  BY <1>13 DEF E, n

\* A variant of an experiment is not the empty bucket.
LEMMA VariantIsABucket ==
  ASSUME NEW e \in ExpIds, NEW i \in 1 .. Variants[e]
  PROVE  <<e, i>> \in VariantIds /\ <<e, i>> # NoBucket
<1>1. <<e, i>> \in VariantIds
  BY DEF VariantIds
<1>2. QED
  BY <1>1, SentinelAssumption

\* The number of empty buckets before bucket k.
EmptyRank(b, k) == Cardinality({j \in Unassigned(b) : j < k})

\* a is b with p more buckets for every variant of e: the i-th variant has the i-th
\* run of p empty ones.
Dealt(a, b, e, p) ==
  /\ \A k \in BucketIndices : b[k] # NoBucket => a[k] = b[k]
  /\ \A k \in Unassigned(b) : a[k] = NoBucket \/ \E i \in 1 .. Variants[e] : a[k] = <<e, i>>
  /\ \A k \in Unassigned(b), i \in 1 .. Variants[e] :
       a[k] = <<e, i>> <=> (i - 1) * p <= EmptyRank(b, k) /\ EmptyRank(b, k) < i * p

\* This is what assign_additional_buckets does.
LEMMA AssignEffect ==
  ASSUME NEW b \in BucketsType, NEW e \in ExpIds, NEW d, NEW p \in Nat, d \div Variants[e] = p
  PROVE  Dealt(assign_additional_buckets(b, e, Variants[e], d), b, e, p)
<1> DEFINE n == Variants[e]
           a == assign_additional_buckets(b, e, n, d)
           takes(k, i) == /\ b[k] = NoBucket
                          /\ (i - 1) * p <= EmptyRank(b, k)
                          /\ EmptyRank(b, k) < i * p
<1>1. a = [k \in BucketIndices |->
             IF \E i \in 1 .. n : takes(k, i) THEN <<e, CHOOSE i \in 1 .. n : takes(k, i)>> ELSE b[k]]
  BY DEF assign_additional_buckets, EmptyRank
<1>2. \A k \in BucketIndices, i \in 1 .. n : takes(k, i) => k \in Unassigned(b)
  BY DEF Unassigned
<1>3. \A k \in Unassigned(b) : k \in BucketIndices /\ b[k] = NoBucket
  BY DEF Unassigned
<1>4. \A k \in Unassigned(b) : EmptyRank(b, k) \in Nat
  BY IndexSets DEF EmptyRank, Unassigned
<1>5. ASSUME NEW k \in Unassigned(b), NEW i \in 1 .. n, NEW j \in 1 .. n, takes(k, i), takes(k, j)
      PROVE  i = j
  <2>1. ASSUME NEW x \in 1 .. n, NEW y \in 1 .. n, takes(k, x), takes(k, y), x < y
        PROVE  FALSE
    <3>1. x * p <= (y - 1) * p /\ x * p \in Nat /\ (y - 1) * p \in Nat
      BY <2>1, ShareBounds, VariantsAssumption
    <3>2. EmptyRank(b, k) < x * p /\ (y - 1) * p <= EmptyRank(b, k) /\ EmptyRank(b, k) \in Nat
      BY <1>4, <2>1
    <3>3. QED
      BY <3>1, <3>2
  <2>2. ~(i < j) /\ ~(j < i)
    BY <1>5, <2>1
  <2>3. QED
    BY <2>2, VariantsAssumption
<1>6. \A k \in Unassigned(b), i \in 1 .. n :
        takes(k, i) <=> (i - 1) * p <= EmptyRank(b, k) /\ EmptyRank(b, k) < i * p
  BY <1>3
<1> HIDE DEF takes, a, n
<1>7. ASSUME NEW k \in Unassigned(b), NEW i \in 1 .. n, takes(k, i)
      PROVE  a[k] = <<e, i>>
  <2>1. (CHOOSE j \in 1 .. n : takes(k, j)) \in 1 .. n /\ takes(k, CHOOSE j \in 1 .. n : takes(k, j))
    BY <1>7
  <2>2. (CHOOSE j \in 1 .. n : takes(k, j)) = i
    BY <1>5, <1>7, <2>1
  <2>3. a[k] = <<e, CHOOSE j \in 1 .. n : takes(k, j)>>
    BY <1>1, <1>3, <1>7
  <2>4. QED
    BY <2>2, <2>3
<1>8. ASSUME NEW k \in Unassigned(b), \A i \in 1 .. n : ~takes(k, i)
      PROVE  a[k] = NoBucket
  BY <1>1, <1>3, <1>8
<1>9. \A i \in 1 .. n : <<e, i>> # NoBucket
  BY VariantIsABucket DEF n
<1>10. \A k \in Unassigned(b), i \in 1 .. n : a[k] = <<e, i>> <=> takes(k, i)
  <2>1. ASSUME NEW k \in Unassigned(b), NEW i \in 1 .. n, a[k] = <<e, i>>
        PROVE  takes(k, i)
    <3>1. PICK j \in 1 .. n : takes(k, j)
      BY <1>8, <1>9, <2>1
    <3>2. <<e, j>> = <<e, i>>
      BY <1>7, <2>1, <3>1
    <3>3. QED
      BY <3>1, <3>2
  <2>2. QED
    BY <1>7, <2>1
<1>11. \A k \in BucketIndices : b[k] # NoBucket => a[k] = b[k]
  <2>1. \A k \in BucketIndices, i \in 1 .. n : takes(k, i) => b[k] = NoBucket
    BY <1>2, <1>3
  <2>2. QED
    BY <1>1, <2>1
<1>12. \A k \in Unassigned(b) : a[k] = NoBucket \/ \E i \in 1 .. n : a[k] = <<e, i>>
  BY <1>7, <1>8
<1>13. QED
  BY <1>6, <1>10, <1>11, <1>12 DEF a, n, Dealt

\* ... so that every variant has p more buckets, if there were enough.
LEMMA AssignCount ==
  ASSUME NEW b \in BucketsType, NEW e \in ExpIds, NEW d, NEW p \in Nat, d \div Variants[e] = p,
         NEW c \in Nat, Share(b, e, c), Variants[e] * p <= Cardinality(Unassigned(b))
  PROVE  Share(assign_additional_buckets(b, e, Variants[e], d), e, c + p)
<1> DEFINE n == Variants[e]
           a == assign_additional_buckets(b, e, n, d)
           U == Unassigned(b)
           f == [k \in U |-> Cardinality({j \in U : j < k})]
<1>1. U \in SUBSET BucketIndices
  BY DEF Unassigned
<1>2. IsFiniteSet(U) /\ Cardinality(U) \in Nat /\ f \in Bijection(U, 0 .. (Cardinality(U) - 1))
  BY <1>1, IndexSets, RankBijection
<1>3. \A k \in U : f[k] = EmptyRank(b, k)
  BY DEF EmptyRank
<1>4. /\ \A k \in BucketIndices : b[k] # NoBucket => a[k] = b[k]
      /\ \A k \in U, i \in 1 .. n :
           a[k] = <<e, i>> <=> (i - 1) * p <= EmptyRank(b, k) /\ EmptyRank(b, k) < i * p
  <2>1. Dealt(a, b, e, p)
    BY AssignEffect
  <2>2. QED
    BY <2>1 DEF Dealt
<1>5. n \in Nat /\ \A k \in BucketIndices : k \in U <=> b[k] = NoBucket
  BY VariantsAssumption DEF Unassigned
<1> HIDE DEF a, U, f
<1>6. SUFFICES ASSUME NEW i \in 1 .. n
               PROVE  Cardinality(VariantBuckets(a, e, i)) = c + p
  BY DEF Share, a
<1>0. PICK lo \in Nat, hi \in Nat : lo = (i - 1) * p /\ hi = i * p /\ hi = lo + p /\ hi <= n * p
  BY <1>5, ShareBounds
<1> DEFINE V == VariantBuckets(b, e, i)
           T == Slice(U, f, lo, hi)
<1>7. Cardinality(T) = p
  <2>1. lo <= hi /\ hi <= Cardinality(U)
    BY <1>0, <1>2, <1>5 DEF U
  <2>2. PICK m \in Nat : m = Cardinality(U)
    BY <1>2
  <2>3. f \in Bijection(U, 0 .. (m - 1)) /\ hi <= m /\ lo <= hi /\ IsFiniteSet(U)
    BY <1>2, <2>1, <2>2
  <2>4. Cardinality(T) = hi - lo
    BY <2>3, SliceCount
  <2>5. QED
    BY <1>0, <2>4
<1>8. <<e, i>> # NoBucket
  BY VariantIsABucket
<1>9. VariantBuckets(a, e, i) = V \cup T /\ V \cap T = {}
  <2>1. \A k \in BucketIndices : a[k] = <<e, i>> <=> b[k] = <<e, i>> \/ k \in T
    <3>1. ASSUME NEW k \in BucketIndices, b[k] # NoBucket
          PROVE  a[k] = <<e, i>> <=> b[k] = <<e, i>> \/ k \in T
      BY <1>4, <1>5, <3>1 DEF Slice
    <3>2. ASSUME NEW k \in U
          PROVE  a[k] = <<e, i>> <=> k \in T
      <4>1. a[k] = <<e, i>> <=> lo <= EmptyRank(b, k) /\ EmptyRank(b, k) < hi
        BY <1>0, <1>4
      <4>2. QED
        BY <1>3, <4>1 DEF Slice
    <3>3. ASSUME NEW k \in BucketIndices, b[k] = NoBucket
          PROVE  a[k] = <<e, i>> <=> b[k] = <<e, i>> \/ k \in T
      <4>1. k \in U /\ b[k] # <<e, i>>
        BY <1>5, <1>8, <3>3
      <4>2. QED
        BY <3>2, <4>1
    <3>4. QED
      BY <3>1, <3>3
  <2>2. \A k \in T : k \in BucketIndices /\ b[k] # <<e, i>>
    BY <1>1, <1>5, <1>8 DEF U, Slice
  <2>3. QED
    BY <2>1, <2>2 DEF VariantBuckets
<1>10. V \in SUBSET BucketIndices /\ T \in SUBSET BucketIndices /\ Cardinality(V) = c
  BY <1>1 DEF VariantBuckets, Share, U, Slice
<1> HIDE DEF V, T
<1>11. IsFiniteSet(V) /\ IsFiniteSet(T)
  BY <1>10, IndexSets
<1>12. Cardinality(V \cup T) = Cardinality(V) + Cardinality(T) - Cardinality({})
  BY <1>9, <1>11, FS_Union
<1>13. QED
  BY <1>7, <1>9, <1>10, <1>12, FS_EmptySet

\* unassign_excess_buckets only empties buckets of e's variants, p of each.
LEMMA UnassignCount ==
  ASSUME NEW b \in BucketsType, NEW e \in ExpIds, NEW d, NEW p \in Nat, d \div Variants[e] = p,
         NEW c \in Nat, Share(b, e, c), p <= c
  PROVE  LET a == unassign_excess_buckets(b, e, Variants[e], d)
         IN  /\ Share(a, e, c - p)
             /\ \A k \in BucketIndices :
                  a[k] = b[k] \/ (a[k] = NoBucket /\ \E i \in 1 .. Variants[e] : b[k] = <<e, i>>)
<1> DEFINE n == Variants[e]
           a == unassign_excess_buckets(b, e, n, d)
           V(i) == VariantBuckets(b, e, i)
           freed(k) == \E i \in 1 .. n : b[k] = <<e, i>> /\ Cardinality({j \in V(i) : j > k}) < p
<1>1. a = [k \in BucketIndices |-> IF freed(k) THEN NoBucket ELSE b[k]]
  BY DEF unassign_excess_buckets
<1>2. \A k \in BucketIndices :
        a[k] = b[k] \/ (a[k] = NoBucket /\ \E i \in 1 .. n : b[k] = <<e, i>>)
  BY <1>1
<1>3. ASSUME NEW i \in 1 .. n
      PROVE  Cardinality(VariantBuckets(a, e, i)) = c - p
  <2> DEFINE f == [k \in V(i) |-> Cardinality({j \in V(i) : j > k})]
             T == Slice(V(i), f, 0, p)
  <2>1. V(i) \in SUBSET BucketIndices /\ Cardinality(V(i)) = c
    BY DEF VariantBuckets, Share
  <2>2. IsFiniteSet(V(i)) /\ f \in Bijection(V(i), 0 .. (c - 1))
    BY <2>1, IndexSets, ReverseRankBijection
  <2>3. Cardinality(T) = p
    <3> HIDE DEF V, f
    <3>1. Cardinality(T) = p - 0
      BY <2>2, SliceCount
    <3>2. QED
      BY <3>1
  <2>4. \A k \in V(i) : f[k] \in Nat
    BY <2>2 DEF Bijection, Injection
  <2>5. \A k \in V(i) : freed(k) <=> k \in T
    <3>1. SUFFICES ASSUME NEW k \in V(i)
                   PROVE  freed(k) <=> k \in T
      OBVIOUS
    <3>2. b[k] = <<e, i>> /\ \A j \in 1 .. n : b[k] = <<e, j>> => j = i
      BY DEF VariantBuckets
    <3>3. freed(k) <=> Cardinality({j \in V(i) : j > k}) < p
      BY <3>2
    <3>4. f[k] = Cardinality({j \in V(i) : j > k}) /\ 0 <= f[k]
      BY <2>4
    <3> HIDE DEF f, freed, V
    <3>5. QED
      BY <3>1, <3>3, <3>4 DEF Slice
  <2>6. <<e, i>> # NoBucket
    BY VariantIsABucket
  <2>7. \A k \in BucketIndices : k \in V(i) <=> b[k] = <<e, i>>
    BY DEF VariantBuckets
  <2>8. VariantBuckets(a, e, i) = V(i) \ T
    <3> HIDE DEF freed, V, T
    <3>1. \A k \in BucketIndices : a[k] = <<e, i>> <=> k \in V(i) /\ k \notin T
      BY <1>1, <2>5, <2>6, <2>7
    <3>2. QED
      BY <2>1, <3>1 DEF VariantBuckets
  <2>9. Cardinality(V(i) \ T) = Cardinality(V(i)) - Cardinality(V(i) \cap T)
    BY <2>2, FS_Difference
  <2>10. V(i) \cap T = T
    BY DEF Slice
  <2>11. QED
    BY <2>1, <2>3, <2>8, <2>9, <2>10
<1>4. QED
  BY <1>2, <1>3 DEF Share

\* What update_bucket_allocation(b, e, t) makes of b, every variant of e having c
\* buckets in b.
Allocated(a, b, e, c, t) ==
  /\ Share(a, e, t)
  /\ \A f \in ExpIds \ {e} : \A i \in 1 .. Variants[f] : VariantBuckets(a, f, i) = VariantBuckets(b, f, i)
  /\ \A k \in BucketIndices : b[k] # NoBucket => a[k] \in {b[k], NoBucket}
  /\ t >= c => \A k \in BucketIndices : b[k] # NoBucket => a[k] = b[k]

\* Every variant has t buckets afterwards, the buckets of other experiments are
\* untouched, none changes hands, and none is lost unless t is less than before.
LEMMA AllocationCount ==
  ASSUME NEW b \in BucketsType, NEW e \in ExpIds, NEW c \in Nat, NEW t \in Nat, Share(b, e, c),
         EnoughBuckets(b, e, Variants[e], t)
  PROVE  Allocated(update_bucket_allocation(b, e, Variants[e], t), b, e, c, t)
<1> DEFINE n == Variants[e]
           a == update_bucket_allocation(b, e, n, t)
           current == Cardinality(ExperimentBuckets(b, e, n))
<1>1. n \in Nat \ {0} /\ current = n * c
  BY ExperimentCount, VariantsAssumption
<1>2. \A f \in ExpIds : \A i \in 1 .. Variants[f] : <<f, i>> # NoBucket
  BY VariantIsABucket
<1>3. CASE t > c
  <2>1. PICK p \in Nat : p = t - c
    BY <1>3
  <2>2. t * n - current = p * n /\ p * n = n * p /\ n * p > 0
    BY <1>1, <1>3, <2>1
  <2>3. t * n > current
    BY <1>1, <2>2
  <2>4. a = assign_additional_buckets(b, e, n, p * n)
    BY <1>1, <2>2, <2>3 DEF update_bucket_allocation
  <2>5. (p * n) \div n = p
    BY <1>1, ExactDivision
  <2>6. Dealt(a, b, e, p)
    BY <2>4, <2>5, AssignEffect
  <2>7. n * p <= Cardinality(Unassigned(b))
    BY <2>2 DEF EnoughBuckets
  <2>8. Share(a, e, t)
    <3>1. Share(a, e, c + p)
      BY <2>4, <2>5, <2>7, AssignCount
    <3>2. c + p = t
      BY <2>1
    <3>3. QED
      BY <3>1, <3>2
  <2> HIDE DEF a
  <2>9. ASSUME NEW f \in ExpIds \ {e}, NEW i \in 1 .. Variants[f]
        PROVE  VariantBuckets(a, f, i) = VariantBuckets(b, f, i)
    <3>1. \A k \in BucketIndices : a[k] = <<f, i>> <=> b[k] = <<f, i>>
      <4>1. ASSUME NEW k \in BucketIndices, b[k] = NoBucket
            PROVE  a[k] # <<f, i>> /\ b[k] # <<f, i>>
        <5>1. k \in Unassigned(b)
          BY <4>1 DEF Unassigned
        <5>2. QED
          BY <1>2, <2>6, <4>1, <5>1 DEF Dealt
      <4>2. QED
        BY <2>6, <4>1 DEF Dealt
    <3>2. QED
      BY <3>1 DEF VariantBuckets
  <2>10. QED
    BY <2>6, <2>8, <2>9 DEF Allocated, Dealt, a
<1>4. CASE t < c
  <2>1. PICK p \in Nat : p = c - t
    BY <1>4
  <2>2. current - t * n = p * n /\ p * n > 0
    BY <1>1, <1>4, <2>1
  <2>3. t * n < current
    BY <1>1, <2>2
  <2>4. a = unassign_excess_buckets(b, e, n, p * n)
    BY <1>1, <2>2, <2>3 DEF update_bucket_allocation
  <2>5. (p * n) \div n = p /\ p <= c /\ c - p = t
    BY <1>1, <1>4, <2>1, ExactDivision
  <2>6. /\ Share(a, e, c - p)
        /\ \A k \in BucketIndices :
             a[k] = b[k] \/ (a[k] = NoBucket /\ \E i \in 1 .. n : b[k] = <<e, i>>)
    BY <2>4, <2>5, UnassignCount
  <2> HIDE DEF a
  <2>7. ASSUME NEW f \in ExpIds \ {e}, NEW i \in 1 .. Variants[f]
        PROVE  VariantBuckets(a, f, i) = VariantBuckets(b, f, i)
    <3>0. <<f, i>> # NoBucket /\ \A j : <<e, j>> # <<f, i>>
      BY <1>2
    <3>1. \A k \in BucketIndices : a[k] = <<f, i>> <=> b[k] = <<f, i>>
      BY <2>6, <3>0
    <3>2. QED
      BY <3>1 DEF VariantBuckets
  <2>8. QED
    BY <1>4, <2>5, <2>6, <2>7 DEF Allocated, a
<1>5. CASE t = c
  <2>1. t * n = current
    BY <1>1, <1>5
  <2>2. a = b
    BY <1>1, <2>1 DEF update_bucket_allocation
  <2>3. QED
    BY <1>5, <2>2 DEF Allocated
<1>6. QED
  BY <1>3, <1>4, <1>5

\* release_buckets takes all the buckets of the experiments of S and no others.
LEMMA ReleaseEffect ==
  ASSUME NEW b \in BucketsType, NEW S \in SUBSET ExpIds,
         \A e \in S : \E c \in Nat : Share(b, e, c)
  PROVE  LET a == release_buckets(b, S)
         IN  /\ \A e \in S : Share(a, e, 0)
             /\ \A f \in ExpIds \ S : \A i \in 1 .. Variants[f] :
                  VariantBuckets(a, f, i) = VariantBuckets(b, f, i)
             /\ \A k \in BucketIndices : a[k] \in {b[k], NoBucket}
<1> DEFINE a == release_buckets(b, S)
           owns(k, e) == k \in ExperimentBuckets(b, e, Variants[e])
<1>1. \A k \in BucketIndices, e \in S : owns(k, e) <=> \E i \in 1 .. Variants[e] : b[k] = <<e, i>>
  BY DEF ExperimentBuckets
<1>2. ASSUME NEW e \in S, NEW k \in BucketIndices, owns(k, e)
      PROVE  update_bucket_allocation(b, e, Variants[e], 0)[k] = NoBucket
  <2>1. PICK c \in Nat : Share(b, e, c)
    OBVIOUS
  <2>2. PICK i \in 1 .. Variants[e] : b[k] = <<e, i>>
    BY <1>1, <1>2
  <2> DEFINE u == update_bucket_allocation(b, e, Variants[e], 0)
  <2>3. EnoughBuckets(b, e, Variants[e], 0)
    <3>1. /\ Cardinality(ExperimentBuckets(b, e, Variants[e])) \in Nat
          /\ Cardinality(Unassigned(b)) \in Nat
      BY IndexSets DEF ExperimentBuckets, Unassigned
    <3>2. QED
      BY <3>1, VariantsAssumption DEF EnoughBuckets
  <2>4. Allocated(u, b, e, c, 0)
    BY <2>1, <2>3, AllocationCount
  <2>5. VariantBuckets(u, e, i) = {}
    <3>1. VariantBuckets(u, e, i) \in SUBSET BucketIndices /\ Cardinality(VariantBuckets(u, e, i)) = 0
      BY <2>4 DEF Allocated, Share, VariantBuckets
    <3>2. QED
      BY <3>1, IndexSets, FS_EmptySet
  <2>6. u[k] # <<e, i>>
    BY <2>5 DEF VariantBuckets
  <2>7. u[k] \in {b[k], NoBucket}
    BY <2>2, <2>4, VariantIsABucket DEF Allocated
  <2>8. QED
    BY <2>2, <2>6, <2>7
<1>3. a = [k \in BucketIndices |->
             IF \E e \in S : owns(k, e)
             THEN update_bucket_allocation(b, CHOOSE e \in S : owns(k, e),
                                           Variants[CHOOSE e \in S : owns(k, e)], 0)[k]
             ELSE b[k]]
  BY DEF release_buckets
<1> HIDE DEF owns, a
<1>4. ASSUME NEW k \in BucketIndices
      PROVE  a[k] = IF \E e \in S : owns(k, e) THEN NoBucket ELSE b[k]
  <2>1. CASE \E e \in S : owns(k, e)
    <3>1. PICK e \in S : e = (CHOOSE x \in S : owns(k, x)) /\ owns(k, e)
      BY <2>1
    <3>2. a[k] = update_bucket_allocation(b, e, Variants[e], 0)[k]
      BY <1>3, <2>1, <3>1
    <3>3. QED
      BY <1>2, <2>1, <3>1, <3>2
  <2>2. CASE ~ \E e \in S : owns(k, e)
    BY <1>3, <2>2
  <2>3. QED
    BY <2>1, <2>2
<1>5. ASSUME NEW e \in S
      PROVE  Share(a, e, 0)
  <2>1. ASSUME NEW i \in 1 .. Variants[e]
        PROVE  VariantBuckets(a, e, i) = {}
    <3>1. <<e, i>> # NoBucket
      BY VariantIsABucket
    <3>2. \A k \in BucketIndices : a[k] # <<e, i>>
      BY <1>1, <1>4, <3>1
    <3>3. QED
      BY <3>2 DEF VariantBuckets
  <2>2. QED
    BY <2>1, FS_EmptySet DEF Share
<1>6. ASSUME NEW f \in ExpIds \ S, NEW i \in 1 .. Variants[f]
      PROVE  VariantBuckets(a, f, i) = VariantBuckets(b, f, i)
  <2>1. <<f, i>> # NoBucket
    BY VariantIsABucket
  <2>2. \A k \in BucketIndices : b[k] = <<f, i>> => \A e \in S : ~owns(k, e)
    BY <1>1
  <2>3. \A k \in BucketIndices : a[k] = <<f, i>> <=> b[k] = <<f, i>>
    BY <1>4, <2>1, <2>2
  <2>4. QED
    BY <2>3 DEF VariantBuckets
<1>7. QED
  BY <1>4, <1>5, <1>6 DEF a

\* Nobody has buckets in an empty array, and all of it can be given away.
LEMMA EmptyShares ==
  ASSUME NEW e \in ExpIds
  PROVE  /\ EmptyBuckets \in BucketsType
         /\ Share(EmptyBuckets, e, 0)
         /\ \A i \in 1 .. Variants[e] : VariantBuckets(EmptyBuckets, e, i) = {}
         /\ \A t \in Nat : Variants[e] * t <= NumBuckets => EnoughBuckets(EmptyBuckets, e, Variants[e], t)
<1>1. EmptyBuckets \in BucketsType /\ \A k \in BucketIndices : EmptyBuckets[k] = NoBucket
  BY DEF EmptyBuckets, BucketsType
<1>2. \A i \in 1 .. Variants[e] : VariantBuckets(EmptyBuckets, e, i) = {}
  BY <1>1, VariantIsABucket DEF VariantBuckets
<1>3. Share(EmptyBuckets, e, 0)
  BY <1>2, FS_EmptySet DEF Share
<1>4. Cardinality(ExperimentBuckets(EmptyBuckets, e, Variants[e])) = 0
  BY <1>3, ExperimentCount, VariantsAssumption
<1>5. Cardinality(Unassigned(EmptyBuckets)) = NumBuckets
  <2>1. Unassigned(EmptyBuckets) = 0 .. (NumBuckets - 1)
    BY <1>1 DEF Unassigned, BucketIndices
  <2>2. 0 \in Int /\ NumBuckets - 1 \in Int /\ NumBuckets > 0 /\ NumBuckets \in Nat
    BY NumBucketsAssumption
  <2>3. Cardinality(0 .. (NumBuckets - 1)) =
          IF 0 > NumBuckets - 1 THEN 0 ELSE (NumBuckets - 1) - 0 + 1
    BY <2>2, FS_Interval
  <2>4. QED
    BY <2>1, <2>2, <2>3
<1>6. QED
  BY <1>1, <1>2, <1>3, <1>4, <1>5, VariantsAssumption DEF EnoughBuckets

-----------------------------------------------------------------------------
(* What a request does to the row of a group *)

\* Traffic arrives with the first ramp.
CreatedIdle ==
  \A e \in ExpIds : InDb(e) /\ experiments[e].status = "CREATED" => experiments[e].traffic_percentage = 0

\* The traffic and the status of an experiment stay.
SameData(e) ==
  /\ InDb(e)' <=> InDb(e)
  /\ InDb(e) => /\ experiments'[e].traffic_percentage = experiments[e].traffic_percentage
                /\ experiments'[e].status = experiments[e].status

\* The group keeps its buckets; who joins has no traffic yet.
RowKept(x) ==
  /\ IsGroup(x)
  /\ groups'[x].buckets = groups[x].buckets
  /\ groups'[x].group_type = groups[x].group_type
  /\ groups[x].group_type = "SYSTEM_GENERATED" =>
       /\ groups'[x].traffic_percentage = groups[x].traffic_percentage
       /\ groups'[x].member_experiment_ids = groups[x].member_experiment_ids
  /\ groups[x].member_experiment_ids \subseteq groups'[x].member_experiment_ids
  /\ \A f \in groups[x].member_experiment_ids :
       /\ experiments'[f].traffic_percentage = experiments[f].traffic_percentage
       /\ Running(f) => Running(f)'
  /\ \A f \in groups'[x].member_experiment_ids \ groups[x].member_experiment_ids :
       experiments'[f].traffic_percentage = 0

\* Members leave a user-created group.
RowReleased(x) ==
  /\ IsGroup(x)
  /\ groups[x].group_type # "SYSTEM_GENERATED" /\ groups'[x].group_type # "SYSTEM_GENERATED"
  /\ \E S \in SUBSET ExpIds :
       /\ groups'[x].buckets = release_buckets(groups[x].buckets, S)
       /\ groups'[x].member_experiment_ids = groups[x].member_experiment_ids \ S
  /\ \A f \in groups'[x].member_experiment_ids :
       experiments'[f].traffic_percentage = experiments[f].traffic_percentage

\* A member is ramped.
RowRamped(x) ==
  /\ IsGroup(x)
  /\ groups'[x].group_type = groups[x].group_type
  /\ groups'[x].member_experiment_ids = groups[x].member_experiment_ids
  /\ \E e \in groups[x].member_experiment_ids, t \in TrafficPercentage :
       /\ EnoughBuckets(groups[x].buckets, e, Variants[e], t)
       /\ groups'[x].buckets = update_bucket_allocation(groups[x].buckets, e, Variants[e], t)
       /\ groups'[x].group_type = "SYSTEM_GENERATED" => groups'[x].traffic_percentage = Variants[e] * t
       /\ experiments'[e].traffic_percentage = t
       /\ Running(e)'
       /\ \A f \in groups[x].member_experiment_ids \ {e} : experiments'[f] = experiments[f]

\* A group is created, by a user or for one experiment.
RowNew(x) ==
  /\ ~IsGroup(x)
  /\ \/ /\ groups'[x].group_type # "SYSTEM_GENERATED"
        /\ groups'[x].buckets = EmptyBuckets
        /\ \A f \in groups'[x].member_experiment_ids : experiments'[f].traffic_percentage = 0
     \/ \E e \in ExpIds, t \in TrafficPercentage :
          /\ groups'[x] = create_system_generated_experiment_group(e, t)
          /\ CanCreateSystemGroup(e, t)
          /\ experiments'[e].traffic_percentage = t
          /\ Running(e)'

RowStep(x) == RowKept(x) \/ RowReleased(x) \/ RowRamped(x) \/ RowNew(x)

\* A row that is not written, none of whose members is.
LEMMA RowUntouched ==
  ASSUME IndInv, NEW x \in GroupIds, IsGroup(x)', groups'[x] = groups[x],
         \A f \in groups[x].member_experiment_ids : SameData(f)
  PROVE  RowKept(x)
<1>1. IsGroup(x)
  BY DEF IsGroup
<1>2. groups[x] \in ExperimentGroup
  BY <1>1 DEF IndInv, TypeOK, IsGroup
<1>3. \A f \in groups[x].member_experiment_ids : f \in ExpIds /\ InDb(f)
  BY <1>1, <1>2 DEF IndInv, MembershipConsistent, ExperimentGroup
<1>4. QED
  BY <1>1, <1>3 DEF RowKept, SameData, Running

\* A member is in no other group.
LEMMA OneGroup ==
  ASSUME IndInv, NEW x \in GroupIds, IsGroup(x), NEW f \in groups[x].member_experiment_ids
  PROVE  f \in ExpIds /\ InDb(f) /\ experiments[f].experiment_group_id = x
<1>1. groups[x] \in ExperimentGroup
  BY DEF IndInv, TypeOK, IsGroup
<1>2. QED
  BY <1>1 DEF IndInv, MembershipConsistent, ExperimentGroup

\* A request that writes the row of e writes at most e's groups.
LEMMA OtherRows ==
  ASSUME IndInv, NEW e \in ExpIds, NEW x \in GroupIds, IsGroup(x)', groups'[x] = groups[x],
         \A f \in ExpIds \ {e} : experiments'[f] = experiments[f],
         InDb(e) => experiments[e].experiment_group_id # x
  PROVE  RowKept(x)
<1>1. IsGroup(x)
  BY DEF IsGroup
<1>2. \A f \in groups[x].member_experiment_ids : f \in ExpIds \ {e}
  BY <1>1, OneGroup
<1>3. \A f \in groups[x].member_experiment_ids : SameData(f)
  BY <1>2 DEF SameData, InDb
<1>4. QED
  BY <1>3, RowUntouched

\* create.
LEMMA CreateRows ==
  ASSUME IndInv, CreatedIdle, NEW e \in ExpIds, NEW g \in GroupIds \cup {None}, Create(e, g)
  PROVE  CreatedIdle' /\ \A x \in GroupIds : IsGroup(x)' => RowStep(x)
<1>1. /\ experiments' = [experiments EXCEPT
           ![e] = [status |-> "CREATED", traffic_percentage |-> 0,
                   experiment_group_id |-> g, chosen_variant |-> None]]
      /\ ~InDb(e)
      /\ g # None => CanAddMembers(g, {e})
      /\ groups' = [x \in GroupIds |-> IF x = g THEN add_members(groups[x], {e}) ELSE groups[x]]
  BY DEF Create, CommitCreate, CanCommitCreate
<1>2. /\ experiments'[e].traffic_percentage = 0
      /\ \A f \in ExpIds \ {e} : experiments'[f] = experiments[f]
  BY <1>1 DEF IndInv, TypeOK
<1>3. CreatedIdle'
  BY <1>2 DEF CreatedIdle, InDb
<1>4. ASSUME NEW x \in GroupIds, IsGroup(x)'
      PROVE  RowStep(x)
  <2>1. CASE x # g
    BY <1>1, <1>2, <1>4, <2>1, OtherRows DEF RowStep
  <2>2. CASE x = g
    <3>1. IsGroup(x) /\ groups[x] \in ExperimentGroup /\ groups[x].group_type # "SYSTEM_GENERATED"
      BY <1>1, <2>2, SentinelAssumption DEF CanAddMembers, IsGroup, IndInv, TypeOK
    <3>2. /\ groups'[x].member_experiment_ids = groups[x].member_experiment_ids \cup {e}
          /\ groups'[x].group_type = groups[x].group_type
          /\ groups'[x].buckets = groups[x].buckets
      BY <1>1, <2>2, <3>1 DEF add_members, ExperimentGroup
    <3>3. \A f \in groups[x].member_experiment_ids : f \in ExpIds \ {e}
      BY <1>1, <3>1, OneGroup
    <3>4. QED
      BY <1>2, <3>1, <3>2, <3>3 DEF RowStep, RowKept, Running
  <2>3. QED
    BY <2>1, <2>2
<1>5. QED
  BY <1>3, <1>4

\* ramp.
LEMMA RampRows ==
  ASSUME IndInv, CreatedIdle, NEW e \in ExpIds, NEW t \in TrafficPercentage, Ramp(e, t)
  PROVE  CreatedIdle' /\ \A x \in GroupIds : IsGroup(x)' => RowStep(x)
<1> DEFINE g == experiments[e].experiment_group_id
<1>1. experiments[e] \in Experiment /\ g \in GroupIds \cup {None} /\ InDb(e)
  BY DEF Ramp, IndInv, TypeOK, InDb, Experiment
<1>2. ASSUME NEW h, RampExperiment(e, t, h)
      PROVE  /\ experiments'[e].traffic_percentage = t /\ experiments'[e].status = "INPROGRESS"
             /\ \A f \in ExpIds \ {e} : experiments'[f] = experiments[f]
  BY <1>1, <1>2 DEF RampExperiment, IndInv, TypeOK, Experiment
<1>3. PICK h : RampExperiment(e, t, h)
  BY DEF Ramp, CommitRamp, RampFirst, RampInGroup, RampUngrouped
<1>4. /\ experiments'[e].traffic_percentage = t /\ experiments'[e].status = "INPROGRESS"
      /\ \A f \in ExpIds \ {e} : experiments'[f] = experiments[f]
  BY <1>2, <1>3
<1>5. CreatedIdle'
  BY <1>4 DEF CreatedIdle, InDb
<1>6. CASE RampFirst(e, experiments[e], t)
  <2>1. PICK y \in FreshGroupIds :
          groups' = [groups EXCEPT ![y] = create_system_generated_experiment_group(e, t)]
    BY <1>6 DEF RampFirst
  <2>2. y \in GroupIds /\ ~IsGroup(y) /\ g = None /\ CanCreateSystemGroup(e, t)
    BY <1>6 DEF FreshGroupIds, IsGroup, RampFirst
  <2>3. groups'[y] = create_system_generated_experiment_group(e, t)
        /\ \A x \in GroupIds \ {y} : groups'[x] = groups[x]
    BY <2>1, <2>2 DEF IndInv, TypeOK
  <2>4. RowNew(y)
    BY <1>4, <2>2, <2>3 DEF RowNew, Running
  <2>5. ASSUME NEW x \in GroupIds \ {y}, IsGroup(x)'
        PROVE  RowStep(x)
    BY <1>4, <2>2, <2>3, <2>5, OtherRows, SentinelAssumption DEF RowStep
  <2>6. QED
    BY <1>5, <2>4, <2>5 DEF RowStep
<1>7. CASE RampInGroup(e, experiments[e], t)
  <2>1. /\ g \in GroupIds
        /\ CanUpdateBuckets(e, g, t)
        /\ groups' = [groups EXCEPT ![g] = update_experiment_group_buckets(groups[g], e, t)]
    BY <1>1, <1>7 DEF RampInGroup, IndInv, TypeOK
  <2>2. IsGroup(g) /\ groups[g] \in ExperimentGroup
    BY <2>1 DEF IndInv, TypeOK, CanUpdateBuckets, IsGroup
  <2>3. groups'[g] = update_experiment_group_buckets(groups[g], e, t)
        /\ \A x \in GroupIds \ {g} : groups'[x] = groups[x]
    BY <2>1 DEF IndInv, TypeOK
  <2>4. /\ groups'[g].group_type = groups[g].group_type
        /\ groups'[g].member_experiment_ids = groups[g].member_experiment_ids
        /\ groups'[g].buckets = update_bucket_allocation(groups[g].buckets, e, Variants[e], t)
        /\ groups[g].group_type = "SYSTEM_GENERATED" => groups'[g].traffic_percentage = Variants[e] * t
    BY <2>2, <2>3 DEF update_experiment_group_buckets, ExperimentGroup
  <2>5. e \in groups[g].member_experiment_ids
    BY <1>1, <2>1 DEF IndInv, MembershipConsistent
  <2>6. \A f \in groups[g].member_experiment_ids : f \in ExpIds
    BY <2>2 DEF ExperimentGroup
  <2>7. RowRamped(g)
    BY <1>4, <2>1, <2>2, <2>4, <2>5, <2>6 DEF RowRamped, CanUpdateBuckets, Running
  <2>8. ASSUME NEW x \in GroupIds \ {g}, IsGroup(x)'
        PROVE  RowStep(x)
    BY <1>4, <2>3, <2>8, OtherRows DEF RowStep
  <2>9. QED
    BY <1>5, <2>7, <2>8 DEF RowStep
<1>8. CASE RampUngrouped(e, experiments[e], t)
  <2>1. ASSUME NEW x \in GroupIds, IsGroup(x)'
        PROVE  RowStep(x)
    BY <1>4, <1>8, <2>1, OtherRows, SentinelAssumption DEF RowStep, RampUngrouped
  <2>2. QED
    BY <1>5, <2>1
<1>9. QED
  BY <1>6, <1>7, <1>8 DEF Ramp, CommitRamp

\* conclude and discard.
LEMMA TerminationRows ==
  ASSUME IndInv, CreatedIdle, NEW e \in ExpIds, InDb(e), NEW s \in {"CONCLUDED", "DISCARDED"}, NEW c,
         CommitTermination(e, experiments[e], s, c)
  PROVE  CreatedIdle' /\ \A x \in GroupIds : IsGroup(x)' => RowStep(x)
<1> DEFINE g == experiments[e].experiment_group_id
<1>1. experiments[e] \in Experiment
  BY DEF IndInv, TypeOK, InDb
<1>2. /\ experiments'[e].status = s
      /\ \A f \in ExpIds \ {e} : experiments'[f] = experiments[f]
  BY <1>1 DEF CommitTermination, IndInv, TypeOK, Experiment
<1>3. CreatedIdle'
  BY <1>2 DEF CreatedIdle, InDb
<1>4. ASSUME NEW x \in GroupIds, IsGroup(x)'
      PROVE  RowStep(x)
  <2>1. CASE x # g
    <3>1. groups'[x] = groups[x]
      BY <2>1 DEF CommitTermination
    <3>2. QED
      BY <1>2, <1>4, <2>1, <3>1, OtherRows DEF RowStep
  <2>2. CASE x = g
    <3>1. groups'[x] = detach_experiment_from_group(groups[x], e)
      BY <2>2 DEF CommitTermination
    <3>2. groups[x].group_type # "SYSTEM_GENERATED" /\ groups'[x] = remove_members(groups[x], {e})
      BY <1>4, <3>1 DEF detach_experiment_from_group, IsGroup
    <3>3. IsGroup(x) /\ groups[x] \in ExperimentGroup
      BY <2>2, SentinelAssumption DEF CommitTermination, CanDetach, IndInv, TypeOK, IsGroup
    <3>4. /\ groups'[x].group_type = groups[x].group_type
          /\ groups'[x].buckets = release_buckets(groups[x].buckets, {e})
          /\ groups'[x].member_experiment_ids = groups[x].member_experiment_ids \ {e}
      BY <3>2, <3>3 DEF remove_members, ExperimentGroup
    <3>5. \A f \in groups'[x].member_experiment_ids : f \in ExpIds \ {e}
      BY <3>3, <3>4 DEF ExperimentGroup
    <3>6. RowReleased(x)
      BY <1>2, <3>2, <3>3, <3>4, <3>5 DEF RowReleased
    <3>7. QED
      BY <3>6 DEF RowStep
  <2>3. QED
    BY <2>1, <2>2
<1>5. QED
  BY <1>3, <1>4

\* pause and resume.
LEMMA StatusRows ==
  ASSUME IndInv, CreatedIdle, NEW e \in ExpIds, Pause(e) \/ Resume(e)
  PROVE  CreatedIdle' /\ \A x \in GroupIds : IsGroup(x)' => RowStep(x)
<1>1. experiments[e] \in Experiment /\ InDb(e) /\ groups' = groups
  BY DEF IndInv, TypeOK, InDb, Pause, Resume, CommitStatus
<1>2. PICK s \in {"PAUSED", "INPROGRESS"} : experiments' = [experiments EXCEPT ![e].status = s]
  BY DEF Pause, Resume, CommitStatus
<1>3. /\ experiments'[e].status = s
      /\ experiments'[e].traffic_percentage = experiments[e].traffic_percentage
      /\ \A f \in ExpIds \ {e} : experiments'[f] = experiments[f]
  BY <1>1, <1>2 DEF IndInv, TypeOK, Experiment
<1>4. CreatedIdle'
  BY <1>3 DEF CreatedIdle, InDb
<1>5. ASSUME NEW x \in GroupIds, IsGroup(x)'
      PROVE  RowKept(x)
  <2>1. IsGroup(x) /\ \A f \in groups[x].member_experiment_ids : f \in ExpIds
    BY <1>1, <1>5, OneGroup DEF IsGroup
  <2>2. \A f \in groups[x].member_experiment_ids :
          /\ experiments'[f].traffic_percentage = experiments[f].traffic_percentage
          /\ Running(f) => Running(f)'
    BY <1>3, <2>1 DEF Running
  <2>3. QED
    BY <1>1, <2>1, <2>2 DEF RowKept
<1>6. QED
  BY <1>4, <1>5 DEF RowStep

\* update, for a CREATED experiment that changes its group.
LEMMA MoveRows ==
  ASSUME IndInv, CreatedIdle, NEW e \in ExpIds, NEW h \in GroupIds \cup {None}, Move(e, h)
  PROVE  CreatedIdle' /\ \A x \in GroupIds : IsGroup(x)' => RowStep(x)
<1> DEFINE g == experiments[e].experiment_group_id
<1>1. experiments[e] \in Experiment /\ InDb(e) /\ experiments[e].status = "CREATED"
  BY DEF Move, IndInv, TypeOK, InDb
<1>2. /\ h # g
      /\ g # None => CanRemoveMembers(g)
      /\ h # None => CanAddMembers(h, {e})
      /\ groups' = [x \in GroupIds |-> IF x = g THEN remove_members(groups[x], {e})
                                       ELSE IF x = h THEN add_members(groups[x], {e})
                                       ELSE groups[x]]
      /\ experiments' = [experiments EXCEPT ![e].experiment_group_id = h]
  BY DEF Move, CommitMove
<1>3. /\ experiments'[e].status = experiments[e].status
      /\ experiments'[e].traffic_percentage = 0 /\ experiments[e].traffic_percentage = 0
      /\ \A f \in ExpIds \ {e} : experiments'[f] = experiments[f]
  BY <1>1, <1>2 DEF IndInv, TypeOK, Experiment, CreatedIdle
<1>4. CreatedIdle'
  BY <1>3 DEF CreatedIdle, InDb
<1>5. ASSUME NEW x \in GroupIds, IsGroup(x)'
      PROVE  RowStep(x)
  <2>1. CASE x \notin {g, h}
    <3>1. groups'[x] = groups[x]
      BY <1>2, <2>1
    <3>2. QED
      BY <1>3, <1>5, <2>1, <3>1, OtherRows DEF RowStep
  <2>2. CASE x = g
    <3>1. /\ IsGroup(x) /\ groups[x] \in ExperimentGroup
          /\ groups[x].group_type # "SYSTEM_GENERATED"
      BY <1>2, <2>2, SentinelAssumption DEF CanRemoveMembers, IndInv, TypeOK, IsGroup
    <3>2. /\ groups'[x].group_type = groups[x].group_type
          /\ groups'[x].buckets = release_buckets(groups[x].buckets, {e})
          /\ groups'[x].member_experiment_ids = groups[x].member_experiment_ids \ {e}
      BY <1>2, <2>2, <3>1 DEF remove_members, ExperimentGroup
    <3>3. \A f \in groups'[x].member_experiment_ids : f \in ExpIds \ {e}
      BY <3>1, <3>2 DEF ExperimentGroup
    <3>4. RowReleased(x)
      BY <1>3, <3>1, <3>2, <3>3 DEF RowReleased
    <3>5. QED
      BY <3>4 DEF RowStep
  <2>3. CASE x = h
    <3>1. /\ IsGroup(x) /\ groups[x] \in ExperimentGroup
          /\ groups[x].group_type # "SYSTEM_GENERATED"
      BY <1>2, <2>3, SentinelAssumption DEF CanAddMembers, IndInv, TypeOK, IsGroup
    <3>2. /\ groups'[x].group_type = groups[x].group_type
          /\ groups'[x].buckets = groups[x].buckets
          /\ groups'[x].member_experiment_ids = groups[x].member_experiment_ids \cup {e}
      BY <1>2, <2>3, <3>1 DEF add_members, ExperimentGroup
    <3>3. \A f \in groups[x].member_experiment_ids : f \in ExpIds
      BY <3>1, <3>2 DEF ExperimentGroup
    <3>4. RowKept(x)
      BY <1>3, <3>1, <3>2, <3>3 DEF RowKept, Running
    <3>5. QED
      BY <3>4 DEF RowStep
  <2>4. QED
    BY <2>1, <2>2, <2>3
<1>6. QED
  BY <1>4, <1>5

\* The requests about groups change neither the traffic nor the status of an
\* experiment.
LEMMA GroupRequestData ==
  ASSUME IndInv, NEW M \in SUBSET ExpIds, NEW id, \A e \in M : InDb(e),
         experiments' = [e \in ExpIds |->
           IF e \in M THEN [experiments[e] EXCEPT !.experiment_group_id = id[e]]
                      ELSE experiments[e]]
  PROVE  /\ \A e \in ExpIds : InDb(e) =>
              /\ experiments'[e].traffic_percentage = experiments[e].traffic_percentage
              /\ experiments'[e].status = experiments[e].status
         /\ \A e \in ExpIds \ M : experiments'[e] = experiments[e]
<1>1. \A e \in M : experiments[e] \in Experiment
  BY DEF IndInv, TypeOK, InDb
<1>2. QED
  BY <1>1 DEF Experiment

\* The same for the requests that add members, with the state of those members.
LEMMA JoinData ==
  ASSUME IndInv, CreatedIdle, NEW g, NEW M \in SUBSET ExpIds, CanJoin(M, g), SetGroupId(M, g)
  PROVE  /\ \A e \in ExpIds : InDb(e) =>
              /\ experiments'[e].traffic_percentage = experiments[e].traffic_percentage
              /\ experiments'[e].status = experiments[e].status
         /\ \A e \in M : InDb(e) /\ experiments'[e].traffic_percentage = 0
         /\ \A e \in ExpIds \ M : experiments'[e] = experiments[e]
<1> DEFINE id == [e \in ExpIds |-> g]
<1>1. \A e \in M : InDb(e) /\ experiments[e].status = "CREATED"
  BY DEF CanJoin
<1>2. experiments' = [e \in ExpIds |->
        IF e \in M THEN [experiments[e] EXCEPT !.experiment_group_id = id[e]] ELSE experiments[e]]
  BY DEF SetGroupId
<1> HIDE DEF id
<1>3. /\ \A e \in ExpIds : InDb(e) =>
           /\ experiments'[e].traffic_percentage = experiments[e].traffic_percentage
           /\ experiments'[e].status = experiments[e].status
      /\ \A e \in ExpIds \ M : experiments'[e] = experiments[e]
  BY <1>1, <1>2, GroupRequestData
<1>4. QED
  BY <1>1, <1>3 DEF CreatedIdle

\* When every experiment keeps its traffic and status, a row that is not written
\* is kept.
LEMMA GroupRequestKept ==
  ASSUME IndInv, NEW x \in GroupIds, IsGroup(x)', groups'[x] = groups[x],
         \A e \in ExpIds : InDb(e) =>
              /\ experiments'[e].traffic_percentage = experiments[e].traffic_percentage
              /\ experiments'[e].status = experiments[e].status
  PROVE  RowStep(x)
<1>1. IsGroup(x)
  BY DEF IsGroup
<1>2. \A f \in groups[x].member_experiment_ids : f \in ExpIds /\ InDb(f)
  BY <1>1, OneGroup
<1>3. RowKept(x)
  BY <1>1, <1>2 DEF RowKept, Running
<1>4. QED
  BY <1>3 DEF RowStep

\* create group, update group, add members and delete group.
LEMMA GroupRows ==
  ASSUME IndInv, CreatedIdle, NEW g \in GroupIds,
         \/ \E c \in GroupContexts, t \in GroupTraffics, m \in SUBSET ExpIds : CreateGroup(g, c, t, m)
         \/ \E t \in GroupTraffics : UpdateGroup(g, t)
         \/ \E m \in SUBSET ExpIds : AddMembers(g, m)
         \/ DeleteGroup(g)
  PROVE  CreatedIdle' /\ \A x \in GroupIds : IsGroup(x)' => RowStep(x)
<1>1. ASSUME UNCHANGED experiments
      PROVE  /\ CreatedIdle'
             /\ \A x \in GroupIds \ {g} : IsGroup(x)' /\ groups'[x] = groups[x] => RowStep(x)
  BY <1>1, GroupRequestKept DEF CreatedIdle, InDb
<1>2. ASSUME NEW M \in SUBSET ExpIds, CanJoin(M, g), SetGroupId(M, g)
      PROVE  /\ CreatedIdle'
             /\ \A x \in GroupIds \ {g} : IsGroup(x)' /\ groups'[x] = groups[x] => RowStep(x)
             /\ \A e \in M : experiments'[e].traffic_percentage = 0
             /\ \A e \in ExpIds : InDb(e) =>
                  /\ experiments'[e].traffic_percentage = experiments[e].traffic_percentage
                  /\ experiments'[e].status = experiments[e].status
  <2>1. /\ \A e \in ExpIds : InDb(e) =>
             /\ experiments'[e].traffic_percentage = experiments[e].traffic_percentage
             /\ experiments'[e].status = experiments[e].status
        /\ \A e \in M : InDb(e) /\ experiments'[e].traffic_percentage = 0
        /\ \A e \in ExpIds \ M : experiments'[e] = experiments[e]
    BY <1>2, JoinData
  <2>2. CreatedIdle'
    BY <2>1 DEF CreatedIdle, InDb
  <2>3. \A x \in GroupIds \ {g} : IsGroup(x)' /\ groups'[x] = groups[x] => RowStep(x)
    BY <2>1, GroupRequestKept
  <2>4. QED
    BY <2>1, <2>2, <2>3
<1>3. ASSUME NEW c \in GroupContexts, NEW t \in GroupTraffics, NEW M \in SUBSET ExpIds,
             CreateGroup(g, c, t, M)
      PROVE  CreatedIdle' /\ \A x \in GroupIds : IsGroup(x)' => RowStep(x)
  <2> DEFINE new == [group_type |-> "USER_CREATED", context |-> c, traffic_percentage |-> t,
                     member_experiment_ids |-> M, buckets |-> EmptyBuckets]
  <2>1. groups' = [groups EXCEPT ![g] = new] /\ groups[g] = None /\ CanJoin(M, g) /\ SetGroupId(M, g)
    BY <1>3 DEF CreateGroup, FreshGroupIds
  <2>2. groups'[g] = new /\ \A x \in GroupIds \ {g} : groups'[x] = groups[x]
    BY <2>1 DEF IndInv, TypeOK
  <2>3. \A e \in M : experiments'[e].traffic_percentage = 0
    BY <1>2, <2>1
  <2>4. RowNew(g)
    BY <2>1, <2>2, <2>3 DEF RowNew, IsGroup
  <2>5. QED
    BY <1>2, <2>1, <2>2, <2>4 DEF RowStep
<1>4. ASSUME NEW t \in GroupTraffics, UpdateGroup(g, t)
      PROVE  CreatedIdle' /\ \A x \in GroupIds : IsGroup(x)' => RowStep(x)
  <2>1. /\ IsGroup(g) /\ groups[g] \in ExperimentGroup /\ groups[g].group_type # "SYSTEM_GENERATED"
        /\ groups' = [groups EXCEPT ![g].traffic_percentage = t] /\ UNCHANGED experiments
    BY <1>4 DEF UpdateGroup, IndInv, TypeOK, IsGroup
  <2>2. /\ groups'[g].buckets = groups[g].buckets
        /\ groups'[g].group_type = groups[g].group_type
        /\ groups'[g].member_experiment_ids = groups[g].member_experiment_ids
        /\ \A x \in GroupIds \ {g} : groups'[x] = groups[x]
    BY <2>1 DEF IndInv, TypeOK, ExperimentGroup
  <2>3. RowKept(g)
    BY <2>1, <2>2 DEF RowKept, Running
  <2>4. QED
    BY <1>1, <2>1, <2>2, <2>3 DEF RowStep
<1>5. ASSUME NEW M \in SUBSET ExpIds, AddMembers(g, M)
      PROVE  CreatedIdle' /\ \A x \in GroupIds : IsGroup(x)' => RowStep(x)
  <2>1. /\ IsGroup(g) /\ groups[g].group_type # "SYSTEM_GENERATED"
        /\ groups' = [groups EXCEPT ![g] = add_members(groups[g], M)]
        /\ CanJoin(M, g) /\ SetGroupId(M, g)
    BY <1>5 DEF AddMembers, CommitAddMembers, CanAddMembers
  <2>2. groups[g] \in ExperimentGroup
    BY <2>1 DEF IndInv, TypeOK, IsGroup
  <2>3. /\ groups'[g].buckets = groups[g].buckets
        /\ groups'[g].group_type = groups[g].group_type
        /\ groups'[g].member_experiment_ids = groups[g].member_experiment_ids \cup M
        /\ \A x \in GroupIds \ {g} : groups'[x] = groups[x]
    BY <2>1, <2>2 DEF add_members, IndInv, TypeOK, ExperimentGroup
  <2>4. /\ \A e \in M : experiments'[e].traffic_percentage = 0
        /\ \A e \in ExpIds : InDb(e) =>
             /\ experiments'[e].traffic_percentage = experiments[e].traffic_percentage
             /\ experiments'[e].status = experiments[e].status
    BY <1>2, <2>1
  <2>5. \A f \in groups[g].member_experiment_ids : f \in ExpIds /\ InDb(f)
    BY <2>1, OneGroup
  <2>6. RowKept(g)
    BY <2>1, <2>3, <2>4, <2>5 DEF RowKept, Running
  <2>7. QED
    BY <1>2, <2>1, <2>3, <2>6 DEF RowStep
<1>6. CASE DeleteGroup(g)
  <2>1. /\ groups'[g] = Deleted /\ \A x \in GroupIds \ {g} : groups'[x] = groups[x]
        /\ UNCHANGED experiments
    BY <1>6 DEF DeleteGroup, IndInv, TypeOK
  <2>2. ~IsGroup(g)'
    BY <2>1 DEF IsGroup
  <2>3. QED
    BY <1>1, <2>1, <2>2
<1>7. QED
  BY <1>3, <1>4, <1>5, <1>6

\* Groups for running experiments: the end of remove members, and backfill.
LEMMA SystemGroupRows ==
  ASSUME IndInv, NEW rows \in [GroupIds -> ExperimentGroup \cup {None, Deleted}],
         NEW S \in SUBSET ExpIds, NEW newId \in [ExpIds -> GroupIds], Injective(newId, S),
         \A e \in S : /\ InDb(e) /\ Running(e) /\ groups[newId[e]] = None
                      /\ CanCreateSystemGroup(e, experiments[e].traffic_percentage),
         groups' = WithSystemGroups(rows, S, newId),
         \A e \in ExpIds : InDb(e) =>
              /\ experiments'[e].traffic_percentage = experiments[e].traffic_percentage
              /\ experiments'[e].status = experiments[e].status
  PROVE  /\ \A e \in S : RowNew(newId[e])
         /\ \A x \in GroupIds : (\A e \in S : newId[e] # x) => groups'[x] = rows[x]
<1>1. \A e \in S : CanCreateSystemGroup(e, experiments[e].traffic_percentage)
  OBVIOUS
<1>2. SystemGroupsAdded(groups', rows, S, newId)
  BY <1>1, WithSystemGroupsFacts
<1>3. ASSUME NEW e \in S
      PROVE  RowNew(newId[e])
  <2>1. /\ groups'[newId[e]] = create_system_generated_experiment_group(
                                 e, experiments[e].traffic_percentage)
        /\ ~IsGroup(newId[e])
    BY <1>2 DEF SystemGroupsAdded, IsGroup
  <2>2. /\ experiments[e].traffic_percentage \in TrafficPercentage
        /\ experiments'[e].traffic_percentage = experiments[e].traffic_percentage
        /\ Running(e)'
    BY DEF IndInv, TypeOK, InDb, Experiment, Running
  <2>3. QED
    BY <2>1, <2>2 DEF RowNew
<1>4. QED
  BY <1>2, <1>3 DEF SystemGroupsAdded

\* remove members.
LEMMA RemoveMembersRows ==
  ASSUME IndInv, CreatedIdle, NEW g \in GroupIds, NEW M \in SUBSET ExpIds,
         NEW newId \in [ExpIds -> GroupIds], RemoveMembers(g, M, newId)
  PROVE  CreatedIdle' /\ \A x \in GroupIds : IsGroup(x)' => RowStep(x)
<1> DEFINE leaving == {e \in M : Running(e)}
           rem == remove_members(groups[g], M)
           rows == [groups EXCEPT ![g] = rem]
           id == [e \in ExpIds |-> IF e \in leaving THEN newId[e] ELSE None]
<1>1. /\ IsGroup(g)
      /\ groups[g].group_type # "SYSTEM_GENERATED"
      /\ \A e \in M : InDb(e)
      /\ \A e \in leaving : /\ groups[newId[e]] = None
                            /\ CanCreateSystemGroup(e, experiments[e].traffic_percentage)
      /\ Injective(newId, leaving)
      /\ groups' = WithSystemGroups(rows, leaving, newId)
      /\ experiments' = [e \in ExpIds |->
           IF e \in M THEN [experiments[e] EXCEPT !.experiment_group_id = id[e]]
                      ELSE experiments[e]]
  BY DEF RemoveMembers, CanRemoveMembers, FreshGroupIds
<1> HIDE DEF id
<1>2. /\ \A e \in ExpIds : InDb(e) =>
           /\ experiments'[e].traffic_percentage = experiments[e].traffic_percentage
           /\ experiments'[e].status = experiments[e].status
      /\ \A e \in ExpIds \ M : experiments'[e] = experiments[e]
  BY <1>1, GroupRequestData
<1>3. CreatedIdle'
  BY <1>1, <1>2 DEF CreatedIdle, InDb
<1>4. groups[g] \in ExperimentGroup
  BY <1>1 DEF IndInv, TypeOK, IsGroup
<1>5. /\ rem \in ExperimentGroup
      /\ rem.member_experiment_ids = groups[g].member_experiment_ids \ M
      /\ rem.group_type = groups[g].group_type
      /\ rem.buckets = release_buckets(groups[g].buckets, M)
  BY <1>4, RemoveMembersType DEF remove_members, ExperimentGroup
<1> HIDE DEF rem
<1>6. /\ rows \in [GroupIds -> ExperimentGroup \cup {None, Deleted}]
      /\ rows[g] = rem /\ \A x \in GroupIds \ {g} : rows[x] = groups[x]
  BY <1>5 DEF IndInv, TypeOK
<1>7. leaving \in SUBSET ExpIds /\ \A e \in leaving : InDb(e) /\ Running(e)
  BY <1>1
<1> HIDE DEF leaving, rows
<1>8. /\ \A e \in leaving : RowNew(newId[e])
      /\ \A x \in GroupIds : (\A e \in leaving : newId[e] # x) => groups'[x] = rows[x]
  BY <1>1, <1>2, <1>6, <1>7, SystemGroupRows
<1>9. \A e \in leaving : newId[e] # g
  BY <1>1 DEF IsGroup
<1>10. groups'[g] = rem
  BY <1>6, <1>8, <1>9
<1>11. RowReleased(g)
  <2>1. \A f \in rem.member_experiment_ids : f \in ExpIds /\ InDb(f)
    BY <1>1, <1>5, OneGroup
  <2>2. \A f \in rem.member_experiment_ids :
          experiments'[f].traffic_percentage = experiments[f].traffic_percentage
    BY <1>2, <2>1
  <2>3. QED
    BY <1>1, <1>5, <1>10, <2>2 DEF RowReleased
<1>12. ASSUME NEW x \in GroupIds, x # g, \A e \in leaving : newId[e] # x, IsGroup(x)'
       PROVE  RowStep(x)
  <2>1. groups'[x] = groups[x]
    BY <1>6, <1>8, <1>12
  <2>2. QED
    BY <1>2, <1>12, <2>1, GroupRequestKept
<1>13. QED
  BY <1>3, <1>8, <1>11, <1>12 DEF RowStep

\* backfill.
LEMMA BackfillRows ==
  ASSUME IndInv, CreatedIdle, NEW newId \in [ExpIds -> GroupIds], Backfill(newId)
  PROVE  CreatedIdle' /\ \A x \in GroupIds : IsGroup(x)' => RowStep(x)
<1>1. PICK U \in SUBSET ExpIds : U = Ungrouped
  BY DEF Ungrouped
<1>2. /\ \A e \in U : /\ InDb(e) /\ Running(e) /\ groups[newId[e]] = None
                      /\ CanCreateSystemGroup(e, experiments[e].traffic_percentage)
      /\ Injective(newId, U)
      /\ groups' = WithSystemGroups(groups, U, newId)
      /\ experiments' = [e \in ExpIds |->
           IF e \in U THEN [experiments[e] EXCEPT !.experiment_group_id = newId[e]]
                      ELSE experiments[e]]
  BY <1>1 DEF Backfill, Ungrouped, FreshGroupIds
<1>3. /\ \A e \in ExpIds : InDb(e) =>
           /\ experiments'[e].traffic_percentage = experiments[e].traffic_percentage
           /\ experiments'[e].status = experiments[e].status
      /\ \A e \in ExpIds \ U : experiments'[e] = experiments[e]
  BY <1>2, GroupRequestData
<1>4. CreatedIdle'
  BY <1>2, <1>3 DEF CreatedIdle, InDb
<1>5. groups \in [GroupIds -> ExperimentGroup \cup {None, Deleted}]
  BY DEF IndInv, TypeOK
<1>6. /\ \A e \in U : RowNew(newId[e])
      /\ \A x \in GroupIds : (\A e \in U : newId[e] # x) => groups'[x] = groups[x]
  BY <1>2, <1>3, <1>5, SystemGroupRows
<1>7. ASSUME NEW x \in GroupIds, \A e \in U : newId[e] # x, IsGroup(x)'
      PROVE  RowStep(x)
  BY <1>3, <1>6, <1>7, GroupRequestKept
<1>8. QED
  BY <1>4, <1>6, <1>7 DEF RowStep

\* Whatever request: the row of a group that is there afterwards was kept, lost
\* members, had one member ramped, or is new.
LEMMA NextRows ==
  ASSUME IndInv, CreatedIdle, [Next]_vars
  PROVE  CreatedIdle' /\ \A x \in GroupIds : IsGroup(x)' => RowStep(x)
<1>1. CASE NextExperiment
  <2>1. PICK e \in ExpIds :
          \/ \E g \in GroupIds \cup {None} : Create(e, g)
          \/ \E t \in TrafficPercentage : Ramp(e, t)
          \/ \E i \in 1 .. Variants[e] : Conclude(e, i)
          \/ Discard(e)
          \/ Pause(e)
          \/ Resume(e)
          \/ \E g \in GroupIds \cup {None} : Move(e, g)
    BY <1>1 DEF NextExperiment
  <2>2. CASE \E g \in GroupIds \cup {None} : Create(e, g)
    BY <2>2, CreateRows
  <2>3. CASE \E t \in TrafficPercentage : Ramp(e, t)
    BY <2>3, RampRows
  <2>4. CASE \E i \in 1 .. Variants[e] : Conclude(e, i)
    BY <2>4, TerminationRows DEF Conclude
  <2>5. CASE Discard(e)
    BY <2>5, TerminationRows DEF Discard
  <2>6. CASE Pause(e) \/ Resume(e)
    BY <2>6, StatusRows
  <2>7. CASE \E g \in GroupIds \cup {None} : Move(e, g)
    BY <2>7, MoveRows
  <2>8. QED
    BY <2>1, <2>2, <2>3, <2>4, <2>5, <2>6, <2>7
<1>2. CASE NextGroup
  <2>1. CASE \E newId \in [ExpIds -> GroupIds] : Backfill(newId)
    BY <2>1, BackfillRows
  <2>2. ASSUME NEW g \in GroupIds,
               \E m \in SUBSET ExpIds, newId \in [ExpIds -> GroupIds] : RemoveMembers(g, m, newId)
        PROVE  CreatedIdle' /\ \A x \in GroupIds : IsGroup(x)' => RowStep(x)
    BY <2>2, RemoveMembersRows
  <2>3. QED
    BY <1>2, <2>1, <2>2, GroupRows DEF NextGroup
<1>3. CASE UNCHANGED vars
  <2>1. \A x \in GroupIds : IsGroup(x)' => RowStep(x)
    BY <1>3, GroupRequestKept DEF vars
  <2>2. QED
    BY <1>3, <2>1 DEF vars, CreatedIdle, InDb
<1>4. QED
  BY <1>1, <1>2, <1>3 DEF Next

-----------------------------------------------------------------------------
(* The allocation *)

\* What every variant of e should have in group x.
Due(x, e) ==
  IF e \in groups[x].member_experiment_ids THEN experiments[e].traffic_percentage ELSE 0

Exact(x) == \A e \in ExpIds : Share(groups[x].buckets, e, Due(x, e))

\* The inductive invariant: the count is only known to be kept for rows of their
\* types, with members that the experiments agree on.
AllocInv == IndInv /\ CreatedIdle /\ AllocationExact /\ SystemGroupOwned

\* AllocationExact, group by group.
LEMMA ExactForm == AllocationExact <=> \A x \in GroupIds : IsGroup(x) => Exact(x)
  BY DEF AllocationExact, Exact, Due, Share

LEMMA ExactFormPrime == AllocationExact' <=> \A x \in GroupIds : IsGroup(x)' => Exact(x)'
  BY DEF AllocationExact, Exact, Due, Share

\* The types of what the allocation of a group is computed from.
LEMMA GroupFacts ==
  ASSUME IndInv, NEW x \in GroupIds, IsGroup(x)
  PROVE  /\ groups[x] \in ExperimentGroup
         /\ groups[x].buckets \in BucketsType
         /\ groups[x].member_experiment_ids \in SUBSET ExpIds
         /\ \A e \in ExpIds : Due(x, e) \in Nat
<1>1. /\ groups[x] \in ExperimentGroup
      /\ groups[x].buckets \in BucketsType
      /\ groups[x].member_experiment_ids \in SUBSET ExpIds
  BY DEF IndInv, TypeOK, IsGroup, ExperimentGroup, BucketsType
<1>2. ASSUME NEW e \in groups[x].member_experiment_ids
      PROVE  experiments[e].traffic_percentage \in Nat
  <2>1. e \in ExpIds /\ InDb(e)
    BY OneGroup
  <2>2. experiments[e] \in Experiment
    BY <2>1 DEF IndInv, TypeOK, InDb
  <2>3. QED
    BY <2>2, NumBucketsAssumption DEF Experiment, TrafficPercentage
<1>3. QED
  BY <1>1, <1>2 DEF Due

\* The same buckets are the same share.
LEMMA SameShare ==
  ASSUME NEW a, NEW b, NEW e \in ExpIds, NEW c, Share(b, e, c),
         \A i \in 1 .. Variants[e] : VariantBuckets(a, e, i) = VariantBuckets(b, e, i)
  PROVE  Share(a, e, c)
  BY DEF Share

\* What a request leaves of the buckets of a group: nobody's go to another, and who
\* stays without losing traffic keeps all of them.
Sticky(x) == NoHandOver(x) /\ \A e \in ExpIds : KeepsBuckets(x, e)

\* A row that is kept.
LEMMA KeptExact ==
  ASSUME IndInv, NEW x \in GroupIds, IsGroup(x)', Exact(x), RowKept(x)
  PROVE  Exact(x)' /\ Sticky(x)
<1>1. /\ groups'[x].buckets = groups[x].buckets
      /\ groups[x].member_experiment_ids \subseteq groups'[x].member_experiment_ids
      /\ \A f \in groups[x].member_experiment_ids :
           experiments'[f].traffic_percentage = experiments[f].traffic_percentage
      /\ \A f \in groups'[x].member_experiment_ids \ groups[x].member_experiment_ids :
           experiments'[f].traffic_percentage = 0
  BY DEF RowKept
<1>2. \A e \in ExpIds : Due(x, e)' = Due(x, e)
  BY <1>1 DEF Due
<1>3. Exact(x)'
  BY <1>1, <1>2 DEF Exact
<1>4. QED
  BY <1>1, <1>3 DEF Sticky, NoHandOver, KeepsBuckets

\* A row that loses members: their buckets are freed.
LEMMA ReleasedExact ==
  ASSUME IndInv, NEW x \in GroupIds, IsGroup(x)', Exact(x), RowReleased(x)
  PROVE  Exact(x)' /\ Sticky(x)
<1>1. PICK S \in SUBSET ExpIds :
        /\ groups'[x].buckets = release_buckets(groups[x].buckets, S)
        /\ groups'[x].member_experiment_ids = groups[x].member_experiment_ids \ S
  BY DEF RowReleased
<1>2. IsGroup(x) /\ \A f \in groups'[x].member_experiment_ids :
        experiments'[f].traffic_percentage = experiments[f].traffic_percentage
  BY DEF RowReleased
<1>3. PICK a, b \in BucketsType :
        a = groups'[x].buckets /\ b = groups[x].buckets /\ a = release_buckets(b, S)
  BY <1>1, <1>2, GroupFacts, ReleaseType
<1>4. \A e \in ExpIds : Share(b, e, Due(x, e)) /\ Due(x, e) \in Nat
  BY <1>2, <1>3, GroupFacts DEF Exact
<1>5. /\ \A e \in S : Share(a, e, 0)
      /\ \A f \in ExpIds \ S : \A i \in 1 .. Variants[f] : VariantBuckets(a, f, i) = VariantBuckets(b, f, i)
      /\ \A k \in BucketIndices : a[k] \in {b[k], NoBucket}
  <2>1. \A e \in S : \E c \in Nat : Share(b, e, c)
    BY <1>4
  <2>2. QED
    BY <1>3, <2>1, ReleaseEffect
<1>6. \A e \in ExpIds \ S : Due(x, e)' = Due(x, e)
  BY <1>1, <1>2 DEF Due
<1>7. \A e \in S : Due(x, e)' = 0
  BY <1>1 DEF Due
<1>8. ASSUME NEW e \in ExpIds
      PROVE  Share(a, e, Due(x, e)')
  BY <1>4, <1>5, <1>6, <1>7, SameShare
<1>9. Exact(x)'
  BY <1>3, <1>8 DEF Exact
<1>10. NoHandOver(x)
  BY <1>3, <1>5 DEF NoHandOver
<1>11. ASSUME NEW e \in ExpIds
       PROVE  KeepsBuckets(x, e)
  <2>1. e \in groups'[x].member_experiment_ids => e \notin S
    BY <1>1
  <2>2. QED
    BY <1>3, <1>5, <2>1 DEF KeepsBuckets
<1>12. QED
  BY <1>9, <1>10, <1>11 DEF Sticky

\* A row with a member that is ramped: it has its new share and takes it from nobody.
LEMMA RampedExact ==
  ASSUME IndInv, NEW x \in GroupIds, IsGroup(x)', Exact(x), RowRamped(x)
  PROVE  Exact(x)' /\ Sticky(x)
<1>1. PICK e \in groups[x].member_experiment_ids, t \in TrafficPercentage :
        /\ EnoughBuckets(groups[x].buckets, e, Variants[e], t)
        /\ groups'[x].buckets = update_bucket_allocation(groups[x].buckets, e, Variants[e], t)
        /\ experiments'[e].traffic_percentage = t
        /\ \A f \in groups[x].member_experiment_ids \ {e} : experiments'[f] = experiments[f]
  BY DEF RowRamped
<1>2. IsGroup(x) /\ groups'[x].member_experiment_ids = groups[x].member_experiment_ids
  BY DEF RowRamped
<1>3. e \in ExpIds /\ t \in Nat
  BY <1>2, GroupFacts, NumBucketsAssumption DEF TrafficPercentage
<1>4. PICK a, b \in BucketsType :
        /\ a = groups'[x].buckets /\ b = groups[x].buckets
        /\ a = update_bucket_allocation(b, e, Variants[e], t)
  BY <1>1, <1>2, <1>3, GroupFacts, AllocationType
<1>5. PICK c \in Nat : c = Due(x, e)
  BY <1>2, <1>3, GroupFacts
<1>6. \A f \in ExpIds : Share(b, f, Due(x, f))
  BY <1>4 DEF Exact
<1>7. Allocated(a, b, e, c, t)
  BY <1>1, <1>3, <1>4, <1>5, <1>6, AllocationCount
<1>8. /\ Share(a, e, t)
      /\ \A f \in ExpIds \ {e} : \A i \in 1 .. Variants[f] : VariantBuckets(a, f, i) = VariantBuckets(b, f, i)
      /\ \A k \in BucketIndices : b[k] # NoBucket => a[k] \in {b[k], NoBucket}
      /\ t >= c => \A k \in BucketIndices : b[k] # NoBucket => a[k] = b[k]
  BY <1>7 DEF Allocated
<1>9. Due(x, e)' = t /\ \A f \in ExpIds \ {e} : Due(x, f)' = Due(x, f)
  BY <1>1, <1>2 DEF Due
<1>10. ASSUME NEW f \in ExpIds
       PROVE  Share(a, f, Due(x, f)')
  BY <1>6, <1>8, <1>9, SameShare
<1>11. Exact(x)'
  BY <1>4, <1>10 DEF Exact
<1>12. NoHandOver(x)
  BY <1>4, <1>8 DEF NoHandOver
<1>13. ASSUME NEW f \in ExpIds
       PROVE  KeepsBuckets(x, f)
  <2>1. CASE f # e
    BY <1>4, <1>8, <2>1 DEF KeepsBuckets
  <2>2. CASE f = e
    <3>1. SUFFICES ASSUME experiments'[e].traffic_percentage >= experiments[e].traffic_percentage,
                          NEW i \in 1 .. Variants[e], NEW k \in VariantBuckets(b, e, i)
                   PROVE  k \in VariantBuckets(a, e, i)
      BY <1>4, <2>2 DEF KeepsBuckets
    <3>2. t >= c
      BY <1>1, <1>5, <3>1 DEF Due
    <3>3. k \in BucketIndices /\ b[k] = <<e, i>> /\ b[k] # NoBucket
      BY <1>3, <3>1, VariantIsABucket DEF VariantBuckets
    <3>4. QED
      BY <1>8, <3>2, <3>3 DEF VariantBuckets
  <2>3. QED
    BY <2>1, <2>2
<1>14. QED
  BY <1>11, <1>12, <1>13 DEF Sticky

\* A new row: nobody has buckets, or the one experiment that the group is for.
LEMMA NewExact ==
  ASSUME NEW x \in GroupIds, IsGroup(x)', RowNew(x)
  PROVE  Exact(x)' /\ Sticky(x)
<1>1. Sticky(x)
  BY DEF RowNew, Sticky, NoHandOver, KeepsBuckets
<1>2. CASE /\ groups'[x].buckets = EmptyBuckets
           /\ \A f \in groups'[x].member_experiment_ids : experiments'[f].traffic_percentage = 0
  <2>1. \A e \in ExpIds : Due(x, e)' = 0
    BY <1>2 DEF Due
  <2>2. Exact(x)'
    BY <1>2, <2>1, EmptyShares DEF Exact
  <2>3. QED
    BY <1>1, <2>2
<1>3. ASSUME NEW e \in ExpIds, NEW t \in TrafficPercentage,
             groups'[x] = create_system_generated_experiment_group(e, t),
             CanCreateSystemGroup(e, t),
             experiments'[e].traffic_percentage = t
      PROVE  Exact(x)'
  <2>1. /\ groups'[x].member_experiment_ids = {e}
        /\ groups'[x].buckets = update_bucket_allocation(EmptyBuckets, e, Variants[e], t)
    BY <1>3 DEF create_system_generated_experiment_group
  <2>2. t \in Nat /\ Variants[e] * t <= NumBuckets
    BY <1>3, NumBucketsAssumption DEF CanCreateSystemGroup, TrafficPercentage
  <2>3. PICK a : a = groups'[x].buckets /\ a = update_bucket_allocation(EmptyBuckets, e, Variants[e], t)
    BY <2>1
  <2>4. /\ EmptyBuckets \in BucketsType /\ Share(EmptyBuckets, e, 0)
        /\ EnoughBuckets(EmptyBuckets, e, Variants[e], t)
    BY <2>2, EmptyShares
  <2>5. Allocated(a, EmptyBuckets, e, 0, t)
    BY <2>2, <2>3, <2>4, AllocationCount
  <2>6. Due(x, e)' = t /\ \A f \in ExpIds \ {e} : Due(x, f)' = 0
    BY <1>3, <2>1 DEF Due
  <2>7. ASSUME NEW f \in ExpIds \ {e}
        PROVE  Share(a, f, 0)
    <3>1. Share(EmptyBuckets, f, 0)
      BY EmptyShares
    <3>2. \A i \in 1 .. Variants[f] : VariantBuckets(a, f, i) = VariantBuckets(EmptyBuckets, f, i)
      BY <2>5 DEF Allocated
    <3>3. QED
      BY <3>1, <3>2, SameShare
  <2>8. QED
    BY <2>3, <2>5, <2>6, <2>7 DEF Exact, Allocated
<1>4. QED
  BY <1>1, <1>2, <1>3 DEF RowNew

\* Whichever it is.
LEMMA StepExact ==
  ASSUME IndInv, AllocationExact, NEW x \in GroupIds, IsGroup(x)', RowStep(x)
  PROVE  Exact(x)' /\ Sticky(x)
<1>1. IsGroup(x) => Exact(x)
  BY ExactForm
<1>2. CASE RowKept(x)
  BY <1>1, <1>2, KeptExact DEF RowKept
<1>3. CASE RowReleased(x)
  BY <1>1, <1>3, ReleasedExact DEF RowReleased
<1>4. CASE RowRamped(x)
  BY <1>1, <1>4, RampedExact DEF RowRamped
<1>5. CASE RowNew(x)
  BY <1>5, NewExact
<1>6. QED
  BY <1>2, <1>3, <1>4, <1>5 DEF RowStep

\* The owner of a system-generated group.
Owner(x, e) ==
  /\ groups[x].member_experiment_ids = {e}
  /\ Running(e)
  /\ groups[x].traffic_percentage = Variants[e] * experiments[e].traffic_percentage

\* A system-generated group that a request leaves or makes has one.
LEMMA StepOwned ==
  ASSUME SystemGroupOwned, NEW x \in GroupIds, IsGroup(x)', RowStep(x),
         groups'[x].group_type = "SYSTEM_GENERATED"
  PROVE  \E e \in ExpIds : Owner(x, e)'
<1>1. ASSUME IsGroup(x), groups[x].group_type = "SYSTEM_GENERATED"
      PROVE  \E e \in ExpIds : Owner(x, e)
  BY <1>1 DEF SystemGroupOwned, Owner
<1>2. CASE RowKept(x)
  <2>1. PICK e \in ExpIds : Owner(x, e)
    BY <1>1, <1>2 DEF RowKept
  <2>2. Owner(x, e)'
    BY <1>2, <2>1 DEF RowKept, Owner
  <2>3. QED
    BY <2>2
<1>3. CASE RowRamped(x)
  <2>1. PICK e \in ExpIds : Owner(x, e)
    BY <1>1, <1>3 DEF RowRamped
  <2>2. Owner(x, e)'
    BY <1>3, <2>1 DEF RowRamped, Owner
  <2>3. QED
    BY <2>2
<1>4. CASE RowNew(x)
  <2>1. PICK e \in ExpIds, t \in TrafficPercentage :
          /\ groups'[x] = create_system_generated_experiment_group(e, t)
          /\ experiments'[e].traffic_percentage = t
          /\ Running(e)'
    BY <1>4 DEF RowNew
  <2>2. Owner(x, e)'
    BY <2>1 DEF Owner, create_system_generated_experiment_group
  <2>3. QED
    BY <2>2
<1>5. QED
  BY <1>2, <1>3, <1>4 DEF RowStep, RowReleased

\* At the start there are no groups.
LEMMA InitAllocInv == Init => AllocInv
<1> SUFFICES ASSUME Init
             PROVE  AllocInv
  OBVIOUS
<1>1. \A x \in GroupIds : ~IsGroup(x)
  BY DEF Init, IsGroup
<1>2. CreatedIdle
  BY DEF Init, CreatedIdle, InDb, LegacyExperiments
<1>3. QED
  BY <1>1, <1>2, InitIndInv DEF AllocInv, AllocationExact, SystemGroupOwned

\* Every request keeps the allocation exact, and hands over no bucket.
LEMMA NextAllocInv ==
  ASSUME AllocInv, [Next]_vars
  PROVE  AllocInv' /\ \A x \in GroupIds : Sticky(x)
<1>1. IndInv' /\ CreatedIdle' /\ \A x \in GroupIds : IsGroup(x)' => RowStep(x)
  BY NextIndInv, NextRows DEF AllocInv
<1>2. \A x \in GroupIds : IsGroup(x)' => Exact(x)' /\ Sticky(x)
  BY <1>1, StepExact DEF AllocInv
<1>3. AllocationExact'
  BY <1>2, ExactFormPrime
<1>4. SystemGroupOwned'
  <2>1. \A x \in GroupIds : IsGroup(x)' /\ groups'[x].group_type = "SYSTEM_GENERATED" =>
          \E e \in ExpIds : Owner(x, e)'
    BY <1>1, StepOwned DEF AllocInv
  <2>2. QED
    BY <2>1 DEF SystemGroupOwned, Owner
<1>5. \A x \in GroupIds : ~IsGroup(x)' => Sticky(x)
  BY DEF Sticky, NoHandOver, KeepsBuckets
<1>6. QED
  BY <1>1, <1>2, <1>3, <1>4, <1>5 DEF AllocInv

\* AllocInv holds in every reachable state.
LEMMA AllocInvCorrect == Spec => []AllocInv
<1>1. AllocInv /\ [Next]_vars => AllocInv'
  BY NextAllocInv
<1>2. QED
  BY <1>1, InitAllocInv, PTL DEF Spec

-----------------------------------------------------------------------------

\* In its group every variant of an experiment has exactly as many buckets as the
\* experiment's traffic percentage says, and none elsewhere: update_bucket_allocation
\* never rounds a share away, after any history of requests that do not interleave.
THEOREM AllocationExactCorrect == Spec => []AllocationExact
<1>1. AllocInv => AllocationExact
  BY DEF AllocInv
<1>2. QED
  BY <1>1, AllocInvCorrect, PTL

\* A system-generated group has one member, running or paused, and all of its traffic.
THEOREM SystemGroupOwnedCorrect == Spec => []SystemGroupOwned
<1>1. AllocInv => SystemGroupOwned
  BY DEF AllocInv
<1>2. QED
  BY <1>1, AllocInvCorrect, PTL

\* Users keep their variant: no request hands a bucket of one variant to another, and
\* an experiment that stays in its group and is not ramped down loses none.
THEOREM StickyVariantsCorrect == Spec => StickyVariants
<1>1. AllocInv /\ [Next]_vars => [\A g \in GroupIds : NoHandOver(g) /\ \A e \in ExpIds : KeepsBuckets(g, e)]_vars
  BY NextAllocInv DEF Sticky
<1>2. QED
  BY <1>1, AllocInvCorrect, PTL DEF Spec, StickyVariants

-----------------------------------------------------------------------------
(* Which users are served a variant, for every number of buckets,          *)
(* experiments, variants and groups: what get_applicable_variants computes *)
(* from the two tables, given what the handlers keep true of them.         *)

\* The buckets of b that are taken are among the first m.
Packed(b, m) == \A k \in BucketIndices : k >= m => b[k] = NoBucket

\* A ramp up deals the buckets right behind those that are taken.
LEMMA PackedAllocation ==
  ASSUME NEW b \in BucketsType, NEW e \in ExpIds, NEW c \in Nat, NEW t \in Nat, Share(b, e, c),
         t >= c, Packed(b, Variants[e] * c)
  PROVE  Packed(update_bucket_allocation(b, e, Variants[e], t), Variants[e] * t)
<1> DEFINE n == Variants[e]
           a == update_bucket_allocation(b, e, n, t)
           current == Cardinality(ExperimentBuckets(b, e, n))
<1>1. n \in Nat \ {0} /\ current = n * c
  BY ExperimentCount, VariantsAssumption
<1>2. CASE t = c
  <2>1. t * n = current
    BY <1>1, <1>2
  <2>2. a = b
    BY <1>1, <2>1 DEF update_bucket_allocation
  <2>3. QED
    BY <1>2, <2>2
<1>3. CASE t > c
  <2>1. PICK p \in Nat : p = t - c
    BY <1>3
  <2>2. t * n - current = p * n /\ p * n > 0
    BY <1>1, <1>3, <2>1
  <2>3. t * n > current
    BY <1>1, <2>2
  <2>4. a = assign_additional_buckets(b, e, n, p * n)
    BY <1>1, <2>2, <2>3 DEF update_bucket_allocation
  <2>5. (p * n) \div n = p
    BY <1>1, ExactDivision
  <2>6. Dealt(a, b, e, p)
    BY <2>4, <2>5, AssignEffect
  <2>7. PICK lo \in Nat, hi \in Nat, q \in Nat : lo = n * c /\ hi = n * t /\ q = n * p /\ hi = lo + q
    BY <1>1, <2>1
  <2> HIDE DEF a
  <2>8. ASSUME NEW k \in BucketIndices, k >= hi
        PROVE  a[k] = NoBucket
    <3>1. k \in Nat /\ k >= lo /\ k < NumBuckets /\ NumBuckets \in Nat
      BY <2>7, <2>8, NumBucketsAssumption DEF BucketIndices
    <3>2. b[k] = NoBucket /\ k \in Unassigned(b)
      BY <2>7, <3>1 DEF Packed, Unassigned
    <3>3. EmptyRank(b, k) >= q /\ EmptyRank(b, k) \in Nat
      <4> DEFINE S == {j \in Unassigned(b) : j < k}
                 T == lo .. (k - 1)
      <4>1. IsFiniteSet(S) /\ Cardinality(S) \in Nat
        BY IndexSets DEF Unassigned
      <4>2. T \subseteq S
        <5>1. ASSUME NEW j \in T
              PROVE  j \in S
          <6>1. j \in Nat /\ j >= lo /\ j < k
            BY <3>1
          <6>2. j \in BucketIndices
            BY <3>1, <6>1 DEF BucketIndices
          <6>3. b[j] = NoBucket
            BY <2>7, <6>1, <6>2 DEF Packed
          <6>4. QED
            BY <6>1, <6>2, <6>3 DEF Unassigned
        <5>2. QED
          BY <5>1
      <4>3. Cardinality(T) = k - lo
        <5>1. lo \in Int /\ k - 1 \in Int
          BY <3>1
        <5>2. Cardinality(T) = IF lo > k - 1 THEN 0 ELSE (k - 1) - lo + 1
          BY <5>1, FS_Interval
        <5>3. QED
          BY <3>1, <5>2
      <4>4. Cardinality(T) <= Cardinality(S)
        BY <4>1, <4>2, FS_Subset
      <4>5. k - lo <= Cardinality(S)
        BY <4>3, <4>4
      <4>6. EmptyRank(b, k) = Cardinality(S)
        BY DEF EmptyRank
      <4> HIDE DEF S
      <4>7. QED
        BY <2>7, <2>8, <3>1, <4>1, <4>5, <4>6
    <3>4. ASSUME NEW i \in 1 .. n
          PROVE  a[k] # <<e, i>>
      <4>1. PICK r \in Nat : r = i * p /\ r <= q
        BY <1>1, <2>7, ShareBounds
      <4>2. ~(EmptyRank(b, k) < r)
        BY <3>3, <4>1
      <4>3. QED
        BY <2>6, <3>2, <4>1, <4>2 DEF Dealt
    <3>5. QED
      BY <2>6, <3>2, <3>4 DEF Dealt
  <2>9. QED
    BY <2>7, <2>8 DEF Packed, a
<1>4. QED
  BY <1>2, <1>3

-----------------------------------------------------------------------------

\* The buckets of a system-generated group lie in front as long as its experiment was
\* never ramped down.
FrontLoaded ==
  \A x \in GroupIds : (IsGroup(x) /\ groups[x].group_type = "SYSTEM_GENERATED") =>
    \A e \in groups[x].member_experiment_ids \ rampedDown :
      Packed(groups[x].buckets, Variants[e] * experiments[e].traffic_percentage)

\* The inductive invariant.
ServingInv == AllocInv /\ FrontLoaded

\* A request on a system-generated group.
LEMMA StepFrontLoaded ==
  ASSUME ServingInv, NEW x \in GroupIds, IsGroup(x)', RowStep(x),
         groups'[x].group_type = "SYSTEM_GENERATED",
         NEW e \in groups'[x].member_experiment_ids, e \notin rampedDown,
         InDb(e) => experiments'[e].traffic_percentage >= experiments[e].traffic_percentage
  PROVE  Packed(groups'[x].buckets, Variants[e] * experiments'[e].traffic_percentage)
<1>0. IndInv /\ SystemGroupOwned /\ AllocationExact
  BY DEF ServingInv, AllocInv
<1>1. CASE RowKept(x)
  <2>1. /\ IsGroup(x) /\ groups[x].group_type = "SYSTEM_GENERATED"
        /\ e \in groups[x].member_experiment_ids
        /\ groups'[x].buckets = groups[x].buckets
        /\ experiments'[e].traffic_percentage = experiments[e].traffic_percentage
    BY <1>1 DEF RowKept
  <2>2. Packed(groups[x].buckets, Variants[e] * experiments[e].traffic_percentage)
    BY <2>1 DEF ServingInv, FrontLoaded
  <2>3. QED
    BY <2>1, <2>2
<1>2. CASE RowRamped(x)
  <2>1. /\ IsGroup(x) /\ groups[x].group_type = "SYSTEM_GENERATED"
        /\ groups'[x].member_experiment_ids = groups[x].member_experiment_ids
    BY <1>2 DEF RowRamped
  <2>2. PICK o \in ExpIds : groups[x].member_experiment_ids = {o}
    BY <1>0, <2>1 DEF SystemGroupOwned
  <2>3. PICK t \in TrafficPercentage :
          /\ groups'[x].buckets = update_bucket_allocation(groups[x].buckets, e, Variants[e], t)
          /\ experiments'[e].traffic_percentage = t
    BY <1>2, <2>1, <2>2 DEF RowRamped
  <2>4. e \in ExpIds /\ InDb(e)
    BY <1>0, <2>1, OneGroup
  <2>5. Packed(groups[x].buckets, Variants[e] * experiments[e].traffic_percentage)
    BY <2>1 DEF ServingInv, FrontLoaded
  <2>6. PICK b \in BucketsType : b = groups[x].buckets
    BY <1>0, <2>1, GroupFacts
  <2>7. PICK c \in Nat : c = experiments[e].traffic_percentage /\ c = Due(x, e)
    BY <1>0, <2>1, <2>4, GroupFacts DEF Due
  <2>8. Share(b, e, c)
    BY <1>0, <2>1, <2>4, <2>6, <2>7, ExactForm DEF Exact
  <2>9. t \in Nat /\ t >= c
    BY <2>3, <2>4, <2>7, NumBucketsAssumption DEF TrafficPercentage
  <2>10. Packed(update_bucket_allocation(b, e, Variants[e], t), Variants[e] * t)
    BY <2>4, <2>5, <2>6, <2>7, <2>8, <2>9, PackedAllocation
  <2>11. QED
    BY <2>3, <2>6, <2>10
<1>3. CASE RowNew(x)
  <2>1. PICK o \in ExpIds, t \in TrafficPercentage :
          /\ groups'[x] = create_system_generated_experiment_group(o, t)
          /\ experiments'[o].traffic_percentage = t
    BY <1>3 DEF RowNew
  <2>2. o = e /\ groups'[x].buckets = update_bucket_allocation(EmptyBuckets, e, Variants[e], t)
    BY <2>1 DEF create_system_generated_experiment_group
  <2>3. Share(EmptyBuckets, e, 0) /\ EmptyBuckets \in BucketsType
    BY <2>2, EmptyShares
  <2>4. Packed(EmptyBuckets, Variants[e] * 0)
    BY DEF Packed, EmptyBuckets
  <2>5. t \in Nat
    BY NumBucketsAssumption DEF TrafficPercentage
  <2>6. Packed(update_bucket_allocation(EmptyBuckets, e, Variants[e], t), Variants[e] * t)
    BY <2>2, <2>3, <2>4, <2>5, PackedAllocation
  <2>7. QED
    BY <2>1, <2>2, <2>6
<1>4. QED
  BY <1>1, <1>2, <1>3 DEF RowStep, RowReleased

\* ServingInv holds at the start, where there are no groups.
LEMMA InitServingInv == ServingInit => ServingInv
  BY InitAllocInv DEF ServingInit, ServingInv, FrontLoaded, Init, IsGroup

\* Every request keeps ServingInv.
LEMMA NextServingInv == ServingInv /\ [ServingNext]_servingVars => ServingInv'
<1> SUFFICES ASSUME ServingInv, [ServingNext]_servingVars
             PROVE  ServingInv'
  OBVIOUS
<1>1. [Next]_vars
  BY DEF ServingNext, servingVars, vars
<1>2. AllocInv' /\ \A x \in GroupIds : IsGroup(x)' => RowStep(x)
  BY <1>1, NextAllocInv, NextRows DEF ServingInv, AllocInv
<1>3. ASSUME NEW x \in GroupIds, IsGroup(x)', groups'[x].group_type = "SYSTEM_GENERATED",
             NEW e \in groups'[x].member_experiment_ids \ rampedDown'
      PROVE  Packed(groups'[x].buckets, Variants[e] * experiments'[e].traffic_percentage)
  <2>1. e \in ExpIds
    <3>1. groups'[x] \in ExperimentGroup
      BY <1>2, <1>3 DEF AllocInv, IndInv, TypeOK, IsGroup
    <3>2. QED
      BY <1>3, <3>1 DEF ExperimentGroup
  <2>2. CASE ServingNext
    <3>1. e \notin rampedDown /\ e \notin RampedDownNow
      BY <1>3, <2>2 DEF ServingNext
    <3>2. InDb(e) => experiments'[e].traffic_percentage >= experiments[e].traffic_percentage
      <4>1. ASSUME InDb(e)
            PROVE  experiments'[e].traffic_percentage >= experiments[e].traffic_percentage
        <5>1. experiments[e].traffic_percentage \in Int
          BY <2>1, <4>1, NumBucketsAssumption
          DEF ServingInv, AllocInv, IndInv, TypeOK, InDb, Experiment, TrafficPercentage
        <5>2. experiments'[e].traffic_percentage \in Int
          <6>1. InDb(e)'
            BY <1>2, <1>3, <2>1 DEF AllocInv, IndInv, MembershipConsistent
          <6>2. experiments'[e] \in Experiment
            BY <1>2, <2>1, <6>1 DEF AllocInv, IndInv, TypeOK, InDb
          <6>3. QED
            BY <6>2, NumBucketsAssumption DEF Experiment, TrafficPercentage
        <5>3. ~(experiments'[e].traffic_percentage < experiments[e].traffic_percentage)
          BY <2>1, <3>1, <4>1 DEF RampedDownNow
        <5>4. QED
          BY <5>1, <5>2, <5>3
      <4>2. QED
        BY <4>1
    <3>3. QED
      BY <1>2, <1>3, <3>1, <3>2, StepFrontLoaded
  <2>3. CASE UNCHANGED servingVars
    <3>1. IsGroup(x) /\ groups' = groups /\ experiments' = experiments /\ rampedDown' = rampedDown
      BY <1>3, <2>3 DEF servingVars, IsGroup
    <3>2. QED
      BY <1>3, <3>1 DEF ServingInv, FrontLoaded
  <2>4. QED
    BY <2>2, <2>3
<1>4. FrontLoaded'
  BY <1>3 DEF FrontLoaded
<1>5. QED
  BY <1>2, <1>4 DEF ServingInv

\* Only the group that an experiment is in serves its variants.
LEMMA ServingGroup ==
  ASSUME AllocInv, NEW e \in ExpIds, NEW g \in GroupIds, Serving(g, Conditions, e)
  PROVE  IsGroup(g) /\ experiments[e].experiment_group_id = g
<1>1. PICK i \in 1 .. Variants[e], h \in BucketIndices : IsGroup(g) /\ groups[g].buckets[h] = <<e, i>>
  BY DEF Serving, ServedAt, Serves
<1>2. h \in VariantBuckets(groups[g].buckets, e, i)
  BY <1>1 DEF VariantBuckets
<1>3. VariantBuckets(groups[g].buckets, e, i) \in SUBSET BucketIndices
  BY DEF VariantBuckets
<1>4. Cardinality(VariantBuckets(groups[g].buckets, e, i)) # 0
  BY <1>2, <1>3, IndexSets, FS_EmptySet
<1>5. e \in groups[g].member_experiment_ids
  BY <1>1, <1>4 DEF AllocInv, AllocationExact
<1>6. QED
  BY <1>1, <1>5, OneGroup DEF AllocInv

\* In a system-generated group of an experiment that was never ramped down, every
\* bucket of its variants is reached by the group's traffic and the experiment's.
LEMMA AllServed ==
  ASSUME ServingInv, NEW e \in ExpIds \ rampedDown, InDb(e), NEW g \in GroupIds,
         experiments[e].experiment_group_id = g, experiments[e].status = "INPROGRESS",
         groups[g].group_type = "SYSTEM_GENERATED", NEW i \in 1 .. Variants[e]
  PROVE  ServedAt(g, Conditions, e, i) = VariantBuckets(groups[g].buckets, e, i)
<1>1. IsGroup(g) /\ e \in groups[g].member_experiment_ids
  BY DEF ServingInv, AllocInv, IndInv, MembershipConsistent
<1>2. groups[g].traffic_percentage = Variants[e] * experiments[e].traffic_percentage
  BY <1>1 DEF ServingInv, AllocInv, SystemGroupOwned
<1>3. Packed(groups[g].buckets, Variants[e] * experiments[e].traffic_percentage)
  BY <1>1 DEF ServingInv, FrontLoaded
<1>4. PICK t \in Nat, n \in Nat, m \in Nat :
        t = experiments[e].traffic_percentage /\ n = Variants[e] /\ m = n * t /\ m = t * n
  <2>1. experiments[e].traffic_percentage \in Nat /\ Variants[e] \in Nat
    BY NumBucketsAssumption, VariantsAssumption
    DEF ServingInv, AllocInv, IndInv, TypeOK, InDb, Experiment, TrafficPercentage
  <2>2. QED
    BY <2>1
<1>5. groups[g].context \subseteq Conditions /\ Context[e] \subseteq Conditions
  BY <1>1, GroupFacts, ContextAssumption DEF ServingInv, AllocInv, ExperimentGroup
<1>6. <<e, i>> # NoBucket /\ <<e, i>>[1] = e
  BY VariantIsABucket
<1>7. ASSUME NEW h \in BucketIndices, groups[g].buckets[h] = <<e, i>>
      PROVE  Serves(g, Conditions, h)
  <2>1. h \in Nat
    BY NumBucketsAssumption DEF BucketIndices
  <2>2. m >= h
    <3>1. Packed(groups[g].buckets, m)
      BY <1>3, <1>4
    <3>2. ~(h >= m)
      BY <1>6, <1>7, <3>1 DEF Packed
    <3>3. QED
      BY <1>4, <2>1, <3>2
  <2>3. BucketApplies(groups[g], Conditions, h)
    BY <1>2, <1>4, <1>5, <1>6, <1>7, <2>2 DEF BucketApplies, apply
  <2>4. experiments[e].traffic_percentage * Variants[e] >= Toss(groups[g], h)
    BY <1>4, <2>2 DEF Toss
  <2>5. e \in Loaded
    BY DEF Loaded
  <2>6. QED
    BY <1>1, <1>5, <1>6, <1>7, <2>3, <2>4, <2>5 DEF Serves, apply
<1>8. QED
  BY <1>7 DEF ServedAt, VariantBuckets

-----------------------------------------------------------------------------

\* ServingInv holds in every reachable state.
LEMMA ServingInvCorrect == ServingSpec => []ServingInv
  BY InitServingInv, NextServingInv, PTL DEF ServingSpec

\* No user is served two variants of one experiment: get_applicable_variants looks in
\* every group, and only one has buckets of the experiment.
THEOREM OneVariantPerUserCorrect == ServingSpec => []OneVariantPerUser
<1>1. ServingInv => OneVariantPerUser
  BY ServingGroup DEF ServingInv, OneVariantPerUser
<1>2. QED
  BY <1>1, ServingInvCorrect, PTL

\* Each variant of a running experiment in a system-generated group is served at exactly
\* its traffic percentage of the indices, unless the experiment was ramped down before.
THEOREM SystemGroupFairShareCorrect == ServingSpec => []SystemGroupFairShare
<1>1. ASSUME ServingInv
      PROVE  SystemGroupFairShare
  <2>1. SUFFICES ASSUME NEW e \in ExpIds \ rampedDown, InDb(e),
                        experiments[e].status = "INPROGRESS",
                        NEW g, g = experiments[e].experiment_group_id, g # None,
                        groups[g].group_type = "SYSTEM_GENERATED",
                        NEW i \in 1 .. Variants[e]
                 PROVE  Cardinality(ServedAt(g, Conditions, e, i)) = experiments[e].traffic_percentage
    BY DEF SystemGroupFairShare
  <2>2. g \in GroupIds
    BY <1>1, <2>1 DEF ServingInv, AllocInv, IndInv, TypeOK, InDb, Experiment
  <2>3. IsGroup(g) /\ e \in groups[g].member_experiment_ids
    BY <1>1, <2>1, <2>2 DEF ServingInv, AllocInv, IndInv, MembershipConsistent
  <2>4. ServedAt(g, Conditions, e, i) = VariantBuckets(groups[g].buckets, e, i)
    BY <1>1, <2>1, <2>2, AllServed
  <2>5. Cardinality(VariantBuckets(groups[g].buckets, e, i)) = experiments[e].traffic_percentage
    BY <1>1, <2>2, <2>3 DEF ServingInv, AllocInv, AllocationExact
  <2>6. QED
    BY <2>4, <2>5
<1>2. QED
  BY <1>1, ServingInvCorrect, PTL
=============================================================================
