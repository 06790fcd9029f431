--------------------------- MODULE VariantServing ---------------------------
(***************************************************************************)
(* Which variant a user is served, as the server and the clients compute   *)
(* it from the two tables (get_applicable_variants): the user's identifier *)
(* is hashed with the group id to a bucket index, and the bucket found     *)
(* there names the variant if the group's and the experiment's traffic     *)
(* reach that far.  A user is modelled by the index h that the hash gives  *)
(* for a group; the hash may give any index for any group.                 *)
(***************************************************************************)
EXTENDS ExperimentGroups

VARIABLE rampedDown   \* history: the experiments that were ever ramped down

servingVars == <<experiments, groups, rampedDown>>

ServingInit == Init /\ rampedDown = {}

RampedDownNow ==
  {e \in ExpIds : InDb(e) /\ experiments'[e].traffic_percentage < experiments[e].traffic_percentage}

ServingNext == Next /\ rampedDown' = rampedDown \cup RampedDownNow

ServingSpec == ServingInit /\ [][ServingNext]_servingVars

\* superposition_types::apply for conditions without variantIds.
apply(context, query) == context \subseteq query

\* get_applicable_buckets_from_group, for one group: is the bucket taken, and
\* at which toss.
BucketApplies(row, query, h) ==
  /\ apply(row.context, query)
  /\ row.traffic_percentage >= h
  /\ row.buckets[h] # NoBucket
  /\ row.group_type = "SYSTEM_GENERATED" \/ row.traffic_percentage > 0

Toss(row, h) ==
  IF row.group_type = "SYSTEM_GENERATED" THEN h ELSE (h * NumBuckets) \div row.traffic_percentage

\* The experiments that get_applicable_variants_helper loads.
Loaded == {e \in ExpIds : InDb(e) /\ experiments[e].status = "INPROGRESS"}

\* Fault: the traffic of one variant is taken for that of the experiment.
ServesOneVariantsTraffic(g, query, h) ==
  /\ IsGroup(g)
  /\ BucketApplies(groups[g], query, h)
  /\ LET e == groups[g].buckets[h][1]
     IN  /\ e \in Loaded
         /\ apply(Context[e], query)
         /\ experiments[e].traffic_percentage >= Toss(groups[g], h)

\* get_applicable_variants_from_group_response.
Serves(g, query, h) ==
  /\ IsGroup(g)
  /\ BucketApplies(groups[g], query, h)
  /\ LET e == groups[g].buckets[h][1]
     IN  /\ e \in Loaded
         /\ apply(Context[e], query)
         /\ experiments[e].traffic_percentage * Variants[e] >= Toss(groups[g], h)

\* The indices at which group g serves the i-th variant of e.
ServedAt(g, query, e, i) ==
  {h \in BucketIndices : Serves(g, query, h) /\ groups[g].buckets[h] = <<e, i>>}

Serving(g, query, e) == \E i \in 1 .. Variants[e] : ServedAt(g, query, e, i) # {}

-----------------------------------------------------------------------------
(***************************************************************************)
(* No user is served two variants of one experiment: an identifier has one *)
(* index per group, and only one group ever serves an experiment.          *)
(***************************************************************************)
OneVariantPerUser ==
  \A e \in ExpIds, g1, g2 \in GroupIds :
    (Serving(g1, Conditions, e) /\ Serving(g2, Conditions, e)) => g1 = g2

(***************************************************************************)
(* docs/docs/basic-concepts/experimentation.md, "Experiment's Traffic      *)
(* Percentage": each variant of a running experiment receives the traffic  *)
(* percentage.  It does so, on requests that match every context, in a     *)
(* system-generated group as long as the experiment was never ramped down: *)
(* a ramp down lowers the group's traffic but leaves the later variants'   *)
(* buckets where they are.                                                 *)
(***************************************************************************)
SystemGroupFairShare ==
  \A e \in ExpIds \ rampedDown : InDb(e) => LET g == experiments[e].experiment_group_id IN
    (/\ experiments[e].status = "INPROGRESS"
     /\ g # None
     /\ groups[g].group_type = "SYSTEM_GENERATED")
    => \A i \in 1 .. Variants[e] :
         Cardinality(ServedAt(g, Conditions, e, i)) = experiments[e].traffic_percentage
=============================================================================
