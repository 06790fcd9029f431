------------------------------ MODULE Buckets ------------------------------
(***************************************************************************)
(* The bucket array of an experiment group and the function that gives     *)
(* and takes buckets: update_bucket_allocation of                          *)
(* experiment_groups/helpers.rs.  The array has 100 entries in the code,   *)
(* and a traffic percentage is a number of buckets per variant, so that    *)
(* NumBuckets stands for both "100"s.                                      *)
(*                                                                         *)
(* A variant's id is "<experiment id>-<name>" in the code; here it is the  *)
(* pair <<e, i>>, the i-th variant of experiment e.  A Bucket carries the  *)
(* experiment's id and the variant's id, and the pair is both.             *)
(***************************************************************************)
EXTENDS Integers, FiniteSets

CONSTANTS NumBuckets,   \* length of Buckets, and the whole of the traffic
          NoBucket      \* the None of Option<Bucket>

ASSUME NumBucketsAssumption == NumBuckets \in Nat \ {0}

BucketIndices == 0 .. (NumBuckets - 1)

EmptyBuckets == [k \in BucketIndices |-> NoBucket]

-----------------------------------------------------------------------------

Unassigned(b) == {k \in BucketIndices : b[k] = NoBucket}

\* The buckets of one variant, and of all n variants of an experiment.
VariantBuckets(b, e, i) == {k \in BucketIndices : b[k] = <<e, i>>}

ExperimentBuckets(b, e, n) == {k \in BucketIndices : b[k] \in {<<e, i>> : i \in 1 .. n}}

\* Fault: variants numbered from zero.
assign_zero_based(b, e, n, additional_needed) ==
  LET perVariant == additional_needed \div n
      rank(k)    == Cardinality({j \in Unassigned(b) : j < k})
  IN  [k \in BucketIndices |->
         IF b[k] = NoBucket /\ rank(k) < n * perVariant
         THEN <<e, rank(k) \div perVariant>>
         ELSE b[k]]

(***************************************************************************)
(* The empty buckets are dealt out from the front: the first variant takes *)
(* the first additional_needed \div n of them, the next variant the next   *)
(* ones.  A remainder of the division is not assigned.                     *)
(***************************************************************************)
assign_additional_buckets(b, e, n, additional_needed) ==
  LET perVariant == additional_needed \div n
      rank(k)    == Cardinality({j \in Unassigned(b) : j < k})
      takes(k, i) == /\ b[k] = NoBucket
                     /\ (i - 1) * perVariant <= rank(k)
                     /\ rank(k) < i * perVariant
  IN  [k \in BucketIndices |->
         IF \E i \in 1 .. n : takes(k, i)
         THEN <<e, CHOOSE i \in 1 .. n : takes(k, i)>>
         ELSE b[k]]

\* Fault: the last buckets of the experiment, whichever variant has them.
unassign_last_buckets(b, e, n, excess_count) ==
  [k \in BucketIndices |->
     IF /\ k \in ExperimentBuckets(b, e, n)
        /\ Cardinality({j \in ExperimentBuckets(b, e, n) : j > k}) < excess_count
     THEN NoBucket ELSE b[k]]

(***************************************************************************)
(* Every variant gives back its last excess_count \div n buckets.          *)
(***************************************************************************)
unassign_excess_buckets(b, e, n, excess_count) ==
  LET perVariant   == excess_count \div n
      later(k, i) == {j \in VariantBuckets(b, e, i) : j > k}
      freed(k)    == \E i \in 1 .. n : /\ b[k] = <<e, i>>
                                       /\ Cardinality(later(k, i)) < perVariant
  IN  [k \in BucketIndices |-> IF freed(k) THEN NoBucket ELSE b[k]]

\* The error return of assign_additional_buckets: too few empty buckets.
EnoughBuckets(b, e, n, traffic) ==
  traffic * n - Cardinality(ExperimentBuckets(b, e, n)) <= Cardinality(Unassigned(b))

\* Fault: every allocation starts from scratch.
reallocate_buckets(b, e, n, traffic) ==
  assign_additional_buckets(
    [k \in BucketIndices |-> IF k \in ExperimentBuckets(b, e, n) THEN NoBucket ELSE b[k]],
    e, n, traffic * n)

\* Experiment e with n variants gets traffic buckets for each of them.
update_bucket_allocation(b, e, n, traffic) ==
  LET required == traffic * n
      current  == Cardinality(ExperimentBuckets(b, e, n))
  IN  CASE required > current -> assign_additional_buckets(b, e, n, required - current)
        [] required < current -> unassign_excess_buckets(b, e, n, current - required)
        [] OTHER              -> b
=============================================================================
