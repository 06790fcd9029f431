--------------------------- MODULE MCConfigReduce ---------------------------
(* ConfigReduce with two dimensions, a variant and two keys. *)
EXTENDS ConfigReduce, TLC

CONSTANTS A, B, x, y, k1, k2

\* No cohorts.
MCBase == [d \in {} |-> A]

MCPosition == VariantIds :> 0 @@ A :> 1 @@ B :> 2

\* A context, one that is more specific, and one of an experiment.
MCConditions == {A :> 1, A :> 1 @@ B :> 1, A :> 1 @@ VariantIds :> 1}

MCValues == k1 :> {x, y} @@ k2 :> {y}

MCDefault == [k \in Keys |-> x]

\* Without A no context matches.
MCQueries == {[d \in N \cup {A} |-> {1}] : N \in SUBSET {VariantIds, B}}
=============================================================================
