-------------------------- MODULE ConfigResolution --------------------------
(***************************************************************************)
(* How a configuration is resolved: the contexts of a workspace in the     *)
(* order of their weights, the overrides of those that match a query, and  *)
(* their combination with the default configuration, by replacing or by    *)
(* merging values.  The workspace is built up by putting and deleting      *)
(* contexts; every reachable workspace is resolved for every query.        *)
(*                                                                         *)
(* A condition maps dimensions to values.  A query maps dimensions to sets *)
(* of values: the value of variantIds is a list, any other dimension has   *)
(* one value.  A value of a key is an atom or an object with fields.  The  *)
(* local cohorts of a query are evaluated first (CohortEvaluation has the  *)
(* steps; here is their result), by a filter as well as by a resolution.   *)
(***************************************************************************)
EXTENDS FiniteSets, Sequences, Integers

CONSTANTS Conditions,   \* the conditions of contexts
          VariantIds,
          Position,     \* dimension -> its position
          Base,         \* cohort, local or remote -> the dimension it is based on
          Schema,       \* local cohort -> value of its base -> cohort, if any is defined
          Otherwise,
          Queries,
          Keys,         \* the keys of the default configuration
          Atoms, Fields,
          Values,       \* key -> the values that overrides give to it
          Default       \* key -> value: the default configuration

Partial(S, T) == UNION {[N -> T] : N \in SUBSET S}

Objects == Partial(Fields, Atoms)

IsObject(v) == v \in Objects

ASSUME ResolutionAssumption ==
  /\ DOMAIN Default = Keys
  /\ \A k \in Keys : \A v \in Values[k] \cup {Default[k]} : v \in Atoms \/ IsObject(v)

\* The positions of the dimensions are 0, 1 and so on; conditions are functions on
\* dimensions.
ASSUME PositionAssumption ==
  /\ IsFiniteSet(DOMAIN Position)
  /\ Position \in [DOMAIN Position -> 0 .. Cardinality(DOMAIN Position) - 1]
  /\ \A condition \in Conditions :
       /\ DOMAIN condition \subseteq DOMAIN Position
       /\ condition = [d \in DOMAIN condition |-> condition[d]]

\* Local cohorts are cohorts, and nothing is based on one.
ASSUME CohortAssumption ==
  /\ DOMAIN Base \subseteq DOMAIN Position
  /\ DOMAIN Schema \subseteq DOMAIN Base
  /\ \A c \in DOMAIN Base : Base[c] \in DOMAIN Position \ DOMAIN Schema

VARIABLE contexts   \* the contexts, oldest first

Empty == [x \in {} |-> 0]

\* g, where f is not defined.
Over(f, g) == [x \in DOMAIN f \cup DOMAIN g |-> IF x \in DOMAIN f THEN f[x] ELSE g[x]]

\* The sum of 2^position over the dimensions of the condition: the number with
\* these binary digits, summed up from the highest position down.
calculate_context_weight(condition) ==
  LET top == Cardinality(DOMAIN Position)
      weight[n \in 0 .. top] ==
        IF n = 0 THEN 0
        ELSE 2 * weight[n - 1] + Cardinality({d \in DOMAIN condition : Position[d] = top - n})
  IN weight[top]

\* The elements of C at the indices in S, in the order that R puts these in.
Sorted(C, S, R) ==
  LET order == CHOOSE o \in [1 .. Cardinality(S) -> S] :
                 \A m, n \in DOMAIN o : m < n => <<o[m], o[n]>> \in R
  IN [n \in DOMAIN order |-> C[order[n]]]

Kept(C, S) == Sorted(C, S, {p \in S \X S : p[1] < p[2]})

\* Fault: contexts of equal weight, the newest first.
NewestFirst(C) ==
  LET w == [i \in DOMAIN C |-> calculate_context_weight(C[i].condition)]
  IN Sorted(C, DOMAIN C, {p \in (DOMAIN C) \X (DOMAIN C) :
                            w[p[1]] < w[p[2]] \/ (w[p[1]] = w[p[2]] /\ p[1] > p[2])})

\* The order of the contexts in a configuration: by weight, then by age.
ByWeight(C) ==
  LET w == [i \in DOMAIN C |-> calculate_context_weight(C[i].condition)]
  IN Sorted(C, DOMAIN C, {p \in (DOMAIN C) \X (DOMAIN C) :
                            w[p[1]] < w[p[2]] \/ (w[p[1]] = w[p[2]] /\ p[1] < p[2])})

\* The dimensions from which d is computed, directly or not: the least set that has
\* the base of d and, with a cohort, the base of that one.
Ancestors ==
  [d \in DOMAIN Position |->
     {a \in DOMAIN Position : \A S \in SUBSET DOMAIN Position :
        (\A x \in (S \cup {d}) \cap DOMAIN Base : Base[x] \in S) => a \in S}]

\* The walk from the topmost queried dimension gets to d.
Reached(d, q) ==
  /\ d \in DOMAIN q
  /\ \A a \in Ancestors[d] : a \notin DOMAIN q => Ancestors[a] \cap DOMAIN q = {}

evaluate_local_cohort_dimension(c, v) ==
  {IF v \in DOMAIN Schema[c] THEN Schema[c][v] ELSE Otherwise}

\* A local cohort follows its base.  It keeps a queried value only if nothing above
\* it is queried, and is "otherwise" if it was not reached.
evaluate_local_cohorts(q) ==
  [d \in {n \in DOMAIN q \ DOMAIN Schema : Reached(n, q)} \cup DOMAIN Schema |->
     IF d \notin DOMAIN Schema THEN q[d]
     ELSE IF Reached(Base[d], q) THEN evaluate_local_cohort_dimension(d, q[Base[d]])
     ELSE IF d \in DOMAIN q /\ Ancestors[d] \cap DOMAIN q = {} THEN q[d]
     ELSE {Otherwise}]

apply(condition, q) ==
  \A d \in DOMAIN condition : d \in DOMAIN q /\ condition[d] \in q[d]

\* Fault: the filter drops what the full match would drop.
StrictPartial(condition, q) == apply(condition, q)

partial_apply(condition, q) ==
  \A d \in DOMAIN condition : d \in DOMAIN q => condition[d] \in q[d]

\* Fields of the patch are added to the fields of the document.
merge(doc, patch) ==
  IF ~IsObject(patch) THEN patch
  ELSE Over(patch, IF IsObject(doc) THEN doc ELSE Empty)

\* All keys of the patch, on top of those of the document.
MergeKeys(doc, patch) ==
  [k \in DOMAIN doc \cup DOMAIN patch |->
     IF k \notin DOMAIN patch THEN doc[k]
     ELSE merge(IF k \in DOMAIN doc THEN doc[k] ELSE Empty, patch[k])]

Combine(doc, patch, strategy) ==
  IF strategy = "REPLACE" THEN Over(patch, doc) ELSE MergeKeys(doc, patch)

\* C is in the order of a configuration.
get_overrides(C, q, strategy) ==
  LET doc[n \in 0 .. Len(C)] ==
        IF n = 0 THEN Empty
        ELSE IF apply(C[n].condition, q) THEN Combine(doc[n - 1], C[n].override, strategy)
        ELSE doc[n - 1]
  IN doc[Len(C)]

\* Overrides of keys that are not in the default configuration are left out.
merge_overrides_on_default_config(D, overrides, strategy) ==
  [k \in DOMAIN D |->
     IF k \notin DOMAIN overrides THEN D[k]
     ELSE IF strategy = "REPLACE" THEN overrides[k] ELSE merge(D[k], overrides[k])]

\* The resolution of a query with evaluated cohorts.
Resolve(C, D, e, strategy) ==
  merge_overrides_on_default_config(D, get_overrides(C, e, strategy), strategy)

eval_cac(C, D, q, strategy) == Resolve(C, D, evaluate_local_cohorts(q), strategy)

filter_by_dimensions(C, q) ==
  LET e == evaluate_local_cohorts(q)
  IN Kept(C, {i \in DOMAIN C : partial_apply(C[i].condition, e)})

\* A context whose override has no key with a prefix is dropped.
filter_by_prefix(C, K) ==
  LET cut == [i \in DOMAIN C |-> [C[i] EXCEPT !.override = [k \in DOMAIN @ \cap K |-> @[k]]]]
  IN Kept(cut, {i \in DOMAIN C : DOMAIN cut[i].override # {}})

-----------------------------------------------------------------------------
(* The workspace *)

Index(condition) == {i \in DOMAIN contexts : contexts[i].condition = condition}

Init == contexts = << >>

\* A put on an existing condition merges the overrides.
PutContext(condition, override) ==
  contexts' = IF Index(condition) = {}
              THEN Append(contexts, [condition |-> condition, override |-> override])
              ELSE [i \in DOMAIN contexts |->
                      IF i \in Index(condition)
                      THEN [contexts[i] EXCEPT !.override = MergeKeys(@, override)]
                      ELSE contexts[i]]

DeleteContext(condition) ==
  /\ Index(condition) # {}
  /\ contexts' = Kept(contexts, DOMAIN contexts \ Index(condition))

Next ==
  \E condition \in Conditions :
    \/ \E k \in Keys : \E v \in Values[k] : PutContext(condition, [n \in {k} |-> v])
    \/ DeleteContext(condition)

Spec == Init /\ [][Next]_contexts

-----------------------------------------------------------------------------
(* Properties *)

\* The contexts that match e, a query with evaluated cohorts, and override k.
Matching(e, k) ==
  {i \in DOMAIN contexts : apply(contexts[i].condition, e) /\ k \in DOMAIN contexts[i].override}

Above(i, j) ==
  LET w(n) == calculate_context_weight(contexts[n].condition)
  IN w(i) > w(j) \/ (w(i) = w(j) /\ i > j)

Highest(S) == CHOOSE i \in S : \A j \in S \ {i} : Above(i, j)

\* A field comes from the highest context that sets it, above all contexts that
\* replaced the object by an atom.
FieldSources(e, k, f) ==
  {i \in Matching(e, k) :
     /\ IsObject(contexts[i].override[k])
     /\ f \in DOMAIN contexts[i].override[k]
     /\ \A j \in Matching(e, k) : Above(j, i) => IsObject(contexts[j].override[k])}

Resolved(e, k, strategy) ==
  LET value(i) == contexts[i].override[k]
      M        == Matching(e, k)
      old      == IF IsObject(Default[k]) THEN Default[k] ELSE Empty
      set      == {f \in Fields : FieldSources(e, k, f) # {}}
  IN IF M = {} THEN Default[k]
     ELSE IF strategy = "REPLACE" \/ ~IsObject(value(Highest(M))) THEN value(Highest(M))
     ELSE [f \in set \cup DOMAIN old |->
             IF f \in set THEN value(Highest(FieldSources(e, k, f)))[f] ELSE old[f]]

\* Folding the overrides in the order of the weights gives every key, and when
\* merging every field, the value of the highest context that has a say.
ResolvesByWeight ==
  \A q \in Queries, strategy \in {"REPLACE", "MERGE"} :
    eval_cac(ByWeight(contexts), Default, q, strategy)
      = [k \in Keys |-> Resolved(evaluate_local_cohorts(q), k, strategy)]

\* The known part of q has all that q says of the local cohorts in the conditions of
\* contexts, and of the dimensions that these are computed from.
Determines(known, q) ==
  \A i \in DOMAIN contexts : \A c \in DOMAIN contexts[i].condition \cap DOMAIN Schema :
    (Ancestors[c] \cup {c}) \cap DOMAIN q \subseteq known

\* A configuration that was filtered for a part of a query resolves the whole query
\* to the same values, if that part determines the local cohorts that matter as the
\* whole query does: the filter takes the others for "otherwise".  One that was
\* filtered for some of the keys gives the same values of those keys.
FilterCommutes ==
  \A q \in Queries, strategy \in {"REPLACE", "MERGE"} :
    LET C    == ByWeight(contexts)
        full == eval_cac(C, Default, q, strategy)
    IN /\ \A known \in SUBSET DOMAIN q : Determines(known, q) =>
            eval_cac(filter_by_dimensions(C, [d \in known |-> q[d]]), Default, q, strategy) = full
       /\ \A K \in SUBSET Keys :
            eval_cac(filter_by_prefix(C, K), [k \in K |-> Default[k]], q, strategy)
              = [k \in K |-> full[k]]
=============================================================================
