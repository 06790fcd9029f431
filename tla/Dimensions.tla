----------------------------- MODULE Dimensions -----------------------------
(***************************************************************************)
(* The dimensions of a workspace and the weights of its contexts: the      *)
(* checks and the writes.  A dimension has a position; the position of     *)
(* the reserved dimension variantIds is 0.  A cohort is a dimension        *)
(* computed from another one, its base, and every dimension keeps the      *)
(* graph of the cohorts that are computed from it, directly or not.  The   *)
(* weight of a context is calculated from the positions when the context   *)
(* is written and is not touched when positions change: an operator        *)
(* recomputes it.                                                          *)
(*                                                                         *)
(* The operators take the table they look at as their first parameter, so  *)
(* that DimensionRequests can evaluate a check on the rows a request read  *)
(* before its transaction.                                                 *)
(***************************************************************************)
EXTENDS FiniteSetsExt, Integers

CONSTANTS Names,        \* the names of the dimensions
          VariantIds,   \* the reserved one of them
          Conditions,   \* the conditions of contexts, as sets of dimensions
          None

ASSUME VariantIdsAssumption == VariantIds \in Names /\ None \notin Names
ASSUME ConditionsAssumption == Conditions \subseteq SUBSET Names

VARIABLES dimensions,   \* name -> row, for the dimensions that exist
          contexts      \* condition -> stored weight, for the contexts that exist

dimensionVars == <<dimensions, contexts>>

DimensionTypes == {"REGULAR", "REMOTE_COHORT", "LOCAL_COHORT"}

\* A graph maps a dimension to the cohorts based on it.
Graph == UNION {[N -> SUBSET Names] : N \in SUBSET Names}

EmptyGraph == [x \in {} |-> {}]

Dimension == [position : Nat, type : DimensionTypes, base : Names \cup {None}, graph : Graph]

-----------------------------------------------------------------------------
(* Validation *)

validate_dimension_position(n, p, max) == IF n = VariantIds THEN p = 0 ELSE p \in 1 .. max

does_dimension_exist_for_cohorting(D, b) == b \in DOMAIN D /\ D[b].type # "LOCAL_COHORT"

validate_cohort_position(p, base, create) ==
  IF create THEN p <= base.position ELSE p < base.position

ValidType(D, p, type, b, create) ==
  \/ type = "REGULAR"
  \/ /\ does_dimension_exist_for_cohorting(D, b)
     /\ validate_cohort_position(p, D[b], create)

validate_position_wrt_dependency(D, n, p) ==
  /\ n \in DOMAIN D
  /\ n \in DOMAIN D[n].graph =>
       \A c \in D[n].graph[n] : c \in DOMAIN D /\ D[c].position < p

\* A condition names existing dimensions, none of which can be derived from
\* another one of them.
validate_ctx(D, c) ==
  /\ c \subseteq DOMAIN D
  /\ \A d, e \in c : d # e => e \notin DOMAIN D[d].graph

\* Fault: the use by contexts is not looked at.
NoUsageCheck(C, n) == {}

get_dimension_usage_context_ids(C, n) == {c \in DOMAIN C : n \in c}

-----------------------------------------------------------------------------
(* The writes of the transactions, as new values of the table *)

\* Every position in from .. to moves by k.
Shift(D, from, to, k) ==
  [d \in DOMAIN D |-> IF D[d].position \in from .. to
                      THEN [D[d] EXCEPT !.position = @ + k] ELSE D[d]]

\* The shift of the code has no upper end when a row is inserted or removed.
Top(D) == Max({D[d].position : d \in DOMAIN D} \cup {0})

create_connections_with_dependents(D, b, n) ==
  [d \in DOMAIN D |->
     LET g == D[d].graph IN
     IF d = b \/ b \in DOMAIN g
     THEN [D[d] EXCEPT !.graph =
             [x \in DOMAIN g \cup {b, n} |->
                IF x = n THEN {}
                ELSE IF x = b THEN (IF b \in DOMAIN g THEN g[b] ELSE {}) \cup {n}
                ELSE g[x]]]
     ELSE D[d]]

\* Fault: the base keeps a graph with itself alone.
KeepEmptyBase(D, n, b) ==
  [d \in DOMAIN D |->
     LET g == D[d].graph IN
     IF b \in DOMAIN g
     THEN [D[d] EXCEPT !.graph =
             [x \in DOMAIN g \ {n} |-> IF x = b THEN g[b] \ {n} ELSE g[x]]]
     ELSE D[d]]

remove_connections_with_dependents(D, n, b) ==
  [d \in DOMAIN D |->
     LET g    == D[d].graph
         left == IF d = b /\ b \in DOMAIN g /\ g[b] \subseteq {n} THEN {b} ELSE {}
     IN IF d = b \/ b \in DOMAIN g
        THEN [D[d] EXCEPT !.graph =
                [x \in DOMAIN g \ ({n} \cup left) |-> IF x = b THEN g[b] \ {n} ELSE g[x]]]
        ELSE D[d]]

Inserted(D, n, p, type, b) ==
  LET shifted   == Shift(D, p, Top(D), 1)
      connected == IF type = "REGULAR" THEN shifted
                   ELSE create_connections_with_dependents(shifted, b, n)
  IN [d \in DOMAIN D \cup {n} |->
        IF d = n THEN [position |-> p, type |-> type, base |-> b, graph |-> EmptyGraph]
        ELSE connected[d]]

\* Fault: the two rows change places.
Swapped(D, n, old, p, rows) ==
  [d \in DOMAIN D |-> IF d = n THEN [D[d] EXCEPT !.position = p]
                      ELSE IF D[d].position = p THEN [D[d] EXCEPT !.position = old] ELSE D[d]]

\* old and rows, the number of rows, were read before the transaction.  The row
\* itself is parked above all others while the rows between old and p move.
Moved(D, n, old, p, rows) ==
  LET parked  == [D EXCEPT ![n].position = rows + 100]
      shifted == IF old < p THEN Shift(parked, old + 1, p, -1)
                 ELSE Shift(parked, p, old - 1, 1)
  IN [shifted EXCEPT ![n].position = p]

\* row is the row of n that was read before the transaction.
Removed(D, n, row) ==
  LET detached == IF row.type = "REGULAR" THEN D
                  ELSE remove_connections_with_dependents(D, n, row.base)
      rest     == [d \in DOMAIN D \ {n} |-> detached[d]]
  IN Shift(rest, row.position + 1, Top(rest), -1)

\* Fault: a weight that grows linearly with the positions.
LinearWeight(D, c) == MapThenSumSet(LAMBDA d : D[d].position + 1, c)

\* The sum of 2^position over the dimensions of the condition: the number with
\* these binary digits, summed up from the highest position down.
calculate_context_weight(D, c) ==
  LET top == Top(D) + 1
      weight[n \in 0 .. top] ==
        IF n = 0 THEN 0
        ELSE 2 * weight[n - 1] + Cardinality({d \in c : D[d].position = top - n})
  IN weight[top]

-----------------------------------------------------------------------------
(* The operations *)

\* A workspace starts with the row of variantIds.
Init ==
  /\ dimensions = [d \in {VariantIds} |->
                     [position |-> 0, type |-> "REGULAR", base |-> None, graph |-> EmptyGraph]]
  /\ contexts = [c \in {} |-> 0]

CanCreate(D, n, p, type, b) ==
  /\ validate_dimension_position(n, p, Cardinality(DOMAIN D))
  /\ ValidType(D, p, type, b, TRUE)

\* The checks of an update that are made before its transaction ...
CanUpdate(D, n, p) ==
  /\ n \in DOMAIN D
  /\ ValidType(D, p, D[n].type, D[n].base, FALSE)

\* ... and those made in it, with the number of rows that was read before.
CanMove(D, n, p, rows) ==
  /\ validate_dimension_position(n, p, rows - 1)
  /\ validate_position_wrt_dependency(D, n, p)

\* The name variantIds is refused when the request is parsed.
CanDelete(D, C, n) ==
  /\ n # VariantIds
  /\ n \in DOMAIN D
  /\ get_dimension_usage_context_ids(C, n) = {}
  /\ D[n].graph = EmptyGraph

\* A put on an existing condition changes its override only, not its weight.
PutContext(c) ==
  /\ validate_ctx(dimensions, c)
  /\ contexts' = [x \in DOMAIN contexts \cup {c} |->
                    IF x \in DOMAIN contexts THEN contexts[x]
                    ELSE calculate_context_weight(dimensions, x)]
  /\ UNCHANGED dimensions

DeleteContext(c) ==
  /\ c \in DOMAIN contexts
  /\ contexts' = [x \in DOMAIN contexts \ {c} |-> contexts[x]]
  /\ UNCHANGED dimensions

\* Every row that was read gets its new weight; W maps the rows read to it.
Reweighed(C, W) == [c \in DOMAIN C |-> IF c \in DOMAIN W THEN W[c] ELSE C[c]]

NewWeights(D, C) == [c \in DOMAIN C |-> calculate_context_weight(D, c)]

CanRecompute(D, C) == \A c \in DOMAIN C : c \subseteq DOMAIN D

-----------------------------------------------------------------------------
(* Properties *)

Children(d) == {c \in DOMAIN dimensions : dimensions[c].type # "REGULAR" /\ dimensions[c].base = d}

\* The graph stored with a dimension is the tree of the cohorts below it: it has
\* no node that is not computed from the dimension, misses none, and is empty
\* when nothing is based on the dimension (deletion relies on the last part).
GraphExact ==
  \A d \in DOMAIN dimensions :
    LET g == dimensions[d].graph IN
    /\ DOMAIN g = {} <=> Children(d) = {}
    /\ DOMAIN g # {} => d \in DOMAIN g
    /\ \A x \in DOMAIN g : g[x] = Children(x) /\ Children(x) \subseteq DOMAIN g
    /\ \A x \in DOMAIN g \ {d} :
         /\ x \in DOMAIN dimensions
         /\ dimensions[x].type # "REGULAR"
         /\ dimensions[x].base \in DOMAIN g

\* No context names a dimension that is gone (its weight could not be calculated
\* and every later recompute would fail), or a cohort together with a dimension
\* from which it is computed, however the graphs were built up.
ContextsWellFormed ==
  \A c \in DOMAIN contexts : c \subseteq DOMAIN dimensions /\ \A d \in c : Children(d) \cap c = {}

\* c1 decides over c2 at the highest position that only one of them names.
Outranks(c1, c2) ==
  LET differ == (c1 \cup c2) \ (c1 \cap c2)
  IN \E d \in c1 \cap differ : \A e \in differ : dimensions[e].position <= dimensions[d].position
=============================================================================
