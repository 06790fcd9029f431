-------------------------- MODULE CohortEvaluation --------------------------
(***************************************************************************)
(* How the dimensions of a query are completed before a configuration is   *)
(* resolved.  The values of remote cohorts are computed by functions on    *)
(* the server if the request asks for it, then the local cohorts are       *)
(* evaluated.  Both walk the trees of cohorts depth first, from the        *)
(* queried dimensions that are closest to the roots.  A behaviour is one   *)
(* query on one forest of dimensions.  Hash maps give the starting points  *)
(* and the children in no particular order.                                *)
(***************************************************************************)
EXTENDS FiniteSetsExt, SequencesExt, Integers, TLC

CONSTANTS Count,         \* the number of dimensions
          Values,        \* the values of dimensions
          Sent,          \* dimension -> the values that clients send for it
          Otherwise,     \* the value of a local cohort that no definition matches
          Enum,          \* the cohorts of a local cohort dimension, in order
          Definitions    \* cohort -> the values of the base that belong to it

Dims == 1 .. Count

VARIABLES type,       \* dimension -> its type
          base,       \* dimension -> the one it is computed from (0 if REGULAR)
          resolve_remote,
          given,      \* the query as it was sent, dimension -> value
          query,      \* the query that is being completed
          phase, todo, starts,
          modified,   \* modified_context
          calls       \* remote cohort -> what its function was given and what it returned

evaluationVars == <<type, base, resolve_remote, given, query, phase, todo, starts, modified, calls>>

Partial(S, T) == UNION {[N -> T] : N \in SUBSET S}

\* The children of d in the dependency graphs (see GraphExact in Dimensions).
Children(d) == {c \in Dims : base[c] = d}

Assign(f, d, v) == [x \in DOMAIN f \cup {d} |-> IF x = d THEN v ELSE f[x]]

Nothing == [x \in {} |-> Otherwise]

\* The first matching definition.
evaluate_local_cohort_dimension(v) ==
  LET matching == SelectSeq(Enum, LAMBDA o : v \in Definitions[o])
  IN IF matching = << >> THEN Otherwise ELSE Head(matching)

Roots == {d \in Dims : type[d] = "REGULAR"}

\* Dimensions are numbered such that a base comes before its cohorts.
Init ==
  /\ type \in [Dims -> {"REGULAR", "REMOTE_COHORT", "LOCAL_COHORT"}]
  /\ base \in [Dims -> 0 .. Count - 1]
  /\ \A d \in Dims : IF type[d] = "REGULAR" THEN base[d] = 0
                     ELSE base[d] \in 1 .. d - 1 /\ type[base[d]] # "LOCAL_COHORT"
  /\ given \in Partial(Dims, Values)
  /\ \A d \in DOMAIN given : given[d] \in Sent[d]
  /\ query = given
  /\ resolve_remote \in BOOLEAN
  /\ phase = IF resolve_remote THEN "remote starts" ELSE "local starts"
  /\ todo = Roots
  /\ starts = {}
  /\ modified = Nothing
  /\ calls = Nothing

\* Fault: a dimension without a value stays on the stack.
FindStartAgain ==
  /\ phase \in {"remote starts", "local starts"}
  /\ \E d \in todo :
       IF d \in DOMAIN query \/ type[d] = "LOCAL_COHORT"
       THEN starts' = starts \cup {d} /\ todo' = todo \ {d}
       ELSE todo' = todo \cup Children(d) /\ UNCHANGED starts
  /\ UNCHANGED <<type, base, resolve_remote, given, query, phase, modified, calls>>

\* One round of dimensions_to_start_from.
FindStart ==
  /\ phase \in {"remote starts", "local starts"}
  /\ \E d \in todo :
       IF d \in DOMAIN query \/ type[d] = "LOCAL_COHORT"
       THEN starts' = starts \cup {d} /\ todo' = todo \ {d}
       ELSE todo' = (todo \ {d}) \cup Children(d) /\ UNCHANGED starts
  /\ UNCHANGED <<type, base, resolve_remote, given, query, phase, modified, calls>>

StartsFound ==
  /\ todo = {}
  /\ \/ phase = "remote starts" /\ phase' = "remote"
     \/ phase = "local starts" /\ phase' = "local"
  /\ UNCHANGED <<type, base, resolve_remote, given, query, todo, starts, modified, calls>>

\* The starts that a phase walks from.
CanStart(d) == d \in DOMAIN query /\ (phase = "remote" => type[d] # "LOCAL_COHORT")

Start ==
  /\ phase \in {"remote", "local"}
  /\ todo = {}
  /\ \E d \in starts :
       /\ starts' = starts \ {d}
       /\ IF CanStart(d) THEN modified' = Assign(modified, d, query[d]) /\ todo' = Children(d)
          ELSE UNCHANGED <<modified, todo>>
  /\ UNCHANGED <<type, base, resolve_remote, given, query, phase, calls>>

\* compute_value_with_function: the function of d is given all that was assigned so
\* far, and returns some value.
ComputeValue(d) ==
  \E v \in Values :
    /\ modified' = Assign(modified, d, v)
    /\ calls' = Assign(calls, d, [context |-> modified, returned |-> v])

\* Fault: cohorts of remote cohorts are not computed.
RemoteStepOnce ==
  /\ phase = "remote"
  /\ \E d \in todo :
       /\ todo' = todo \ {d}
       /\ IF type[d] = "LOCAL_COHORT" THEN UNCHANGED <<modified, calls>> ELSE ComputeValue(d)
  /\ UNCHANGED <<type, base, resolve_remote, given, query, phase, starts>>

\* One round of evaluate_remote_cohorts_dependency.
RemoteStep ==
  /\ phase = "remote"
  /\ \E d \in todo :
       IF type[d] = "LOCAL_COHORT"
       THEN todo' = todo \ {d} /\ UNCHANGED <<modified, calls>>
       ELSE ComputeValue(d) /\ todo' = (todo \ {d}) \cup Children(d)
  /\ UNCHANGED <<type, base, resolve_remote, given, query, phase, starts>>

\* There is no function, it has not been published, or it fails: so does the request.
RemoteFails ==
  /\ phase = "remote"
  /\ \E d \in todo : type[d] # "LOCAL_COHORT"
  /\ phase' = "failed"
  /\ UNCHANGED <<type, base, resolve_remote, given, query, todo, starts, modified, calls>>

\* The local cohorts of the query are kept, and the result is the query of the next phase.
RemoteEnd ==
  /\ phase = "remote" /\ todo = {} /\ starts = {}
  /\ query' = [d \in DOMAIN modified \cup {l \in DOMAIN query : type[l] = "LOCAL_COHORT"} |->
                 IF type[d] = "LOCAL_COHORT" THEN query[d] ELSE modified[d]]
  /\ modified' = Nothing
  /\ todo' = Roots
  /\ phase' = "local starts"
  /\ UNCHANGED <<type, base, resolve_remote, given, starts, calls>>

\* A branch is followed as long as there is a value to compute from.
HasValue(d) == type[d] = "LOCAL_COHORT" \/ d \in DOMAIN query

\* One round of evaluate_local_cohorts_dependency.
LocalStep ==
  /\ phase = "local"
  /\ \E d \in todo :
       IF HasValue(d)
       THEN /\ modified' = Assign(modified, d,
                             IF type[d] = "LOCAL_COHORT"
                             THEN evaluate_local_cohort_dimension(modified[base[d]])
                             ELSE query[d])
            /\ todo' = (todo \ {d}) \cup Children(d)
       ELSE todo' = todo \ {d} /\ UNCHANGED modified
  /\ UNCHANGED <<type, base, resolve_remote, given, query, phase, starts, calls>>

\* Fault: local cohorts that were not reached get no value.
LocalEndBare ==
  /\ phase = "local" /\ todo = {} /\ starts = {}
  /\ phase' = "done"
  /\ UNCHANGED <<type, base, resolve_remote, given, query, todo, starts, modified, calls>>

LocalEnd ==
  /\ phase = "local" /\ todo = {} /\ starts = {}
  /\ modified' = [d \in DOMAIN modified \cup {l \in Dims : type[l] = "LOCAL_COHORT"} |->
                    IF d \in DOMAIN modified THEN modified[d] ELSE Otherwise]
  /\ phase' = "done"
  /\ UNCHANGED <<type, base, resolve_remote, given, query, todo, starts, calls>>

Next ==
  \/ FindStart
  \/ StartsFound
  \/ Start
  \/ RemoteStep
  \/ RemoteFails
  \/ RemoteEnd
  \/ LocalStep
  \/ LocalEnd
  \/ phase \in {"done", "failed"} /\ UNCHANGED evaluationVars

Spec == Init /\ [][Next]_evaluationVars /\ WF_evaluationVars(Next)

-----------------------------------------------------------------------------
(* Properties *)

\* The dimensions from which d is computed, directly or not: the least set that has
\* the base of d and, with a dimension, the base of that one.
Ancestors(d) ==
  {a \in Dims : \A S \in SUBSET Dims :
     (\A x \in S \cup {d} : base[x] # 0 => base[x] \in S) => a \in S}

\* Between d and its topmost queried ancestor every dimension has a queried value.
Connected(d) == \A a \in Ancestors(d) : a \notin DOMAIN query => Ancestors(a) \cap DOMAIN query = {}

LocalCohorts == {d \in Dims : type[d] = "LOCAL_COHORT"}

Expected(d) ==
  IF type[d] # "LOCAL_COHORT" THEN query[d]
  ELSE IF base[d] \in DOMAIN query THEN evaluate_local_cohort_dimension(query[base[d]])
  ELSE IF d \in DOMAIN query THEN query[d]
  ELSE Otherwise

\* The traversal computes what a definition without starting points, stacks and
\* order says, where every dimension between has a queried value: a regular dimension
\* or remote cohort keeps its value and a local cohort follows its base.  A local
\* cohort has a value in any case, and nothing appears that was not queried.
EvaluationExact ==
  phase = "done" =>
    /\ LocalCohorts \subseteq DOMAIN modified
    /\ DOMAIN modified \subseteq LocalCohorts \cup DOMAIN query
    /\ \A d \in LocalCohorts \cup DOMAIN query :
         Connected(d) => d \in DOMAIN modified /\ modified[d] = Expected(d)

\* With resolve_remote the result never contradicts itself or the query, whatever the
\* functions return and in whichever order they are called: the regular dimensions
\* keep their values, and below a queried dimension every local cohort has the value
\* that its base determines and every remote cohort the one that its function returned
\* for a context that had the base, and nothing that was to change afterwards.
RemoteResolved ==
  phase = "done" /\ resolve_remote =>
    /\ \A d \in DOMAIN given : type[d] = "REGULAR" => d \in DOMAIN modified /\ modified[d] = given[d]
    /\ \A d \in Dims : Ancestors(d) \cap DOMAIN given # {} =>
         /\ {d, base[d]} \subseteq DOMAIN modified
         /\ IF type[d] = "LOCAL_COHORT"
            THEN modified[d] = evaluate_local_cohort_dimension(modified[base[d]])
            ELSE /\ d \in DOMAIN calls /\ modified[d] = calls[d].returned
                 /\ base[d] \in DOMAIN calls[d].context
                 /\ \A x \in DOMAIN calls[d].context :
                      x \in DOMAIN modified /\ calls[d].context[x] = modified[x]

\* A query is completed or refused: neither walk goes round in circles.
Completes == <>(phase \in {"done", "failed"})
=============================================================================
