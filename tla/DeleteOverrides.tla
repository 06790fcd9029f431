-------------------------- MODULE DeleteOverrides ---------------------------
(***************************************************************************)
(* Experiments of type DELETE_OVERRIDES.  They try out the removal of      *)
(* overrides from an existing context: the control variant repeats values  *)
(* of the context, every other variant gives some of its keys the values   *)
(* they would have without it.  The variants are checked against CAC when  *)
(* the experiment is created, updated and ramped; a conclusion removes the *)
(* keys of the winner from the context.  Meanwhile users go on editing the *)
(* context and what lies below it.                                         *)
(*                                                                         *)
(* An override maps keys to values.  Requests carry the dimensions of the  *)
(* experiment's context and no others.                                     *)
(***************************************************************************)
EXTENDS Naturals, Sequences, FiniteSets

CONSTANTS Keys, Values,
          NumVariants,     \* the control variant is the first
          Offered,         \* the variants that clients send
          None

ASSUME VariantsAssumption == NumVariants \in Nat \ {0, 1}

VARIABLES base,         \* the override of the context; empty if it does not exist
          outer,        \* the values without the context
          cac,          \* the overrides of the variants' contexts, or None
          experiment,   \* the row: its status and variants, or None
          request,      \* the request in progress, or None
          edited,       \* history: a user edited CAC since the last validation
          apart         \* history: an update failed after CAC took its variants, and
                        \* none has been committed since

vars == <<base, outer, cac, experiment, request, edited, apart>>

Partial(S, T) == UNION {[N -> T] : N \in SUBSET S}

Overrides == {o \in Partial(Keys, Values) : DOMAIN o # {}}

Variants == [1..NumVariants -> Overrides]

ASSUME OfferedAssumption == Offered \subseteq Variants

Request ==
  [kind : {"create", "update", "ramp", "conclude", "discard"},
   phase : {"context", "resolve", "bulk", "commit"},
   variants : Variants \cup {None}, winner : (1..NumVariants) \cup {None},
   context : Overrides \cup {None}, edited : BOOLEAN]

\* None is neither a request nor data of one.
ASSUME SentinelAssumption == None \notin Request \cup Variants \cup Overrides

Without(o, S) == [k \in DOMAIN o \ S |-> o[k]]

-----------------------------------------------------------------------------
(* Validation *)

validate_keys_from_source(o, source) ==
  \A k \in DOMAIN o : k \in DOMAIN source /\ source[k] = o[k]

validate_variants_delete_keys(variants, keys) ==
  LET delete_keys == UNION {DOMAIN variants[i] : i \in 2..NumVariants}
  IN /\ delete_keys \subseteq keys
     /\ delete_keys \subseteq DOMAIN variants[1]
     /\ Cardinality(delete_keys) = Cardinality(DOMAIN variants[1])

\* Fault: the values of the variants that delete are not compared.
OnlyControlCompared(variants, context, resolved) ==
  /\ validate_variants_delete_keys(variants, DOMAIN context)
  /\ validate_keys_from_source(variants[1], context)

validate_delete_experiment_variants(variants, context, resolved) ==
  /\ validate_variants_delete_keys(variants, DOMAIN context)
  /\ \A i \in 2..NumVariants : validate_keys_from_source(variants[i], resolved)
  /\ validate_keys_from_source(variants[1], context)

-----------------------------------------------------------------------------
(* Requests *)

Init ==
  /\ base \in Overrides
  /\ outer \in [Keys -> Values]
  /\ cac = None
  /\ experiment = None
  /\ request = None
  /\ edited = FALSE
  /\ apart = FALSE

Begin(kind, phase, variants, winner) ==
  /\ request = None
  /\ request' = [kind |-> kind, phase |-> phase, variants |-> variants, winner |-> winner,
                 context |-> None, edited |-> FALSE]
  /\ UNCHANGED <<base, outer, cac, experiment, edited, apart>>

HasStatus(S) == experiment # None /\ experiment.status \in S

\* The variants of a create or an update are chosen where they are first used.
BeginCreate ==
  /\ experiment = None
  /\ Begin("create", "context", None, None)

BeginUpdate ==
  /\ HasStatus({"CREATED"})
  /\ Begin("update", "context", None, None)

BeginRamp ==
  /\ HasStatus({"CREATED", "INPROGRESS"})
  /\ Begin("ramp", "context", experiment.variants, None)

\* The context is fetched only if its overrides are to be removed.
BeginConclude ==
  /\ HasStatus({"INPROGRESS"})
  /\ \E winner \in 1..NumVariants :
       Begin("conclude", IF winner = 1 THEN "bulk" ELSE "context", experiment.variants, winner)

BeginDiscard ==
  /\ HasStatus({"CREATED", "INPROGRESS", "PAUSED"})
  /\ Begin("discard", "bulk", experiment.variants, None)

\* get_context_override: the request fails if the context is gone.
FetchContext ==
  /\ request # None /\ request.phase = "context"
  /\ request' = IF base \notin Overrides THEN None
                ELSE [request EXCEPT !.context = base,
                                     !.phase = IF request.kind = "conclude"
                                               THEN "bulk" ELSE "resolve"]
  /\ UNCHANGED <<base, outer, cac, experiment, edited, apart>>

\* get_partial_resolve_config, and the checks.
Validate ==
  /\ request # None /\ request.phase = "resolve"
  /\ \E variants \in IF request.variants = None THEN Offered
                     ELSE {request.variants} :
       /\ base \in Overrides
       /\ validate_delete_experiment_variants(variants, request.context, outer)
       /\ request' = [request EXCEPT !.variants = variants,
                                     !.phase = IF request.kind = "ramp" THEN "commit" ELSE "bulk"]
       /\ edited' = request.edited
  /\ UNCHANGED <<base, outer, cac, experiment, apart>>

\* An update is between CAC and its commit.
Updating == request # None /\ request.kind = "update" /\ request.phase = "commit"

\* Any of the requests may be refused, and any may be cut short; the transaction
\* of an update, with the checks of its group, may fail after CAC has answered.
Fail ==
  /\ request # None
  /\ request' = None
  /\ apart' = (apart \/ Updating)
  /\ UNCHANGED <<base, outer, cac, experiment, edited>>

\* The bulk operation of a create or an update.
BulkPut ==
  /\ request # None /\ request.phase = "bulk"
  /\ request.kind \in {"create", "update"}
  /\ request.kind = "update" => cac # None
  /\ cac' = request.variants
  /\ request' = [request EXCEPT !.phase = "commit"]
  /\ UNCHANGED <<base, outer, experiment, edited, apart>>

\* The bulk operation of a conclusion or a discard deletes the variants'
\* contexts; the one of a conclusion also replaces the override of the context
\* by what was read without the winner's keys, or deletes the context.
BulkEnd ==
  /\ request # None /\ request.phase = "bulk"
  /\ request.kind \in {"conclude", "discard"}
  /\ cac # None
  /\ cac' = None
  /\ IF request.context = None THEN UNCHANGED base
     ELSE /\ base \in Overrides
          /\ base' = Without(request.context, DOMAIN request.variants[request.winner])
  /\ request' = [request EXCEPT !.phase = "commit"]
  /\ UNCHANGED <<outer, experiment, edited, apart>>

Commit ==
  /\ request # None /\ request.phase = "commit"
  /\ experiment' =
       CASE request.kind = "create"   -> [status |-> "CREATED", variants |-> request.variants]
         [] request.kind = "update"   -> [experiment EXCEPT !.variants = request.variants]
         [] request.kind = "ramp"     -> [experiment EXCEPT !.status = "INPROGRESS"]
         [] request.kind = "conclude" -> [experiment EXCEPT !.status = "CONCLUDED"]
         [] request.kind = "discard"  -> [experiment EXCEPT !.status = "DISCARDED"]
  /\ request' = None
  /\ apart' = (apart /\ ~Updating)
  /\ UNCHANGED <<base, outer, cac, edited>>

SetStatus(from, to) ==
  /\ request = None
  /\ HasStatus({from})
  /\ experiment' = [experiment EXCEPT !.status = to]
  /\ UNCHANGED <<base, outer, cac, request, edited, apart>>

Pause == SetStatus("INPROGRESS", "PAUSED")

Resume == SetStatus("PAUSED", "INPROGRESS")

-----------------------------------------------------------------------------
(* Users *)

Edit ==
  /\ edited' = TRUE
  /\ request' = IF request = None THEN None ELSE [request EXCEPT !.edited = TRUE]
  /\ UNCHANGED <<cac, experiment, apart>>

\* Puts, replacements and the deletion of the context.
EditContext ==
  /\ base' \in Partial(Keys, Values) \ {base}
  /\ UNCHANGED outer
  /\ Edit

\* Changes of default values and of contexts of less weight.
EditOuter ==
  /\ outer' \in [Keys -> Values] \ {outer}
  /\ UNCHANGED base
  /\ Edit

Next ==
  \/ BeginCreate
  \/ BeginUpdate
  \/ BeginRamp
  \/ BeginConclude
  \/ BeginDiscard
  \/ FetchContext
  \/ Validate
  \/ Fail
  \/ BulkPut
  \/ BulkEnd
  \/ Commit
  \/ Pause
  \/ Resume
  \/ EditContext
  \/ EditOuter

Spec == Init /\ [][Next]_vars

-----------------------------------------------------------------------------
(* Properties *)

\* The value of k for a request with the given overrides of the context.
Resolved(override, k) == IF k \in DOMAIN override THEN override[k] ELSE outer[k]

\* The value of k for a request that is in the variant i.
Shown(variants, i, k) == IF k \in DOMAIN variants[i] THEN variants[i][k] ELSE Resolved(base, k)

\* A conclusion does what the experiment showed: if no one has edited CAC since
\* the variants were last validated, every key has after the conclusion the value
\* that the winner in the row gives it, and unless an update failed after CAC took
\* its variants, that is the value which the winner's users had before.
ConcludeAsServed ==
  [][BulkEnd /\ request.kind = "conclude" /\ ~edited =>
       \A k \in Keys :
         /\ Resolved(base', k) = Shown(experiment.variants, request.winner, k)
         /\ ~apart => Resolved(base', k) = Shown(cac, request.winner, k)]_vars
=============================================================================
