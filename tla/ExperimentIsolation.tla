------------------------- MODULE ExperimentIsolation ------------------------
(***************************************************************************)
(* The isolation of experiments from each other.  Three flags of the       *)
(* service say which pairs of experiments it accepts, by their contexts    *)
(* and the keys they override.  A new or updated experiment is compared    *)
(* with the active ones before it is written; a resumed one is not.        *)
(* Experiments that delete overrides are not compared, and are left out.   *)
(***************************************************************************)
EXTENDS FiniteSets, Integers

CONSTANTS Ids, Dimensions, Values, Keys, Workers, None

VARIABLES experiments,   \* id -> experiment, for those that exist
          flags,         \* the configuration of the service
          requests       \* worker -> a request that passed its check

vars == <<experiments, flags, requests>>

Flags == [allow_same_keys_overlapping_ctx : BOOLEAN, allow_diff_keys_overlapping_ctx : BOOLEAN,
          allow_same_keys_non_overlapping_ctx : BOOLEAN]

\* A context fixes the values of some dimensions.
Context == UNION {[D -> Values] : D \in SUBSET Dimensions}

OverrideKeys == (SUBSET Keys) \ {{}}

Active == {"CREATED", "INPROGRESS"}

-----------------------------------------------------------------------------
(* The comparison *)

\* The shorter context is part of the longer one.
are_overlapping_contexts(a, b) ==
  LET ref == IF Cardinality(DOMAIN a) > Cardinality(DOMAIN b) THEN DOMAIN b ELSE DOMAIN a
  IN \A d \in ref : d \in DOMAIN a /\ d \in DOMAIN b /\ a[d] = b[d]

\* A new experiment may run beside an active one.
Accepts(new, active) ==
  LET overlapping  == are_overlapping_contexts(new.context, active.context)
      intersecting == active.keys \cap new.keys # {}
  IN /\ flags.allow_diff_keys_overlapping_ctx \/ ~overlapping \/ active.keys \subseteq new.keys
     /\ flags.allow_same_keys_overlapping_ctx \/ ~overlapping \/ ~intersecting
     /\ flags.allow_same_keys_non_overlapping_ctx \/ overlapping \/ ~intersecting

\* Fault: only running experiments are looked at.
ValidBesideRunning(id, new) ==
  \A e \in DOMAIN experiments \ {id} :
    experiments[e].status = "INPROGRESS" => Accepts(new, experiments[e])

validate_experiment(id, new) ==
  \A e \in DOMAIN experiments \ {id} :
    experiments[e].status \in Active => Accepts(new, experiments[e])

-----------------------------------------------------------------------------
(* The handlers *)

Init ==
  /\ experiments = [e \in {} |-> None]
  /\ flags \in Flags
  /\ requests = [w \in Workers |-> None]

\* Create and update compare first and write later.
Compare(w, id, new) ==
  /\ requests[w] = None
  /\ validate_experiment(id, new)
  /\ requests' = [requests EXCEPT ![w] = [id |-> id, new |-> new]]
  /\ UNCHANGED <<experiments, flags>>

\* An id is generated for each creation.
BeginCreate(w, id, context, keys) ==
  /\ id \notin DOMAIN experiments
  /\ \A v \in Workers : requests[v] # None => requests[v].id # id
  /\ Compare(w, id, [status |-> "CREATED", context |-> context, keys |-> keys])

BeginUpdate(w, id, keys) ==
  /\ id \in DOMAIN experiments
  /\ experiments[id].status = "CREATED"
  /\ Compare(w, id, [experiments[id] EXCEPT !.keys = keys])

\* The update writes the keys, not the status.
Commit(w) ==
  /\ requests[w] # None
  /\ LET r == requests[w] IN
     experiments' = [e \in DOMAIN experiments \cup {r.id} |->
       IF e # r.id THEN experiments[e]
       ELSE IF e \in DOMAIN experiments THEN [experiments[e] EXCEPT !.keys = r.new.keys]
       ELSE r.new]
  /\ requests' = [requests EXCEPT ![w] = None]
  /\ UNCHANGED flags

\* The other handlers write the status in one step, without a comparison.
SetStatus(w, id, from, to) ==
  /\ requests[w] = None
  /\ id \in DOMAIN experiments
  /\ experiments[id].status \in from
  /\ experiments' = [experiments EXCEPT ![id].status = to]
  /\ UNCHANGED <<flags, requests>>

Ramp(w, id)     == SetStatus(w, id, Active, "INPROGRESS")
Conclude(w, id) == SetStatus(w, id, {"INPROGRESS"}, "CONCLUDED")
Discard(w, id)  == SetStatus(w, id, {"CREATED", "INPROGRESS", "PAUSED"}, "DISCARDED")
Pause(w, id)    == SetStatus(w, id, {"INPROGRESS"}, "PAUSED")
Resume(w, id)   == SetStatus(w, id, {"PAUSED"}, "INPROGRESS")

Next ==
  \E w \in Workers :
    \/ Commit(w)
    \/ \E id \in Ids :
         \/ \E keys \in OverrideKeys, context \in Context : BeginCreate(w, id, context, keys)
         \/ \E keys \in OverrideKeys : BeginUpdate(w, id, keys)
         \/ Ramp(w, id)
         \/ Conclude(w, id)
         \/ Discard(w, id)
         \/ Pause(w, id)
         \/ Resume(w, id)

Spec == Init /\ [][Next]_vars

-----------------------------------------------------------------------------
(* Properties *)

\* Two active experiments that the service would accept in neither order.
Conflicts ==
  {p \in (DOMAIN experiments) \X (DOMAIN experiments) :
     /\ p[1] # p[2]
     /\ \A i \in {1, 2} : experiments[p[i]].status \in Active
     /\ ~Accepts(experiments[p[1]], experiments[p[2]])
     /\ ~Accepts(experiments[p[2]], experiments[p[1]])}

\* Creations, updates, ramps, pauses and terminations never bring two
\* experiments together that exclude each other: only a resume can.
OnlyResumeConflicts == [][Conflicts' \subseteq Conflicts \/ \E w \in Workers, id \in Ids : Resume(w, id)]_vars
=============================================================================
