---------------------- MODULE ExperimentRequestsProofs ----------------------
(***************************************************************************)
(* Proofs about requests that run in steps, call CAC and may be cut short. *)
(* First for any number of requests at once: what the row of a terminated  *)
(* experiment says has happened in CAC.  Then for one request at a time:   *)
(* the requests implement the atomic handlers, and with the invariant of   *)
(* these (ExperimentGroupsProofs) a request that changed CAC is never      *)
(* rolled back.                                                            *)
(***************************************************************************)
EXTENDS ExperimentRequests, ExperimentGroupsProofs

(***************************************************************************)
(* Types.  What a request may be given depends on its kind.                *)
(***************************************************************************)
ExpType == experiments \in [ExpIds -> Experiment \cup {None}]

ArgOK(q) ==
  /\ q.kind = "create" => q.arg \in GroupIds \cup {None} /\ q.pc # "defaults"
  /\ q.kind # "create" => q.snap \in Experiment
  /\ q.kind = "ramp" => q.arg \in TrafficPercentage
  /\ q.kind = "conclude" => q.arg \in 1 .. Variants[q.exp]
  /\ q.kind = "update" => q.arg \in GroupIds \cup {None}
  /\ q.kind = "join" => q.arg \in GroupIds
  /\ q.pc = "defaults" => q.kind = "conclude" /\ Context[q.exp] = {}
  /\ q.pc = "bulk" => q.kind \in {"create", "conclude", "discard", "update"}

RequestInv ==
  /\ ExpType
  /\ RequestTypeOK
  /\ \A w \in Workers : ~Idle(w) => ArgOK(requests[w])
  /\ \A w \in Workers : ~Idle(w) /\ requests[w].kind # "create" => InDb(requests[w].exp)
  /\ \A w \in Workers : ~Idle(w) /\ requests[w].kind = "create" =>
       /\ ~InDb(requests[w].exp)
       /\ \A v \in Workers : ~Idle(v) /\ requests[v].exp = requests[w].exp => v = w

\* What is left of a row when the group of its experiment changes.
SameRow(e) ==
  /\ experiments'[e] # None <=> InDb(e)
  /\ InDb(e) => /\ experiments'[e].status = experiments[e].status
                /\ experiments'[e].chosen_variant = experiments[e].chosen_variant

\* The row of an experiment after one of its columns was written.
LEMMA ColumnWritten ==
  ASSUME ExpType, NEW e \in ExpIds, InDb(e), NEW g \in GroupIds \cup {None}
  PROVE  LET r == [experiments[e] EXCEPT !.experiment_group_id = g]
         IN  /\ r \in Experiment /\ r # None
             /\ r.status = experiments[e].status
             /\ r.chosen_variant = experiments[e].chosen_variant
  BY SentinelAssumption DEF ExpType, Experiment, InDb

\* The requests about groups change no row but its group.
LEMMA GroupRequestRows ==
  ASSUME ExpType, NextGroup
  PROVE  ExpType' /\ \A e \in ExpIds : SameRow(e)
<1>0. ASSUME NEW M \in SUBSET ExpIds, NEW id, \A e \in M : InDb(e) /\ id[e] \in GroupIds \cup {None},
             experiments' = [e \in ExpIds |->
               IF e \in M THEN [experiments[e] EXCEPT !.experiment_group_id = id[e]]
                          ELSE experiments[e]]
      PROVE  ExpType' /\ \A e \in ExpIds : SameRow(e)
  <2>1. ASSUME NEW e \in ExpIds
        PROVE  experiments'[e] \in Experiment \cup {None} /\ SameRow(e)
    <3>1. CASE e \in M
      BY <1>0, <3>1, ColumnWritten DEF SameRow, InDb
    <3>2. CASE e \notin M
      BY <1>0, <3>2 DEF SameRow, InDb, ExpType
    <3>3. QED
      BY <3>1, <3>2
  <2>2. QED
    BY <1>0, <2>1 DEF ExpType
<1>1. ASSUME UNCHANGED experiments
      PROVE  ExpType' /\ \A e \in ExpIds : SameRow(e)
  BY <1>1 DEF ExpType, SameRow, InDb
<1>2. ASSUME NEW g \in GroupIds, NEW m \in SUBSET ExpIds, CanJoin(m, g), SetGroupId(m, g)
      PROVE  ExpType' /\ \A e \in ExpIds : SameRow(e)
  <2> DEFINE id == [e \in ExpIds |-> g]
  <2>1. \A e \in m : InDb(e) /\ id[e] \in GroupIds \cup {None}
    BY <1>2 DEF CanJoin
  <2>2. experiments' = [e \in ExpIds |->
               IF e \in m THEN [experiments[e] EXCEPT !.experiment_group_id = id[e]]
                          ELSE experiments[e]]
    BY <1>2 DEF SetGroupId
  <2> HIDE DEF id
  <2>3. QED
    BY <1>0, <2>1, <2>2
<1>3. ASSUME NEW g \in GroupIds, NEW m \in SUBSET ExpIds, NEW newId \in [ExpIds -> GroupIds],
             RemoveMembers(g, m, newId)
      PROVE  ExpType' /\ \A e \in ExpIds : SameRow(e)
  <2> DEFINE id == [e \in ExpIds |-> IF Running(e) THEN newId[e] ELSE None]
  <2>1. \A e \in m : InDb(e) /\ id[e] \in GroupIds \cup {None}
    BY <1>3 DEF RemoveMembers
  <2>2. experiments' = [e \in ExpIds |->
               IF e \in m THEN [experiments[e] EXCEPT !.experiment_group_id = id[e]]
                          ELSE experiments[e]]
    BY <1>3 DEF RemoveMembers
  <2> HIDE DEF id
  <2>3. QED
    BY <1>0, <2>1, <2>2
<1>4. ASSUME NEW newId \in [ExpIds -> GroupIds], Backfill(newId)
      PROVE  ExpType' /\ \A e \in ExpIds : SameRow(e)
  <2>1. \A e \in Ungrouped : InDb(e) /\ newId[e] \in GroupIds \cup {None}
    BY DEF Ungrouped
  <2>2. Ungrouped \in SUBSET ExpIds
    BY DEF Ungrouped
  <2>3. experiments' = [e \in ExpIds |->
          IF e \in Ungrouped THEN [experiments[e] EXCEPT !.experiment_group_id = newId[e]]
                             ELSE experiments[e]]
    BY <1>4 DEF Backfill
  <2>4. QED
    BY <1>0, <2>1, <2>2, <2>3
<1>5. ASSUME NEW g \in GroupIds,
             \/ \E c \in GroupContexts, t \in GroupTraffics, m \in SUBSET ExpIds : CreateGroup(g, c, t, m)
             \/ \E t \in GroupTraffics : UpdateGroup(g, t)
             \/ \E m \in SUBSET ExpIds : AddMembers(g, m)
             \/ DeleteGroup(g)
      PROVE  ExpType' /\ \A e \in ExpIds : SameRow(e)
  BY <1>1, <1>2, <1>5 DEF CreateGroup, UpdateGroup, AddMembers, CommitAddMembers, DeleteGroup
<1>6. QED
  BY <1>3, <1>4, <1>5 DEF NextGroup

\* The status, and the chosen variant, that a transaction leaves in the row.
Outcome(q) ==
  /\ experiments'[q.exp] # None
  /\ q.kind = "create" => experiments'[q.exp].status = "CREATED"
  /\ q.kind \in {"ramp", "resume"} => experiments'[q.exp].status = "INPROGRESS"
  /\ q.kind = "pause" => experiments'[q.exp].status = "PAUSED"
  /\ q.kind = "conclude" => /\ experiments'[q.exp].status = "CONCLUDED"
                            /\ experiments'[q.exp].chosen_variant = q.arg
  /\ q.kind = "discard" => experiments'[q.exp].status = "DISCARDED"
  /\ q.kind \in {"update", "join"} => SameRow(q.exp)

\* A transaction writes the row of its experiment, which it does not read again,
\* whatever happened since the read.
LEMMA TransactionRows ==
  ASSUME ExpType, NEW q \in Request, ArgOK(q), q.kind # "create" => InDb(q.exp), Transaction(q)
  PROVE  /\ ExpType'
         /\ Outcome(q)
         /\ \A e \in ExpIds \ {q.exp} : experiments'[e] = experiments[e]
<1> DEFINE e == q.exp
<1>0. e \in ExpIds /\ q.kind \in {"create", "ramp", "conclude", "discard", "pause", "resume",
                                  "update", "join"}
      /\ None \notin Experiment
  BY SentinelAssumption DEF Request
<1>1. ASSUME NEW r \in Experiment, experiments' = [experiments EXCEPT ![e] = r]
      PROVE  /\ ExpType' /\ experiments'[e] # None
             /\ experiments'[e] = r
             /\ \A f \in ExpIds \ {e} : experiments'[f] = experiments[f]
  BY <1>0, <1>1 DEF ExpType, InDb
<1>2. CASE q.kind = "create"
  <2> DEFINE r == [status |-> "CREATED", traffic_percentage |-> 0,
                   experiment_group_id |-> q.arg, chosen_variant |-> None]
  <2>1. experiments' = [experiments EXCEPT ![e] = r]
    BY <1>2 DEF Transaction, CommitCreate
  <2>2. r \in Experiment /\ r.status = "CREATED"
    BY <1>2, NumBucketsAssumption DEF Experiment, Statuses, TrafficPercentage, ArgOK
  <2> HIDE DEF r
  <2>3. QED
    BY <1>1, <1>2, <2>1, <2>2 DEF Outcome
<1>3. ASSUME q.kind # "create"
      PROVE  experiments[e] \in Experiment
  BY <1>0, <1>3 DEF ExpType, InDb
<1>4. CASE q.kind = "ramp"
  <2>1. PICK g \in GroupIds \cup {None} : RampExperiment(e, q.arg, g)
    BY <1>4 DEF Transaction, CommitRamp, RampFirst, RampInGroup, RampUngrouped, FreshGroupIds,
         ArgOK, Experiment
  <2> DEFINE r == [experiments[e] EXCEPT !.traffic_percentage = q.arg, !.status = "INPROGRESS",
                                         !.experiment_group_id = g]
  <2>2. experiments' = [experiments EXCEPT ![e] = r]
    BY <2>1, <1>0 DEF RampExperiment, ExpType
  <2>3. r \in Experiment /\ r.status = "INPROGRESS"
    BY <1>3, <1>4 DEF Experiment, Statuses, ArgOK
  <2> HIDE DEF r
  <2>4. QED
    BY <1>1, <1>4, <2>2, <2>3 DEF Outcome
<1>5. ASSUME NEW status \in Statuses, NEW chosen \in Nat \cup {None}, q.kind # "create",
             CommitTermination(e, q.snap, status, chosen)
      PROVE  /\ ExpType' /\ experiments'[e] # None
             /\ experiments'[e].status = status /\ experiments'[e].chosen_variant = chosen
             /\ \A f \in ExpIds \ {e} : experiments'[f] = experiments[f]
  <2> DEFINE r == [experiments[e] EXCEPT !.status = status, !.chosen_variant = chosen,
                                         !.experiment_group_id = None]
  <2>1. experiments' = [experiments EXCEPT ![e] = r]
    BY <1>5, <1>0 DEF CommitTermination, ExpType
  <2>2. r \in Experiment /\ r.status = status /\ r.chosen_variant = chosen
    BY <1>3, <1>5 DEF Experiment
  <2> HIDE DEF r
  <2>3. QED
    BY <1>1, <2>1, <2>2
<1>6. CASE q.kind = "conclude"
  <2>1. q.arg \in Nat
    BY <1>0, <1>6, VariantsAssumption DEF ArgOK
  <2>2. CommitTermination(e, q.snap, "CONCLUDED", q.arg)
    BY <1>6 DEF Transaction
  <2>3. "CONCLUDED" \in Statuses
    BY DEF Statuses
  <2>4. QED
    BY <1>5, <1>6, <2>1, <2>2, <2>3 DEF Outcome
<1>7. CASE q.kind = "discard"
  <2>1. CommitTermination(e, q.snap, "DISCARDED", None)
    BY <1>7 DEF Transaction
  <2>2. "DISCARDED" \in Statuses
    BY DEF Statuses
  <2>3. QED
    BY <1>5, <1>7, <2>1, <2>2 DEF Outcome
<1>8. CASE q.kind \in {"pause", "resume"}
  <2> DEFINE s == IF q.kind = "pause" THEN "PAUSED" ELSE "INPROGRESS"
             r == [experiments[e] EXCEPT !.status = s]
  <2>1. experiments' = [experiments EXCEPT ![e] = r]
    BY <1>8, <1>0 DEF Transaction, CommitStatus, ExpType
  <2>2. r \in Experiment /\ r.status = s
    BY <1>3, <1>8 DEF Experiment, Statuses
  <2> HIDE DEF r
  <2>3. QED
    BY <1>1, <1>8, <2>1, <2>2 DEF Outcome
<1>9. CASE q.kind \in {"update", "join"}
  <2>1. PICK g \in GroupIds \cup {None} :
          experiments' = [experiments EXCEPT ![e] = [@ EXCEPT !.experiment_group_id = g]]
    <3>1. CASE q.kind = "join"
      BY <1>0, <3>1 DEF Transaction, CommitAddMembers, SetGroupId, ArgOK, ExpType
    <3>2. CASE q.kind = "update"
      <4>1. CASE CommitMove(e, q.snap, q.arg)
        BY <3>2, <4>1 DEF CommitMove, ArgOK
      <4>2. CASE CommitKeepGroup(e, q.snap)
        BY <3>2, <4>2 DEF CommitKeepGroup, ArgOK, Experiment
      <4>3. QED
        BY <3>2, <4>1, <4>2 DEF Transaction
    <3>3. QED
      BY <1>9, <3>1, <3>2
  <2> DEFINE r == [experiments[e] EXCEPT !.experiment_group_id = g]
  <2>2. experiments' = [experiments EXCEPT ![e] = r]
    BY <2>1
  <2>3. InDb(e) /\ r \in Experiment /\ r.status = experiments[e].status
        /\ r.chosen_variant = experiments[e].chosen_variant
    BY <1>0, <1>9, ColumnWritten
  <2> HIDE DEF r
  <2>4. ExpType' /\ experiments'[e] # None /\ SameRow(e) /\ \A f \in ExpIds \ {e} : experiments'[f] = experiments[f]
    BY <1>1, <2>2, <2>3 DEF SameRow
  <2>5. QED
    BY <1>9, <2>4 DEF Outcome
<1>10. QED
  BY <1>0, <1>2, <1>4, <1>6, <1>7, <1>8, <1>9

-----------------------------------------------------------------------------
(* The steps of a request, for the types *)

\* A request that has gone on is the same request.
Advanced(w) ==
  /\ requests'[w] \in Request
  /\ requests'[w].kind = requests[w].kind
  /\ requests'[w].exp = requests[w].exp
  /\ requests'[w].arg = requests[w].arg
  /\ requests'[w].snap = requests[w].snap

Others(w) == \A v \in Workers \ {w} : requests'[v] = requests[v]

\* PutDefault writes one key of one experiment.
LEMMA PutDefaultEffect ==
  ASSUME RequestInv, NEW w \in Workers, PutDefault(w)
  PROVE  \E k \in requests[w].todo :
           /\ ~Idle(w) /\ requests[w].pc = "defaults" /\ requests[w].kind = "conclude"
           /\ Advanced(w) /\ Others(w) /\ DOMAIN requests' = Workers
           /\ requests'[w].todo = requests[w].todo \ {k}
           /\ requests'[w].pc = IF requests[w].todo = {k} THEN "bulk" ELSE "defaults"
           /\ base' \in [ExpIds -> [Keys -> Nat]]
           /\ base'[requests[w].exp][k] = requests[w].arg
           /\ \A e \in ExpIds, l \in Keys :
                <<e, l>> # <<requests[w].exp, k>> => base'[e][l] = base[e][l]
           /\ UNCHANGED <<experiments, groups, contexts>>
<1>1. PICK k \in requests[w].todo :
        /\ base' = [base EXCEPT ![requests[w].exp][k] = requests[w].arg]
        /\ requests' = [requests EXCEPT ![w].todo = @ \ {k},
                                        ![w].pc = IF requests[w].todo = {k} THEN "bulk" ELSE @]
  BY DEF PutDefault
<1>2. ~Idle(w) /\ requests[w] \in Request /\ requests[w].pc = "defaults" /\ ArgOK(requests[w])
      /\ requests[w].kind = "conclude"
  BY DEF PutDefault, RequestInv, RequestTypeOK, Idle, ArgOK
<1>3. requests[w].exp \in ExpIds /\ k \in Keys /\ requests[w].arg \in Nat
  BY <1>1, <1>2, VariantsAssumption DEF Request, ArgOK
<1>4. /\ base' \in [ExpIds -> [Keys -> Nat]]
      /\ base'[requests[w].exp][k] = requests[w].arg
      /\ \A e \in ExpIds, l \in Keys :
           <<e, l>> # <<requests[w].exp, k>> => base'[e][l] = base[e][l]
  BY <1>1, <1>3 DEF RequestInv, RequestTypeOK
<1>5. /\ Advanced(w) /\ Others(w) /\ DOMAIN requests' = Workers
      /\ requests'[w].todo = requests[w].todo \ {k}
      /\ requests'[w].pc = IF requests[w].todo = {k} THEN "bulk" ELSE "defaults"
  BY <1>1, <1>2 DEF RequestInv, RequestTypeOK, Request, Advanced, Others
<1>6. QED
  BY <1>1, <1>2, <1>4, <1>5 DEF PutDefault

\* A call to bulk-operations that CAC accepts.
LEMMA BulkEffect ==
  ASSUME RequestInv, NEW w \in Workers, BulkOperations(w), BulkAccepted(requests[w])
  PROVE  /\ ~Idle(w) /\ requests[w].pc = "bulk"
         /\ requests[w].kind \in {"create", "conclude", "discard", "update"}
         /\ Advanced(w) /\ Others(w) /\ DOMAIN requests' = Workers
         /\ requests'[w].todo = requests[w].todo
         /\ requests'[w].pc = "commit"
         /\ contexts' = BulkContexts(requests[w])
         /\ base' = BulkBase(requests[w])
         /\ contexts' \subseteq VariantIds
         /\ base' \in [ExpIds -> [Keys -> Nat]]
         /\ UNCHANGED <<experiments, groups>>
<1>1. ~Idle(w) /\ requests[w] \in Request /\ requests[w].pc = "bulk" /\ ArgOK(requests[w])
      /\ requests[w].kind \in {"create", "conclude", "discard", "update"}
  BY DEF BulkOperations, RequestInv, RequestTypeOK, Idle, ArgOK
<1>2. Advanced(w) /\ Others(w) /\ DOMAIN requests' = Workers /\ requests'[w].pc = "commit"
      /\ requests'[w].todo = requests[w].todo
  <2>1. requests' = [requests EXCEPT ![w].pc = "commit"]
    BY DEF BulkOperations
  <2>2. QED
    BY <1>1, <2>1 DEF RequestInv, RequestTypeOK, Request, Advanced, Others
<1>3. contexts' \subseteq VariantIds
  BY <1>1 DEF BulkOperations, BulkContexts, VariantsOf, VariantIds, RequestInv, RequestTypeOK, Request
<1>4. base' \in [ExpIds -> [Keys -> Nat]]
  BY <1>1, VariantsAssumption DEF BulkOperations, BulkBase, RequestInv, RequestTypeOK, Request, ArgOK
<1>5. QED
  BY <1>1, <1>2, <1>3, <1>4 DEF BulkOperations

\* A request that ends leaves its worker idle.
LEMMA FinishEffect ==
  ASSUME RequestInv, NEW w \in Workers, Finish(w)
  PROVE  /\ Idle(w)' /\ Others(w)
         /\ requests' \in [Workers -> Request \cup {None}]
  BY DEF Finish, Idle, Others, RequestInv, RequestTypeOK

\* The read of a request.
LEMMA AcceptEffect ==
  ASSUME RequestInv, NEW w \in Workers, NEW kind, NEW pc, NEW e \in ExpIds, NEW arg, NEW todo,
         Accept(w, kind, pc, e, arg, todo)
  PROVE  /\ Idle(w)
         /\ requests'[w] = [kind |-> kind, pc |-> pc, exp |-> e, snap |-> experiments[e],
                            arg |-> arg, todo |-> todo]
         /\ Others(w) /\ DOMAIN requests' = Workers
         /\ UNCHANGED <<experiments, groups, contexts, base>>
  BY DEF Accept, Others, RequestInv, RequestTypeOK

\* A request that is accepted has an experiment in the database, or is the only
\* one for an experiment that is not.
LEMMA AcceptInv ==
  ASSUME RequestInv, NEW w \in Workers, NEW e \in ExpIds, NEW r \in Request,
         ArgOK(r), r.exp = e, Idle(w), requests' = [requests EXCEPT ![w] = r],
         IF r.kind = "create" THEN NewExperimentId(e) ELSE InDb(e),
         UNCHANGED <<experiments, groups, contexts, base, crashed>>
  PROVE  RequestInv'
<1>1. ExpType' /\ \A f : InDb(f)' <=> InDb(f)
  BY DEF RequestInv, ExpType, InDb
<1>2. requests' \in [Workers -> Request \cup {None}]
  BY DEF RequestInv, RequestTypeOK
<1>3. RequestTypeOK'
  BY <1>2 DEF RequestInv, RequestTypeOK
<1>4. requests'[w] = r /\ \A v \in Workers \ {w} : requests'[v] = requests[v]
  BY DEF RequestInv, RequestTypeOK
<1>5. \A v \in Workers : ~Idle(v)' => ArgOK(requests'[v])
  BY <1>4 DEF RequestInv, Idle
<1>6. ASSUME NEW v \in Workers, ~Idle(v)', requests'[v].kind # "create"
      PROVE  InDb(requests'[v].exp)
  BY <1>4, <1>6 DEF RequestInv, Idle
<1>7. ASSUME NEW v \in Workers, ~Idle(v)', requests'[v].kind = "create"
      PROVE  /\ ~InDb(requests'[v].exp)
             /\ \A u \in Workers : ~Idle(u)' /\ requests'[u].exp = requests'[v].exp => u = v
  <2>1. CASE v = w
    BY <1>4, <1>7, <2>1 DEF NewExperimentId, Idle
  <2>2. CASE v # w
    <3>1. ~Idle(v) /\ requests[v].kind = "create" /\ requests'[v] = requests[v]
      BY <1>4, <1>7, <2>2 DEF Idle
    <3>2. requests[v].exp # e
      BY <3>1, <1>7 DEF RequestInv, NewExperimentId
    <3>3. QED
      BY <1>4, <2>2, <3>1, <3>2 DEF RequestInv, Idle
  <2>3. QED
    BY <2>1, <2>2
<1>8. QED
  BY <1>1, <1>3, <1>5, <1>6, <1>7 DEF RequestInv, InDb

\* A request that goes on is still the same request.
LEMMA AdvancedInv ==
  ASSUME RequestInv, NEW w \in Workers, ~Idle(w), Advanced(w), Others(w),
         requests' \in [Workers -> Request \cup {None}],
         requests'[w].pc \in {"defaults", "bulk", "commit"},
         requests'[w].pc = "defaults" => requests[w].pc = "defaults",
         requests'[w].pc = "bulk" => requests[w].pc \in {"defaults", "bulk"},
         contexts' \subseteq VariantIds, base' \in [ExpIds -> [Keys -> Nat]],
         UNCHANGED <<experiments, crashed>>
  PROVE  RequestInv'
<1>1. ExpType' /\ \A f : InDb(f)' <=> InDb(f)
  BY DEF RequestInv, ExpType, InDb
<1>2. RequestTypeOK'
  BY DEF RequestInv, RequestTypeOK
<1>3. ASSUME NEW v \in Workers, ~Idle(v)'
      PROVE  /\ ~Idle(v)
             /\ requests'[v].kind = requests[v].kind
             /\ requests'[v].exp = requests[v].exp
             /\ ArgOK(requests'[v])
  <2>1. CASE v = w
    BY <2>1 DEF RequestInv, Advanced, ArgOK
  <2>2. CASE v # w
    BY <1>3, <2>2 DEF RequestInv, Others, Idle
  <2>3. QED
    BY <2>1, <2>2
<1>4. ASSUME NEW v \in Workers, ~Idle(v)', requests'[v].kind # "create"
      PROVE  InDb(requests'[v].exp)
  BY <1>3, <1>4 DEF RequestInv
<1>5. ASSUME NEW v \in Workers, ~Idle(v)', requests'[v].kind = "create"
      PROVE  /\ ~InDb(requests'[v].exp)
             /\ \A u \in Workers : ~Idle(u)' /\ requests'[u].exp = requests'[v].exp => u = v
  BY <1>3, <1>5 DEF RequestInv
<1>6. QED
  BY <1>1, <1>2, <1>3, <1>4, <1>5 DEF RequestInv, InDb

\* A request that ends may have put its experiment into the database if it was
\* its only request.
LEMMA FinishInv ==
  ASSUME RequestInv, NEW w \in Workers, ~Idle(w), Finish(w), ExpType',
         \A e \in ExpIds : InDb(e) => InDb(e)',
         \A e \in ExpIds : InDb(e)' =>
           InDb(e) \/ (e = requests[w].exp /\ requests[w].kind = "create"),
         crashed' \subseteq ExpIds, UNCHANGED <<contexts, base>>
  PROVE  RequestInv'
<1>1. Idle(w)' /\ Others(w) /\ requests' \in [Workers -> Request \cup {None}]
  BY FinishEffect
<1>2. RequestTypeOK'
  BY <1>1 DEF RequestInv, RequestTypeOK
<1>3. ASSUME NEW v \in Workers, ~Idle(v)'
      PROVE  v # w /\ ~Idle(v) /\ requests'[v] = requests[v] /\ requests[v].exp \in ExpIds
  BY <1>1, <1>3 DEF Others, Idle, Request
<1>4. \A v \in Workers : ~Idle(v)' => ArgOK(requests'[v])
  BY <1>3 DEF RequestInv
<1>5. ASSUME NEW v \in Workers, ~Idle(v)', requests'[v].kind # "create"
      PROVE  experiments'[requests'[v].exp] # None
  BY <1>3, <1>5 DEF RequestInv, InDb
<1>6. ASSUME NEW v \in Workers, ~Idle(v)', requests'[v].kind = "create"
      PROVE  /\ experiments'[requests'[v].exp] = None
             /\ \A u \in Workers : ~Idle(u)' /\ requests'[u].exp = requests'[v].exp => u = v
  BY <1>3, <1>6 DEF RequestInv, InDb
<1>7. QED
  BY <1>2, <1>4, <1>5, <1>6 DEF RequestInv, InDb

\* Every request that is read is well-formed.
LEMMA ReadInv ==
  ASSUME RequestInv, NEW w \in Workers, Read(w)
  PROVE  RequestInv'
<1>1. PICK e \in ExpIds :
        \/ \E g \in GroupIds \cup {None} : ReadCreate(w, e, g)
        \/ \E t \in TrafficPercentage : ReadRamp(w, e, t)
        \/ \E i \in 1 .. Variants[e] : ReadConclude(w, e, i)
        \/ ReadDiscard(w, e)
        \/ ReadPause(w, e)
        \/ ReadResume(w, e)
        \/ \E g \in GroupIds \cup {None} : ReadUpdate(w, e, g)
        \/ \E g \in GroupIds : ReadJoin(w, e, g)
  BY DEF Read
<1>2. /\ experiments[e] \in Experiment \cup {None}
      /\ InDb(e) => experiments[e] \in Experiment
      /\ TrafficPercentage \subseteq Nat /\ 1 .. Variants[e] \subseteq Nat
      /\ crashed' = crashed
  BY NumBucketsAssumption DEF RequestInv, ExpType, InDb, TrafficPercentage, Read
<1>3. ASSUME NEW kind \in {"create", "ramp", "conclude", "discard", "pause", "resume", "update", "join"},
             NEW pc \in {"defaults", "bulk", "commit"}, NEW arg \in Nat \cup GroupIds \cup {None},
             NEW todo \in SUBSET Keys,
             Accept(w, kind, pc, e, arg, todo),
             ArgOK([kind |-> kind, pc |-> pc, exp |-> e, snap |-> experiments[e],
                    arg |-> arg, todo |-> todo]),
             IF kind = "create" THEN NewExperimentId(e) ELSE InDb(e)
      PROVE  RequestInv'
  <2> DEFINE r == [kind |-> kind, pc |-> pc, exp |-> e, snap |-> experiments[e],
                   arg |-> arg, todo |-> todo]
  <2>1. r \in Request /\ r.exp = e /\ r.kind = kind
    BY <1>2 DEF Request
  <2>2. ArgOK(r) /\ Idle(w) /\ requests' = [requests EXCEPT ![w] = r]
    BY <1>3 DEF Accept
  <2> HIDE DEF r
  <2>3. QED
    BY <1>2, <1>3, <2>1, <2>2, AcceptInv DEF Accept
<1>4. ASSUME NEW g \in GroupIds \cup {None}, ReadCreate(w, e, g)
      PROVE  RequestInv'
  BY <1>3, <1>4 DEF ReadCreate, ArgOK
<1>5. ASSUME NEW t \in TrafficPercentage, ReadRamp(w, e, t)
      PROVE  RequestInv'
  BY <1>2, <1>3, <1>5 DEF ReadRamp, ArgOK
<1>6. ASSUME NEW i \in 1 .. Variants[e], ReadConclude(w, e, i)
      PROVE  RequestInv'
  BY <1>2, <1>3, <1>6 DEF ReadConclude, ArgOK
<1>7. CASE ReadDiscard(w, e)
  BY <1>2, <1>3, <1>7 DEF ReadDiscard, ArgOK
<1>8. CASE ReadPause(w, e)
  BY <1>2, <1>3, <1>8 DEF ReadPause, ArgOK
<1>9. CASE ReadResume(w, e)
  BY <1>2, <1>3, <1>9 DEF ReadResume, ArgOK
<1>10. ASSUME NEW g \in GroupIds \cup {None}, ReadUpdate(w, e, g)
       PROVE  RequestInv'
  BY <1>2, <1>3, <1>10 DEF ReadUpdate, ArgOK
<1>11. ASSUME NEW g \in GroupIds, ReadJoin(w, e, g)
       PROVE  RequestInv'
  BY <1>2, <1>3, <1>11 DEF ReadJoin, CanJoin, ArgOK
<1>12. QED
  BY <1>1, <1>4, <1>5, <1>6, <1>7, <1>8, <1>9, <1>10, <1>11

\* The rows after the transaction of a request.
LEMMA CommitRows ==
  ASSUME RequestInv, NEW w \in Workers, Commit(w)
  PROVE  /\ ExpType'
         /\ ~Idle(w) /\ requests[w] \in Request /\ requests[w].pc = "commit"
         /\ Outcome(requests[w])
         /\ \A e \in ExpIds \ {requests[w].exp} : experiments'[e] = experiments[e]
         /\ Finish(w)
         /\ UNCHANGED cacVars
<1>1. /\ ExpType /\ ~Idle(w) /\ requests[w] \in Request /\ ArgOK(requests[w])
      /\ requests[w].kind # "create" => InDb(requests[w].exp)
      /\ Transaction(requests[w])
  BY DEF Commit, RequestInv, RequestTypeOK, Idle
<1>2. QED
  BY <1>1, TransactionRows DEF Commit

\* Every step keeps the types and the experiments of the requests.
LEMMA NextRequestInv ==
  ASSUME RequestInv, [RequestNext]_requestVars
  PROVE  RequestInv'
<1>1. ASSUME NEW w \in Workers, Read(w)
      PROVE  RequestInv'
  BY <1>1, ReadInv
<1>2. ASSUME NEW w \in Workers, PutDefault(w), UNCHANGED crashed
      PROVE  RequestInv'
  <2>1. requests' \in [Workers -> Request \cup {None}]
    BY <1>2, PutDefaultEffect DEF PutDefault, Advanced, Others, RequestInv, RequestTypeOK
  <2>2. QED
    BY <1>2, <2>1, PutDefaultEffect, AdvancedInv DEF RequestInv, RequestTypeOK
<1>3. ASSUME NEW w \in Workers, BulkOperations(w), UNCHANGED crashed
      PROVE  RequestInv'
  <2>1. CASE BulkAccepted(requests[w])
    <3>1. requests' = [requests EXCEPT ![w].pc = "commit"]
      BY <1>3, <2>1 DEF BulkOperations
    <3>2. requests' \in [Workers -> Request \cup {None}]
      BY <1>3, <2>1, <3>1, BulkEffect DEF Advanced, Others, RequestInv, RequestTypeOK
    <3>3. QED
      BY <1>3, <2>1, <3>2, BulkEffect, AdvancedInv DEF RequestInv, RequestTypeOK
  <2>2. CASE ~BulkAccepted(requests[w])
    <3>1. ~Idle(w) /\ Finish(w) /\ UNCHANGED <<contexts, base, experiments, crashed>>
      BY <1>3, <2>2 DEF BulkOperations, cacVars
    <3>2. QED
      BY <3>1, FinishInv DEF RequestInv, RequestTypeOK, ExpType, InDb
  <2>3. QED
    BY <2>1, <2>2
<1>4. ASSUME NEW w \in Workers, Commit(w), UNCHANGED crashed
      PROVE  RequestInv'
  <2>1. \A e \in ExpIds : InDb(e) => InDb(e)'
    BY <1>4, CommitRows DEF Outcome, InDb
  <2>2. requests[w].kind # "create" => InDb(requests[w].exp)
    BY <1>4 DEF Commit, RequestInv
  <2>3. \A e \in ExpIds : InDb(e)' => InDb(e) \/ (e = requests[w].exp /\ requests[w].kind = "create")
    BY <1>4, <2>2, CommitRows DEF InDb
  <2>4. QED
    BY <1>4, <2>1, <2>3, CommitRows, FinishInv DEF RequestInv, RequestTypeOK, cacVars
<1>5. ASSUME NEW w \in Workers, Rollback(w), UNCHANGED crashed
      PROVE  RequestInv'
  BY <1>5, FinishInv DEF Rollback, RequestInv, RequestTypeOK, ExpType, InDb
<1>6. ASSUME NEW w \in Workers, Crash(w)
      PROVE  RequestInv'
  <2>1. crashed' \subseteq ExpIds
    BY <1>6 DEF Crash, RequestInv, RequestTypeOK, Request, Idle
  <2>2. QED
    BY <1>6, <2>1, FinishInv DEF Crash, RequestInv, ExpType, InDb
<1>7. CASE GroupRequest
  <2>1. ExpType' /\ (\A e \in ExpIds : InDb(e)' <=> InDb(e)) /\ UNCHANGED <<requests, contexts, base, crashed>>
    BY <1>7, GroupRequestRows DEF GroupRequest, RequestInv, SameRow, InDb
  <2>2. \A w \in Workers : ~Idle(w) => requests[w].exp \in ExpIds
    BY DEF RequestInv, RequestTypeOK, Idle, Request
  <2>3. QED
    BY <2>1, <2>2 DEF RequestInv, RequestTypeOK, Idle, InDb
<1>8. CASE UNCHANGED requestVars
  BY <1>8 DEF requestVars, RequestInv, RequestTypeOK, ExpType, Idle, InDb
<1>9. QED
  BY <1>1, <1>2, <1>3, <1>4, <1>5, <1>6, <1>7, <1>8 DEF RequestNext, Proceed

-----------------------------------------------------------------------------
(* What terminated experiments left in CAC, for any number of requests *)

Gone(e) == contexts \cap VariantsOf(e) = {}

Holds(e, i) == \A k \in Keys : base[e][k] = i

\* CAC lets one conclude or discard of an experiment through: it deletes all the
\* contexts of the variants, and refuses a request that does not find them.
\* Until then the context of the experiment has its old values.
ExpCac(e) ==
  Context[e] # {} =>
    /\ ~InDb(e) \/ ~Gone(e) => Holds(e, 0)
    /\ InDb(e) => /\ experiments[e].status = "CONCLUDED" =>
                       Gone(e) /\ Holds(e, experiments[e].chosen_variant)
                  /\ experiments[e].status = "DISCARDED" => Gone(e) /\ Holds(e, 0)

ReqCac(w) ==
  (~Idle(w) /\ requests[w].pc = "commit" /\ Context[requests[w].exp] # {}) =>
    /\ requests[w].kind = "conclude" =>
         Gone(requests[w].exp) /\ Holds(requests[w].exp, requests[w].arg)
    /\ requests[w].kind = "discard" => Gone(requests[w].exp) /\ Holds(requests[w].exp, 0)

CacInv ==
  /\ RequestInv
  /\ \A e \in ExpIds : ExpCac(e)
  /\ \A w \in Workers : ReqCac(w)

\* Variants of different experiments differ, and every experiment has some.
LEMMA VariantsDiffer ==
  ASSUME NEW e \in ExpIds
  PROVE  /\ VariantsOf(e) # {}
         /\ \A f \in ExpIds \ {e} : VariantsOf(e) \cap VariantsOf(f) = {}
<1>1. <<e, 1>> \in VariantsOf(e)
  BY VariantsAssumption DEF VariantsOf
<1>2. ASSUME NEW f \in ExpIds, NEW x \in VariantsOf(e), x \in VariantsOf(f)
      PROVE  e = f
  <2>1. PICK i \in 1 .. Variants[e], j \in 1 .. Variants[f] : x = <<e, i>> /\ x = <<f, j>>
    BY <1>2 DEF VariantsOf
  <2>2. QED
    BY <2>1
<1>3. QED
  BY <1>1, <1>2

\* Steps that leave CAC alone and end no request.
LEMMA CacUnchanged ==
  ASSUME CacInv, RequestInv', UNCHANGED cacVars,
         \A e \in ExpIds : SameRow(e),
         \A w \in Workers :
           ~Idle(w)' /\ requests'[w].pc = "commit" /\ requests'[w].kind \in {"conclude", "discard"} =>
             requests'[w] = requests[w]
  PROVE  CacInv'
<1>1. ASSUME NEW e \in ExpIds
      PROVE  ExpCac(e)'
  BY DEF CacInv, ExpCac, SameRow, InDb, Gone, Holds, VariantsOf, cacVars
<1>2. ASSUME NEW w \in Workers
      PROVE  ReqCac(w)'
  BY DEF CacInv, ReqCac, Idle, Gone, Holds, VariantsOf, cacVars
<1>3. QED
  BY <1>1, <1>2 DEF CacInv

\* A call to bulk-operations that CAC accepts: the only one that terminates the
\* experiment.
LEMMA BulkCac ==
  ASSUME CacInv, RequestInv', NEW w \in Workers, BulkOperations(w), BulkAccepted(requests[w])
  PROVE  CacInv'
<1> DEFINE q == requests[w]
           e == q.exp
<1>1. /\ ~Idle(w) /\ q.pc = "bulk" /\ q.kind \in {"create", "conclude", "discard", "update"}
      /\ Advanced(w) /\ Others(w)
      /\ contexts' = BulkContexts(q) /\ base' = BulkBase(q)
      /\ UNCHANGED experiments
  BY BulkEffect DEF CacInv
<1>2. /\ e \in ExpIds /\ base \in [ExpIds -> [Keys -> Nat]]
      /\ q.kind = "create" => ~InDb(e)
      /\ q.kind # "create" => ~Gone(e)
  <2>1. q \in Request
    BY <1>1 DEF CacInv, RequestInv, RequestTypeOK, Idle
  <2>2. e \in ExpIds
    BY <2>1 DEF Request
  <2>3. q.kind # "create" => ~Gone(e)
    BY <2>2, VariantsDiffer DEF BulkAccepted, Gone
  <2>4. QED
    BY <1>1, <2>2, <2>3 DEF CacInv, RequestInv, RequestTypeOK
<1>3. ASSUME NEW f \in ExpIds, f # e
      PROVE  (Gone(f)' <=> Gone(f)) /\ base'[f] = base[f]
  <2>1. VariantsOf(e) \cap VariantsOf(f) = {}
    BY <1>2, <1>3, VariantsDiffer
  <2>2. Gone(f)' <=> Gone(f)
    BY <1>1, <2>1 DEF Gone, BulkContexts, VariantsOf
  <2>3. base'[f] = base[f]
    BY <1>1, <1>2, <1>3 DEF BulkBase
  <2>4. QED
    BY <2>2, <2>3
<1>4. ASSUME Context[e] # {}
      PROVE  /\ Holds(e, 0)
             /\ q.kind = "conclude" => contexts' \cap VariantsOf(e) = {} /\ \A k \in Keys : base'[e][k] = q.arg
             /\ q.kind = "discard" => contexts' \cap VariantsOf(e) = {} /\ base' = base
             /\ q.kind \in {"create", "update"} => base' = base
  <2>1. Holds(e, 0)
    BY <1>1, <1>2, <1>4 DEF CacInv, ExpCac
  <2>2. q.kind \in {"conclude", "discard"} => contexts' \cap VariantsOf(e) = {}
    BY <1>1 DEF BulkContexts
  <2>3. q.kind = "conclude" => \A k \in Keys : base'[e][k] = q.arg
    BY <1>1, <1>2, <1>4 DEF BulkBase
  <2>4. q.kind # "conclude" => base' = base
    BY <1>1 DEF BulkBase
  <2>5. QED
    BY <1>1, <2>1, <2>2, <2>3, <2>4
<1>5. ASSUME NEW f \in ExpIds
      PROVE  ExpCac(f)'
  <2>1. CASE f # e
    BY <1>1, <1>3, <2>1 DEF CacInv, ExpCac, InDb, Holds
  <2>2. CASE f = e
    <3>1. SUFFICES ASSUME Context[f] # {}
                   PROVE  /\ experiments[f] = None \/ ~Gone(f)' => Holds(f, 0)'
                          /\ experiments[f] # None =>
                               experiments[f].status \notin {"CONCLUDED", "DISCARDED"}
      BY <1>1 DEF ExpCac, InDb
    <3>2. experiments[f] # None => experiments[f].status \notin {"CONCLUDED", "DISCARDED"}
      BY <1>2, <2>2, <3>1 DEF CacInv, ExpCac, InDb
    <3>3. CASE q.kind = "conclude"
      <4>1. Gone(f)'
        BY <1>4, <2>2, <3>1, <3>3 DEF Gone, VariantsOf
      <4>2. experiments[f] # None
        BY <1>1, <2>2, <3>3 DEF CacInv, RequestInv, InDb
      <4>3. QED
        BY <3>2, <4>1, <4>2
    <3>4. CASE q.kind # "conclude"
      BY <1>1, <1>4, <2>2, <3>1, <3>2, <3>4 DEF Holds
    <3>5. QED
      BY <3>3, <3>4
  <2>3. QED
    BY <2>1, <2>2
<1>6. ASSUME NEW v \in Workers
      PROVE  ReqCac(v)'
  <2>1. CASE v = w
    <3>1. requests'[v].kind = q.kind /\ requests'[v].exp = e /\ requests'[v].arg = q.arg
      BY <1>1, <2>1 DEF Advanced
    <3>2. ASSUME Context[e] # {}, q.kind = "conclude"
          PROVE  (Gone(requests[v].exp) /\ Holds(requests[v].exp, requests[v].arg))'
      BY <1>4, <3>1, <3>2 DEF Gone, Holds, VariantsOf
    <3>3. ASSUME Context[e] # {}, q.kind = "discard"
          PROVE  (Gone(requests[v].exp) /\ Holds(requests[v].exp, 0))'
      BY <1>4, <3>1, <3>3 DEF Gone, Holds, VariantsOf
    <3>4. QED
      BY <3>1, <3>2, <3>3 DEF ReqCac
  <2>2. CASE v # w
    <3>1. requests'[v] = requests[v]
      BY <1>1, <2>2 DEF Others
    <3>2. SUFFICES ASSUME ~Idle(v), requests[v].pc = "commit", Context[requests[v].exp] # {},
                          requests[v].kind \in {"conclude", "discard"}
                   PROVE  ReqCac(v)'
      BY <3>1 DEF ReqCac, Idle
    <3>3. requests[v].exp \in ExpIds /\ Gone(requests[v].exp)
      BY <3>2 DEF CacInv, ReqCac, RequestInv, RequestTypeOK, Request, Idle
    <3>4. requests[v].exp # e
      <4>1. q.kind # "create" => requests[v].exp # e
        BY <1>2, <3>3
      <4>2. q.kind = "create" => requests[v].exp # e
        BY <1>1, <2>2, <3>2 DEF CacInv, RequestInv
      <4>3. QED
        BY <4>1, <4>2
    <3>5. PICK f \in ExpIds : f = requests[v].exp
      BY <3>3
    <3>6. (Gone(f)' <=> Gone(f)) /\ base'[f] = base[f]
      BY <1>3, <3>4, <3>5
    <3>7. (Gone(requests[v].exp))' /\ base'[requests'[v].exp] = base[requests[v].exp]
      BY <3>1, <3>3, <3>5, <3>6 DEF Gone, VariantsOf
    <3>8. QED
      BY <3>1, <3>2, <3>7 DEF CacInv, ReqCac, Holds, Idle
  <2>3. QED
    BY <2>1, <2>2
<1>7. QED
  BY <1>5, <1>6 DEF CacInv

\* The transaction at the end of a request, however late it is.
LEMMA CommitCac ==
  ASSUME CacInv, RequestInv', NEW w \in Workers, Commit(w)
  PROVE  CacInv'
<1> DEFINE q == requests[w]
<1>1. /\ RequestInv /\ ~Idle(w) /\ q \in Request /\ q.pc = "commit"
      /\ q.exp \in ExpIds
      /\ q.kind \in {"create", "ramp", "conclude", "discard", "pause", "resume", "update", "join"}
      /\ Outcome(q)
      /\ \A f \in ExpIds \ {q.exp} : experiments'[f] = experiments[f]
      /\ Idle(w)' /\ Others(w)
      /\ UNCHANGED cacVars
  BY CommitRows, FinishEffect DEF CacInv, Request
<1>2. ASSUME NEW f \in ExpIds
      PROVE  ExpCac(f)'
  <2>1. (Gone(f)' <=> Gone(f)) /\ \A i : Holds(f, i)' <=> Holds(f, i)
    BY <1>1 DEF Gone, Holds, VariantsOf, cacVars
  <2>2. CASE f # q.exp
    BY <1>1, <2>1, <2>2 DEF CacInv, ExpCac, InDb, Holds, cacVars
  <2>3. CASE f = q.exp
    <3>0. SUFFICES ASSUME Context[f] # {}
                   PROVE  ExpCac(f)'
      BY DEF ExpCac
    <3>1. InDb(f)'
      BY <1>1, <2>3 DEF Outcome, InDb
    <3>2. CASE q.kind \in {"create", "ramp", "resume", "pause"}
      <4>1. experiments'[f].status \notin {"CONCLUDED", "DISCARDED"}
        BY <1>1, <2>3, <3>2 DEF Outcome
      <4>2. ~Gone(f) => Holds(f, 0)
        BY <3>0 DEF CacInv, ExpCac
      <4>3. QED
        BY <2>1, <3>1, <4>1, <4>2 DEF ExpCac
    <3>3. CASE q.kind = "conclude"
      <4>1. Gone(f) /\ \A k \in Keys : base[f][k] = q.arg
        BY <1>1, <2>3, <3>0, <3>3 DEF CacInv, ReqCac, Holds
      <4>2. experiments'[f].status = "CONCLUDED" /\ experiments'[f].chosen_variant = q.arg
        BY <1>1, <2>3, <3>3 DEF Outcome
      <4>3. QED
        BY <1>1, <2>1, <3>1, <4>1, <4>2 DEF ExpCac, Holds, cacVars
    <3>4. CASE q.kind = "discard"
      <4>1. Gone(f) /\ Holds(f, 0)
        BY <1>1, <2>3, <3>0, <3>4 DEF CacInv, ReqCac
      <4>2. experiments'[f].status = "DISCARDED"
        BY <1>1, <2>3, <3>4 DEF Outcome
      <4>3. QED
        BY <2>1, <3>1, <4>1, <4>2 DEF ExpCac
    <3>5. CASE q.kind \in {"update", "join"}
      <4>1. SameRow(f) /\ InDb(f)
        BY <1>1, <2>3, <3>5 DEF Outcome, RequestInv
      <4>2. QED
        BY <1>1, <2>1, <4>1 DEF CacInv, ExpCac, SameRow, InDb, Holds, cacVars
    <3>6. QED
      BY <1>1, <3>2, <3>3, <3>4, <3>5
  <2>4. QED
    BY <2>2, <2>3
<1>3. ASSUME NEW v \in Workers
      PROVE  ReqCac(v)'
  BY <1>1 DEF CacInv, ReqCac, Others, Idle, Gone, Holds, VariantsOf, cacVars
<1>4. QED
  BY <1>2, <1>3 DEF CacInv

\* Every step keeps what the rows say and what CAC has together.
LEMMA NextCacInv ==
  ASSUME CacInv, [RequestNext]_requestVars
  PROVE  CacInv'
<1>0. RequestInv' /\ RequestInv
  BY NextRequestInv DEF CacInv
<1>1. ASSUME UNCHANGED experiments
      PROVE  \A e \in ExpIds : SameRow(e)
  BY <1>1 DEF SameRow, InDb
<1>2. ASSUME NEW w \in Workers, UNCHANGED <<experiments, contexts, base>>, Finish(w)
      PROVE  CacInv'
  <2>1. Idle(w)' /\ Others(w)
    BY <1>0, <1>2, FinishEffect
  <2>2. QED
    BY <1>0, <1>1, <1>2, <2>1, CacUnchanged DEF cacVars, Others
<1>3. ASSUME NEW w \in Workers, Read(w)
      PROVE  CacInv'
  <2>1. ASSUME NEW e \in ExpIds, NEW kind, NEW pc, NEW arg, NEW todo,
               Accept(w, kind, pc, e, arg, todo), kind \in {"conclude", "discard"} => pc # "commit"
        PROVE  CacInv'
    <3>1. /\ requests'[w] = [kind |-> kind, pc |-> pc, exp |-> e, snap |-> experiments[e],
                             arg |-> arg, todo |-> todo]
          /\ Others(w) /\ UNCHANGED <<experiments, groups, contexts, base>>
      BY <1>0, <2>1, AcceptEffect
    <3>2. requests'[w].pc = "commit" => requests'[w].kind \notin {"conclude", "discard"}
      BY <2>1, <3>1
    <3>3. QED
      BY <1>0, <1>1, <3>1, <3>2, CacUnchanged DEF cacVars, Others
  <2>2. PICK e \in ExpIds :
        \/ \E g \in GroupIds \cup {None} : ReadCreate(w, e, g) \/ ReadUpdate(w, e, g) \/ ReadJoin(w, e, g)
        \/ \E t \in TrafficPercentage : ReadRamp(w, e, t)
        \/ \E i \in 1 .. Variants[e] : ReadConclude(w, e, i)
        \/ ReadDiscard(w, e) \/ ReadPause(w, e) \/ ReadResume(w, e)
    BY <1>3 DEF Read
  <2>3. QED
    BY <2>1, <2>2 DEF ReadCreate, ReadRamp, ReadConclude, ReadDiscard, ReadPause, ReadResume,
         ReadUpdate, ReadJoin
<1>4. ASSUME NEW w \in Workers, PutDefault(w)
      PROVE  CacInv'
  <2>1. PICK k \in requests[w].todo :
           /\ ~Idle(w) /\ requests[w].pc = "defaults"
           /\ Advanced(w) /\ Others(w)
           /\ requests'[w].pc = IF requests[w].todo = {k} THEN "bulk" ELSE "defaults"
           /\ \A e \in ExpIds, l \in Keys :
                <<e, l>> # <<requests[w].exp, k>> => base'[e][l] = base[e][l]
           /\ UNCHANGED <<experiments, groups, contexts>>
    BY <1>0, <1>4, PutDefaultEffect
  <2>2. Context[requests[w].exp] = {}
    BY <1>0, <2>1 DEF RequestInv, ArgOK
  <2>3. \A e \in ExpIds : Context[e] # {} => \A l \in Keys : base'[e][l] = base[e][l]
    BY <2>1, <2>2
  <2>4. ASSUME NEW e \in ExpIds
        PROVE  ExpCac(e)'
    BY <2>1, <2>3 DEF CacInv, ExpCac, InDb, Gone, Holds, VariantsOf
  <2>5. ASSUME NEW v \in Workers
        PROVE  ReqCac(v)'
    <3>1. CASE v = w
      BY <2>1, <3>1 DEF ReqCac
    <3>2. CASE v # w
      <4>1. requests'[v] = requests[v]
        BY <2>1, <3>2 DEF Others
      <4>2. ~Idle(v) => requests[v].exp \in ExpIds
        BY <1>0 DEF RequestInv, RequestTypeOK, Request, Idle
      <4>3. QED
        BY <2>1, <2>3, <4>1, <4>2 DEF CacInv, ReqCac, Idle, Gone, Holds, VariantsOf
    <3>3. QED
      BY <3>1, <3>2
  <2>6. QED
    BY <1>0, <2>4, <2>5 DEF CacInv
<1>5. ASSUME NEW w \in Workers, BulkOperations(w)
      PROVE  CacInv'
  <2>1. CASE BulkAccepted(requests[w])
    BY <1>0, <1>5, <2>1, BulkCac
  <2>2. CASE ~BulkAccepted(requests[w])
    BY <1>2, <1>5, <2>2 DEF BulkOperations, cacVars
  <2>3. QED
    BY <2>1, <2>2
<1>6. ASSUME NEW w \in Workers, Commit(w)
      PROVE  CacInv'
  BY <1>0, <1>6, CommitCac
<1>7. ASSUME NEW w \in Workers, Rollback(w) \/ Crash(w)
      PROVE  CacInv'
  BY <1>2, <1>7 DEF Rollback, Crash
<1>8. CASE GroupRequest
  <2>1. (\A e \in ExpIds : SameRow(e)) /\ UNCHANGED <<requests, cacVars>>
    BY <1>0, <1>8, GroupRequestRows DEF GroupRequest, RequestInv, cacVars
  <2>2. QED
    BY <1>0, <2>1, CacUnchanged
<1>9. CASE UNCHANGED requestVars
  BY <1>0, <1>1, <1>9, CacUnchanged DEF requestVars, cacVars
<1>10. QED
  BY <1>3, <1>4, <1>5, <1>6, <1>7, <1>8, <1>9 DEF RequestNext, Proceed

\* Both invariants hold when the service starts.
LEMMA InitCacInv == RequestInit => CacInv
<1> SUFFICES ASSUME RequestInit
             PROVE  CacInv
  OBVIOUS
<1>1. TypeOK /\ \A e \in ExpIds : InDb(e) => experiments[e].status \in {"INPROGRESS", "PAUSED"}
  <2>1. Init
    BY DEF RequestInit
  <2>2. TypeOK
    BY <2>1, InitIndInv DEF IndInv
  <2>3. QED
    BY <2>1, <2>2 DEF Init, LegacyExperiments, InDb
<1>2. contexts \subseteq VariantIds
  BY DEF RequestInit, VariantsOf, VariantIds
<1>3. RequestInv
  BY <1>1, <1>2 DEF RequestInit, RequestInv, ExpType, TypeOK, RequestTypeOK, Idle
<1>4. QED
  BY <1>1, <1>3 DEF CacInv, ExpCac, ReqCac, Holds, RequestInit, Idle

\* Whatever requests race or die, a concluded experiment with a context has left
\* the values of its chosen variant, and no others, in CAC, a discarded one none,
\* and neither has variants' contexts any more.
THEOREM TerminationMatchesCacCorrect == RequestSpec => []TerminationMatchesCac
<1>1. CacInv /\ [RequestNext]_requestVars => CacInv'
  BY NextCacInv
<1>2. CacInv => TerminationMatchesCac
  BY DEF CacInv, ExpCac, TerminationMatchesCac, Gone, Holds
<1>3. QED
  BY <1>1, <1>2, InitCacInv, PTL DEF RequestSpec

-----------------------------------------------------------------------------
(* One request at a time *)

OneWorker == \A v, w \in Workers : v = w

\* What a request read and checked is still so.
Current(w) ==
  LET q == requests[w] IN
  /\ q.kind # "create" => q.snap = experiments[q.exp]
  /\ q.kind = "ramp" => CanRamp(q.exp, experiments[q.exp], q.arg)
  /\ q.kind = "conclude" => concludable(experiments[q.exp].status)
  /\ q.kind = "discard" => discardable(experiments[q.exp].status)
  /\ q.kind = "pause" => pausable(experiments[q.exp].status)
  /\ q.kind = "resume" => resumable(experiments[q.exp].status)
  /\ q.kind = "update" => experiments[q.exp].status = "CREATED"
  /\ q.kind = "join" => CanJoin({q.exp}, q.arg)

SerialInv ==
  /\ RequestInv
  /\ IndInv
  /\ \A w \in Workers : ~Idle(w) => Current(w)

\* The transaction of a request whose checks are current is an atomic handler of
\* ExperimentGroups, or changes nothing.
LEMMA CommitIsHandler ==
  ASSUME SerialInv, NEW w \in Workers, Commit(w)
  PROVE  [Next]_vars
<1>1. ~Idle(w) /\ requests[w] \in Request /\ ArgOK(requests[w]) /\ Current(w)
      /\ Transaction(requests[w])
  BY DEF Commit, SerialInv, RequestInv, RequestTypeOK, Idle
<1>2. PICK e \in ExpIds, q \in Request : e = requests[w].exp /\ q = requests[w]
  BY <1>1 DEF Request
<1>3. /\ q.exp = e /\ ArgOK(q) /\ Transaction(q)
      /\ q.kind \in {"create", "ramp", "conclude", "discard", "pause", "resume", "update", "join"}
      /\ q.kind # "create" => InDb(e) /\ q.snap = experiments[e]
  BY <1>1, <1>2 DEF Current, SerialInv, RequestInv, Request
<1>4. CASE q.kind = "create"
  BY <1>3, <1>4 DEF Transaction, ArgOK, Next, NextExperiment, Create
<1>5. CASE q.kind = "ramp"
  <2>1. Ramp(e, q.arg) /\ q.arg \in TrafficPercentage
    BY <1>1, <1>2, <1>3, <1>5 DEF Transaction, ArgOK, Current, Ramp
  <2>2. QED
    BY <2>1 DEF Next, NextExperiment
<1>6. CASE q.kind = "conclude"
  <2>1. Conclude(e, q.arg) /\ q.arg \in 1 .. Variants[e]
    BY <1>1, <1>2, <1>3, <1>6 DEF Transaction, ArgOK, Current, Conclude
  <2>2. QED
    BY <2>1 DEF Next, NextExperiment
<1>7. CASE q.kind = "discard"
  <2>1. Discard(e)
    BY <1>1, <1>2, <1>3, <1>7 DEF Transaction, Current, Discard
  <2>2. QED
    BY <2>1 DEF Next, NextExperiment
<1>8. CASE q.kind = "pause"
  <2>1. Pause(e)
    BY <1>1, <1>2, <1>3, <1>8 DEF Transaction, Current, Pause
  <2>2. QED
    BY <2>1 DEF Next, NextExperiment
<1>9. CASE q.kind = "resume"
  <2>1. Resume(e)
    BY <1>1, <1>2, <1>3, <1>9 DEF Transaction, Current, Resume
  <2>2. QED
    BY <2>1 DEF Next, NextExperiment
<1>10. CASE q.kind = "update"
  <2>1. CASE CommitMove(e, q.snap, q.arg)
    <3>1. Move(e, q.arg) /\ q.arg \in GroupIds \cup {None}
      BY <1>1, <1>2, <1>3, <1>10, <2>1 DEF ArgOK, Current, Move
    <3>2. QED
      BY <3>1 DEF Next, NextExperiment
  <2>2. CASE CommitKeepGroup(e, q.snap)
    <3>1. /\ experiments \in [ExpIds -> Experiment \cup {None}] /\ experiments[e] \in Experiment
          /\ experiments' = [experiments EXCEPT ![e].experiment_group_id =
                               experiments[e].experiment_group_id]
          /\ groups' = groups
      BY <1>3, <1>10, <2>2 DEF CommitKeepGroup, SerialInv, RequestInv, ExpType, InDb
    <3>2. experiments' = experiments
      BY <3>1 DEF Experiment
    <3>3. QED
      BY <3>1, <3>2 DEF vars
  <2>3. QED
    BY <1>3, <1>10, <2>1, <2>2 DEF Transaction
<1>11. CASE q.kind = "join"
  <2>1. AddMembers(q.arg, {e}) /\ q.arg \in GroupIds
    BY <1>1, <1>2, <1>3, <1>11 DEF Transaction, ArgOK, Current, AddMembers
  <2>2. QED
    BY <2>1 DEF Next, NextGroup
<1>12. QED
  BY <1>3, <1>4, <1>5, <1>6, <1>7, <1>8, <1>9, <1>10, <1>11

\* A request has just been accepted: it made its checks and did nothing yet.
JustRead(w) ==
  /\ UNCHANGED <<experiments, groups, contexts, base>> /\ Others(w) /\ Idle(w)
  /\ Current(w)'
  /\ requests'[w].exp \in ExpIds
  /\ requests'[w].kind \in {"conclude", "discard"} => requests'[w].pc # "commit"
  /\ requests'[w].kind = "create" => requests'[w].pc = "bulk"
  /\ requests'[w].kind = "conclude" /\ Context[requests'[w].exp] = {} =>
       requests'[w].pc = "defaults" /\ requests'[w].todo = Keys

\* A request that is accepted has just made its checks.
LEMMA ReadCurrent ==
  ASSUME SerialInv, NEW w \in Workers, Read(w)
  PROVE  JustRead(w)
<1>0. RequestInv
  BY DEF SerialInv
<1>1. PICK e \in ExpIds :
        \/ \E g \in GroupIds \cup {None} : ReadCreate(w, e, g)
        \/ \E t \in TrafficPercentage : ReadRamp(w, e, t)
        \/ \E i \in 1 .. Variants[e] : ReadConclude(w, e, i)
        \/ ReadDiscard(w, e)
        \/ ReadPause(w, e)
        \/ ReadResume(w, e)
        \/ \E g \in GroupIds \cup {None} : ReadUpdate(w, e, g)
        \/ \E g \in GroupIds : ReadJoin(w, e, g)
  BY DEF Read
<1>2. ASSUME NEW kind, NEW pc, NEW arg, NEW todo, Accept(w, kind, pc, e, arg, todo)
      PROVE  /\ UNCHANGED <<experiments, groups, contexts, base>> /\ Others(w) /\ Idle(w)
             /\ requests'[w].kind = kind /\ requests'[w].pc = pc /\ requests'[w].exp = e
             /\ requests'[w].snap = experiments[e] /\ requests'[w].arg = arg
             /\ requests'[w].todo = todo
  <2>1. /\ requests'[w] = [kind |-> kind, pc |-> pc, exp |-> e, snap |-> experiments[e],
                           arg |-> arg, todo |-> todo]
        /\ Others(w) /\ UNCHANGED <<experiments, groups, contexts, base>>
    BY <1>0, <1>2, AcceptEffect
  <2>2. Idle(w)
    BY <1>2 DEF Accept
  <2>3. QED
    BY <2>1, <2>2
<1>3. ASSUME NEW g \in GroupIds \cup {None}, ReadCreate(w, e, g)
      PROVE  JustRead(w)
  BY <1>2, <1>3 DEF ReadCreate, JustRead, Current
<1>4. ASSUME NEW t \in TrafficPercentage, ReadRamp(w, e, t)
      PROVE  JustRead(w)
  BY <1>2, <1>4 DEF ReadRamp, JustRead, Current, CanRamp
<1>5. ASSUME NEW i \in 1 .. Variants[e], ReadConclude(w, e, i)
      PROVE  JustRead(w)
  <2>1. CASE Context[e] = {}
    BY <1>2, <1>5, <2>1 DEF ReadConclude, JustRead, Current, concludable
  <2>2. CASE Context[e] # {}
    BY <1>2, <1>5, <2>2 DEF ReadConclude, JustRead, Current, concludable
  <2>3. QED
    BY <2>1, <2>2
<1>6. CASE ReadDiscard(w, e)
  BY <1>2, <1>6 DEF ReadDiscard, JustRead, Current, discardable
<1>7. CASE ReadPause(w, e)
  BY <1>2, <1>7 DEF ReadPause, JustRead, Current, pausable
<1>8. CASE ReadResume(w, e)
  BY <1>2, <1>8 DEF ReadResume, JustRead, Current, resumable
<1>9. ASSUME NEW g \in GroupIds \cup {None}, ReadUpdate(w, e, g)
      PROVE  JustRead(w)
  BY <1>2, <1>9 DEF ReadUpdate, JustRead, Current
<1>10. ASSUME NEW g \in GroupIds, ReadJoin(w, e, g)
       PROVE  JustRead(w)
  <2>1. CanJoin({e}, g) /\ Accept(w, "join", "commit", e, g, {})
    BY <1>10 DEF ReadJoin
  <2>2. CanJoin({requests[w].exp}, requests[w].arg)'
    BY <1>2, <2>1 DEF CanJoin, InDb
  <2>3. QED
    BY <1>2, <2>1, <2>2 DEF JustRead, Current
<1>11. QED
  BY <1>1, <1>3, <1>4, <1>5, <1>6, <1>7, <1>8, <1>9, <1>10

\* One request at a time, a step is a step of the atomic handlers, and what a
\* request has read stays current until it ends.
LEMMA SerialStep ==
  ASSUME OneWorker, SerialInv, [RequestNext]_requestVars
  PROVE  SerialInv' /\ [Next]_vars
<1>0. RequestInv' /\ RequestInv
  BY NextRequestInv DEF SerialInv
<1>1. SUFFICES [Next]_vars /\ \A w \in Workers : ~Idle(w)' => Current(w)'
  BY <1>0, NextIndInv DEF SerialInv
<1>2. ASSUME NEW w \in Workers, Read(w)
      PROVE  [Next]_vars /\ \A v \in Workers : ~Idle(v)' => Current(v)'
  BY <1>2, ReadCurrent DEF JustRead, OneWorker, vars
<1>3. ASSUME NEW w \in Workers, ~Idle(w), Advanced(w), UNCHANGED <<experiments, groups>>
      PROVE  [Next]_vars /\ \A v \in Workers : ~Idle(v)' => Current(v)'
  <2>1. Current(w)
    BY <1>3 DEF SerialInv
  <2>2. Current(w)'
    BY <1>3, <2>1 DEF Current, Advanced, CanJoin, InDb
  <2>3. QED
    BY <1>3, <2>2 DEF OneWorker, vars
<1>4. ASSUME NEW w \in Workers, Finish(w), [Next]_vars
      PROVE  [Next]_vars /\ \A v \in Workers : ~Idle(v)' => Current(v)'
  BY <1>0, <1>4, FinishEffect DEF OneWorker
<1>5. ASSUME NEW w \in Workers, PutDefault(w)
      PROVE  [Next]_vars /\ \A v \in Workers : ~Idle(v)' => Current(v)'
  BY <1>0, <1>3, <1>5, PutDefaultEffect
<1>6. ASSUME NEW w \in Workers, BulkOperations(w)
      PROVE  [Next]_vars /\ \A v \in Workers : ~Idle(v)' => Current(v)'
  <2>1. CASE BulkAccepted(requests[w])
    BY <1>0, <1>3, <1>6, <2>1, BulkEffect
  <2>2. CASE ~BulkAccepted(requests[w])
    BY <1>4, <1>6, <2>2 DEF BulkOperations, vars
  <2>3. QED
    BY <2>1, <2>2
<1>7. ASSUME NEW w \in Workers, Commit(w)
      PROVE  [Next]_vars /\ \A v \in Workers : ~Idle(v)' => Current(v)'
  BY <1>4, <1>7, CommitIsHandler DEF Commit
<1>8. ASSUME NEW w \in Workers, Rollback(w) \/ Crash(w)
      PROVE  [Next]_vars /\ \A v \in Workers : ~Idle(v)' => Current(v)'
  BY <1>4, <1>8 DEF Rollback, Crash, vars
<1>9. CASE GroupRequest
  BY <1>9 DEF GroupRequest, OneWorker, Idle, Next
<1>10. CASE UNCHANGED requestVars
  <2>1. \A v \in Workers : Current(v) => Current(v)'
    BY <1>10 DEF Current, requestVars, CanJoin, InDb
  <2>2. QED
    BY <1>10, <2>1 DEF SerialInv, requestVars, vars, Idle
<1>11. QED
  BY <1>2, <1>5, <1>6, <1>7, <1>8, <1>9, <1>10 DEF RequestNext, Proceed

\* The service starts without requests.
LEMMA InitSerialInv == RequestInit => SerialInv
<1>1. RequestInit => RequestInv
  BY InitCacInv DEF CacInv
<1>2. RequestInit => IndInv
  BY InitIndInv DEF RequestInit
<1>3. QED
  BY <1>1, <1>2 DEF SerialInv, RequestInit, Idle

\* One request at a time, the handlers in steps, with their calls to CAC, refused
\* calls, rollbacks and crashes, do to the two tables only what the atomic
\* handlers of ExperimentGroups do.
THEOREM ImplementsSerialCorrect ==
  ASSUME OneWorker
  PROVE  RequestSpec => ImplementsSerial
<1>1. RequestInit => Init
  BY DEF RequestInit
<1>2. SerialInv /\ [RequestNext]_requestVars => SerialInv' /\ [Next]_vars
  BY SerialStep
<1>3. QED
  BY <1>1, <1>2, InitSerialInv, PTL DEF RequestSpec, ImplementsSerial, Spec

-----------------------------------------------------------------------------
(* What CAC has, one request at a time *)

\* CAC has deleted the contexts of e and the row of e does not say so yet.
Deleting(e) ==
  \E w \in Workers : /\ ~Idle(w) /\ requests[w].exp = e /\ requests[w].pc = "commit"
                     /\ requests[w].kind \in {"conclude", "discard"}

LiveInv ==
  /\ SerialInv
  /\ \A e \in ExpIds \ crashed : Live(e) /\ ~Deleting(e) => VariantsOf(e) \subseteq contexts
  /\ \A w \in Workers : ~Idle(w) /\ requests[w].kind = "create" /\ requests[w].pc = "commit" =>
       VariantsOf(requests[w].exp) \subseteq contexts

\* The transaction of a conclude or discard whose snapshot is current goes
\* through: the group in the row exists.
LEMMA TerminationCommits ==
  ASSUME SerialInv, NEW w \in Workers, ~Idle(w), requests[w].kind \in {"conclude", "discard"}
  PROVE  CanCommit(requests[w])
<1>1. PICK q \in Request : q = requests[w]
  BY DEF SerialInv, RequestInv, RequestTypeOK, Idle
<1>2. q.exp \in ExpIds /\ InDb(q.exp) /\ q.snap = experiments[q.exp]
  BY <1>1 DEF SerialInv, RequestInv, Current, Request
<1>3. q.snap.experiment_group_id \in GroupIds \cup {None}
  BY <1>2 DEF SerialInv, RequestInv, ExpType, Experiment, InDb
<1>4. CanDetach(q.snap)
  BY <1>2, <1>3 DEF SerialInv, IndInv, MembershipConsistent, CanDetach
<1>5. QED
  BY <1>1, <1>4 DEF CanCommit

\* A step that leaves the contexts of e, its request and its row's status alone.
LEMMA LiveKept ==
  ASSUME LiveInv, NEW e \in ExpIds \ crashed, Live(e), ~Deleting(e),
         contexts \cap VariantsOf(e) \subseteq contexts'
  PROVE  VariantsOf(e) \subseteq contexts'
  BY DEF LiveInv

\* One request at a time, every step keeps the contexts of the live experiments,
\* but for the one that conclude or discard is about to terminate.
LEMMA LiveStep ==
  ASSUME OneWorker, LiveInv, [RequestNext]_requestVars
  PROVE  LiveInv'
<1>0. SerialInv /\ RequestInv /\ SerialInv'
  BY SerialStep DEF LiveInv, SerialInv
<1> DEFINE Kept == \A e \in ExpIds \ crashed' :
                     Live(e)' /\ ~Deleting(e)' => VariantsOf(e) \subseteq contexts'
           Created == \A w \in Workers :
                        ~Idle(w)' /\ requests'[w].kind = "create" /\ requests'[w].pc = "commit" =>
                          VariantsOf(requests'[w].exp) \subseteq contexts'
<1>1. SUFFICES Kept /\ Created
  BY <1>0 DEF LiveInv, VariantsOf
<1>2. ASSUME UNCHANGED <<experiments, contexts>>, crashed \subseteq crashed',
             \A e \in ExpIds \ crashed' : ~Deleting(e)
      PROVE  Kept
  BY <1>2, LiveKept DEF Live, InDb
<1>3. ASSUME NEW w \in Workers, Read(w)
      PROVE  Kept /\ Created
  <2>1. JustRead(w) /\ UNCHANGED crashed
    BY <1>0, <1>3, ReadCurrent DEF Read
  <2>2. \A e \in ExpIds : ~Deleting(e)
    BY <2>1 DEF JustRead, Deleting, OneWorker
  <2>3. Kept
    BY <1>2, <2>1, <2>2 DEF JustRead
  <2>4. QED
    BY <2>1, <2>3 DEF JustRead, OneWorker
<1>4. ASSUME NEW w \in Workers, PutDefault(w), UNCHANGED crashed
      PROVE  Kept /\ Created
  <2>1. PICK k \in requests[w].todo :
          /\ ~Idle(w) /\ requests[w].pc = "defaults" /\ requests[w].kind = "conclude"
          /\ Advanced(w)
          /\ UNCHANGED <<experiments, groups, contexts>>
    BY <1>0, <1>4, PutDefaultEffect
  <2>2. \A e \in ExpIds : ~Deleting(e)
    BY <2>1 DEF Deleting, OneWorker
  <2>3. Kept
    BY <1>2, <1>4, <2>1, <2>2
  <2>4. QED
    BY <2>1, <2>3 DEF OneWorker, Advanced
<1>5. ASSUME NEW w \in Workers, Finish(w)
      PROVE  Created
  BY <1>0, <1>5, FinishEffect DEF OneWorker
<1>6. ASSUME NEW w \in Workers, BulkOperations(w), UNCHANGED crashed
      PROVE  Kept /\ Created
  <2>1. \A e \in ExpIds : ~Deleting(e)
    BY <1>6 DEF Deleting, OneWorker, BulkOperations
  <2>2. CASE ~BulkAccepted(requests[w])
    <3>1. Finish(w) /\ UNCHANGED <<experiments, contexts>>
      BY <1>6, <2>2 DEF BulkOperations, cacVars
    <3>2. QED
      BY <1>2, <1>5, <1>6, <2>1, <3>1
  <2>3. CASE BulkAccepted(requests[w])
    <3>1. PICK q \in Request : q = requests[w]
      BY <1>0, <1>6 DEF BulkOperations, RequestInv, RequestTypeOK, Idle
    <3>2. /\ requests'[w].kind = q.kind /\ requests'[w].exp = q.exp /\ requests'[w].pc = "commit"
          /\ q.kind \in {"create", "conclude", "discard", "update"}
          /\ ~Idle(w)' /\ ~Idle(w)
          /\ contexts' = BulkContexts(q)
          /\ UNCHANGED experiments
      BY <1>0, <1>6, <2>3, <3>1, BulkEffect, RequestSentinelAssumption DEF Advanced, Idle
    <3>3. q.exp \in ExpIds /\ (q.kind = "create" => ~InDb(q.exp))
      BY <1>0, <3>1, <3>2 DEF RequestInv, Request
    <3>4. ASSUME NEW e \in ExpIds \ crashed', Live(e)', ~Deleting(e)'
          PROVE  VariantsOf(e) \subseteq contexts'
      <4>1. Live(e)
        BY <3>2, <3>4 DEF Live, InDb
      <4>2. CASE e # q.exp
        <5>1. contexts \cap VariantsOf(e) \subseteq contexts'
          BY <3>2, <3>3, <4>2, VariantsDiffer DEF BulkContexts
        <5>2. QED
          BY <1>6, <2>1, <3>4, <4>1, <5>1, LiveKept
      <4>3. CASE e = q.exp
        <5>1. q.kind = "update"
          BY <3>2, <3>3, <3>4, <4>1, <4>3 DEF Live, Deleting
        <5>2. contexts' = contexts
          BY <3>2, <5>1 DEF BulkContexts
        <5>3. QED
          BY <1>6, <2>1, <3>4, <4>1, <5>2, LiveKept
      <4>4. QED
        BY <4>2, <4>3
    <3>5. Created
      BY <3>2 DEF BulkContexts, OneWorker
    <3>6. QED
      BY <3>4, <3>5
  <2>4. QED
    BY <2>2, <2>3
<1>7. ASSUME NEW w \in Workers, Commit(w), UNCHANGED crashed
      PROVE  Kept /\ Created
  <2>1. PICK q \in Request : q = requests[w]
    BY <1>0, <1>7, CommitRows
  <2>2. /\ ~Idle(w) /\ q.pc = "commit" /\ Outcome(q) /\ UNCHANGED contexts /\ Finish(w)
        /\ \A e \in ExpIds \ {q.exp} : experiments'[e] = experiments[e]
    BY <1>0, <1>7, <2>1, CommitRows DEF cacVars
  <2>3. ASSUME NEW e \in ExpIds \ crashed', Live(e)'
        PROVE  VariantsOf(e) \subseteq contexts'
    <3>1. CASE e # q.exp
      <4>1. Live(e) /\ ~Deleting(e)
        BY <2>1, <2>2, <2>3, <3>1 DEF Live, InDb, Deleting, OneWorker
      <4>2. QED
        BY <1>7, <2>2, <2>3, <4>1, LiveKept
    <3>2. CASE e = q.exp
      <4>1. q.kind \notin {"conclude", "discard"}
        BY <2>2, <2>3, <3>2 DEF Outcome, Live, discardable
      <4>2. CASE q.kind = "create"
        BY <2>1, <2>2, <3>2, <4>2 DEF LiveInv
      <4>3. CASE q.kind # "create"
        <5>1. Live(e)
          BY <1>0, <2>1, <2>2, <3>2, <4>1, <4>3 DEF SerialInv, RequestInv, Current, Request, Live,
               discardable, CanRamp, active, pausable, resumable, CanJoin
        <5>2. ~Deleting(e)
          BY <2>1, <4>1 DEF Deleting, OneWorker
        <5>3. QED
          BY <1>7, <2>2, <2>3, <5>1, <5>2, LiveKept
      <4>4. QED
        BY <4>2, <4>3
    <3>3. QED
      BY <3>1, <3>2
  <2>4. QED
    BY <1>5, <2>2, <2>3
<1>8. ASSUME NEW w \in Workers, Rollback(w), UNCHANGED crashed
      PROVE  Kept /\ Created
  <2>1. \A e \in ExpIds : ~Deleting(e)
    BY <1>0, <1>8, TerminationCommits DEF Rollback, Deleting, OneWorker
  <2>2. QED
    BY <1>2, <1>5, <1>8, <2>1 DEF Rollback
<1>9. ASSUME NEW w \in Workers, Crash(w)
      PROVE  Kept /\ Created
  <2>1. \A e \in ExpIds \ crashed' : ~Deleting(e)
    BY <1>9 DEF Crash, Deleting, OneWorker
  <2>2. QED
    BY <1>2, <1>5, <1>9, <2>1 DEF Crash
<1>10. CASE GroupRequest
  <2>1. /\ \A e \in ExpIds : SameRow(e)
        /\ UNCHANGED <<requests, contexts, crashed>>
        /\ \A w \in Workers : Idle(w)
    BY <1>0, <1>10, GroupRequestRows DEF GroupRequest, RequestInv, OneWorker
  <2>2. ASSUME NEW e \in ExpIds \ crashed', Live(e)'
        PROVE  VariantsOf(e) \subseteq contexts'
    <3>1. Live(e) /\ ~Deleting(e)
      BY <2>1, <2>2 DEF Live, InDb, SameRow, Deleting
    <3>2. QED
      BY <2>1, <3>1, LiveKept
  <2>3. QED
    BY <2>1, <2>2 DEF Idle
<1>11. CASE UNCHANGED requestVars
  <2>1. ASSUME NEW e \in ExpIds \ crashed', Live(e)', ~Deleting(e)'
        PROVE  VariantsOf(e) \subseteq contexts'
    BY <1>11, <2>1, LiveKept DEF requestVars, Live, InDb, Deleting, Idle
  <2>2. QED
    BY <1>11, <2>1 DEF LiveInv, requestVars, Idle
<1>12. QED
  BY <1>3, <1>4, <1>6, <1>7, <1>8, <1>9, <1>10, <1>11 DEF RequestNext, Proceed

\* One request at a time, a live experiment has the contexts of all its variants
\* in CAC whenever no request is in progress, unless one on it was cut short.
THEOREM LiveHaveContextsCorrect ==
  ASSUME OneWorker
  PROVE  RequestSpec => []LiveHaveContexts
<1>1. RequestInit => LiveInv
  BY InitSerialInv DEF RequestInit, LiveInv, Live, Idle
<1>2. LiveInv /\ [RequestNext]_requestVars => LiveInv'
  BY LiveStep
<1>3. LiveInv => LiveHaveContexts
  BY DEF LiveInv, LiveHaveContexts, Deleting
<1>4. QED
  BY <1>1, <1>2, <1>3, PTL DEF RequestSpec

-----------------------------------------------------------------------------
(* The winner of an experiment without a context *)

\* Until its status says CONCLUDED, an experiment without a context has the
\* winner's value in the keys that conclude has written so far.
Written(w) ==
  LET q == requests[w] IN
  (~Idle(w) /\ q.kind = "conclude" /\ Context[q.exp] = {}) =>
    IF q.pc = "defaults" THEN \A k \in Keys \ q.todo : base[q.exp][k] = q.arg
                         ELSE Holds(q.exp, q.arg)

WinnerHeld(e) ==
  (InDb(e) /\ Context[e] = {} /\ experiments[e].status = "CONCLUDED")
    => Holds(e, experiments[e].chosen_variant)

GlobalInv ==
  /\ SerialInv
  /\ \A e \in ExpIds : WinnerHeld(e)
  /\ \A w \in Workers : Written(w)

\* Steps that leave the values of the experiments without a context alone, and
\* change no row but its group.
LEMMA WinnerKept ==
  ASSUME GlobalInv, NEW e \in ExpIds, SameRow(e), Context[e] = {} => base'[e] = base[e]
  PROVE  WinnerHeld(e)'
  BY DEF GlobalInv, WinnerHeld, SameRow, InDb, Holds

\* One request at a time, every step keeps what the invariant says of winners.
LEMMA GlobalStep ==
  ASSUME OneWorker, GlobalInv, [RequestNext]_requestVars
  PROVE  GlobalInv'
<1>0. SerialInv /\ RequestInv /\ SerialInv'
  BY SerialStep DEF GlobalInv, SerialInv
<1>1. SUFFICES (\A e \in ExpIds : WinnerHeld(e)') /\ (\A w \in Workers : Written(w)')
  BY <1>0 DEF GlobalInv
<1>2. ASSUME UNCHANGED <<experiments, base>>
      PROVE  \A e \in ExpIds : WinnerHeld(e)'
  BY <1>2 DEF GlobalInv, WinnerHeld, InDb, Holds
<1>3. ASSUME NEW w \in Workers, Finish(w)
      PROVE  \A v \in Workers : Written(v)'
  BY <1>0, <1>3, FinishEffect DEF OneWorker, Written
<1>4. ASSUME NEW w \in Workers, Read(w)
      PROVE  (\A e \in ExpIds : WinnerHeld(e)') /\ (\A v \in Workers : Written(v)')
  <2>1. JustRead(w)
    BY <1>0, <1>4, ReadCurrent
  <2>2. Written(w)'
    BY <2>1 DEF JustRead, Written
  <2>3. QED
    BY <1>2, <2>1, <2>2 DEF JustRead, OneWorker
<1>5. ASSUME NEW w \in Workers, PutDefault(w)
      PROVE  (\A e \in ExpIds : WinnerHeld(e)') /\ (\A v \in Workers : Written(v)')
  <2>1. PICK k \in requests[w].todo :
          /\ ~Idle(w) /\ requests[w].pc = "defaults" /\ requests[w].kind = "conclude"
          /\ Advanced(w)
          /\ requests'[w].todo = requests[w].todo \ {k}
          /\ requests'[w].pc = IF requests[w].todo = {k} THEN "bulk" ELSE "defaults"
          /\ base'[requests[w].exp][k] = requests[w].arg
          /\ \A e \in ExpIds, l \in Keys :
               <<e, l>> # <<requests[w].exp, k>> => base'[e][l] = base[e][l]
          /\ UNCHANGED <<experiments, groups, contexts>>
    BY <1>0, <1>5, PutDefaultEffect
  <2>2. PICK q \in Request, f \in ExpIds : q = requests[w] /\ f = q.exp
    BY <1>0, <2>1 DEF RequestInv, RequestTypeOK, Idle, Request
  <2>3. experiments[f].status = "INPROGRESS" /\ Context[f] = {}
    BY <1>0, <2>1, <2>2 DEF SerialInv, RequestInv, ArgOK, Current, concludable
  <2>4. ASSUME NEW e \in ExpIds
        PROVE  WinnerHeld(e)'
    <3>1. CASE e = f
      BY <2>1, <2>3, <3>1 DEF WinnerHeld
    <3>2. CASE e # f
      BY <2>1, <2>2, <3>2 DEF GlobalInv, WinnerHeld, InDb, Holds
    <3>3. QED
      BY <3>1, <3>2
  <2>5. \A l \in Keys \ q.todo : base[f][l] = q.arg
    BY <2>1, <2>2, <2>3 DEF GlobalInv, Written
  <2>6. \A l \in Keys \ (q.todo \ {k}) : base'[f][l] = q.arg
    BY <2>1, <2>2, <2>5
  <2>7. /\ requests'[w].exp = f /\ requests'[w].arg = q.arg /\ requests'[w].todo = q.todo \ {k}
        /\ requests'[w].pc = "defaults" \/ q.todo = {k}
    BY <2>1, <2>2 DEF Advanced
  <2>8. Written(w)'
    BY <2>6, <2>7 DEF Written, Holds
  <2>9. QED
    BY <2>4, <2>8 DEF OneWorker
<1>6. ASSUME NEW w \in Workers, BulkOperations(w)
      PROVE  (\A e \in ExpIds : WinnerHeld(e)') /\ (\A v \in Workers : Written(v)')
  <2>1. CASE ~BulkAccepted(requests[w])
    BY <1>2, <1>3, <1>6, <2>1 DEF BulkOperations, cacVars
  <2>2. CASE BulkAccepted(requests[w])
    <3>1. PICK q \in Request, f \in ExpIds : q = requests[w] /\ f = q.exp
      BY <1>0, <1>6 DEF BulkOperations, RequestInv, RequestTypeOK, Idle, Request
    <3>2. /\ ~Idle(w) /\ Advanced(w) /\ requests[w].pc = "bulk" /\ requests'[w].pc = "commit"
          /\ base' = BulkBase(q) /\ base \in [ExpIds -> [Keys -> Nat]]
          /\ UNCHANGED experiments
      BY <1>0, <1>6, <2>2, <3>1, BulkEffect DEF RequestInv, RequestTypeOK
    <3>3. \A e \in ExpIds : Context[e] = {} => base'[e] = base[e]
      BY <3>1, <3>2 DEF BulkBase
    <3>4. \A e \in ExpIds : WinnerHeld(e)'
      BY <3>2, <3>3, WinnerKept DEF SameRow, InDb
    <3>5. Written(w)'
      <4>1. q.kind = "conclude" /\ Context[f] = {} => Holds(f, q.arg)
        BY <3>1, <3>2 DEF GlobalInv, Written
      <4>2. q.kind = "conclude" /\ Context[f] = {} => \A k \in Keys : base'[f][k] = q.arg
        BY <3>3, <4>1 DEF Holds
      <4>3. requests'[w].kind = q.kind /\ requests'[w].exp = f /\ requests'[w].arg = q.arg
        BY <3>1, <3>2 DEF Advanced
      <4>4. QED
        BY <3>2, <4>2, <4>3 DEF Written, Holds
    <3>6. QED
      BY <3>4, <3>5 DEF OneWorker
  <2>3. QED
    BY <2>1, <2>2
<1>7. ASSUME NEW w \in Workers, Commit(w)
      PROVE  (\A e \in ExpIds : WinnerHeld(e)') /\ (\A v \in Workers : Written(v)')
  <2>1. PICK q \in Request, f \in ExpIds : q = requests[w] /\ f = q.exp
    BY <1>0, <1>7, CommitRows DEF Request
  <2>2. /\ ~Idle(w) /\ q.pc = "commit" /\ Outcome(q) /\ UNCHANGED base /\ Finish(w)
        /\ \A e \in ExpIds \ {f} : experiments'[e] = experiments[e]
    BY <1>0, <1>7, <2>1, CommitRows DEF cacVars
  <2>3. ASSUME NEW e \in ExpIds \ {f}
        PROVE  WinnerHeld(e)'
    BY <2>2, <2>3, WinnerKept DEF SameRow, InDb
  <2>4. WinnerHeld(f)'
    <3>1. CASE q.kind = "conclude"
      <4>1. Context[f] = {} => Holds(f, q.arg)
        BY <2>1, <2>2, <3>1 DEF GlobalInv, Written
      <4>2. experiments'[f].chosen_variant = q.arg
        BY <2>1, <2>2, <3>1 DEF Outcome
      <4>3. QED
        BY <2>2, <4>1, <4>2 DEF WinnerHeld, Holds
    <3>2. CASE q.kind \in {"update", "join"}
      <4>1. SameRow(f)
        BY <2>1, <2>2, <3>2 DEF Outcome
      <4>2. QED
        BY <2>2, <4>1, WinnerKept
    <3>3. CASE q.kind \notin {"conclude", "update", "join"}
      <4>1. experiments'[f].status # "CONCLUDED"
        BY <2>1, <2>2, <3>3 DEF Outcome, Request
      <4>2. QED
        BY <4>1 DEF WinnerHeld
    <3>4. QED
      BY <3>1, <3>2, <3>3
  <2>5. QED
    BY <1>3, <2>2, <2>3, <2>4
<1>8. ASSUME NEW w \in Workers, Rollback(w) \/ Crash(w)
      PROVE  (\A e \in ExpIds : WinnerHeld(e)') /\ (\A v \in Workers : Written(v)')
  BY <1>2, <1>3, <1>8 DEF Rollback, Crash
<1>9. CASE GroupRequest
  <2>1. /\ \A e \in ExpIds : SameRow(e)
        /\ UNCHANGED <<requests, base>>
        /\ \A w \in Workers : Idle(w)
    BY <1>0, <1>9, GroupRequestRows DEF GroupRequest, RequestInv, OneWorker
  <2>2. QED
    BY <2>1, WinnerKept DEF Written, Idle
<1>10. CASE UNCHANGED requestVars
  <2>1. \A v \in Workers : Written(v)'
    BY <1>10 DEF GlobalInv, Written, Holds, Idle, requestVars
  <2>2. QED
    BY <1>2, <1>10, <2>1 DEF requestVars
<1>11. QED
  BY <1>4, <1>5, <1>6, <1>7, <1>8, <1>9, <1>10 DEF RequestNext, Proceed

\* One request at a time, the chosen variant of a concluded experiment without a
\* context is the default value of every key it overrides, whichever earlier
\* attempts to conclude it, with other winners, were cut short between two keys.
THEOREM GlobalWinnerIsDefaultCorrect ==
  ASSUME OneWorker
  PROVE  RequestSpec => []GlobalWinnerIsDefault
<1>1. RequestInit => GlobalInv
  <2> SUFFICES ASSUME RequestInit
               PROVE  GlobalInv
    OBVIOUS
  <2>1. SerialInv
    BY InitSerialInv
  <2>2. \A e \in ExpIds : InDb(e) => experiments[e].status \in {"INPROGRESS", "PAUSED"}
    BY DEF RequestInit, Init, LegacyExperiments, InDb
  <2>3. QED
    BY <2>1, <2>2 DEF GlobalInv, WinnerHeld, Written, RequestInit, Idle
<1>2. GlobalInv /\ [RequestNext]_requestVars => GlobalInv'
  BY GlobalStep
<1>3. GlobalInv => GlobalWinnerIsDefault
  BY DEF GlobalInv, GlobalWinnerIsDefault, WinnerHeld, Holds
<1>4. QED
  BY <1>1, <1>2, <1>3, PTL DEF RequestSpec

-----------------------------------------------------------------------------
(* Final statuses, one request at a time *)

\* No atomic handler changes the status of a terminated experiment: ramp, conclude,
\* discard, pause, resume and update each ask for a status that is not final, and the
\* requests about groups write group ids only.
LEMMA HandlersKeepFinal ==
  ASSUME TypeOK, [Next]_vars, NEW e \in ExpIds, InDb(e),
         experiments[e].status \in {"CONCLUDED", "DISCARDED"}
  PROVE  experiments'[e].status = experiments[e].status
<1>1. /\ experiments = [f \in ExpIds |-> experiments[f]] /\ DOMAIN experiments = ExpIds
      /\ \A f \in ExpIds : InDb(f) => experiments[f] \in Experiment
  BY DEF TypeOK, InDb
<1>2. CASE NextExperiment
  <2>1. PICK f \in ExpIds :
          \/ \E g \in GroupIds \cup {None} : Create(f, g)
          \/ \E t \in TrafficPercentage : Ramp(f, t)
          \/ \E i \in 1 .. Variants[f] : Conclude(f, i)
          \/ Discard(f)
          \/ Pause(f)
          \/ Resume(f)
          \/ \E g \in GroupIds \cup {None} : Move(f, g)
    BY <1>2 DEF NextExperiment
  <2>2. CASE f # e
    <3>1. experiments'[e] = experiments[e]
      BY <1>1, <2>1, <2>2
         DEF Create, CommitCreate, Ramp, CommitRamp, RampFirst, RampInGroup, RampUngrouped,
             RampExperiment, Conclude, Discard, CommitTermination, Pause, Resume, CommitStatus,
             Move, CommitMove
    <3>2. QED
      BY <3>1
  <2>3. CASE f = e
    <3>1. experiments[e].status = "CREATED" /\ \E g \in GroupIds \cup {None} : Move(f, g)
      BY <2>1, <2>3
         DEF Create, CommitCreate, CanCommitCreate, Ramp, CanRamp, active, Conclude, concludable,
             Discard, discardable, Pause, pausable, Resume, resumable, Move
    <3>2. QED
      BY <3>1
  <2>4. QED
    BY <2>2, <2>3
<1>3. CASE NextGroup
  <2>1. ASSUME NEW h, experiments'[e] = [experiments[e] EXCEPT !.experiment_group_id = h]
        PROVE  experiments'[e].status = experiments[e].status
    BY <1>1, <2>1 DEF Experiment
  <2>2. CASE UNCHANGED experiments
    BY <2>2
  <2>3. ASSUME NEW M, NEW g, SetGroupId(M, g)
        PROVE  experiments'[e].status = experiments[e].status
    BY <2>1, <2>3 DEF SetGroupId
  <2>4. ASSUME NEW g \in GroupIds, NEW M \in SUBSET ExpIds, NEW newId, RemoveMembers(g, M, newId)
        PROVE  experiments'[e].status = experiments[e].status
    BY <2>1, <2>4 DEF RemoveMembers
  <2>5. ASSUME NEW newId, Backfill(newId)
        PROVE  experiments'[e].status = experiments[e].status
    BY <2>1, <2>5 DEF Backfill
  <2>6. QED
    BY <1>3, <2>2, <2>3, <2>4, <2>5
       DEF NextGroup, CreateGroup, UpdateGroup, AddMembers, CommitAddMembers, DeleteGroup
<1>4. CASE UNCHANGED vars
  BY <1>4 DEF vars
<1>5. QED
  BY <1>2, <1>3, <1>4 DEF Next

\* One request at a time, CONCLUDED and DISCARDED are final, with refused calls,
\* rollbacks and crashes: the lost termination that two requests at once can cause
\* (ramp_handler and the others write the status without looking at it again) needs the
\* second request.
THEOREM TerminalIsFinalCorrect ==
  ASSUME OneWorker
  PROVE  RequestSpec => TerminalIsFinal
<1>1. SerialInv /\ [RequestNext]_requestVars => SerialInv' /\ [Next]_vars
  BY SerialStep
<1>2. SerialInv => TypeOK
  BY DEF SerialInv, IndInv
<1>3. SerialInv /\ [RequestNext]_requestVars =>
        \A e \in ExpIds :
          (InDb(e) /\ experiments[e].status \in {"CONCLUDED", "DISCARDED"})
             => experiments'[e].status = experiments[e].status
  BY <1>1, <1>2, HandlersKeepFinal
<1>4. QED
  BY <1>1, <1>3, InitSerialInv, PTL DEF RequestSpec, TerminalIsFinal
=============================================================================
