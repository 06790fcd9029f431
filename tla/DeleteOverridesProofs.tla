----------------------- MODULE DeleteOverridesProofs ------------------------
(***************************************************************************)
(* What a conclusion of a DELETE_OVERRIDES experiment makes of the         *)
(* configuration is what the users of the winner were shown, for every     *)
(* number of keys, values and variants, if no one edited CAC since the     *)
(* variants were last validated.                                           *)
(*                                                                         *)
(* The property looks at one step.  What it needs of the state before is   *)
(* that the contexts in CAC are those of the row, that they were validated *)
(* against the context as it is now, and that the conclusion has read it   *)
(* as it is now.  The first fails after an update that CAC has answered    *)
(* and that did not commit: what is shown is then no longer what the row   *)
(* says, and the conclusion follows the row.                               *)
(***************************************************************************)
EXTENDS DeleteOverrides, TLAPS

Statuses == {"CREATED", "INPROGRESS", "PAUSED", "CONCLUDED", "DISCARDED"}

Row == [status : Statuses, variants : Variants]

\* The variants fit the context and what is below it, as they are now.
Fits(variants) == validate_delete_experiment_variants(variants, base, outer)

\* The request and the row it was accepted for.
Accepted ==
  /\ request.kind = "create" => experiment = None
  /\ request.kind = "update" => HasStatus({"CREATED"})
  /\ request.kind = "ramp" => HasStatus({"CREATED", "INPROGRESS"})
  /\ request.kind = "conclude" => HasStatus({"INPROGRESS"}) /\ request.winner \in 1..NumVariants
  /\ request.kind = "discard" => HasStatus({"CREATED", "INPROGRESS", "PAUSED"})
  /\ request.kind \in {"ramp", "conclude", "discard"} => request.variants = experiment.variants

\* What the request has read and done so far.
Progress ==
  /\ request.phase = "resolve" =>
       /\ request.kind \in {"create", "update", "ramp"}
       /\ ~request.edited => request.context = base
  /\ request.kind \in {"create", "update"} =>
       /\ request.phase \in {"bulk", "commit"} => request.variants # None
       /\ request.phase = "commit" => cac = request.variants
  /\ request.kind = "ramp" /\ request.phase = "commit" /\ ~edited => Fits(experiment.variants)
  /\ request.phase = "context" => request.kind # "discard"
  /\ request.kind = "conclude" /\ request.phase = "context" => request.winner # 1
  /\ request.kind = "conclude" /\ request.phase = "bulk" =>
       /\ request.context = None <=> request.winner = 1
       /\ request.context # None /\ ~edited => request.context = base

Tried ==
  /\ experiment # None /\ cac # None /\ ~Updating /\ ~apart => cac = experiment.variants
  /\ HasStatus({"INPROGRESS", "PAUSED"}) /\ cac # None /\ ~edited => Fits(experiment.variants)

ShownInv ==
  /\ request \in Request \cup {None}
  /\ experiment \in Row \cup {None}
  /\ edited \in BOOLEAN
  /\ apart \in BOOLEAN
  /\ request # None => Accepted /\ Progress
  /\ Tried

\* There is neither an experiment nor a request at the start.
LEMMA ShownInit == Init => ShownInv
  BY DEF Init, ShownInv, Tried, HasStatus

\* A request is a record, and not None.
LEMMA RequestIs == \A r \in Request : r # None
  BY SentinelAssumption

\* A request has been accepted.
LEMMA ShownBegin ==
  ASSUME ShownInv, NEW kind \in {"create", "update", "ramp", "conclude", "discard"},
         NEW phase \in {"context", "bulk"}, NEW variants \in Variants \cup {None},
         NEW winner \in (1..NumVariants) \cup {None},
         Begin(kind, phase, variants, winner),
         kind = "create" => experiment = None /\ phase = "context",
         kind = "update" => HasStatus({"CREATED"}) /\ phase = "context",
         kind = "ramp" => HasStatus({"CREATED", "INPROGRESS"}),
         kind = "conclude" => HasStatus({"INPROGRESS"}) /\ winner \in 1..NumVariants
                              /\ (phase = "context" <=> winner # 1),
         kind = "discard" => HasStatus({"CREATED", "INPROGRESS", "PAUSED"}) /\ phase = "bulk",
         kind \in {"ramp", "conclude", "discard"} => variants = experiment.variants
  PROVE  ShownInv'
<1>1. /\ request = None /\ UNCHANGED <<base, outer, cac, experiment, edited, apart>>
      /\ request' = [kind |-> kind, phase |-> phase, variants |-> variants, winner |-> winner,
                     context |-> None, edited |-> FALSE]
  BY DEF Begin
<1>2. request' \in Request
  BY <1>1 DEF Request
<1>3. Accepted'
  BY <1>1 DEF Accepted, HasStatus
<1>4. Progress'
  BY <1>1 DEF Progress
<1>5. Tried'
  BY <1>1 DEF ShownInv, Tried, Updating, HasStatus, Fits
<1>6. QED
  BY <1>1, <1>2, <1>3, <1>4, <1>5 DEF ShownInv

\* A request that ends without its commit; it may be an update that has changed CAC.
LEMMA ShownEnd ==
  ASSUME ShownInv, request # None, request' = None, apart' = (apart \/ Updating),
         UNCHANGED <<base, outer, cac, experiment, edited>>
  PROVE  ShownInv'
  BY DEF ShownInv, Tried, Updating, HasStatus, Fits

\* The context is fetched.
LEMMA ShownFetch == ASSUME ShownInv, FetchContext PROVE ShownInv'
<1>1. /\ request \in Request /\ request # None /\ request.phase = "context"
      /\ UNCHANGED <<base, outer, cac, experiment, edited, apart>> /\ Accepted /\ Progress
  BY DEF FetchContext, ShownInv
<1>2. CASE base \notin Overrides
  <2>1. request' = None /\ apart' = (apart \/ Updating)
    BY <1>1, <1>2 DEF FetchContext, Updating, ShownInv
  <2>2. QED
    BY <1>1, <2>1, ShownEnd
<1>3. CASE base \in Overrides
  <2> DEFINE phase == IF request.kind = "conclude" THEN "bulk" ELSE "resolve"
  <2>1. request' = [request EXCEPT !.context = base, !.phase = phase]
    BY <1>3 DEF FetchContext
  <2>2. /\ request' \in Request
        /\ request'.kind = request.kind /\ request'.variants = request.variants
        /\ request'.winner = request.winner /\ request'.context = base /\ request'.phase = phase
    BY <1>1, <1>3, <2>1 DEF Request
  <2>3. base # None
    BY <1>3, SentinelAssumption
  <2>4. Accepted'
    BY <1>1, <2>2 DEF Accepted, HasStatus
  <2>5. Progress'
    BY <1>1, <2>2, <2>3 DEF Progress, Request
  <2>6. Tried'
    BY <1>1, <2>2 DEF ShownInv, Tried, Updating, HasStatus, Fits
  <2>7. QED
    BY <1>1, <2>2, <2>4, <2>5, <2>6 DEF ShownInv
<1>4. QED
  BY <1>2, <1>3

\* The variants are validated against what the request has read.
LEMMA ShownValidate == ASSUME ShownInv, Validate PROVE ShownInv'
<1>1. /\ request \in Request /\ request # None /\ request.phase = "resolve"
      /\ UNCHANGED <<base, outer, cac, experiment, apart>> /\ Accepted /\ Progress
      /\ request.kind \in {"create", "update", "ramp"}
  BY DEF Validate, ShownInv, Progress
<1>2. PICK variants \in IF request.variants = None THEN Offered ELSE {request.variants} :
        /\ validate_delete_experiment_variants(variants, request.context, outer)
        /\ request' = [request EXCEPT !.variants = variants,
                                      !.phase = IF request.kind = "ramp" THEN "commit" ELSE "bulk"]
        /\ edited' = request.edited
  BY DEF Validate
<1>3. variants \in Variants /\ variants # None
  BY <1>1, <1>2, OfferedAssumption, SentinelAssumption DEF Request
<1>4. /\ request' \in Request /\ request'.variants = variants /\ request'.kind = request.kind
      /\ request'.phase = IF request.kind = "ramp" THEN "commit" ELSE "bulk"
  BY <1>1, <1>2, <1>3 DEF Request
<1>5. request.kind = "ramp" => experiment \in Row /\ variants = experiment.variants
  BY <1>1, <1>2, <1>3, SentinelAssumption DEF Accepted, HasStatus, ShownInv, Row
<1>6. ~edited' => Fits(variants)
  BY <1>1, <1>2 DEF Progress, Fits
<1>7. edited' \in BOOLEAN
  BY <1>1, <1>2 DEF Request
<1>8. Accepted'
  BY <1>1, <1>4, <1>5 DEF Accepted, HasStatus
<1>9. Progress'
  BY <1>1, <1>3, <1>4, <1>5, <1>6 DEF Progress, Fits
<1>10. Tried'
  <2>1. HasStatus({"INPROGRESS", "PAUSED"}) => request.kind = "ramp"
    BY <1>1 DEF Accepted, HasStatus
  <2>2. ~Updating /\ ~Updating'
    BY <1>1, <1>4 DEF Updating
  <2>3. QED
    BY <1>1, <1>5, <1>6, <2>1, <2>2 DEF ShownInv, Tried, HasStatus, Fits
<1>11. QED
  BY <1>1, <1>4, <1>7, <1>8, <1>9, <1>10 DEF ShownInv

\* The variants are in CAC.
LEMMA ShownPut == ASSUME ShownInv, BulkPut PROVE ShownInv'
<1>1. /\ request \in Request /\ request # None /\ request.phase = "bulk"
      /\ request.kind \in {"create", "update"}
      /\ cac' = request.variants /\ request' = [request EXCEPT !.phase = "commit"]
      /\ UNCHANGED <<base, outer, experiment, edited, apart>> /\ Accepted /\ Progress
  BY DEF BulkPut, ShownInv
<1>2. /\ request' \in Request /\ request'.variants = request.variants /\ request'.kind = request.kind
      /\ request'.phase = "commit" /\ request'.winner = request.winner /\ request' # None
  BY <1>1, RequestIs DEF Request
<1>3. Accepted'
  BY <1>1, <1>2 DEF Accepted, HasStatus
<1>4. Progress'
  BY <1>1, <1>2 DEF Progress
<1>5. Tried'
  BY <1>1, <1>2 DEF Accepted, Tried, Updating, HasStatus
<1>6. QED
  BY <1>1, <1>2, <1>3, <1>4, <1>5 DEF ShownInv

\* The variants are no longer in CAC.
LEMMA ShownBulkEnd == ASSUME ShownInv, BulkEnd PROVE ShownInv'
<1>1. /\ request \in Request /\ request # None /\ request.phase = "bulk"
      /\ request.kind \in {"conclude", "discard"}
      /\ cac' = None /\ request' = [request EXCEPT !.phase = "commit"]
      /\ UNCHANGED <<outer, experiment, edited, apart>> /\ Accepted /\ Progress
  BY DEF BulkEnd, ShownInv
<1>2. /\ request' \in Request /\ request'.variants = request.variants /\ request'.kind = request.kind
      /\ request'.phase = "commit" /\ request'.winner = request.winner
  BY <1>1 DEF Request
<1>3. Accepted'
  BY <1>1, <1>2 DEF Accepted, HasStatus
<1>4. Progress'
  BY <1>1, <1>2 DEF Progress
<1>5. Tried'
  BY <1>1 DEF Tried
<1>6. QED
  BY <1>1, <1>2, <1>3, <1>4, <1>5 DEF ShownInv

\* The row is written.
LEMMA ShownCommit == ASSUME ShownInv, Commit PROVE ShownInv'
<1>1. /\ request \in Request /\ request # None /\ request.phase = "commit" /\ request' = None
      /\ apart' = (apart /\ ~Updating)
      /\ UNCHANGED <<base, outer, cac, edited>> /\ Accepted /\ Progress
  BY DEF Commit, ShownInv
<1>2. CASE request.kind = "create"
  <2>1. experiment' = [status |-> "CREATED", variants |-> request.variants]
    BY <1>2 DEF Commit
  <2>2. experiment' \in Row /\ experiment'.status = "CREATED" /\ cac = experiment'.variants
    BY <1>1, <1>2, <2>1 DEF Progress, Request, Row, Statuses
  <2>3. QED
    BY <1>1, <2>2 DEF ShownInv, Tried, HasStatus
<1>3. CASE request.kind = "update"
  <2>1. experiment' = [experiment EXCEPT !.variants = request.variants]
    BY <1>3 DEF Commit
  <2>2. experiment \in Row /\ experiment.status = "CREATED"
    BY <1>1, <1>3 DEF Accepted, HasStatus, ShownInv
  <2>3. experiment' \in Row /\ experiment'.status = "CREATED" /\ cac = experiment'.variants
    BY <1>1, <1>3, <2>1, <2>2 DEF Progress, Request, Row
  <2>4. QED
    BY <1>1, <2>3 DEF ShownInv, Tried, HasStatus
<1>4. CASE request.kind = "ramp"
  <2>1. experiment' = [experiment EXCEPT !.status = "INPROGRESS"]
    BY <1>4 DEF Commit
  <2>2. experiment \in Row /\ experiment # None /\ (~edited => Fits(experiment.variants))
    BY <1>1, <1>4 DEF Accepted, HasStatus, Progress, ShownInv
  <2>3. experiment' \in Row /\ experiment'.variants = experiment.variants
    BY <2>1, <2>2 DEF Row, Statuses
  <2>4. QED
    BY <1>1, <1>4, <2>2, <2>3 DEF ShownInv, Tried, HasStatus, Updating, Fits
<1>5. CASE request.kind \in {"conclude", "discard"}
  <2>1. PICK status \in {"CONCLUDED", "DISCARDED"} :
          experiment' = [experiment EXCEPT !.status = status]
    BY <1>5 DEF Commit
  <2>2. experiment \in Row /\ experiment # None
    BY <1>1, <1>5 DEF Accepted, HasStatus, ShownInv
  <2>3. experiment' \in Row /\ experiment'.variants = experiment.variants /\ experiment'.status = status
    BY <2>1, <2>2 DEF Row, Statuses
  <2>4. QED
    BY <1>1, <1>5, <2>2, <2>3 DEF ShownInv, Tried, HasStatus, Updating
<1>6. QED
  BY <1>1, <1>2, <1>3, <1>4, <1>5 DEF Request

\* Pause and resume.
LEMMA ShownStatus ==
  ASSUME ShownInv, NEW from \in {"INPROGRESS", "PAUSED"}, NEW to \in {"INPROGRESS", "PAUSED"},
         SetStatus(from, to)
  PROVE  ShownInv'
<1>1. /\ request = None /\ HasStatus({from}) /\ experiment' = [experiment EXCEPT !.status = to]
      /\ UNCHANGED <<base, outer, cac, request, edited, apart>>
  BY DEF SetStatus
<1>2. /\ experiment \in Row /\ experiment # None /\ experiment.status = from
      /\ experiment' \in Row /\ experiment'.variants = experiment.variants
  BY <1>1 DEF HasStatus, ShownInv, Row, Statuses
<1>3. QED
  BY <1>1, <1>2 DEF ShownInv, Tried, HasStatus, Updating, Fits

\* After an edit nothing is claimed of what was read or validated.
LEMMA ShownEdit == ASSUME ShownInv, Edit PROVE ShownInv'
<1>1. edited' = TRUE /\ UNCHANGED <<cac, experiment, apart>>
  BY DEF Edit
<1>2. CASE request = None
  BY <1>1, <1>2 DEF Edit, ShownInv, Tried, Updating
<1>3. CASE request # None
  <2>1. /\ request \in Request /\ request' = [request EXCEPT !.edited = TRUE]
        /\ Accepted /\ Progress
    BY <1>3 DEF Edit, ShownInv
  <2>2. /\ request' \in Request /\ request' # None /\ request'.edited
        /\ request'.kind = request.kind /\ request'.phase = request.phase
        /\ request'.variants = request.variants /\ request'.winner = request.winner
        /\ request'.context = request.context
    BY <2>1, RequestIs DEF Request
  <2>3. Accepted'
    BY <1>1, <2>1, <2>2 DEF Accepted, HasStatus
  <2>4. Progress'
    BY <1>1, <2>1, <2>2 DEF Progress
  <2>5. Tried'
    BY <1>1, <1>3, <2>2 DEF ShownInv, Tried, Updating
  <2>6. QED
    BY <1>1, <2>2, <2>3, <2>4, <2>5 DEF ShownInv
<1>4. QED
  BY <1>2, <1>3

\* Every step keeps the invariant.
LEMMA ShownNext == ShownInv /\ [Next]_vars => ShownInv'
<1> SUFFICES ASSUME ShownInv, [Next]_vars
             PROVE  ShownInv'
  OBVIOUS
<1>0. HasStatus(Statuses) => experiment.variants \in Variants \cup {None}
  BY DEF HasStatus, ShownInv, Row
<1>1. CASE BeginCreate
  BY <1>1, ShownBegin DEF BeginCreate
<1>2. CASE BeginUpdate
  BY <1>2, ShownBegin DEF BeginUpdate
<1>3. CASE BeginRamp
  BY <1>0, <1>3, ShownBegin DEF BeginRamp, HasStatus, Statuses
<1>4. CASE BeginConclude
  <2>1. PICK winner \in 1..NumVariants :
          Begin("conclude", IF winner = 1 THEN "bulk" ELSE "context", experiment.variants, winner)
    BY <1>4 DEF BeginConclude
  <2>2. HasStatus({"INPROGRESS"}) /\ experiment.variants \in Variants \cup {None}
    BY <1>0, <1>4 DEF BeginConclude, HasStatus, Statuses
  <2>3. CASE winner = 1
    BY <2>1, <2>2, <2>3, ShownBegin
  <2>4. CASE winner # 1
    BY <2>1, <2>2, <2>4, ShownBegin
  <2>5. QED
    BY <2>3, <2>4
<1>5. CASE BeginDiscard
  BY <1>0, <1>5, ShownBegin DEF BeginDiscard, HasStatus, Statuses
<1>6. CASE FetchContext
  BY <1>6, ShownFetch
<1>7. CASE Validate
  BY <1>7, ShownValidate
<1>8. CASE Fail
  BY <1>8, ShownEnd DEF Fail, Updating
<1>9. CASE BulkPut
  BY <1>9, ShownPut
<1>10. CASE BulkEnd
  BY <1>10, ShownBulkEnd
<1>11. CASE Commit
  BY <1>11, ShownCommit
<1>12. CASE Pause \/ Resume
  BY <1>12, ShownStatus DEF Pause, Resume
<1>13. CASE EditContext \/ EditOuter
  BY <1>13, ShownEdit DEF EditContext, EditOuter
<1>14. CASE UNCHANGED vars
  BY <1>14 DEF vars, ShownInv, Accepted, Progress, Tried, Updating, HasStatus, Fits
<1>15. QED
  BY <1>1, <1>2, <1>3, <1>4, <1>5, <1>6, <1>7, <1>8, <1>9, <1>10, <1>11, <1>12, <1>13, <1>14
     DEF Next

\* Control: the context stays and has the values of the control variant.
\* Otherwise: the keys of the winner fall back to the values it showed.
LEMMA ConcludeShown ==
  ASSUME ShownInv, BulkEnd, request.kind = "conclude", ~edited, NEW k \in Keys
  PROVE  /\ Resolved(base', k) = Shown(experiment.variants, request.winner, k)
         /\ ~apart => Resolved(base', k) = Shown(cac, request.winner, k)
<1> DEFINE row == experiment.variants
<1>1. /\ request \in Request /\ request # None /\ request.phase = "bulk" /\ cac # None
      /\ Accepted /\ Progress /\ outer' = outer
  BY DEF BulkEnd, ShownInv
<1>2. /\ experiment # None /\ request.variants = row
      /\ request.winner \in 1..NumVariants /\ Fits(row)
      /\ ~apart => cac = row
  BY <1>1 DEF Accepted, HasStatus, ShownInv, Tried, Updating
<1>3. CASE request.winner = 1
  <2>1. base' = base
    BY <1>1, <1>3 DEF Progress, BulkEnd
  <2>2. validate_keys_from_source(row[1], base)
    BY <1>2 DEF Fits, validate_delete_experiment_variants
  <2>3. Resolved(base', k) = Shown(row, request.winner, k)
    BY <1>1, <1>3, <2>1, <2>2 DEF Resolved, Shown, validate_keys_from_source
  <2>4. QED
    BY <1>2, <2>3
<1>4. CASE request.winner # 1
  <2>1. request.context = base /\ base' = Without(base, DOMAIN row[request.winner])
    BY <1>1, <1>2, <1>4 DEF Progress, BulkEnd
  <2>2. request.winner \in 2..NumVariants
    BY <1>2, <1>4, VariantsAssumption
  <2>3. validate_keys_from_source(row[request.winner], outer)
    BY <1>2, <2>2 DEF Fits, validate_delete_experiment_variants
  <2>4. Resolved(base', k) = Shown(row, request.winner, k)
    BY <1>1, <2>1, <2>3 DEF Resolved, Shown, Without, validate_keys_from_source
  <2>5. QED
    BY <1>2, <2>4
<1>5. QED
  BY <1>3, <1>4

\* An experiment that deletes overrides is concluded as its row says, and as its
\* users were shown unless an update failed after CAC took its variants: every key
\* has after the conclusion the value of the winner, whatever other requests failed
\* on the way and whoever edited CAC before the variants were last validated.
THEOREM ConcludeAsServedCorrect == Spec => ConcludeAsServed
<1>1. ShownInv /\ [Next]_vars => ShownInv'
  BY ShownNext
<1>2. ShownInv /\ [Next]_vars =>
        [BulkEnd /\ request.kind = "conclude" /\ ~edited =>
           \A k \in Keys :
             /\ Resolved(base', k) = Shown(experiment.variants, request.winner, k)
             /\ ~apart => Resolved(base', k) = Shown(cac, request.winner, k)]_vars
  BY ConcludeShown
<1>3. QED
  BY <1>1, <1>2, ShownInit, PTL DEF Spec, ConcludeAsServed
=============================================================================
