------------------------- MODULE DimensionRequests --------------------------
(***************************************************************************)
(* The dimension handlers and the weight recompute as the service runs     *)
(* them: several requests at once, each in two steps.  The first step is   *)
(* what a handler reads and checks before its transaction, the second the  *)
(* transaction, which uses what was read without looking again.  Contexts  *)
(* are put and deleted in one transaction.  The database keeps the         *)
(* positions unique: the constraint is deferred, so that a transaction     *)
(* that would leave a duplicate fails when it commits.                     *)
(***************************************************************************)
EXTENDS Dimensions

CONSTANT Workers   \* the requests that can be in progress at once

VARIABLE requests  \* worker -> what its request keeps from before its transaction

requestVars == <<dimensions, contexts, requests>>

Accept(w, request) ==
  /\ requests[w] = None
  /\ requests' = [requests EXCEPT ![w] = request]
  /\ UNCHANGED dimensionVars

Pending(w, op) == requests[w] # None /\ requests[w].op = op

Finish(w) == requests' = [requests EXCEPT ![w] = None]

\* dimension_unique_position, checked at commit.
UniquePositions(D) == \A d, e \in DOMAIN D : D[d].position = D[e].position => d = e

\* The transaction takes effect if it may commit, and fails otherwise.
Commit(w, may, D) ==
  /\ dimensions' = IF may /\ UniquePositions(D) THEN D ELSE dimensions
  /\ Finish(w)
  /\ UNCHANGED contexts

RequestInit == Init /\ requests = [w \in Workers |-> None]

BeginCreate(w, n, p, type, b) ==
  /\ CanCreate(dimensions, n, p, type, b)
  /\ Accept(w, [op |-> "create", name |-> n, position |-> p, type |-> type, base |-> b])

CommitCreate(w) ==
  /\ Pending(w, "create")
  /\ LET r == requests[w]
     IN Commit(w, r.name \notin DOMAIN dimensions,
               Inserted(dimensions, r.name, r.position, r.type, r.base))

BeginUpdate(w, n, p) ==
  /\ CanUpdate(dimensions, n, p)
  /\ Accept(w, [op |-> "update", name |-> n, position |-> p,
                old |-> dimensions[n].position, rows |-> Cardinality(DOMAIN dimensions)])

CommitUpdate(w) ==
  /\ Pending(w, "update")
  /\ LET r == requests[w]
         may == CanMove(dimensions, r.name, r.position, r.rows)
     IN Commit(w, may, IF may THEN Moved(dimensions, r.name, r.old, r.position, r.rows)
                       ELSE dimensions)

BeginDelete(w, n) ==
  /\ CanDelete(dimensions, contexts, n)
  /\ Accept(w, [op |-> "delete", name |-> n, row |-> dimensions[n]])

CommitDelete(w) ==
  /\ Pending(w, "delete")
  /\ LET r == requests[w]
     IN Commit(w, r.name \in DOMAIN dimensions, Removed(dimensions, r.name, r.row))

BeginRecompute(w) ==
  /\ CanRecompute(dimensions, contexts)
  /\ Accept(w, [op |-> "recompute", weights |-> NewWeights(dimensions, contexts)])

CommitRecompute(w) ==
  /\ Pending(w, "recompute")
  /\ contexts' = Reweighed(contexts, requests[w].weights)
  /\ Finish(w)
  /\ UNCHANGED dimensions

RequestNext ==
  \/ \E w \in Workers :
       \/ \E n \in Names, p \in 0 .. Cardinality(Names), b \in Names \cup {None}, type \in DimensionTypes :
            /\ (type = "REGULAR") = (b = None)
            /\ BeginCreate(w, n, p, type, b)
       \/ \E n \in Names, p \in 0 .. Cardinality(Names) : BeginUpdate(w, n, p)
       \/ \E n \in Names : BeginDelete(w, n)
       \/ BeginRecompute(w)
       \/ CommitCreate(w)
       \/ CommitUpdate(w)
       \/ CommitDelete(w)
       \/ CommitRecompute(w)
  \/ /\ \E w \in Workers : requests[w] = None
     /\ \E c \in Conditions : PutContext(c) \/ DeleteContext(c)
     /\ UNCHANGED requests

RequestSpec == RequestInit /\ [][RequestNext]_requestVars

-----------------------------------------------------------------------------
(* Properties *)

\* The abstract list, read off the positions.
OrderOf(D) == [i \in 1 .. Cardinality(DOMAIN D) |-> CHOOSE d \in DOMAIN D : D[d].position = i - 1]

BasesOf(D) == [d \in DOMAIN D |-> D[d].base]

List == INSTANCE DimensionList WITH order <- OrderOf(dimensions), base <- BasesOf(dimensions)

\* One request at a time, the shifts of positions implement a list in which
\* dimensions are added, moved and removed.
ImplementsList == List!Spec

\* After a recompute the weights rank two contexts by the highest position at
\* which they differ; in particular a context is above each context whose
\* condition is a part of its own.
RecomputeRanks ==
  [][\A w \in Workers : CommitRecompute(w) => \A c1, c2 \in DOMAIN contexts :
       Outranks(c1, c2) => contexts'[c1] > contexts'[c2]]_requestVars
=============================================================================
