---------------------------- MODULE ConfigReduce ----------------------------
(***************************************************************************)
(* The reduction of a configuration: for one key after the other, the      *)
(* overrides that are redundant because the next more general context      *)
(* gives the same value are removed.  A preview only shows the result; an  *)
(* approved reduction reads the contexts for each key and then removes     *)
(* override by override, each with statements that commit on their own, so *)
(* that requests of others come in between.                                *)
(***************************************************************************)
EXTENDS ConfigResolution

CONSTANTS None,
          MaxWrites   \* bound on the requests of others during a reduction

VARIABLE reducing   \* the approved reduction that is going on, or None

reduceVars == <<contexts, reducing>>

\* The contexts that override k; those of experiments are skipped.
Candidates(C, k) ==
  {i \in DOMAIN C : k \in DOMAIN C[i].override /\ VariantIds \notin DOMAIN C[i].condition}

\* c2 is among the subsets that are generated of c1.
MoreGeneral(c2, c1) ==
  \A d \in DOMAIN c2.condition : d \in DOMAIN c1.condition /\ c1.condition[d] = c2.condition[d]

\* Candidates are sorted by weight, the highest first; equal weights come in
\* the arbitrary order of a hash map.
Heavier(C, i, j) ==
  calculate_context_weight(C[i].condition) > calculate_context_weight(C[j].condition)

\* Fault: any more general context with the same value will do.
AnyEqualValue(C, k, i) ==
  \/ Default[k] = C[i].override[k]
  \/ \E j \in Candidates(C, k) \ {i} :
       MoreGeneral(C[j], C[i]) /\ C[j].override[k] = C[i].override[k]

\* The first more general context, or else the default, decides.
can_be_reduced(C, k, i) ==
  LET general == {j \in Candidates(C, k) \ {i} : MoreGeneral(C[j], C[i])}
      first   == CHOOSE j \in general : \A n \in general \ {j} : Heavier(C, j, n)
  IN C[i].override[k] = IF general = {} THEN Default[k] ELSE C[first].override[k]

Reducible(C, k) == {i \in Candidates(C, k) : can_be_reduced(C, k, i)}

\* What a preview shows after the key k.
Reduced(C, k) ==
  LET cut == [i \in DOMAIN C |->
                IF i \in Reducible(C, k)
                THEN [C[i] EXCEPT !.override = [n \in DOMAIN @ \ {k} |-> @[n]]] ELSE C[i]]
  IN Kept(cut, {i \in DOMAIN C : DOMAIN cut[i].override # {}})

\* C without the contexts in S.
Omit(C, S) == Kept(C, DOMAIN C \ S)

ReduceInit == Init /\ reducing = None

\* The keys of the default configuration come in some order.  History: the contexts
\* at the start, and the conditions that other requests have written since.
BeginReduce ==
  /\ reducing = None
  /\ reducing' = [start |-> contexts, touched |-> {}, writes |-> 0,
                  left |-> Keys, key |-> None, read |-> << >>, todo |-> {},
                  step |-> "delete", at |-> 0]
  /\ UNCHANGED contexts

\* reduce_config_key returns after the last override, and what was read is dropped.
Return(r) ==
  IF r.todo = {} /\ r.step = "delete"
  THEN [r EXCEPT !.key = None, !.read = << >>, !.at = 0] ELSE r

\* generate_cac for the next key, and what is redundant in it.
ReadContexts(k) ==
  /\ reducing # None
  /\ reducing.step = "delete" /\ reducing.todo = {}
  /\ k \in reducing.left
  /\ reducing' = Return([reducing EXCEPT !.left = @ \ {k}, !.key = k, !.read = contexts,
                                         !.todo = Reducible(contexts, k)])
  /\ UNCHANGED contexts

\* The context as it was read has other overrides, which are to be put again.
HasOthers(i) == DOMAIN reducing.read[i].override # {reducing.key}

\* The next of those that are redundant, the highest weight first.
NextRedundant(i) ==
  /\ reducing # None
  /\ reducing.step = "delete"
  /\ i \in reducing.todo
  /\ \A j \in reducing.todo : ~Heavier(reducing.read, j, i)

\* Fault: the other overrides of a context are lost.
RemoveAll(i) ==
  /\ NextRedundant(i)
  /\ contexts' = Omit(contexts, Index(reducing.read[i].condition))
  /\ reducing' = Return([reducing EXCEPT !.todo = @ \ {i}])

\* A failure of delete is ignored.
RemoveContext(i) ==
  /\ NextRedundant(i)
  /\ \/ contexts' = Omit(contexts, Index(reducing.read[i].condition))
     \/ UNCHANGED contexts
  /\ reducing' = Return([reducing EXCEPT !.todo = @ \ {i}, !.at = i,
                                         !.step = IF HasOthers(i) THEN "describe" ELSE "delete"])

\* The description for the new context is taken from the one that was just deleted:
\* unless another request has put it, the request fails here.
query_description ==
  /\ reducing # None
  /\ reducing.step = "describe"
  /\ reducing' = IF Index(reducing.read[reducing.at].condition) = {} THEN None
                 ELSE [reducing EXCEPT !.step = "upsert"]
  /\ UNCHANGED contexts

\* A failure of upsert is ignored.
PutAgain ==
  /\ reducing # None
  /\ reducing.step = "upsert"
  /\ LET c == reducing.read[reducing.at]
     IN \/ PutContext(c.condition, [n \in DOMAIN c.override \ {reducing.key} |-> c.override[n]])
        \/ UNCHANGED contexts
  /\ reducing' = Return([reducing EXCEPT !.step = "delete"])

EndReduce ==
  /\ reducing # None
  /\ reducing.step = "delete" /\ reducing.todo = {} /\ reducing.left = {}
  /\ reducing' = None
  /\ UNCHANGED contexts

\* A request of someone else.
Other(condition) ==
  /\ \/ \E k \in Keys : \E v \in Values[k] : PutContext(condition, [n \in {k} |-> v])
     \/ DeleteContext(condition)
  /\ \/ reducing = None /\ UNCHANGED reducing
     \/ /\ reducing # None
        /\ reducing.writes < MaxWrites
        /\ reducing' = [reducing EXCEPT !.touched = @ \cup {condition}, !.writes = @ + 1]

ReduceNext ==
  \/ \E condition \in Conditions : Other(condition)
  \/ BeginReduce
  \/ \E k \in Keys : ReadContexts(k)
  \/ \E i \in (IF reducing = None THEN {} ELSE reducing.todo) : RemoveContext(i)
  \/ query_description
  \/ PutAgain
  \/ EndReduce

ReduceSpec == ReduceInit /\ [][ReduceNext]_reduceVars

-----------------------------------------------------------------------------
(* Properties *)

\* Of two contexts of C that override k and match e, one is more general.
Nested(C, k, e) ==
  \A i, j \in {n \in DOMAIN C : k \in DOMAIN C[n].override /\ apply(C[n].condition, e)} :
    MoreGeneral(C[i], C[j]) \/ MoreGeneral(C[j], C[i])

\* The queries with evaluated cohorts.
Evaluated == {evaluate_local_cohorts(q) : q \in Queries}

\* The preview of the reduction of a key changes nothing for a query for which the
\* contexts of the key are nested.
ReduceNestedSound ==
  LET before == ByWeight(contexts)
  IN \A k \in Keys :
       LET after == ByWeight(Reduced(contexts, k))
       IN \A e \in Evaluated : Nested(contexts, k, e) =>
            Resolve(after, Default, e, "REPLACE") = Resolve(before, Default, e, "REPLACE")

\* An approved reduction is not visible while it goes on, between any two of its
\* statements and whatever others write, to a query for which the contexts were nested
\* and that no condition matches that was written since.  The exception is a context
\* with other overrides that is deleted and not yet put again (if it ever is).
ReductionInvisible ==
  reducing # None /\ reducing.step # "describe" =>
    LET before == ByWeight(reducing.start)
        now    == ByWeight(contexts)
    IN \A e \in Evaluated :
         /\ \A k \in Keys : Nested(reducing.start, k, e)
         /\ \A c \in reducing.touched : ~apply(c, e)
         => Resolve(now, Default, e, "REPLACE") = Resolve(before, Default, e, "REPLACE")
=============================================================================
