-------------------------- MODULE SideBySideProofs --------------------------
(***************************************************************************)
(* Proofs about four of the parts that run side by side, for every value   *)
(* of their constants: the polls of the experimentation client, the        *)
(* isolation of experiments from each other, the values of configuration   *)
(* keys, and the completion of a query.  A step of the whole is a step of  *)
(* a part or leaves it alone, so what is inductive for the part is so for  *)
(* the whole.                                                              *)
(***************************************************************************)
EXTENDS SideBySide, WellFoundedInduction, TLAPS

\* One request at a time.
OneWorker == \A v, w \in Workers : v = w

\* The parts share no variable.
LEMMA StepOfPart ==
  [Next]_vars => /\ [Polling!Next]_(Polling!vars)
                 /\ [Isolation!Next]_(Isolation!vars)
                 /\ [Validation!Next]_(Validation!vars)
                 /\ [Cohorts!Next]_(Cohorts!evaluationVars)
  BY DEF Next, CohortsStep, PollingStep, IsolationStep, VersionsStep, ValidationStep, vars,
         polling, isolation, validation, cohorts, Polling!vars, Isolation!vars, Validation!vars,
         Cohorts!evaluationVars

-----------------------------------------------------------------------------
(* The client asks for the experiments first and for the groups second, and *)
(* takes both or none: its groups are never older than its experiments.     *)

Copies == [changes : Nat, groups : Nat]

PollType ==
  /\ groups \in Nat
  /\ experiments \in Copies
  /\ client.experiments \in Copies
  /\ client.groups \in Nat
  /\ poll \in [phase : {"idle", "asked", "answered"},
               experiments : Copies \union {None},
               groups : Nat \union {None}]

\* The experiments in the database, in a poll and in the client come with the
\* groups of their last transaction; the groups that are read later are as new.
\* Between the two requests of a poll the database is what bounds them.
PollInv ==
  /\ PollType
  /\ experiments.groups <= groups
  /\ poll.phase = "asked" =>
       poll.experiments \in Copies /\ poll.experiments.groups <= groups
  /\ poll.phase = "answered" =>
       /\ poll.experiments \in Copies
       /\ poll.groups \in Nat
       /\ poll.experiments.groups <= poll.groups
  /\ Polling!GroupsNotOlder

\* The bound holds at the start.
LEMMA InitPollInv == Polling!Init => PollInv
  BY DEF Polling!Init, PollInv, PollType, Copies, Polling!GroupsNotOlder, Polling!Idle

\* A transaction that changes an experiment stores it with the groups that it
\* commits, so what was read before stays below the groups.
LEMMA CommitPollInv == PollInv /\ Polling!CommitChange => PollInv'
<1> SUFFICES ASSUME PollInv, Polling!CommitChange
             PROVE  PollInv'
  OBVIOUS
<1>1. groups' \in Nat /\ groups' >= groups
  BY DEF PollInv, PollType, Polling!CommitChange
<1>2. experiments' \in Copies /\ experiments'.groups <= groups'
  <2>1. CASE txn.kind = "group"
    BY <1>1, <2>1 DEF PollInv, PollType, Polling!CommitChange, Copies
  <2>2. CASE txn.kind # "group"
    BY <1>1, <2>2 DEF PollInv, PollType, Polling!CommitChange, Copies
  <2>3. QED
    BY <2>1, <2>2
<1>3. client' = client /\ poll' = poll
  BY DEF Polling!CommitChange, Polling!clientVars
<1>4. QED
  BY <1>1, <1>2, <1>3 DEF PollInv, PollType, Copies, Polling!GroupsNotOlder

\* Every step keeps the bound.
LEMMA NextPollInv == PollInv /\ [Polling!Next]_(Polling!vars) => PollInv'
<1> SUFFICES ASSUME PollInv, [Polling!Next]_(Polling!vars)
             PROVE  PollInv'
  OBVIOUS
<1> USE DEF PollInv, PollType, Polling!GroupsNotOlder, Copies
<1>1. CASE Polling!Tick
  BY <1>1 DEF Polling!Tick, Polling!serverVars, Polling!clientVars
<1>2. ASSUME NEW kind \in Polling!Kinds, Polling!BeginChange(kind)
      PROVE  PollInv'
  BY <1>2 DEF Polling!BeginChange, Polling!clientVars
<1>3. CASE Polling!CommitChange
  BY <1>3, CommitPollInv
<1>4. CASE Polling!get_experiments
  BY <1>4 DEF Polling!get_experiments, Polling!serverVars
<1>5. CASE Polling!get_experiment_groups
  BY <1>5 DEF Polling!get_experiment_groups, Polling!serverVars
<1>6. CASE Polling!PollFails
  BY <1>6 DEF Polling!PollFails, Polling!Idle, Polling!serverVars
<1>7. CASE Polling!Apply
  BY <1>7 DEF Polling!Apply, Polling!Idle, Polling!serverVars
<1>8. CASE UNCHANGED Polling!vars
  BY <1>8 DEF Polling!vars
<1>9. QED
  BY <1>1, <1>2, <1>3, <1>4, <1>5, <1>6, <1>7, <1>8 DEF Polling!Next, Polling!Skip

\* A client that has an experiment has the change of the groups that was
\* committed with it, whichever polls fail and whatever commits between the two
\* requests of a poll.
THEOREM GroupsNotOlderCorrect == Spec => []GroupsNotOlder
<1>1. PollInv => GroupsNotOlder
  BY DEF PollInv, GroupsNotOlder
<1>2. Init => Polling!Init
  BY DEF Init
<1>3. [Next]_vars => [Polling!Next]_(Polling!vars)
  BY StepOfPart
<1>4. QED
  BY <1>1, <1>2, <1>3, InitPollInv, NextPollInv, PTL DEF Spec

-----------------------------------------------------------------------------
(* Isolation.  A request compares an experiment with the active ones and    *)
(* writes it later.  With one request at a time nothing happens in between. *)

\* What v has compared is what will be in the table, and may run beside the others.
Comparison(v) ==
  LET id == compared[v].id
      new == compared[v].new
  IN /\ DOMAIN new = {"status", "context", "keys"}
     /\ Isolation!validate_experiment(id, new)
     /\ id \in DOMAIN beside => [beside[id] EXCEPT !.keys = new.keys] = new

Experiments ==
  /\ beside = [e \in DOMAIN beside |-> beside[e]]
  /\ \A e \in DOMAIN beside : DOMAIN beside[e] = {"status", "context", "keys"}

IsolationInv ==
  /\ Experiments
  /\ compared = [v \in Workers |-> compared[v]]
  /\ \A v \in Workers : compared[v] # None => Comparison(v)

\* No request has compared anything yet.
LEMMA IsolationInit == Isolation!Init => IsolationInv
  BY DEF Isolation!Init, IsolationInv, Experiments

\* A create or an update has compared what it will write.
LEMMA IsolationCompare ==
  ASSUME IsolationInv, NEW w \in Workers, NEW id, NEW new,
         Isolation!Compare(w, id, new),
         DOMAIN new = {"status", "context", "keys"},
         id \in DOMAIN beside => [beside[id] EXCEPT !.keys = new.keys] = new
  PROVE  IsolationInv' /\ Isolation!Conflicts' = Isolation!Conflicts
<1>1. UNCHANGED <<beside, flags>> /\ compared' = [compared EXCEPT ![w] = [id |-> id, new |-> new]]
  BY DEF Isolation!Compare
<1>2. Isolation!Conflicts' = Isolation!Conflicts
  BY <1>1 DEF Isolation!Conflicts, Isolation!Accepts
<1>3. ASSUME NEW v \in Workers, compared'[v] # None
      PROVE  Comparison(v)'
  <2>1. CASE v = w
    <3>1. compared'[v].id = id /\ compared'[v].new = new
      BY <1>1, <2>1 DEF IsolationInv
    <3>2. Isolation!validate_experiment(id, new)
      BY DEF Isolation!Compare
    <3>3. QED
      BY <1>1, <3>1, <3>2 DEF Comparison, Isolation!validate_experiment, Isolation!Accepts
  <2>2. CASE v # w
    <3>1. compared'[v] = compared[v] /\ Comparison(v)
      BY <1>1, <1>3, <2>2 DEF IsolationInv
    <3>2. QED
      BY <1>1, <3>1 DEF Comparison, Isolation!validate_experiment, Isolation!Accepts
  <2>3. QED
    BY <2>1, <2>2
<1>4. Experiments' /\ compared' = [v \in Workers |-> compared'[v]]
  BY <1>1 DEF IsolationInv, Experiments
<1>5. QED
  BY <1>2, <1>3, <1>4 DEF IsolationInv

\* Whether two experiments exclude each other depends on neither status.
LEMMA AcceptsSame ==
  ASSUME NEW a, NEW b, NEW c, NEW d,
         a.context = c.context, a.keys = c.keys, b.context = d.context, b.keys = d.keys
  PROVE  Isolation!Accepts(a, b) <=> Isolation!Accepts(c, d)
  BY DEF Isolation!Accepts

\* What a request writes excludes none of the active experiments.
LEMMA IsolationCommit ==
  ASSUME OneWorker, IsolationInv, NEW w \in Workers, Isolation!Commit(w)
  PROVE  IsolationInv' /\ Isolation!Conflicts' \subseteq Isolation!Conflicts
<1> DEFINE id == compared[w].id
           new == compared[w].new
<1>1. compared[w] # None /\ Comparison(w) /\ flags' = flags
  BY DEF Isolation!Commit, IsolationInv
<1>2. compared' = [v \in Workers |-> None]
  BY DEF Isolation!Commit, IsolationInv, OneWorker
<1>3. beside' = [e \in DOMAIN beside \cup {id} |-> IF e = id THEN new ELSE beside[e]]
  BY <1>1 DEF Isolation!Commit, Comparison
<1>4. Experiments'
  BY <1>1, <1>3 DEF Experiments, IsolationInv, Comparison
<1>5. ASSUME NEW p \in Isolation!Conflicts'
      PROVE  p \in Isolation!Conflicts
  <2>1. /\ p \in (DOMAIN beside') \X (DOMAIN beside') /\ p[1] # p[2]
        /\ beside'[p[1]].status \in Isolation!Active /\ beside'[p[2]].status \in Isolation!Active
        /\ ~Isolation!Accepts(beside'[p[1]], beside'[p[2]])
        /\ ~Isolation!Accepts(beside'[p[2]], beside'[p[1]])
    BY <1>1, <1>5 DEF Isolation!Conflicts, Isolation!Accepts
  <2>2. ASSUME NEW i \in {1, 2}, NEW j \in {1, 2}, i # j, p[i] = id
        PROVE  FALSE
    <3>1. p[j] \in DOMAIN beside \ {id} /\ beside'[p[j]] = beside[p[j]] /\ beside'[id] = new
      BY <1>3, <2>1, <2>2
    <3>2. beside[p[j]].status \in Isolation!Active
      BY <2>1, <3>1
    <3>3. Isolation!Accepts(new, beside[p[j]])
      BY <1>1, <3>1, <3>2 DEF Comparison, Isolation!validate_experiment
    <3>4. QED
      BY <2>1, <2>2, <3>1, <3>3
  <2>3. p[1] # id /\ p[2] # id
    BY <2>2
  <2>4. /\ p \in (DOMAIN beside) \X (DOMAIN beside)
        /\ beside'[p[1]] = beside[p[1]] /\ beside'[p[2]] = beside[p[2]]
    BY <1>3, <2>1, <2>3
  <2>5. QED
    BY <2>1, <2>4 DEF Isolation!Conflicts
<1>6. QED
  BY <1>2, <1>4, <1>5 DEF IsolationInv

\* A status is written between requests; two experiments that are active
\* afterwards and were active before stand to each other as before.
LEMMA IsolationStatus ==
  ASSUME OneWorker, IsolationInv, NEW w \in Workers, NEW id, NEW from, NEW to,
         Isolation!SetStatus(w, id, from, to)
  PROVE  /\ IsolationInv'
         /\ from \subseteq Isolation!Active \/ to \notin Isolation!Active =>
              Isolation!Conflicts' \subseteq Isolation!Conflicts
<1>1. /\ id \in DOMAIN beside /\ beside[id].status \in from /\ flags' = flags
      /\ compared = [v \in Workers |-> None] /\ compared' = compared
      /\ beside' = [beside EXCEPT ![id].status = to]
  BY DEF Isolation!SetStatus, IsolationInv, OneWorker
<1>2. /\ DOMAIN beside' = DOMAIN beside
      /\ \A e \in DOMAIN beside \ {id} : beside'[e] = beside[e]
      /\ beside'[id].context = beside[id].context /\ beside'[id].keys = beside[id].keys
      /\ beside'[id].status = to /\ DOMAIN beside'[id] = DOMAIN beside[id]
  BY <1>1 DEF IsolationInv, Experiments
<1>3. IsolationInv'
  BY <1>1, <1>2 DEF IsolationInv, Experiments
<1>4. ASSUME from \subseteq Isolation!Active \/ to \notin Isolation!Active,
             NEW p \in Isolation!Conflicts'
      PROVE  p \in Isolation!Conflicts
  <2>1. /\ p \in (DOMAIN beside') \X (DOMAIN beside') /\ p[1] # p[2]
        /\ beside'[p[1]].status \in Isolation!Active /\ beside'[p[2]].status \in Isolation!Active
        /\ ~Isolation!Accepts(beside'[p[1]], beside'[p[2]])
        /\ ~Isolation!Accepts(beside'[p[2]], beside'[p[1]])
    BY <1>1, <1>4 DEF Isolation!Conflicts, Isolation!Accepts
  <2>2. /\ beside[p[1]].status \in Isolation!Active /\ beside[p[2]].status \in Isolation!Active
    BY <1>1, <1>2, <1>4, <2>1
  <2>3. \A e \in DOMAIN beside :
          beside'[e].context = beside[e].context /\ beside'[e].keys = beside[e].keys
    BY <1>2
  <2>4. /\ ~Isolation!Accepts(beside[p[1]], beside[p[2]])
        /\ ~Isolation!Accepts(beside[p[2]], beside[p[1]])
    BY <1>2, <2>1, <2>3, AcceptsSame
  <2>5. QED
    BY <1>2, <2>1, <2>2, <2>4 DEF Isolation!Conflicts
<1>5. QED
  BY <1>3, <1>4

\* Every step keeps the invariant, and only a resume brings a conflict.
LEMMA IsolationNext ==
  ASSUME OneWorker, IsolationInv, [Isolation!Next]_(Isolation!vars)
  PROVE  /\ IsolationInv'
         /\ \/ Isolation!Conflicts' \subseteq Isolation!Conflicts
            \/ \E w \in Workers, id \in Ids : Isolation!Resume(w, id)
<1> USE DEF Isolation!Active
<1>1. ASSUME NEW w \in Workers, Isolation!Commit(w)
      PROVE  IsolationInv' /\ Isolation!Conflicts' \subseteq Isolation!Conflicts
  BY <1>1, IsolationCommit
<1>2. ASSUME NEW w \in Workers, NEW id \in Ids, NEW keys, NEW context,
             Isolation!BeginCreate(w, id, context, keys)
      PROVE  IsolationInv' /\ Isolation!Conflicts' \subseteq Isolation!Conflicts
  <2>1. /\ id \notin DOMAIN beside
        /\ Isolation!Compare(w, id, [status |-> "CREATED", context |-> context, keys |-> keys])
    BY <1>2 DEF Isolation!BeginCreate
  <2>2. QED
    BY <2>1, IsolationCompare
<1>3. ASSUME NEW w \in Workers, NEW id \in Ids, NEW keys, Isolation!BeginUpdate(w, id, keys)
      PROVE  IsolationInv' /\ Isolation!Conflicts' \subseteq Isolation!Conflicts
  <2> DEFINE new == [beside[id] EXCEPT !.keys = keys]
  <2>1. id \in DOMAIN beside /\ Isolation!Compare(w, id, new)
    BY <1>3 DEF Isolation!BeginUpdate
  <2>2. DOMAIN beside[id] = {"status", "context", "keys"}
    BY <2>1 DEF IsolationInv, Experiments
  <2>3. DOMAIN new = {"status", "context", "keys"} /\ new.keys = keys
    BY <2>2
  <2>4. [beside[id] EXCEPT !.keys = new.keys] = new
    BY <2>3
  <2>5. QED
    BY <2>1, <2>3, <2>4, IsolationCompare
<1>4. ASSUME NEW w \in Workers, NEW id \in Ids, Isolation!Ramp(w, id)
      PROVE  IsolationInv' /\ Isolation!Conflicts' \subseteq Isolation!Conflicts
  BY <1>4, IsolationStatus DEF Isolation!Ramp
<1>5. ASSUME NEW w \in Workers, NEW id \in Ids, Isolation!Conclude(w, id)
      PROVE  IsolationInv' /\ Isolation!Conflicts' \subseteq Isolation!Conflicts
  BY <1>5, IsolationStatus DEF Isolation!Conclude
<1>6. ASSUME NEW w \in Workers, NEW id \in Ids, Isolation!Discard(w, id)
      PROVE  IsolationInv' /\ Isolation!Conflicts' \subseteq Isolation!Conflicts
  BY <1>6, IsolationStatus DEF Isolation!Discard
<1>7. ASSUME NEW w \in Workers, NEW id \in Ids, Isolation!Pause(w, id)
      PROVE  IsolationInv' /\ Isolation!Conflicts' \subseteq Isolation!Conflicts
  BY <1>7, IsolationStatus DEF Isolation!Pause
<1>8. ASSUME NEW w \in Workers, NEW id \in Ids, Isolation!Resume(w, id)
      PROVE  IsolationInv'
  BY <1>8, IsolationStatus DEF Isolation!Resume
<1>9. CASE UNCHANGED Isolation!vars
  <2>1. UNCHANGED <<beside, flags, compared>>
    BY <1>9 DEF Isolation!vars
  <2>2. QED
    BY <2>1 DEF IsolationInv, Experiments, Comparison, Isolation!validate_experiment,
                Isolation!Accepts, Isolation!Conflicts
<1>10. QED
  BY <1>1, <1>2, <1>3, <1>4, <1>5, <1>6, <1>7, <1>8, <1>9 DEF Isolation!Next

\* One request at a time, creations, updates, ramps, pauses and terminations never
\* bring two experiments together that exclude each other: the comparison of an
\* experiment with the active ones is enough although ramps and pauses make none.
THEOREM OnlyResumeConflictsCorrect ==
  ASSUME OneWorker PROVE Spec => OnlyResumeConflicts
<1>1. IsolationInv /\ [Isolation!Next]_(Isolation!vars) => IsolationInv'
  BY IsolationNext
<1>2. IsolationInv /\ [Isolation!Next]_(Isolation!vars) =>
        [ \/ Isolation!Conflicts' \subseteq Isolation!Conflicts
          \/ \E w \in Workers, id \in Ids : Isolation!Resume(w, id) ]_(Isolation!vars)
  BY IsolationNext
<1>3. Init => Isolation!Init
  BY DEF Init
<1>4. [Next]_vars => [Isolation!Next]_(Isolation!vars)
  BY StepOfPart
<1>5. QED
  BY <1>1, <1>2, <1>3, <1>4, IsolationInit, PTL
  DEF Spec, OnlyResumeConflicts, Isolation!OnlyResumeConflicts

-----------------------------------------------------------------------------
(* Values.  A key names the function that computes its values.  That the    *)
(* function has been published is checked when the key is written; that it  *)
(* stays so rests on the foreign key, which keeps it from being deleted and *)
(* created anew, and on publications, which write a code.                   *)

FunctionRow == [draft : Codes, published : Codes \cup {None}]

IsPublished(f) == functions[f] # None /\ functions[f].published # None

DefaultRow(row) ==
  /\ DOMAIN row = {"value", "schema", "validator", "compute"}
  /\ row.compute \in FunctionNames \cup {None}

\* What the pending request of v brings was checked and is still so.
StillValid(v) ==
  LET r == request[v] IN
  /\ r.op \in {"createFunction", "updateFunction", "publish"} =>
       r.name \in FunctionNames /\ r.code \in Codes
  /\ r.op = "deleteFunction" => r.name \in FunctionNames
  /\ r.op = "createDefault" =>
       /\ r.key \in Keys
       /\ DefaultRow(r.row)
       /\ r.row.compute # None => IsPublished(r.row.compute)
  /\ r.op = "updateDefault" =>
       /\ r.key \in Keys
       /\ defaults[r.key] # None
       /\ r.update.compute \in FunctionNames \cup {None, Absent}
       /\ r.update.compute \notin {None, Absent} => IsPublished(r.update.compute)

ValuesInv ==
  /\ functions \in [FunctionNames -> FunctionRow \cup {None}]
  /\ defaults = [k \in Keys |-> defaults[k]]
  /\ \A k \in Keys : defaults[k] # None =>
       /\ DefaultRow(defaults[k])
       /\ defaults[k].compute # None => IsPublished(defaults[k].compute)
  /\ request = [v \in Workers |-> request[v]]
  /\ \A v \in Workers : request[v] # None => StillValid(v)

\* There are no keys and no functions at the start.
LEMMA ValuesInit == Validation!Init => ValuesInv
  BY DEF Validation!Init, ValuesInv

\* A request is pending; the tables are as they were.
LEMMA ValuesValidated ==
  ASSUME OneWorker, ValuesInv, NEW w \in Workers, NEW r, Validation!Validated(w, r),
         (request'[w] = r => StillValid(w)')
  PROVE  ValuesInv'
<1>1. /\ request' = [v \in Workers |-> r]
      /\ UNCHANGED <<functions, defaults>>
  BY DEF Validation!Validated, ValuesInv, OneWorker
<1>2. \A v \in Workers : v = w
  BY DEF OneWorker
<1>3. QED
  BY <1>1, <1>2 DEF ValuesInv, IsPublished, DefaultRow

\* A request has been written; it was the only one.
LEMMA ValuesWritten ==
  ASSUME OneWorker, ValuesInv, NEW w \in Workers, NEW op, Validation!Writes(w, op)
  PROVE  /\ request[w] # None /\ request[w].op = op /\ StillValid(w)
         /\ request' = [v \in Workers |-> None]
  BY DEF Validation!Writes, ValuesInv, OneWorker

\* A write to the functions: those that are published stay so while they are
\* in use.
LEMMA ValuesFunctions ==
  ASSUME ValuesInv, request' = [v \in Workers |-> None], defaults' = defaults,
         functions' \in [FunctionNames -> FunctionRow \cup {None}],
         \A f \in FunctionNames :
           IsPublished(f) /\ Validation!InUse(f) => IsPublished(f)'
  PROVE  ValuesInv'
<1>1. ASSUME NEW k \in Keys, defaults[k] # None, defaults[k].compute # None
      PROVE  IsPublished(defaults[k].compute)'
  <2>1. PICK f \in FunctionNames : f = defaults[k].compute
    BY <1>1 DEF ValuesInv, DefaultRow
  <2>2. IsPublished(f) /\ Validation!InUse(f)
    BY <1>1, <2>1 DEF ValuesInv, Validation!InUse
  <2>3. IsPublished(f)'
    BY <2>2
  <2>4. QED
    BY <2>1, <2>3 DEF IsPublished
<1>2. QED
  BY <1>1 DEF ValuesInv, DefaultRow, IsPublished

\* A write to the default configs: the row names a published function or none.
LEMMA ValuesDefaults ==
  ASSUME ValuesInv, request' = [v \in Workers |-> None], functions' = functions,
         NEW key \in Keys, NEW row,
         \/ defaults' = defaults
         \/ /\ defaults' = [defaults EXCEPT ![key] = row]
            /\ DefaultRow(row)
            /\ row.compute # None => IsPublished(row.compute)
  PROVE  ValuesInv'
<1>1. defaults' = [k \in Keys |-> defaults'[k]]
  BY DEF ValuesInv
<1>2. ASSUME NEW k \in Keys, defaults'[k] # None
      PROVE  DefaultRow(defaults'[k]) /\ (defaults'[k].compute # None => IsPublished(defaults'[k].compute))
  BY <1>2 DEF ValuesInv
<1>3. QED
  BY <1>1, <1>2 DEF ValuesInv, DefaultRow, IsPublished

\* The handlers of functions.
LEMMA ValuesFunctionSteps ==
  ASSUME OneWorker, ValuesInv, NEW w \in Workers,
         \/ Validation!BeginCreateFunction(w) \/ Validation!CreateFunction(w)
         \/ Validation!BeginUpdateFunction(w) \/ Validation!UpdateFunction(w)
         \/ Validation!BeginPublish(w) \/ Validation!Publish(w)
         \/ Validation!BeginDeleteFunction(w) \/ Validation!DeleteFunction(w)
  PROVE  ValuesInv'
<1> DEFINE r == request[w]
<1>1. CASE Validation!BeginCreateFunction(w)
  <2>1. PICK f \in FunctionNames, code \in Codes :
          Validation!Validated(w, [op |-> "createFunction", name |-> f, code |-> code])
    BY <1>1 DEF Validation!BeginCreateFunction
  <2>2. QED
    BY <2>1, ValuesValidated DEF StillValid
<1>2. CASE Validation!CreateFunction(w)
  <2>1. /\ request' = [v \in Workers |-> None] /\ defaults' = defaults
        /\ r.name \in FunctionNames /\ r.code \in Codes
    BY <1>2, ValuesWritten DEF Validation!CreateFunction, StillValid
  <2>2. functions' = IF functions[r.name] = None
                     THEN [functions EXCEPT ![r.name] = [draft |-> r.code, published |-> None]]
                     ELSE functions
    BY <1>2 DEF Validation!CreateFunction
  <2>3. functions' \in [FunctionNames -> FunctionRow \cup {None}]
    BY <2>1, <2>2 DEF ValuesInv, FunctionRow
  <2>4. \A f \in FunctionNames : IsPublished(f) => IsPublished(f)'
    BY <2>1, <2>2 DEF IsPublished, ValuesInv
  <2>5. QED
    BY <2>1, <2>3, <2>4, ValuesFunctions
<1>3. CASE Validation!BeginUpdateFunction(w)
  <2>1. PICK f \in FunctionNames, code \in Codes :
          Validation!Validated(w, [op |-> "updateFunction", name |-> f, code |-> code])
    BY <1>3 DEF Validation!BeginUpdateFunction
  <2>2. QED
    BY <2>1, ValuesValidated DEF StillValid
<1>4. CASE Validation!UpdateFunction(w)
  <2>1. /\ request' = [v \in Workers |-> None] /\ defaults' = defaults
        /\ r.name \in FunctionNames /\ r.code \in Codes
    BY <1>4, ValuesWritten DEF Validation!UpdateFunction, StillValid
  <2>2. functions' = IF functions[r.name] # None
                     THEN [functions EXCEPT ![r.name].draft = r.code] ELSE functions
    BY <1>4 DEF Validation!UpdateFunction
  <2>3. functions' \in [FunctionNames -> FunctionRow \cup {None}]
    BY <2>1, <2>2 DEF ValuesInv, FunctionRow
  <2>4. \A f \in FunctionNames : IsPublished(f) => IsPublished(f)'
    BY <2>1, <2>2, <2>3, NullAssumption DEF IsPublished, ValuesInv, FunctionRow
  <2>5. QED
    BY <2>1, <2>3, <2>4, ValuesFunctions
<1>5. CASE Validation!BeginPublish(w)
  <2>1. PICK f \in FunctionNames : functions[f] # None /\
          Validation!Validated(w, [op |-> "publish", name |-> f, code |-> functions[f].draft])
    BY <1>5 DEF Validation!BeginPublish
  <2>2. functions[f].draft \in Codes
    BY <2>1 DEF ValuesInv, FunctionRow
  <2>3. PICK code \in Codes : code = functions[f].draft
    BY <2>2
  <2>4. Validation!Validated(w, [op |-> "publish", name |-> f, code |-> code])
    BY <2>1, <2>3
  <2>5. QED
    BY <2>4, ValuesValidated DEF StillValid
<1>6. CASE Validation!Publish(w)
  <2>1. /\ request' = [v \in Workers |-> None] /\ defaults' = defaults
        /\ r.name \in FunctionNames /\ r.code \in Codes
    BY <1>6, ValuesWritten DEF Validation!Publish, StillValid
  <2>2. functions' = IF functions[r.name] # None
                     THEN [functions EXCEPT ![r.name].published = r.code] ELSE functions
    BY <1>6 DEF Validation!Publish, Validation!Published
  <2>3. functions' \in [FunctionNames -> FunctionRow \cup {None}]
    BY <2>1, <2>2 DEF ValuesInv, FunctionRow
  <2>4. \A f \in FunctionNames : IsPublished(f) => IsPublished(f)'
    BY <2>1, <2>2, <2>3, NullAssumption DEF IsPublished, ValuesInv, FunctionRow
  <2>5. QED
    BY <2>1, <2>3, <2>4, ValuesFunctions
<1>7. CASE Validation!BeginDeleteFunction(w)
  <2>1. PICK f \in FunctionNames :
          Validation!Validated(w, [op |-> "deleteFunction", name |-> f])
    BY <1>7 DEF Validation!BeginDeleteFunction
  <2>2. QED
    BY <2>1, ValuesValidated DEF StillValid
<1>8. CASE Validation!DeleteFunction(w)
  <2>1. /\ request' = [v \in Workers |-> None] /\ defaults' = defaults
        /\ r.name \in FunctionNames
    BY <1>8, ValuesWritten DEF Validation!DeleteFunction, StillValid
  <2>2. functions' = IF Validation!InUse(r.name) THEN functions
                     ELSE [functions EXCEPT ![r.name] = None]
    BY <1>8 DEF Validation!DeleteFunction
  <2>3. functions' \in [FunctionNames -> FunctionRow \cup {None}]
    BY <2>1, <2>2 DEF ValuesInv
  <2>4. \A f \in FunctionNames : IsPublished(f) /\ Validation!InUse(f) => IsPublished(f)'
    BY <2>1, <2>2 DEF IsPublished, ValuesInv
  <2>5. QED
    BY <2>1, <2>3, <2>4, ValuesFunctions
<1>9. QED
  BY <1>1, <1>2, <1>3, <1>4, <1>5, <1>6, <1>7, <1>8

\* The handlers of default configs and of overrides.
LEMMA ValuesDefaultSteps ==
  ASSUME OneWorker, ValuesInv, NEW w \in Workers,
         \/ Validation!BeginCreateDefault(w) \/ Validation!CreateDefault(w)
         \/ Validation!BeginUpdateDefault(w) \/ Validation!UpdateDefault(w)
         \/ Validation!BeginPutOverride(w) \/ Validation!PutOverride(w)
  PROVE  ValuesInv'
<1> DEFINE r == request[w]
<1>1. CASE Validation!BeginCreateDefault(w)
  <2>1. PICK k \in Keys, value \in Values, schema \in Schemas,
             validator \in FunctionNames \cup {None}, compute \in FunctionNames \cup {None} :
          /\ Validation!validate_fn_published(compute)
          /\ Validation!Validated(w, [op |-> "createDefault", key |-> k,
                                      row |-> [value |-> value, schema |-> schema,
                                               validator |-> validator, compute |-> compute]])
    BY <1>1 DEF Validation!BeginCreateDefault, Validation!OptionalFunctions
  <2>2. functions' = functions /\ (compute # None => IsPublished(compute))
    BY <2>1 DEF Validation!Validated, Validation!validate_fn_published, IsPublished
  <2>3. QED
    BY <2>1, <2>2, ValuesValidated DEF StillValid, DefaultRow, IsPublished
<1>2. CASE Validation!CreateDefault(w)
  <2>1. /\ request' = [v \in Workers |-> None] /\ functions' = functions
        /\ r.key \in Keys /\ DefaultRow(r.row)
        /\ r.row.compute # None => IsPublished(r.row.compute)
    BY <1>2, ValuesWritten DEF Validation!CreateDefault, StillValid
  <2>2. defaults' = defaults \/ defaults' = [defaults EXCEPT ![r.key] = r.row]
    BY <1>2 DEF Validation!CreateDefault
  <2>3. QED
    BY <2>1, <2>2, ValuesDefaults
<1>3. CASE Validation!BeginUpdateDefault(w)
  <2>1. PICK k \in Keys, u \in Validation!Updates :
          /\ defaults[k] # None
          /\ Validation!UpdateValid(u, defaults[k])
          /\ Validation!Validated(w, [op |-> "updateDefault", key |-> k, update |-> u])
    BY <1>3 DEF Validation!BeginUpdateDefault
  <2>2. /\ functions' = functions /\ defaults' = defaults
        /\ u.compute \in FunctionNames \cup {None, Absent}
        /\ u.compute \notin {None, Absent} => IsPublished(u.compute)
    BY <2>1 DEF Validation!Validated, Validation!UpdateValid, Validation!validate_fn_published,
                Validation!Updates, Validation!OptionalFunctions, IsPublished
  <2>3. QED
    BY <2>1, <2>2, ValuesValidated DEF StillValid, IsPublished
<1>4. CASE Validation!UpdateDefault(w)
  <2> DEFINE row == Validation!Updated(defaults[r.key], r.update)
  <2>1. /\ request' = [v \in Workers |-> None] /\ functions' = functions
        /\ r.key \in Keys /\ defaults[r.key] # None
        /\ r.update.compute \in FunctionNames \cup {None, Absent}
        /\ r.update.compute \notin {None, Absent} => IsPublished(r.update.compute)
    BY <1>4, ValuesWritten DEF Validation!UpdateDefault, StillValid
  <2>2. defaults' = defaults \/ defaults' = [defaults EXCEPT ![r.key] = row]
    BY <1>4, <2>1 DEF Validation!UpdateDefault, ValuesInv
  <2>3. DefaultRow(defaults[r.key]) /\
        (defaults[r.key].compute # None => IsPublished(defaults[r.key].compute))
    BY <2>1 DEF ValuesInv
  <2>4. DefaultRow(row) /\ (row.compute # None => IsPublished(row.compute))
    BY <2>1, <2>3 DEF Validation!Updated, Validation!Given, DefaultRow
  <2>5. QED
    BY <2>1, <2>2, <2>4, ValuesDefaults
<1>5. CASE Validation!BeginPutOverride(w)
  <2>1. PICK k \in Keys, value \in Values :
          Validation!Validated(w, [op |-> "putOverride", key |-> k, value |-> value])
    BY <1>5 DEF Validation!BeginPutOverride
  <2>2. QED
    BY <2>1, ValuesValidated DEF StillValid
<1>6. CASE Validation!PutOverride(w)
  <2>1. request' = [v \in Workers |-> None] /\ UNCHANGED <<functions, defaults>>
    BY <1>6, ValuesWritten DEF Validation!PutOverride
  <2>2. QED
    BY <2>1 DEF ValuesInv, DefaultRow, IsPublished
<1>7. QED
  BY <1>1, <1>2, <1>3, <1>4, <1>5, <1>6

\* One request at a time, the function that computes the values of a key has
\* published code, through every history of drafts, publications, deletions and
\* updates of the key.
THEOREM ComputePublishedCorrect ==
  ASSUME OneWorker PROVE Spec => []ComputePublished
<1>1. ValuesInv /\ [Validation!Next]_(Validation!vars) => ValuesInv'
  <2> SUFFICES ASSUME ValuesInv, [Validation!Next]_(Validation!vars)
               PROVE  ValuesInv'
    OBVIOUS
  <2>1. CASE Validation!Next
    BY <2>1, ValuesFunctionSteps, ValuesDefaultSteps DEF Validation!Next
  <2>2. CASE UNCHANGED Validation!vars
    BY <2>2 DEF Validation!vars, ValuesInv, StillValid, DefaultRow, IsPublished
  <2>3. QED
    BY <2>1, <2>2
<1>2. ValuesInv => ComputePublished
  BY DEF ValuesInv, IsPublished, ComputePublished, Validation!ComputePublished
<1>3. Init => Validation!Init
  BY DEF Init
<1>4. [Next]_vars => [Validation!Next]_(Validation!vars)
  BY StepOfPart
<1>5. QED
  BY <1>1, <1>2, <1>3, <1>4, ValuesInit, PTL DEF Spec
-----------------------------------------------------------------------------
(* The trees of cohorts.  A base comes before its cohorts, so an argument   *)
(* by induction along a branch takes the least dimension that fails.        *)

\* A set of numbers that is not empty has a least one.
LEMMA Least ==
  ASSUME NEW S, S \subseteq Nat, S # {}
  PROVE  \E m \in S : \A x \in S : m <= x
<1> DEFINE R == OpToRel(<, Nat)
<1>1. R = {ss \in Nat \X Nat : ss[1] < ss[2]}
  BY DEF OpToRel
<1>2. IsWellFoundedOn(R, Nat)
  BY NatLessThanWellFounded
<1> HIDE DEF R
<1>3. PICK m \in S : \A y \in S : <<y, m>> \notin R
  BY <1>2, WFMin
<1>4. ASSUME NEW x \in S
      PROVE  m <= x
  <2>1. x \in Nat /\ m \in Nat
    OBVIOUS
  <2>2. x < m => <<x, m>> \in R
    BY <1>1, <2>1
  <2>3. QED
    BY <1>3, <2>1, <2>2
<1>5. QED
  BY <1>4

\* The dimensions and the forest that Init chooses.
Forest(t, b) ==
  /\ t \in [Cohorts!Dims -> {"REGULAR", "REMOTE_COHORT", "LOCAL_COHORT"}]
  /\ b \in [Cohorts!Dims -> 0 .. Count - 1]
  /\ \A d \in Cohorts!Dims : IF t[d] = "REGULAR" THEN b[d] = 0
                             ELSE b[d] \in 1 .. d - 1 /\ t[b[d]] # "LOCAL_COHORT"

\* The ancestors of d in the forest with bases b.
Above(b, d) ==
  {a \in Cohorts!Dims : \A S \in SUBSET Cohorts!Dims :
     (\A x \in S \cup {d} : b[x] # 0 => b[x] \in S) => a \in S}

\* A set that has the base of d and the bases of its members has all ancestors of d.
LEMMA AboveWithin ==
  ASSUME NEW b, NEW d, NEW S \in SUBSET Cohorts!Dims,
         \A x \in S \cup {d} : b[x] # 0 => b[x] \in S
  PROVE  Above(b, d) \subseteq S
  BY DEF Above

\* The ancestors are such a set themselves.
LEMMA AboveClosed ==
  ASSUME NEW t, NEW b, Forest(t, b), NEW d \in Cohorts!Dims
  PROVE  /\ Above(b, d) \in SUBSET Cohorts!Dims
         /\ \A x \in Above(b, d) \cup {d} : b[x] # 0 => b[x] \in Above(b, d)
<1>1. ASSUME NEW x \in Cohorts!Dims, b[x] # 0
      PROVE  b[x] \in Cohorts!Dims
  BY <1>1, BoundsAssumption DEF Forest, Cohorts!Dims
<1>2. Above(b, d) \in SUBSET Cohorts!Dims
  BY DEF Above
<1>3. ASSUME NEW x \in Above(b, d) \cup {d}, b[x] # 0
      PROVE  b[x] \in Above(b, d)
  <2>1. b[x] \in Cohorts!Dims
    BY <1>1, <1>2, <1>3
  <2>2. ASSUME NEW S \in SUBSET Cohorts!Dims, \A y \in S \cup {d} : b[y] # 0 => b[y] \in S
        PROVE  b[x] \in S
    BY <1>3, <2>2, AboveWithin
  <2>3. QED
    BY <2>1, <2>2 DEF Above
<1>4. QED
  BY <1>2, <1>3

\* The ancestors of an ancestor of d are ancestors of d.
LEMMA AboveTransitive ==
  ASSUME NEW t, NEW b, Forest(t, b), NEW d \in Cohorts!Dims, NEW a \in Above(b, d)
  PROVE  Above(b, a) \subseteq Above(b, d)
  BY AboveClosed, AboveWithin

\* The ancestors of d are its base and the ancestors of that.
LEMMA AboveBase ==
  ASSUME NEW t, NEW b, Forest(t, b), NEW d \in Cohorts!Dims
  PROVE  /\ b[d] = 0 => Above(b, d) = {}
         /\ b[d] # 0 => b[d] \in Cohorts!Dims /\ Above(b, d) = {b[d]} \cup Above(b, b[d])
<1>1. CASE b[d] = 0
  <2>1. Above(b, d) \subseteq {}
    BY <1>1, AboveWithin, \A x \in {} \cup {d} : b[x] # 0 => b[x] \in {}
  <2>2. QED
    BY <1>1, <2>1
<1>2. CASE b[d] # 0
  <2> DEFINE S == {b[d]} \cup Above(b, b[d])
  <2>1. b[d] \in Above(b, d) /\ b[d] \in Cohorts!Dims
    BY <1>2, AboveClosed
  <2>2. S \in SUBSET Cohorts!Dims /\ \A x \in S \cup {d} : b[x] # 0 => b[x] \in S
    BY <2>1, AboveClosed
  <2>3. Above(b, d) \subseteq S
    BY <2>2, AboveWithin
  <2>4. QED
    BY <1>2, <2>1, <2>3, AboveTransitive
<1>3. QED
  BY <1>1, <1>2

\* Ancestors come earlier, and none of them is a local cohort.
LEMMA AboveEarlier ==
  ASSUME NEW t, NEW b, Forest(t, b), NEW d \in Cohorts!Dims, NEW a \in Above(b, d)
  PROVE  a \in Cohorts!Dims /\ a < d /\ t[a] # "LOCAL_COHORT"
<1> DEFINE S == {x \in Cohorts!Dims : x < d /\ t[x] # "LOCAL_COHORT"}
<1>1. ASSUME NEW x \in S \cup {d}, b[x] # 0
      PROVE  b[x] \in S
  <2>1. x \in Cohorts!Dims /\ x <= d
    BY DEF Cohorts!Dims
  <2>2. b[x] \in 1 .. x - 1 /\ t[b[x]] # "LOCAL_COHORT"
    BY <1>1, <2>1 DEF Forest
  <2>3. QED
    BY <2>1, <2>2, BoundsAssumption DEF Cohorts!Dims
<1>2. S \in SUBSET Cohorts!Dims
  OBVIOUS
<1> HIDE DEF S
<1>3. Above(b, d) \subseteq S
  BY <1>1, <1>2, AboveWithin
<1>4. QED
  BY <1>3 DEF S

\* Every branch starts at a regular dimension.
LEMMA AboveRoot ==
  ASSUME NEW t, NEW b, Forest(t, b), NEW d \in Cohorts!Dims
  PROVE  \E r \in {d} \cup Above(b, d) : t[r] = "REGULAR" /\ r \in Cohorts!Dims
<1> DEFINE S == {d} \cup Above(b, d)
<1>1. S \in SUBSET Cohorts!Dims /\ S # {} /\ S \subseteq Nat
  BY AboveClosed, BoundsAssumption DEF Cohorts!Dims
<1>2. PICK m \in S : \A x \in S : m <= x
  BY <1>1, Least
<1>3. m \in Cohorts!Dims /\ (b[m] # 0 => b[m] \in S)
  BY <1>1, AboveClosed
<1>4. t[m] # "REGULAR" => b[m] # 0 /\ b[m] \in 1 .. m - 1
  BY <1>3 DEF Forest
<1>5. QED
  BY <1>1, <1>2, <1>3, <1>4

\* The branch from d down to e goes through a child of d.
LEMMA AboveChild ==
  ASSUME NEW t, NEW b, Forest(t, b), NEW e \in Cohorts!Dims, NEW d \in Above(b, e)
  PROVE  \E c \in {e} \cup Above(b, e) : c \in Cohorts!Dims /\ b[c] = d
<1> DEFINE T == {e} \cup Above(b, e)
           S == {x \in Above(b, e) : \E c \in T : b[c] = x}
<1>1. S \in SUBSET Cohorts!Dims /\ T \in SUBSET Cohorts!Dims
  BY AboveClosed
<1>2. ASSUME NEW x \in S \cup {e}, b[x] # 0
      PROVE  b[x] \in S
  BY <1>2, AboveClosed
<1>3. Above(b, e) \subseteq S
  BY <1>1, <1>2, AboveWithin
<1>4. QED
  BY <1>1, <1>3
-----------------------------------------------------------------------------
(* The invariant of the two walks.                                          *)

IsLocal(d) == type[d] = "LOCAL_COHORT"

\* No dimension above d is in the query.
Topmost(d) == Above(base, d) \cap DOMAIN query = {}

CohortType ==
  /\ Forest(type, base)
  /\ \A f \in {given, query, modified} :
       f = [d \in DOMAIN f |-> f[d]] /\ DOMAIN f \in SUBSET Cohorts!Dims
  /\ todo \in SUBSET Cohorts!Dims
  /\ starts \in SUBSET Cohorts!Dims
  /\ resolve_remote \in BOOLEAN

\* While the starts are searched: what is found is topmost, and what is not found
\* yet is below something that is still to be looked at.
StartsInv ==
  /\ DOMAIN modified = {}
  /\ \A d \in todo : Topmost(d)
  /\ \A d \in Cohorts!Dims :
       (d \in DOMAIN query \/ IsLocal(d)) /\ Topmost(d) =>
         d \in starts \/ \E a \in {d} \cup Above(base, d) : a \in todo

\* The starts that are left, in every phase.
StartsTopmost == \A d \in starts : Topmost(d) /\ (d \in DOMAIN query \/ IsLocal(d))

\* What is pending follows from something that is done.
TodoInv == \A d \in todo : base[d] \in DOMAIN modified

\* In the context m, d has the value that its function returned (k, the calls of the
\* functions) for a part of m with the base of d and without local cohorts.
Called(t, b, k, d, m) ==
  /\ d \in DOMAIN k /\ m[d] = k[d].returned
  /\ b[d] \in DOMAIN k[d].context
  /\ \A x \in DOMAIN k[d].context :
       x \in DOMAIN m /\ t[x] # "LOCAL_COHORT" /\ k[d].context[x] = m[x]

\* A value of the first walk is the queried one of a start or returned by a function.
\* Nothing is assigned twice.  What is below something done is done or pending.
RemoteInv ==
  /\ \A d \in DOMAIN modified :
       /\ ~IsLocal(d)
       /\ \/ Topmost(d) /\ d \in DOMAIN query /\ modified[d] = query[d]
          \/ ~Topmost(d) /\ base[d] \in DOMAIN modified /\ Called(type, base, calls, d, modified)
  /\ \A d \in todo \cup starts : d \notin DOMAIN modified
  /\ \A d \in DOMAIN query : Topmost(d) /\ ~IsLocal(d) => d \in starts \cup DOMAIN modified
  /\ \A d \in Cohorts!Dims :
       base[d] \in DOMAIN modified /\ ~IsLocal(d) => d \in todo \cup DOMAIN modified

\* The second walk gives a start its queried value, and below it, as long as every
\* dimension has a value, a local cohort the value that its base determines.
Evaluated(d) ==
  \/ Topmost(d) /\ d \in DOMAIN query /\ modified[d] = query[d]
  \/ /\ base[d] \in DOMAIN query /\ Cohorts!Connected(d)
     /\ Cohorts!HasValue(d)
     /\ modified[d] = IF IsLocal(d)
                      THEN Cohorts!evaluate_local_cohort_dimension(query[base[d]])
                      ELSE query[d]

LocalInv ==
  /\ \A d \in DOMAIN modified : Evaluated(d)
  /\ \A d \in DOMAIN query : Topmost(d) => d \in starts \cup DOMAIN modified
  /\ \A d \in Cohorts!Dims :
       base[d] \in DOMAIN modified /\ Cohorts!HasValue(d) => d \in todo \cup DOMAIN modified

\* Some dimension above d was given.
Led(d) == \E a \in Above(base, d) : a \in DOMAIN given

\* The query that the first walk leaves to the second one.
ResolvedInv ==
  \A d \in Cohorts!Dims : ~IsLocal(d) =>
    /\ d \in DOMAIN query <=> d \in DOMAIN given \/ Led(d)
    /\ Led(d) => base[d] \in DOMAIN query /\ Called(type, base, calls, d, query)
    /\ d \in DOMAIN given /\ ~Led(d) => query[d] = given[d]

CohortInv ==
  /\ CohortType
  /\ StartsTopmost
  /\ phase \in {"remote starts", "local starts"} => StartsInv
  /\ phase \in {"remote", "local"} => TodoInv
  /\ phase = "remote" => RemoteInv
  /\ phase = "local" => LocalInv
  /\ phase \in {"remote starts", "remote"} => query = given
  /\ resolve_remote /\ phase \in {"local starts", "local", "done"} => ResolvedInv
  /\ Cohorts!EvaluationExact

\* A larger context.
LEMMA CalledLonger ==
  ASSUME NEW t, NEW b, NEW k, NEW l, NEW d, NEW m, NEW n, Called(t, b, k, d, m),
         d \in DOMAIN m, \A x \in DOMAIN m : x \in DOMAIN n /\ n[x] = m[x],
         d \in DOMAIN l, l[d] = k[d]
  PROVE  Called(t, b, l, d, n)
  BY DEF Called

\* Ancestors as the model defines them.
LEMMA AncestorsAbove == \A d : Cohorts!Ancestors(d) = Above(base, d)
  BY DEF Cohorts!Ancestors, Above

\* Every walk starts at the roots.
LEMMA RootsStartsInv ==
  CohortType /\ DOMAIN modified = {} /\ todo = Cohorts!Roots => StartsInv
<1> SUFFICES ASSUME CohortType, DOMAIN modified = {}, todo = Cohorts!Roots
             PROVE  StartsInv
  OBVIOUS
<1>1. ASSUME NEW d \in todo
      PROVE  Topmost(d)
  <2>1. d \in Cohorts!Dims /\ base[d] = 0
    BY DEF CohortType, Forest, Cohorts!Roots
  <2>2. QED
    BY <2>1, AboveBase DEF Topmost, CohortType
<1>2. ASSUME NEW d \in Cohorts!Dims
      PROVE  \E a \in {d} \cup Above(base, d) : a \in todo
  BY AboveRoot DEF CohortType, Cohorts!Roots
<1>3. QED
  BY <1>1, <1>2 DEF StartsInv

\* A partial function is what it is on its domain.
LEMMA PartialFunction ==
  ASSUME NEW S, NEW T, NEW f \in Cohorts!Partial(S, T)
  PROVE  f = [d \in DOMAIN f |-> f[d]] /\ DOMAIN f \in SUBSET S
  BY DEF Cohorts!Partial

\* The invariant holds of every query on every forest.
LEMMA CohortInit == Cohorts!Init => CohortInv
<1> SUFFICES ASSUME Cohorts!Init
             PROVE  CohortInv
  OBVIOUS
<1>1. DOMAIN modified = {} /\ modified = [d \in DOMAIN modified |-> modified[d]] /\ starts = {}
  BY DEF Cohorts!Init, Cohorts!Nothing
<1>2. query = given /\ given = [d \in DOMAIN given |-> given[d]] /\ DOMAIN given \in SUBSET Cohorts!Dims
  <2>1. given \in Cohorts!Partial(Cohorts!Dims, Values) /\ query = given
    BY DEF Cohorts!Init
  <2>2. QED
    BY <2>1, PartialFunction
<1>3. Forest(type, base) /\ todo = Cohorts!Roots /\ resolve_remote \in BOOLEAN
  BY DEF Cohorts!Init, Forest
<1>4. CohortType
  BY <1>1, <1>2, <1>3 DEF CohortType, Cohorts!Roots
<1>5. StartsInv
  BY <1>1, <1>3, <1>4, RootsStartsInv
<1>6. phase = IF resolve_remote THEN "remote starts" ELSE "local starts"
  BY DEF Cohorts!Init
<1>7. QED
  BY <1>1, <1>2, <1>4, <1>5, <1>6 DEF CohortInv, StartsTopmost, Cohorts!EvaluationExact

\* What all steps of a phase leave alone.
LEMMA CohortSame ==
  ASSUME CohortInv, UNCHANGED <<type, base, resolve_remote, given>>
  PROVE  /\ Forest(type, base)' /\ resolve_remote' \in BOOLEAN
         /\ \A d : IsLocal(d)' = IsLocal(d) /\ Led(d)' = Led(d)
         /\ query' = query => /\ \A d : Topmost(d)' = Topmost(d)
                              /\ \A d : Cohorts!Connected(d)' = Cohorts!Connected(d)
                              /\ \A d : Cohorts!HasValue(d)' = Cohorts!HasValue(d)
         /\ UNCHANGED <<query, calls>> => ResolvedInv' = ResolvedInv
<1>1. \A d : Cohorts!Ancestors(d)' = Cohorts!Ancestors(d)
  BY DEF Cohorts!Ancestors
<1>2. Forest(type, base)' /\ resolve_remote' \in BOOLEAN
  BY DEF CohortInv, CohortType
<1>3. \A d : IsLocal(d)' = IsLocal(d) /\ Led(d)' = Led(d)
  BY DEF IsLocal, Led
<1>4. query' = query => /\ \A d : Topmost(d)' = Topmost(d)
                        /\ \A d : Cohorts!Connected(d)' = Cohorts!Connected(d)
                        /\ \A d : Cohorts!HasValue(d)' = Cohorts!HasValue(d)
  BY <1>1 DEF Topmost, Cohorts!Connected, Cohorts!HasValue
<1>5. ASSUME UNCHANGED <<query, calls>>
      PROVE  ResolvedInv' = ResolvedInv
  <2>1. \A d : Called(type, base, calls, d, query)' = Called(type, base, calls, d, query)
    BY <1>5 DEF Called
  <2>2. Cohorts!Dims' = Cohorts!Dims /\ base' = base /\ given' = given /\ query' = query
    BY <1>5 DEF Cohorts!Dims
  <2>3. QED
    BY <1>3, <2>1, <2>2 DEF ResolvedInv
<1>6. QED
  BY <1>2, <1>3, <1>4, <1>5

\* A round of dimensions_to_start_from takes a dimension from the stack, and what
\* is below it is a start itself or has a child of it above.
LEMMA CohortFindStart == CohortInv /\ Cohorts!FindStart => CohortInv'
<1> SUFFICES ASSUME CohortInv, Cohorts!FindStart
             PROVE  CohortInv'
  OBVIOUS
<1>1. /\ UNCHANGED <<type, base, resolve_remote, given, query, phase, modified, calls>>
      /\ phase \in {"remote starts", "local starts"}
      /\ CohortType /\ StartsInv /\ StartsTopmost
  BY DEF Cohorts!FindStart, CohortInv
<1>2. PICK d \in todo :
        IF d \in DOMAIN query \/ type[d] = "LOCAL_COHORT"
        THEN starts' = starts \cup {d} /\ todo' = todo \ {d}
        ELSE todo' = (todo \ {d}) \cup Cohorts!Children(d) /\ UNCHANGED starts
  BY DEF Cohorts!FindStart
<1>3. d \in Cohorts!Dims /\ Topmost(d) /\ Forest(type, base)
  BY <1>1 DEF CohortType, StartsInv
<1>4. CohortType'
  BY <1>1, <1>2, <1>3 DEF CohortType, Cohorts!Children
<1>5. /\ \A e : Topmost(e)' = Topmost(e) /\ IsLocal(e)' = IsLocal(e)
      /\ ResolvedInv' = ResolvedInv
  BY <1>1, CohortSame
<1>6. StartsInv' /\ StartsTopmost'
  <2>1. CASE d \in DOMAIN query \/ IsLocal(d)
    <3>1. starts' = starts \cup {d} /\ todo' = todo \ {d}
      BY <1>2, <2>1 DEF IsLocal
    <3>2. ASSUME NEW e \in Cohorts!Dims, Topmost(e)
          PROVE  d \notin Above(base, e)
      BY <1>3, <2>1, <3>2, AboveEarlier DEF Topmost, IsLocal
    <3>3. ASSUME NEW e \in Cohorts!Dims, e \in DOMAIN query \/ IsLocal(e), Topmost(e)
          PROVE  e \in starts' \/ \E a \in {e} \cup Above(base, e) : a \in todo'
      BY <1>1, <3>1, <3>2, <3>3 DEF StartsInv
    <3>4. StartsTopmost'
      BY <1>1, <1>3, <1>5, <2>1, <3>1 DEF StartsTopmost
    <3>5. QED
      BY <1>1, <1>5, <3>1, <3>3, <3>4 DEF StartsInv
  <2>2. CASE ~(d \in DOMAIN query \/ IsLocal(d))
    <3>1. starts' = starts /\ todo' = (todo \ {d}) \cup Cohorts!Children(d)
      BY <1>2, <2>2 DEF IsLocal
    <3>2. ASSUME NEW c \in Cohorts!Children(d)
          PROVE  Topmost(c)
      <4>1. c \in Cohorts!Dims /\ base[c] = d
        BY DEF Cohorts!Children
      <4>2. Above(base, c) = {d} \cup Above(base, d)
        BY <1>3, <4>1, AboveBase, BoundsAssumption DEF Cohorts!Dims
      <4>3. QED
        BY <1>3, <2>2, <4>2 DEF Topmost
    <3>3. ASSUME NEW e \in Cohorts!Dims, d \in Above(base, e)
          PROVE  \E a \in {e} \cup Above(base, e) : a \in Cohorts!Children(d)
      BY <1>3, <3>3, AboveChild DEF Cohorts!Children
    <3>4. ASSUME NEW e \in Cohorts!Dims, e \in DOMAIN query \/ IsLocal(e), Topmost(e)
          PROVE  e \in starts' \/ \E a \in {e} \cup Above(base, e) : a \in todo'
      <4>1. CASE e \in starts
        BY <3>1, <4>1
      <4>2. ASSUME NEW a \in {e} \cup Above(base, e), a \in todo
            PROVE  \E x \in {e} \cup Above(base, e) : x \in todo'
        BY <2>2, <3>1, <3>3, <3>4, <4>2
      <4>3. QED
        BY <1>1, <3>4, <4>1, <4>2 DEF StartsInv
    <3>5. QED
      BY <1>1, <1>3, <1>5, <3>1, <3>2, <3>4 DEF StartsInv, StartsTopmost
  <2>3. QED
    BY <2>1, <2>2
<1>7. QED
  BY <1>1, <1>4, <1>5, <1>6 DEF CohortInv, Cohorts!EvaluationExact
\* When the stack is empty, every topmost dimension that has a value or gets one
\* in any case is a start.
LEMMA CohortStartsFound == CohortInv /\ Cohorts!StartsFound => CohortInv'
<1> SUFFICES ASSUME CohortInv, Cohorts!StartsFound
             PROVE  CohortInv'
  OBVIOUS
<1>1. /\ UNCHANGED <<type, base, resolve_remote, given, query, todo, starts, modified, calls>>
      /\ todo = {}
      /\ \/ phase = "remote starts" /\ phase' = "remote"
         \/ phase = "local starts" /\ phase' = "local"
      /\ CohortType /\ StartsInv /\ StartsTopmost
  BY DEF Cohorts!StartsFound, CohortInv
<1>2. /\ \A e : Topmost(e)' = Topmost(e) /\ IsLocal(e)' = IsLocal(e)
      /\ ResolvedInv' = ResolvedInv
  BY <1>1, CohortSame
<1>3. DOMAIN modified' = {} /\ \A d \in DOMAIN query : Topmost(d) => d \in starts
  BY <1>1 DEF StartsInv, CohortType
<1>4. TodoInv' /\ RemoteInv' /\ LocalInv'
  BY <1>1, <1>2, <1>3 DEF TodoInv, RemoteInv, LocalInv
<1>5. CohortType' /\ StartsTopmost'
  BY <1>1, <1>2 DEF CohortType, StartsTopmost
<1>6. QED
  BY <1>1, <1>2, <1>4, <1>5 DEF CohortInv, Cohorts!EvaluationExact

\* A base that is a dimension is an ancestor, and no local cohort.
LEMMA BaseAbove ==
  ASSUME CohortType, NEW d \in Cohorts!Dims, base[d] \in Cohorts!Dims
  PROVE  /\ ~IsLocal(base[d]) /\ base[d] < d /\ base[d] \in Nat /\ base[d] # 0
         /\ Above(base, d) = {base[d]} \cup Above(base, base[d])
<1>1. base[d] # 0 /\ base[d] \in Nat
  BY BoundsAssumption DEF Cohorts!Dims
<1>2. Above(base, d) = {base[d]} \cup Above(base, base[d])
  BY <1>1, AboveBase DEF CohortType
<1>3. base[d] \in Above(base, d)
  BY <1>2
<1>4. QED
  BY <1>1, <1>2, <1>3, AboveEarlier DEF CohortType, IsLocal

\* Below a topmost dimension of the query, and below one that is connected and in
\* the query, a dimension is connected.
LEMMA ConnectedBelow ==
  ASSUME CohortType, NEW d \in Cohorts!Dims, base[d] \in DOMAIN query,
         Topmost(base[d]) \/ Cohorts!Connected(base[d])
  PROVE  Cohorts!Connected(d)
<1>1. base[d] \in Cohorts!Dims /\ Above(base, d) = {base[d]} \cup Above(base, base[d])
  BY BaseAbove DEF CohortType
<1>2. ASSUME NEW a \in Above(base, d), a \notin DOMAIN query
      PROVE  Above(base, a) \cap DOMAIN query = {}
  <2>1. a \in Above(base, base[d])
    BY <1>1, <1>2
  <2>2. CASE Topmost(base[d])
    BY <1>1, <2>1, <2>2, AboveTransitive DEF Topmost, CohortType
  <2>3. CASE Cohorts!Connected(base[d])
    BY <1>2, <2>1, <2>3, AncestorsAbove DEF Cohorts!Connected
  <2>4. QED
    BY <2>2, <2>3
<1>3. QED
  BY <1>2, AncestorsAbove DEF Cohorts!Connected

\* In the first walk a start keeps its value, which nothing computes again.
LEMMA CohortStart == CohortInv /\ Cohorts!Start => CohortInv'
<1> SUFFICES ASSUME CohortInv, Cohorts!Start
             PROVE  CohortInv'
  OBVIOUS
<1>1. /\ UNCHANGED <<type, base, resolve_remote, given, query, phase, calls>>
      /\ todo = {} /\ phase \in {"remote", "local"}
      /\ CohortType /\ StartsTopmost
  BY DEF Cohorts!Start, CohortInv
<1>2. PICK d \in starts :
        /\ starts' = starts \ {d}
        /\ IF Cohorts!CanStart(d)
           THEN modified' = Cohorts!Assign(modified, d, query[d]) /\ todo' = Cohorts!Children(d)
           ELSE UNCHANGED <<modified, todo>>
  BY DEF Cohorts!Start
<1>3. d \in Cohorts!Dims /\ Topmost(d) /\ (d \in DOMAIN query \/ IsLocal(d))
  BY <1>1 DEF CohortType, StartsTopmost
<1>4. /\ \A e : Topmost(e)' = Topmost(e) /\ IsLocal(e)' = IsLocal(e)
      /\ \A e : Cohorts!Connected(e)' = Cohorts!Connected(e)
      /\ \A e : Cohorts!HasValue(e)' = Cohorts!HasValue(e)
      /\ ResolvedInv' = ResolvedInv
  BY <1>1, CohortSame
<1>5. StartsTopmost'
  BY <1>1, <1>2, <1>4 DEF StartsTopmost
<1>6. CASE ~Cohorts!CanStart(d)
  <2>1. modified' = modified /\ todo' = todo
    BY <1>2, <1>6
  <2>2. CohortType' /\ TodoInv'
    BY <1>1, <1>2, <2>1 DEF CohortType, TodoInv
  <2>3. phase = "remote" => RemoteInv'
    BY <1>1, <1>2, <1>4, <1>6, <2>1 DEF RemoteInv, CohortInv, Cohorts!CanStart, IsLocal
  <2>4. phase = "local" => LocalInv'
    <3>1. phase = "local" => LocalInv /\ d \notin DOMAIN query
      BY <1>6 DEF CohortInv, Cohorts!CanStart
    <3>2. ASSUME phase = "local", NEW e \in DOMAIN modified'
          PROVE  Evaluated(e)'
      BY <1>1, <1>4, <2>1, <3>1, <3>2 DEF LocalInv, Evaluated
    <3>3. QED
      BY <1>1, <1>2, <1>4, <2>1, <3>1, <3>2 DEF LocalInv
  <2>5. QED
    BY <1>1, <1>4, <1>5, <2>2, <2>3, <2>4 DEF CohortInv, Cohorts!EvaluationExact
<1>7. CASE Cohorts!CanStart(d)
  <2>1. /\ modified' = Cohorts!Assign(modified, d, query[d])
        /\ todo' = Cohorts!Children(d)
        /\ d \in DOMAIN query
    BY <1>2, <1>7 DEF Cohorts!CanStart
  <2>2. /\ modified' = [x \in DOMAIN modified' |-> modified'[x]]
        /\ DOMAIN modified' = DOMAIN modified \cup {d}
        /\ modified'[d] = query[d]
        /\ \A x \in DOMAIN modified : x # d => modified'[x] = modified[x]
    BY <2>1 DEF Cohorts!Assign
  <2>3. CohortType' /\ TodoInv'
    BY <1>1, <1>2, <1>3, <2>1, <2>2 DEF CohortType, TodoInv, Cohorts!Children
  <2>4. ASSUME phase = "remote"
        PROVE  RemoteInv'
    <3>1. RemoteInv /\ ~IsLocal(d)
      BY <1>7, <2>4 DEF CohortInv, Cohorts!CanStart, IsLocal
    <3>2. d \notin DOMAIN modified /\ \A x \in DOMAIN modified : modified'[x] = modified[x]
      BY <2>2, <3>1 DEF RemoteInv
    <3>3. ASSUME NEW x \in DOMAIN modified'
          PROVE  /\ ~IsLocal(x)
                 /\ \/ Topmost(x) /\ x \in DOMAIN query /\ modified'[x] = query[x]
                    \/ /\ ~Topmost(x) /\ base[x] \in DOMAIN modified'
                       /\ Called(type, base, calls, x, modified')
      <4>1. CASE x = d
        BY <1>3, <2>1, <2>2, <3>1, <4>1
      <4>2. CASE x \in DOMAIN modified /\ Topmost(x)
        BY <3>1, <3>2, <4>2 DEF RemoteInv
      <4>3. CASE x \in DOMAIN modified /\ ~Topmost(x)
        <5>1. ~IsLocal(x) /\ base[x] \in DOMAIN modified /\ Called(type, base, calls, x, modified)
          BY <3>1, <4>3 DEF RemoteInv
        <5>2. x \in DOMAIN calls
          BY <5>1 DEF Called
        <5>3. Called(type, base, calls, x, modified')
          BY <2>2, <3>2, <4>3, <5>1, <5>2, CalledLonger
        <5>4. QED
          BY <2>2, <4>3, <5>1, <5>3
      <4>4. QED
        BY <2>2, <4>1, <4>2, <4>3
    <3>7. ASSUME NEW x \in todo' \cup starts'
          PROVE  x \notin DOMAIN modified'
      <4>1. CASE x \in starts'
        BY <1>2, <2>2, <3>1, <4>1 DEF RemoteInv
      <4>2. CASE x \in Cohorts!Children(d)
        <5>1. x \in Cohorts!Dims /\ base[x] = d
          BY <4>2 DEF Cohorts!Children
        <5>2. d < x /\ Above(base, x) = {d} \cup Above(base, d)
          BY <1>1, <1>3, <5>1, BaseAbove
        <5>3. ~Topmost(x) /\ x # d
          <6>1. d \in Nat
            BY <1>3, BoundsAssumption DEF Cohorts!Dims
          <6>2. QED
            BY <2>1, <5>2, <6>1 DEF Topmost
        <5>4. QED
          BY <2>2, <3>1, <3>2, <5>1, <5>3 DEF RemoteInv
      <4>3. QED
        BY <2>1, <4>1, <4>2
    <3>4. ASSUME NEW x \in DOMAIN query, Topmost(x), ~IsLocal(x)
          PROVE  x \in starts' \cup DOMAIN modified'
      BY <1>2, <2>2, <3>1, <3>4 DEF RemoteInv
    <3>5. ASSUME NEW x \in Cohorts!Dims, base[x] \in DOMAIN modified', ~IsLocal(x)
          PROVE  x \in todo' \cup DOMAIN modified'
      BY <1>1, <2>1, <2>2, <3>1, <3>5 DEF RemoteInv, Cohorts!Children
    <3>6. QED
      BY <1>1, <1>4, <3>3, <3>4, <3>5, <3>7 DEF RemoteInv
  <2>5. ASSUME phase = "local"
        PROVE  LocalInv'
    <3>1. LocalInv
      BY <2>5 DEF CohortInv
    <3>2. ASSUME NEW x \in DOMAIN modified', x # d
          PROVE  Evaluated(x)'
      BY <1>1, <1>4, <2>2, <3>1, <3>2 DEF LocalInv, Evaluated
    <3>3. Evaluated(d)'
      BY <1>1, <1>3, <1>4, <2>1, <2>2 DEF Evaluated
    <3>4. ASSUME NEW x \in DOMAIN query, Topmost(x)
          PROVE  x \in starts' \cup DOMAIN modified'
      BY <1>2, <2>2, <3>1, <3>4 DEF LocalInv
    <3>5. ASSUME NEW x \in Cohorts!Dims, base[x] \in DOMAIN modified', Cohorts!HasValue(x)
          PROVE  x \in todo' \cup DOMAIN modified'
      BY <1>1, <2>1, <2>2, <3>1, <3>5 DEF LocalInv, Cohorts!Children
    <3>6. QED
      BY <1>1, <1>4, <3>2, <3>3, <3>4, <3>5 DEF LocalInv
  <2>6. QED
    BY <1>1, <1>4, <1>5, <2>3, <2>4, <2>5 DEF CohortInv, Cohorts!EvaluationExact
<1>8. QED
  BY <1>6, <1>7
\* Below something that the first walk has done, a dimension has a queried ancestor.
LEMMA RemoteLed ==
  ASSUME CohortType, RemoteInv, NEW d \in Cohorts!Dims, base[d] \in DOMAIN modified
  PROVE  ~Topmost(d)
<1>1. base[d] \in Cohorts!Dims /\ Above(base, d) = {base[d]} \cup Above(base, base[d])
  BY BaseAbove DEF CohortType
<1>2. base[d] \in DOMAIN query \/ ~Topmost(base[d])
  BY DEF RemoteInv
<1>3. QED
  BY <1>1, <1>2 DEF Topmost

\* A round of the first walk.  A cohort that is pending has no value yet, and neither
\* has anything below it.
LEMMA CohortRemoteStep == CohortInv /\ Cohorts!RemoteStep => CohortInv'
<1> SUFFICES ASSUME CohortInv, Cohorts!RemoteStep
             PROVE  CohortInv'
  OBVIOUS
<1>1. /\ UNCHANGED <<type, base, resolve_remote, given, query, phase, starts>>
      /\ phase = "remote"
      /\ CohortType /\ StartsTopmost /\ TodoInv /\ RemoteInv
  BY DEF Cohorts!RemoteStep, CohortInv
<1>2. PICK d \in todo :
        IF type[d] = "LOCAL_COHORT"
        THEN todo' = todo \ {d} /\ UNCHANGED <<modified, calls>>
        ELSE Cohorts!ComputeValue(d) /\ todo' = (todo \ {d}) \cup Cohorts!Children(d)
  BY DEF Cohorts!RemoteStep
<1>3. d \in Cohorts!Dims /\ base[d] \in DOMAIN modified /\ d \notin DOMAIN modified
  BY <1>1 DEF CohortType, TodoInv, RemoteInv
<1>4. \A e : Topmost(e)' = Topmost(e) /\ IsLocal(e)' = IsLocal(e)
  BY <1>1, CohortSame
<1>5. StartsTopmost'
  BY <1>1, <1>4 DEF StartsTopmost
<1>6. CASE IsLocal(d)
  <2>1. todo' = todo \ {d} /\ modified' = modified /\ calls' = calls
    BY <1>2, <1>6 DEF IsLocal
  <2>2. CohortType' /\ TodoInv'
    BY <1>1, <2>1 DEF CohortType, TodoInv
  <2>3. RemoteInv'
    BY <1>1, <1>4, <1>6, <2>1 DEF RemoteInv
  <2>4. QED
    BY <1>1, <1>5, <2>2, <2>3 DEF CohortInv, Cohorts!EvaluationExact
<1>7. CASE ~IsLocal(d)
  <2>1. PICK v \in Values :
          /\ modified' = Cohorts!Assign(modified, d, v)
          /\ calls' = Cohorts!Assign(calls, d, [context |-> modified, returned |-> v])
    BY <1>2, <1>7 DEF IsLocal, Cohorts!ComputeValue
  <2>2. todo' = (todo \ {d}) \cup Cohorts!Children(d)
    BY <1>2, <1>7 DEF IsLocal
  <2>3. /\ modified' = [x \in DOMAIN modified' |-> modified'[x]]
        /\ DOMAIN modified' = DOMAIN modified \cup {d}
        /\ modified'[d] = v
        /\ \A x \in DOMAIN modified : modified'[x] = modified[x]
    BY <1>3, <2>1 DEF Cohorts!Assign
  <2>4. /\ DOMAIN calls' = DOMAIN calls \cup {d}
        /\ calls'[d] = [context |-> modified, returned |-> v]
        /\ \A x \in DOMAIN calls : x # d => calls'[x] = calls[x]
    BY <2>1 DEF Cohorts!Assign
  <2>5. ~Topmost(d)
    BY <1>1, <1>3, RemoteLed
  <2>6. CohortType' /\ TodoInv'
    BY <1>1, <1>3, <2>2, <2>3 DEF CohortType, TodoInv, Cohorts!Children
  <2>7. Called(type, base, calls', d, modified')
    BY <1>1, <1>3, <2>3, <2>4 DEF Called, RemoteInv, IsLocal
  <2>8. ASSUME NEW x \in DOMAIN modified'
        PROVE  /\ ~IsLocal(x)
               /\ \/ Topmost(x) /\ x \in DOMAIN query /\ modified'[x] = query[x]
                  \/ /\ ~Topmost(x) /\ base[x] \in DOMAIN modified'
                     /\ Called(type, base, calls', x, modified')
    <3>1. CASE x = d
      BY <1>3, <1>7, <2>3, <2>5, <2>7, <3>1
    <3>2. CASE x \in DOMAIN modified /\ Topmost(x)
      BY <1>1, <2>3, <3>2 DEF RemoteInv
    <3>3. CASE x \in DOMAIN modified /\ ~Topmost(x)
      <4>1. ~IsLocal(x) /\ base[x] \in DOMAIN modified /\ Called(type, base, calls, x, modified)
        BY <1>1, <3>3 DEF RemoteInv
      <4>2. x \in DOMAIN calls' /\ calls'[x] = calls[x]
        BY <1>3, <2>4, <3>3, <4>1 DEF Called
      <4>3. Called(type, base, calls', x, modified')
        BY <2>3, <3>3, <4>1, <4>2, CalledLonger
      <4>4. QED
        BY <2>3, <3>3, <4>1, <4>3
    <3>4. QED
      BY <2>3, <3>1, <3>2, <3>3
  <2>9. ASSUME NEW x \in todo' \cup starts'
        PROVE  x \notin DOMAIN modified'
    <3>1. CASE x \in starts
      <4>1. Topmost(x) /\ x \notin DOMAIN modified
        BY <1>1, <3>1 DEF RemoteInv, StartsTopmost
      <4>2. QED
        BY <2>3, <2>5, <4>1
    <3>2. CASE x \in todo \ {d}
      BY <1>1, <2>3, <3>2 DEF RemoteInv
    <3>3. CASE x \in Cohorts!Children(d)
      <4>1. x \in Cohorts!Dims /\ base[x] = d
        BY <3>3 DEF Cohorts!Children
      <4>2. d < x /\ d \in Nat /\ Above(base, x) = {d} \cup Above(base, d)
        BY <1>1, <1>3, <4>1, BaseAbove
      <4>3. ~Topmost(x) /\ x # d
        BY <2>5, <4>2 DEF Topmost
      <4>4. QED
        BY <1>1, <1>3, <2>3, <4>1, <4>3 DEF RemoteInv
    <3>4. QED
      BY <1>1, <2>2, <3>1, <3>2, <3>3
  <2>10. ASSUME NEW x \in Cohorts!Dims, base[x] \in DOMAIN modified', ~IsLocal(x)
         PROVE  x \in todo' \cup DOMAIN modified'
    BY <1>1, <2>2, <2>3, <2>10 DEF RemoteInv, Cohorts!Children
  <2>11. RemoteInv'
    BY <1>1, <1>4, <2>3, <2>8, <2>9, <2>10 DEF RemoteInv
  <2>12. QED
    BY <1>1, <1>5, <2>6, <2>11 DEF CohortInv, Cohorts!EvaluationExact
<1>8. QED
  BY <1>6, <1>7

\* A request that fails ends there.
LEMMA CohortRemoteFails == CohortInv /\ Cohorts!RemoteFails => CohortInv'
<1> SUFFICES ASSUME CohortInv, Cohorts!RemoteFails
             PROVE  CohortInv'
  OBVIOUS
<1>1. /\ UNCHANGED <<type, base, resolve_remote, given, query, todo, starts, modified, calls>>
      /\ phase' = "failed"
      /\ CohortType /\ StartsTopmost
  BY DEF Cohorts!RemoteFails, CohortInv
<1>2. \A e : Topmost(e)' = Topmost(e) /\ IsLocal(e)' = IsLocal(e)
  BY <1>1, CohortSame
<1>3. CohortType' /\ StartsTopmost'
  BY <1>1, <1>2 DEF CohortType, StartsTopmost
<1>4. QED
  BY <1>1, <1>3 DEF CohortInv, Cohorts!EvaluationExact

\* When the first walk ends it has reached all that it should reach.
LEMMA RemoteReached ==
  ASSUME CohortType, RemoteInv, todo = {}, starts = {},
         NEW d \in Cohorts!Dims, ~IsLocal(d), d \in DOMAIN query \/ ~Topmost(d)
  PROVE  d \in DOMAIN modified
<1> DEFINE S == {x \in Cohorts!Dims : /\ ~IsLocal(x)
                                      /\ x \in DOMAIN query \/ ~Topmost(x)
                                      /\ x \notin DOMAIN modified}
<1>1. SUFFICES ASSUME S # {}
               PROVE  FALSE
  OBVIOUS
<1>2. S \subseteq Nat
  BY BoundsAssumption DEF Cohorts!Dims
<1>3. PICK m \in S : \A x \in S : m <= x
  BY <1>1, <1>2, Least
<1>4. CASE Topmost(m)
  BY <1>4 DEF RemoteInv
<1>5. CASE ~Topmost(m)
  <2> DEFINE b == base[m]
  <2>1. b # 0
    BY <1>5, AboveBase DEF Topmost, CohortType
  <2>2. b \in Cohorts!Dims
    BY <2>1, AboveBase DEF CohortType
  <2>3. b < m /\ b \in Nat /\ ~IsLocal(b) /\ Above(base, m) = {b} \cup Above(base, b)
    BY <2>2, BaseAbove
  <2>4. b \in DOMAIN query \/ ~Topmost(b)
    BY <1>5, <2>3 DEF Topmost
  <2>5. b \notin S
    BY <1>2, <1>3, <2>3
  <2>6. b \in DOMAIN modified
    BY <2>2, <2>3, <2>4, <2>5
  <2>7. QED
    BY <2>6 DEF RemoteInv
<1>6. QED
  BY <1>4, <1>5

\* The first walk leaves a query in which every remote cohort below a given dimension
\* has the value that its function returned.
LEMMA CohortRemoteEnd == CohortInv /\ Cohorts!RemoteEnd => CohortInv'
<1> SUFFICES ASSUME CohortInv, Cohorts!RemoteEnd
             PROVE  CohortInv'
  OBVIOUS
<1>1. /\ UNCHANGED <<type, base, resolve_remote, given, starts, calls>>
      /\ phase' = "local starts" /\ todo' = Cohorts!Roots /\ modified' = Cohorts!Nothing
      /\ todo = {} /\ starts = {} /\ query = given
      /\ CohortType /\ RemoteInv
  BY DEF Cohorts!RemoteEnd, CohortInv
<1>2. /\ query' = [d \in DOMAIN query' |-> query'[d]]
      /\ DOMAIN query' = DOMAIN modified \cup {l \in DOMAIN query : IsLocal(l)}
      /\ \A d \in DOMAIN modified : query'[d] = modified[d]
  BY <1>1 DEF Cohorts!RemoteEnd, IsLocal, RemoteInv
<1>3. DOMAIN modified' = {} /\ modified' = [d \in DOMAIN modified' |-> modified'[d]]
  BY <1>1 DEF Cohorts!Nothing
<1>4. CohortType'
  BY <1>1, <1>2, <1>3 DEF CohortType, Cohorts!Roots
<1>5. StartsInv'
  <2>1. (CohortType /\ DOMAIN modified = {} /\ todo = Cohorts!Roots)'
    BY <1>1, <1>3, <1>4 DEF Cohorts!Roots
  <2>2. QED
    BY <2>1, RootsStartsInv, PTL
<1>6. ResolvedInv'
  <2>1. \A d : Led(d) <=> ~Topmost(d)
    BY <1>1 DEF Led, Topmost
  <2>2. ASSUME NEW d \in Cohorts!Dims, ~IsLocal(d)
        PROVE  /\ d \in DOMAIN query' <=> d \in DOMAIN given \/ Led(d)
               /\ Led(d) => base[d] \in DOMAIN query' /\ Called(type, base, calls, d, query')
               /\ d \in DOMAIN given /\ ~Led(d) => query'[d] = given[d]
    <3>1. d \in DOMAIN modified <=> d \in DOMAIN query \/ ~Topmost(d)
      BY <1>1, <2>2, RemoteReached DEF RemoteInv
    <3>2. d \in DOMAIN query' <=> d \in DOMAIN modified
      BY <1>2, <2>2
    <3>3. ASSUME Led(d)
          PROVE  base[d] \in DOMAIN query' /\ Called(type, base, calls, d, query')
      <4>1. d \in DOMAIN modified /\ base[d] \in DOMAIN modified /\ Called(type, base, calls, d, modified)
        BY <1>1, <2>1, <3>1, <3>3 DEF RemoteInv
      <4>2. d \in DOMAIN calls
        BY <4>1 DEF Called
      <4>3. Called(type, base, calls, d, query')
        BY <1>2, <4>1, <4>2, CalledLonger
      <4>4. QED
        BY <1>2, <4>1, <4>3
    <3>4. ASSUME d \in DOMAIN given, ~Led(d)
          PROVE  query'[d] = given[d]
      BY <1>1, <1>2, <2>1, <3>1, <3>4 DEF RemoteInv
    <3>5. QED
      BY <1>1, <2>1, <3>1, <3>2, <3>3, <3>4
  <2>3. \A d : IsLocal(d)' = IsLocal(d) /\ Led(d)' = Led(d)
    BY <1>1, CohortSame
  <2>4. QED
    BY <1>1, <2>2, <2>3 DEF ResolvedInv
<1>7. QED
  BY <1>1, <1>4, <1>5, <1>6 DEF CohortInv, StartsTopmost, Cohorts!EvaluationExact

\* A round of the second walk.
LEMMA CohortLocalStep == CohortInv /\ Cohorts!LocalStep => CohortInv'
<1> SUFFICES ASSUME CohortInv, Cohorts!LocalStep
             PROVE  CohortInv'
  OBVIOUS
<1>1. /\ UNCHANGED <<type, base, resolve_remote, given, query, phase, starts, calls>>
      /\ phase = "local"
      /\ CohortType /\ StartsTopmost /\ TodoInv /\ LocalInv
  BY DEF Cohorts!LocalStep, CohortInv
<1>2. PICK d \in todo :
        IF Cohorts!HasValue(d)
        THEN /\ modified' = Cohorts!Assign(modified, d,
                              IF type[d] = "LOCAL_COHORT"
                              THEN Cohorts!evaluate_local_cohort_dimension(modified[base[d]])
                              ELSE query[d])
             /\ todo' = (todo \ {d}) \cup Cohorts!Children(d)
        ELSE todo' = todo \ {d} /\ UNCHANGED modified
  BY DEF Cohorts!LocalStep
<1>3. d \in Cohorts!Dims /\ base[d] \in DOMAIN modified
  BY <1>1 DEF CohortType, TodoInv
<1>4. /\ \A e : Topmost(e)' = Topmost(e) /\ IsLocal(e)' = IsLocal(e)
      /\ \A e : Cohorts!Connected(e)' = Cohorts!Connected(e)
      /\ \A e : Cohorts!HasValue(e)' = Cohorts!HasValue(e)
      /\ ResolvedInv' = ResolvedInv
  BY <1>1, CohortSame
<1>5. StartsTopmost'
  BY <1>1, <1>4 DEF StartsTopmost
<1>6. CASE ~Cohorts!HasValue(d)
  <2>1. todo' = todo \ {d} /\ modified' = modified
    BY <1>2, <1>6
  <2>2. CohortType' /\ TodoInv'
    BY <1>1, <2>1 DEF CohortType, TodoInv
  <2>3. ASSUME NEW x \in DOMAIN modified
        PROVE  Evaluated(x)'
    BY <1>1, <1>4, <2>1 DEF LocalInv, Evaluated
  <2>4. LocalInv'
    BY <1>1, <1>4, <1>6, <2>1, <2>3 DEF LocalInv
  <2>5. QED
    BY <1>1, <1>4, <1>5, <2>2, <2>4 DEF CohortInv, Cohorts!EvaluationExact
<1>7. CASE Cohorts!HasValue(d)
  <2> DEFINE v == IF IsLocal(d) THEN Cohorts!evaluate_local_cohort_dimension(modified[base[d]])
                  ELSE query[d]
  <2>1. /\ modified' = Cohorts!Assign(modified, d, v)
        /\ todo' = (todo \ {d}) \cup Cohorts!Children(d)
    BY <1>2, <1>7 DEF IsLocal
  <2>2. /\ modified' = [x \in DOMAIN modified' |-> modified'[x]]
        /\ DOMAIN modified' = DOMAIN modified \cup {d}
        /\ modified'[d] = v
        /\ \A x \in DOMAIN modified : x # d => modified'[x] = modified[x]
    BY <2>1 DEF Cohorts!Assign
  <2>3. CohortType' /\ TodoInv'
    BY <1>1, <1>3, <2>1, <2>2 DEF CohortType, TodoInv, Cohorts!Children
  <2>4. ~IsLocal(base[d]) /\ base[d] \in Cohorts!Dims
    BY <1>1, <1>3, BaseAbove DEF CohortType
  <2>5. /\ base[d] \in DOMAIN query /\ modified[base[d]] = query[base[d]]
        /\ Topmost(base[d]) \/ Cohorts!Connected(base[d])
    BY <1>1, <1>3, <2>4 DEF LocalInv, Evaluated, Cohorts!HasValue, IsLocal
  <2>6. Cohorts!Connected(d)
    BY <1>1, <1>3, <2>5, ConnectedBelow
  <2>7. Evaluated(d)'
    BY <1>1, <1>4, <1>7, <2>2, <2>5, <2>6 DEF Evaluated
  <2>8. ASSUME NEW x \in DOMAIN modified, x # d
        PROVE  Evaluated(x)'
    BY <1>1, <1>4, <2>2, <2>8 DEF LocalInv, Evaluated
  <2>9. ASSUME NEW x \in Cohorts!Dims, base[x] \in DOMAIN modified', Cohorts!HasValue(x)
        PROVE  x \in todo' \cup DOMAIN modified'
    BY <1>1, <2>1, <2>2, <2>9 DEF LocalInv, Cohorts!Children
  <2>10. LocalInv'
    BY <1>1, <1>4, <2>2, <2>7, <2>8, <2>9 DEF LocalInv
  <2>11. QED
    BY <1>1, <1>4, <1>5, <2>3, <2>10 DEF CohortInv, Cohorts!EvaluationExact
<1>8. QED
  BY <1>6, <1>7
\* When the second walk ends it has reached all that it should reach.
LEMMA LocalReached ==
  ASSUME CohortType, LocalInv, todo = {}, starts = {},
         NEW d \in DOMAIN query, Cohorts!Connected(d)
  PROVE  d \in DOMAIN modified
<1> DEFINE S == {x \in DOMAIN query : Cohorts!Connected(x) /\ x \notin DOMAIN modified}
<1>1. SUFFICES ASSUME S # {}
               PROVE  FALSE
  OBVIOUS
<1>2. S \subseteq Nat /\ S \subseteq Cohorts!Dims
  BY BoundsAssumption DEF CohortType, Cohorts!Dims
<1>3. PICK m \in S : \A x \in S : m <= x
  BY <1>1, <1>2, Least
<1>4. CASE Topmost(m)
  BY <1>4 DEF LocalInv
<1>5. CASE ~Topmost(m)
  <2> DEFINE b == base[m]
  <2>1. b # 0
    BY <1>2, <1>5, AboveBase DEF Topmost, CohortType
  <2>2. b \in Cohorts!Dims
    BY <1>2, <2>1, AboveBase DEF CohortType
  <2>3. b < m /\ b \in Nat /\ Above(base, m) = {b} \cup Above(base, b)
    BY <1>2, <2>2, BaseAbove
  <2>4. b \in DOMAIN query
    BY <1>5, <2>3, AncestorsAbove DEF Topmost, Cohorts!Connected
  <2>5. Cohorts!Connected(b)
    BY <2>3, AncestorsAbove DEF Cohorts!Connected
  <2>6. b \notin S
    BY <1>2, <1>3, <2>3
  <2>7. b \in DOMAIN modified
    BY <2>4, <2>5, <2>6
  <2>8. QED
    BY <1>2, <2>7 DEF LocalInv, Cohorts!HasValue
<1>6. QED
  BY <1>4, <1>5

\* A topmost dimension is connected.
LEMMA TopmostConnected ==
  ASSUME CohortType, NEW d \in Cohorts!Dims, Topmost(d)
  PROVE  Cohorts!Connected(d)
  BY AboveTransitive, AncestorsAbove DEF Cohorts!Connected, Topmost, CohortType

\* The walk ends with exactly the values that the definition says.
LEMMA CohortLocalEnd == CohortInv /\ Cohorts!LocalEnd => CohortInv'
<1> SUFFICES ASSUME CohortInv, Cohorts!LocalEnd
             PROVE  CohortInv'
  OBVIOUS
<1> DEFINE locals == {l \in Cohorts!Dims : IsLocal(l)}
           shown == {x \in Cohorts!Dims : IsLocal(x) \/ (x \in DOMAIN query /\ Cohorts!Connected(x))}
<1>1. /\ UNCHANGED <<type, base, resolve_remote, given, query, todo, starts, calls>>
      /\ phase' = "done" /\ phase = "local"
      /\ todo = {} /\ starts = {}
      /\ CohortType /\ LocalInv
  BY DEF Cohorts!LocalEnd, CohortInv
<1>2. modified' = [d \in DOMAIN modified \cup locals |->
                     IF d \in DOMAIN modified THEN modified[d] ELSE Otherwise]
  BY DEF Cohorts!LocalEnd, IsLocal
<1>3. DOMAIN modified \cup locals = shown
  <2>1. ASSUME NEW d \in DOMAIN modified, ~IsLocal(d)
        PROVE  d \in shown
    <3>1. d \in Cohorts!Dims /\ Evaluated(d)
      BY <1>1 DEF CohortType, LocalInv
    <3>2. QED
      BY <1>1, <2>1, <3>1, TopmostConnected DEF Evaluated, Cohorts!HasValue, IsLocal
  <2>2. ASSUME NEW d \in DOMAIN modified
        PROVE  d \in Cohorts!Dims
    BY <1>1 DEF CohortType
  <2>3. ASSUME NEW d \in shown, ~IsLocal(d)
        PROVE  d \in DOMAIN modified
    BY <1>1, <2>3, LocalReached
  <2>4. QED
    BY <2>1, <2>2, <2>3
<1>4. ASSUME NEW d \in shown, Cohorts!Connected(d)
      PROVE  (IF d \in DOMAIN modified THEN modified[d] ELSE Otherwise) = Cohorts!Expected(d)
  <2>1. d \in Cohorts!Dims /\ (d \in DOMAIN modified => Evaluated(d))
    BY <1>1 DEF LocalInv
  <2>2. CASE ~IsLocal(d)
    <3>1. d \in DOMAIN modified
      BY <1>3, <2>2
    <3>2. QED
      BY <2>1, <2>2, <3>1 DEF Evaluated, Cohorts!Expected, IsLocal
  <2>3. CASE IsLocal(d) /\ base[d] \in DOMAIN query
    <3>1. base[d] \in Cohorts!Dims
      BY <1>1, <2>3 DEF CohortType
    <3>2. Above(base, d) = {base[d]} \cup Above(base, base[d])
      BY <1>1, <2>1, <3>1, BaseAbove
    <3>3. Cohorts!Connected(base[d])
      BY <1>4, <3>2, AncestorsAbove DEF Cohorts!Connected
    <3>4. base[d] \in DOMAIN modified
      BY <1>1, <2>3, <3>3, LocalReached
    <3>5. d \in DOMAIN modified
      BY <1>1, <2>1, <2>3, <3>4 DEF LocalInv, Cohorts!HasValue, IsLocal
    <3>6. ~Topmost(d)
      BY <2>3, <3>2 DEF Topmost
    <3>7. QED
      BY <2>1, <2>3, <3>5, <3>6 DEF Evaluated, Cohorts!Expected, IsLocal
  <2>4. CASE IsLocal(d) /\ base[d] \notin DOMAIN query
    <3>4. Topmost(d)
      <4>1. base[d] \in Cohorts!Dims
        BY <1>1, <2>1, <2>4, BoundsAssumption DEF CohortType, Forest, IsLocal, Cohorts!Dims
      <4>2. Above(base, d) = {base[d]} \cup Above(base, base[d])
        BY <1>1, <2>1, <4>1, BaseAbove
      <4>3. Above(base, base[d]) \cap DOMAIN query = {}
        BY <1>4, <2>4, <4>2, AncestorsAbove DEF Cohorts!Connected
      <4>4. QED
        BY <2>4, <4>2, <4>3 DEF Topmost
    <3>1. d \in DOMAIN modified <=> d \in DOMAIN query
      BY <1>1, <2>1, <2>4, <3>4 DEF LocalInv, Evaluated
    <3>2. d \in DOMAIN modified => modified[d] = query[d]
      BY <2>1, <2>4 DEF Evaluated
    <3>3. QED
      BY <2>4, <3>1, <3>2 DEF Cohorts!Expected, IsLocal
  <2>5. QED
    BY <2>2, <2>3, <2>4
<1>5. /\ DOMAIN modified' = shown
      /\ \A d \in shown : Cohorts!Connected(d) => modified'[d] = Cohorts!Expected(d)
  BY <1>2, <1>3, <1>4
<1>6. Cohorts!EvaluationExact'
  <2>1. \A d : Cohorts!Connected(d)' = Cohorts!Connected(d)
    BY <1>1, CohortSame
  <2>2. \A d : Cohorts!Expected(d)' = Cohorts!Expected(d)
    BY <1>1 DEF Cohorts!Expected
  <2>3. locals = Cohorts!LocalCohorts /\ Cohorts!LocalCohorts' = Cohorts!LocalCohorts
    BY <1>1 DEF Cohorts!LocalCohorts, IsLocal
  <2>4. /\ Cohorts!LocalCohorts \subseteq DOMAIN modified'
        /\ DOMAIN modified' \subseteq Cohorts!LocalCohorts \cup DOMAIN query
    BY <1>5, <2>3
  <2>5. ASSUME NEW d \in Cohorts!LocalCohorts \cup DOMAIN query, Cohorts!Connected(d)
        PROVE  d \in DOMAIN modified' /\ modified'[d] = Cohorts!Expected(d)
    <3>1. d \in shown
      BY <1>1, <2>3, <2>5 DEF CohortType
    <3>2. QED
      BY <1>5, <2>5, <3>1
  <2>6. QED
    BY <1>1, <2>1, <2>2, <2>3, <2>4, <2>5 DEF Cohorts!EvaluationExact
<1>7. CohortType' /\ StartsTopmost'
  BY <1>1, <1>2, <1>3 DEF CohortType, StartsTopmost
<1>8. ResolvedInv' = ResolvedInv
  BY <1>1, CohortSame
<1>9. QED
  BY <1>1, <1>6, <1>7, <1>8 DEF CohortInv

\* Every step keeps the invariant.
LEMMA CohortNext == CohortInv /\ [Cohorts!Next]_(Cohorts!evaluationVars) => CohortInv'
<1> SUFFICES ASSUME CohortInv, [Cohorts!Next]_(Cohorts!evaluationVars)
             PROVE  CohortInv'
  OBVIOUS
<1>1. CASE UNCHANGED Cohorts!evaluationVars
  <2>1. UNCHANGED <<type, base, resolve_remote, given, query, phase, todo, starts, modified, calls>>
    BY <1>1 DEF Cohorts!evaluationVars
  <2>2. /\ \A e : Topmost(e)' = Topmost(e) /\ IsLocal(e)' = IsLocal(e)
        /\ \A e : Cohorts!Connected(e)' = Cohorts!Connected(e)
        /\ \A e : Cohorts!HasValue(e)' = Cohorts!HasValue(e)
        /\ ResolvedInv' = ResolvedInv
    BY <2>1, CohortSame
  <2>3. CohortType' /\ StartsTopmost' /\ (StartsInv => StartsInv') /\ (TodoInv => TodoInv')
    BY <2>1, <2>2 DEF CohortInv, CohortType, StartsTopmost, StartsInv, TodoInv
  <2>4. RemoteInv => RemoteInv'
    BY <2>1, <2>2 DEF RemoteInv
  <2>5. \A d : Evaluated(d)' = Evaluated(d)
    BY <2>1, <2>2 DEF Evaluated
  <2>6. LocalInv => LocalInv'
    BY <2>1, <2>2, <2>5 DEF LocalInv
  <2>7. Cohorts!EvaluationExact'
    <3>1. Cohorts!LocalCohorts' = Cohorts!LocalCohorts
      BY <2>1 DEF Cohorts!LocalCohorts
    <3>2. \A d : Cohorts!Expected(d)' = Cohorts!Expected(d)
      BY <2>1 DEF Cohorts!Expected
    <3>3. QED
      BY <2>1, <2>2, <3>1, <3>2 DEF CohortInv, Cohorts!EvaluationExact
  <2>8. QED
    BY <2>1, <2>2, <2>3, <2>4, <2>6, <2>7 DEF CohortInv
<1>2. QED
  BY <1>1, CohortFindStart, CohortStartsFound, CohortStart, CohortRemoteStep, CohortRemoteFails, CohortRemoteEnd,
     CohortLocalStep, CohortLocalEnd DEF Cohorts!Next

\* With resolve_remote the first walk leaves no gap: every dimension is connected.
LEMMA ResolvedConnected ==
  ASSUME CohortType, ResolvedInv, NEW d \in Cohorts!Dims
  PROVE  Cohorts!Connected(d)
<1>1. ASSUME NEW a \in Above(base, d), a \notin DOMAIN query,
             NEW x \in Above(base, a), x \in DOMAIN query
      PROVE  FALSE
  <2>1. a \in Cohorts!Dims /\ ~IsLocal(a)
    BY AboveEarlier DEF CohortType, IsLocal
  <2>2. x \in Cohorts!Dims /\ ~IsLocal(x)
    BY <2>1, AboveEarlier DEF CohortType, IsLocal
  <2>3. x \in DOMAIN given \/ Led(x)
    BY <1>1, <2>2 DEF ResolvedInv
  <2>4. Led(a)
    BY <2>1, <2>3, AboveTransitive DEF Led, CohortType
  <2>5. QED
    BY <1>1, <2>1, <2>4 DEF ResolvedInv
<1>2. QED
  BY <1>1, AncestorsAbove DEF Cohorts!Connected

\* The result agrees with itself, with the query and with the functions.
LEMMA CohortInvResolved == CohortInv => Cohorts!RemoteResolved
<1> DEFINE Agrees(d) ==
      /\ {d, base[d]} \subseteq DOMAIN modified
      /\ IF type[d] = "LOCAL_COHORT"
         THEN modified[d] = Cohorts!evaluate_local_cohort_dimension(modified[base[d]])
         ELSE /\ d \in DOMAIN calls /\ modified[d] = calls[d].returned
              /\ base[d] \in DOMAIN calls[d].context
              /\ \A x \in DOMAIN calls[d].context :
                   x \in DOMAIN modified /\ calls[d].context[x] = modified[x]
<1> SUFFICES ASSUME CohortInv, phase = "done", resolve_remote
             PROVE  /\ \A d \in DOMAIN given :
                         type[d] = "REGULAR" => d \in DOMAIN modified /\ modified[d] = given[d]
                    /\ \A d \in Cohorts!Dims : Led(d) => Agrees(d)
  BY AncestorsAbove DEF Cohorts!RemoteResolved, Led
<1>1. CohortType /\ ResolvedInv
  BY DEF CohortInv
<1>2. \A d \in Cohorts!LocalCohorts \cup DOMAIN query :
        Cohorts!Connected(d) => d \in DOMAIN modified /\ modified[d] = Cohorts!Expected(d)
  BY DEF CohortInv, Cohorts!EvaluationExact
<1>3. \A d \in Cohorts!Dims : Cohorts!Connected(d)
  BY <1>1, ResolvedConnected
<1>4. ASSUME NEW d \in DOMAIN query, ~IsLocal(d)
      PROVE  d \in DOMAIN modified /\ modified[d] = query[d]
  <2>1. d \in Cohorts!Dims
    BY <1>1 DEF CohortType
  <2>2. QED
    BY <1>2, <1>3, <1>4, <2>1 DEF Cohorts!Expected, IsLocal
<1>5. ASSUME NEW d \in DOMAIN given, type[d] = "REGULAR"
      PROVE  d \in DOMAIN modified /\ modified[d] = given[d]
  <2>1. d \in Cohorts!Dims /\ ~IsLocal(d) /\ base[d] = 0
    BY <1>1, <1>5 DEF CohortType, Forest, IsLocal
  <2>2. ~Led(d)
    BY <1>1, <2>1, AboveBase DEF CohortType, Led
  <2>3. QED
    BY <1>1, <1>4, <2>1, <2>2 DEF ResolvedInv
<1>6. ASSUME NEW d \in Cohorts!Dims, Led(d)
      PROVE  Agrees(d)
  <2> DEFINE b == base[d]
  <2>1. b \in Cohorts!Dims
    BY <1>1, <1>6, AboveBase DEF CohortType, Led
  <2>2. ~IsLocal(b) /\ Above(base, d) = {b} \cup Above(base, b)
    BY <1>1, <2>1, BaseAbove
  <2>3. b \in DOMAIN query
    BY <1>1, <1>6, <2>1, <2>2 DEF ResolvedInv, Led
  <2>4. b \in DOMAIN modified /\ modified[b] = query[b]
    BY <1>4, <2>2, <2>3
  <2>5. CASE IsLocal(d)
    <3>1. d \in Cohorts!LocalCohorts
      BY <2>5 DEF Cohorts!LocalCohorts, IsLocal
    <3>2. d \in DOMAIN modified /\ modified[d] = Cohorts!evaluate_local_cohort_dimension(query[b])
      BY <1>2, <1>3, <2>3, <2>5, <3>1 DEF Cohorts!Expected, IsLocal
    <3>3. QED
      BY <2>4, <2>5, <3>2 DEF IsLocal
  <2>6. CASE ~IsLocal(d)
    <3>1. d \in DOMAIN query /\ Called(type, base, calls, d, query)
      BY <1>1, <1>6, <2>6 DEF ResolvedInv
    <3>2. d \in DOMAIN modified /\ modified[d] = query[d]
      BY <1>4, <2>6, <3>1
    <3>3. ASSUME NEW x \in DOMAIN calls[d].context
          PROVE  x \in DOMAIN modified /\ calls[d].context[x] = modified[x]
      BY <1>4, <3>1 DEF Called, IsLocal
    <3>4. QED
      BY <2>4, <2>6, <3>1, <3>2, <3>3 DEF IsLocal, Called
  <2>7. QED
    BY <2>5, <2>6
<1>7. QED
  BY <1>5, <1>6

\* The walks of evaluate_remote_cohorts and evaluate_local_cohorts are always in the
\* states of their invariant: what is assigned so far is what the definitions of the
\* cohorts say, and what is missing is still below a dimension on the way.
THEOREM CohortInvariant == Spec => []CohortInv
<1>1. Init => CohortInv
  BY CohortInit DEF Init
<1>2. CohortInv /\ [Next]_vars => CohortInv'
  BY CohortNext, StepOfPart
<1>3. QED
  BY <1>1, <1>2, PTL DEF Spec

\* evaluate_local_cohorts ends with the values that the definitions of the cohorts
\* say, wherever the dimensions between have queried values, for every number of
\* dimensions, every forest of them and every query, and in whichever order the hash
\* maps give starts and children.
THEOREM EvaluationExactCorrect == Spec => []EvaluationExact
<1>1. CohortInv => EvaluationExact
  BY DEF CohortInv, EvaluationExact
<1>2. QED
  BY <1>1, CohortInvariant, PTL

\* With resolve_remote, evaluate_remote_cohorts and the local walk after it keep the
\* queried values of regular dimensions, give every local cohort below a queried
\* dimension the value that its base determines and every remote cohort what its
\* function returned for final values, that of the base among them: for every forest,
\* every order of the calls, whatever the functions return and wherever one fails.
THEOREM RemoteResolvedCorrect == Spec => []RemoteResolved
<1>1. CohortInv => RemoteResolved
  BY CohortInvResolved DEF RemoteResolved
<1>2. QED
  BY <1>1, CohortInvariant, PTL
=============================================================================
