----------------------------- MODULE SideBySide -----------------------------
(***************************************************************************)
(* Five parts of the system that share no state with each other, so that   *)
(* one run of TLC checks them all.  Init chooses the part that runs; the   *)
(* others stay in their initial states.  The behaviours are therefore      *)
(* those of the five specifications, each beside four that stutter, and a  *)
(* property of one part holds here if and only if it holds of the part     *)
(* alone.                                                                  *)
(***************************************************************************)
EXTENDS Integers

CONSTANTS
  Values, Workers, None, Absent,
  TicksPerSecond,
  Count, Sent, Otherwise, Enum, Definitions,      \* dimensions of a query
  MaxTime, MaxChanges,                            \* the experimentation client's polls
  Ids, Dimensions, ExperimentKeys,                \* experiments that may exclude each other
  MaxVersions, MaxUpdates, Latest,                \* the config version of the workspace
  Keys, FunctionNames, Schemas, Codes             \* the values of configuration keys

ASSUME BoundsAssumption ==
  /\ {Count, TicksPerSecond, MaxVersions} \subseteq Nat \ {0}
  /\ {MaxTime, MaxChanges, MaxUpdates} \subseteq Nat

\* SQL's NULL is neither a code nor the row of a function.
ASSUME NullAssumption ==
  (\A code \in Codes : code # None) /\ None \notin [draft : Codes, published : Codes \cup {None}]

VARIABLES component

\* The completion of a query.
VARIABLES type, base, resolve_remote, given, query, phase, todo, starts, modified, calls
Cohorts == INSTANCE CohortEvaluation

\* The polls of the experimentation client.
VARIABLES now, experiments, groups, event, txn, client, poll
Polling == INSTANCE ExperimentPolling

\* The experiments that run beside each other.
VARIABLES beside, flags, compared
Isolation == INSTANCE ExperimentIsolation
               WITH experiments <- beside, requests <- compared, Keys <- ExperimentKeys

\* The config version of a workspace.
VARIABLES created, config_version, updates, reader, fetch
Versions == INSTANCE WorkspaceVersions WITH client <- reader, poll <- fetch

\* The values of configuration keys.
VARIABLES functions, defaults, overrides, request
Validation == INSTANCE ValueValidation

cohorts    == <<type, base, resolve_remote, given, query, phase, todo, starts, modified, calls>>
polling    == <<now, experiments, groups, event, txn, client, poll>>
isolation  == <<beside, flags, compared>>
versions   == <<created, config_version, updates, reader, fetch>>
validation == <<functions, defaults, overrides, request>>

vars == <<component, cohorts, polling, isolation, versions, validation>>

-----------------------------------------------------------------------------
Components == {"cohorts", "polling", "isolation", "versions", "validation"}

Runs(c) == component = c

\* One initial state is enough for a part that does not run.
Init ==
  /\ component \in Components
  /\ Cohorts!Init
  /\ Polling!Init
  /\ Isolation!Init
  /\ Versions!Init
  /\ Validation!Init
  /\ ~Runs("cohorts") => given = Cohorts!Nothing /\ resolve_remote /\ Cohorts!Roots = Cohorts!Dims
  /\ ~Runs("isolation") => \A f \in DOMAIN flags : flags[f]
  /\ ~Runs("versions") => config_version = Latest

CohortsStep ==
  /\ Runs("cohorts")
  /\ Cohorts!Next
  /\ UNCHANGED <<component, polling, isolation, versions, validation>>

PollingStep ==
  /\ Runs("polling")
  /\ Polling!Next
  /\ UNCHANGED <<component, cohorts, isolation, versions, validation>>

IsolationStep ==
  /\ Runs("isolation")
  /\ Isolation!Next
  /\ UNCHANGED <<component, cohorts, polling, versions, validation>>

VersionsStep ==
  /\ Runs("versions")
  /\ Versions!Next
  /\ UNCHANGED <<component, cohorts, polling, isolation, validation>>

ValidationStep ==
  /\ Runs("validation")
  /\ Validation!Next
  /\ UNCHANGED <<component, cohorts, polling, isolation, versions>>

Next ==
  \/ CohortsStep
  \/ PollingStep
  \/ IsolationStep
  \/ VersionsStep
  \/ ValidationStep

\* The fairness of the parts that need it.
Spec ==
  /\ Init
  /\ [][Next]_vars
  /\ WF_cohorts(Runs("cohorts") /\ Cohorts!Next)
  /\ WF_polling(Runs("polling") /\ Polling!get_experiments)
  /\ SF_polling(Runs("polling") /\ Polling!get_experiment_groups)
  /\ WF_polling(Runs("polling") /\ Polling!Apply)
  /\ WF_versions(Runs("versions") /\ Versions!PollArrives)
  /\ SF_versions(Runs("versions") /\ Versions!Modified)
  /\ SF_versions(Runs("versions") /\ Versions!Answer)

-----------------------------------------------------------------------------
(* The properties of the parts *)

\* The walk over the cohorts computes what a definition without order says, where the
\* dimensions between have values.
EvaluationExact == Cohorts!EvaluationExact

\* With resolve_remote the completed query agrees with itself, with the given one and
\* with what the functions of the remote cohorts saw and returned.
RemoteResolved == Cohorts!RemoteResolved

\* A query is completed or refused: neither walk goes round in circles.
Completes == <>(Runs("cohorts") => phase \in {"done", "failed"})

\* The client's groups are never older than its experiments.
GroupsNotOlder == Polling!GroupsNotOlder

\* A change in or after the second of the client's last poll reaches the client.
RecentChangeArrives == Polling!RecentChangeArrives

\* Only a resume brings two experiments together that exclude each other.
OnlyResumeConflicts == Isolation!OnlyResumeConflicts

\* An update of the workspace's version reaches the client with the next version of a
\* later second.
NextVersionBringsSetting == Versions!NextVersionBringsSetting

\* A function that computes values has been published.
ComputePublished == Validation!ComputePublished

=============================================================================
