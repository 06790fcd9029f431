-------------------------- MODULE ExperimentPolling -------------------------
(***************************************************************************)
(* The experimentation client and the service it polls.  A poll is two     *)
(* requests, for the running experiments and for the groups, with the same *)
(* If-Modified-Since; the client replaces both of its copies when both     *)
(* requests succeed and none otherwise, and then remembers its own time.   *)
(* The service answers the first request with 304 when the last event that *)
(* was logged for the table of experiments is older; it always answers the *)
(* second.  Events carry the time at which their transaction began.        *)
(*                                                                         *)
(* A table is the number of changes made to it.                            *)
(***************************************************************************)
EXTENDS Integers

CONSTANTS TicksPerSecond,   \* the clocks tick faster than headers can tell
          MaxTime,          \* bound: the time at which the clock stops
          MaxChanges,       \* bound: changes made to a table
          None

VARIABLES now,           \* the time
          experiments,   \* changes of the experiments, with the groups as of the last one
          groups,        \* changes of the groups
          event,         \* the greatest time in the event log of the experiments
          txn,           \* the transaction in progress in the service
          client,        \* the client's copies and last_polled
          poll           \* the poll in progress

serverVars == <<experiments, groups, event, txn>>
clientVars == <<client, poll>>
vars == <<now, experiments, groups, event, txn, client, poll>>

\* A time as a header carries it.
ToHeader(t) == (t \div TicksPerSecond) * TicksPerSecond

Idle == [phase |-> "idle", experiments |-> None, groups |-> None]

Init ==
  /\ now = TicksPerSecond
  /\ experiments = [changes |-> 0, groups |-> 0]
  /\ groups = 0
  /\ event = 0
  /\ txn = None
  /\ client = [experiments |-> experiments, groups |-> 0, last_polled |-> 0]
  /\ poll = Idle

Tick ==
  /\ now < MaxTime
  /\ now' = now + 1
  /\ UNCHANGED <<serverVars, clientVars>>

-----------------------------------------------------------------------------
(* The service *)

\* An experiment changes alone (ramp, override), a group alone (its traffic or
\* its context), or both in one transaction (create, conclude, membership).
Kinds == {"experiment", "group", "both"}

BeginChange(kind) ==
  /\ txn = None
  /\ experiments.changes < MaxChanges
  /\ groups < MaxChanges
  /\ txn' = [kind |-> kind, began |-> now]
  /\ UNCHANGED <<now, experiments, groups, event, clientVars>>

CommitChange ==
  /\ txn # None
  /\ groups' = IF txn.kind = "experiment" THEN groups ELSE groups + 1
  /\ IF txn.kind = "group" THEN UNCHANGED <<experiments, event>>
     ELSE /\ experiments' = [changes |-> experiments.changes + 1, groups |-> groups']
          /\ event' = IF txn.began > event THEN txn.began ELSE event
  /\ txn' = None
  /\ UNCHANGED <<now, clientVars>>

\* Fault: an event in the first instant of the header's second counts as older.
NotModifiedUpTo(since) == event <= ToHeader(since)

NotModified(since) == event < ToHeader(since)

-----------------------------------------------------------------------------
(* The client *)

\* A 304 counts as a failure of the request for the experiments.
Skip ==
  /\ poll = Idle
  /\ NotModified(client.last_polled)
  /\ UNCHANGED vars

get_experiments ==
  /\ poll = Idle
  /\ ~NotModified(client.last_polled)
  /\ poll' = [phase |-> "asked", experiments |-> experiments, groups |-> None]
  /\ UNCHANGED <<now, serverVars, client>>

get_experiment_groups ==
  /\ poll.phase = "asked"
  /\ poll' = [poll EXCEPT !.phase = "answered", !.groups = groups]
  /\ UNCHANGED <<now, serverVars, client>>

\* Fault: each of the two results is applied on its own.
ApplyHalf ==
  /\ poll.phase = "asked"
  /\ client' = [client EXCEPT !.experiments = poll.experiments]
  /\ poll' = Idle
  /\ UNCHANGED <<now, serverVars>>

\* One of the two requests fails: nothing is replaced.
PollFails ==
  /\ poll.phase = "asked"
  /\ poll' = Idle
  /\ UNCHANGED <<now, serverVars, client>>

Apply ==
  /\ poll.phase = "answered"
  /\ client' = [experiments |-> poll.experiments, groups |-> poll.groups, last_polled |-> now]
  /\ poll' = Idle
  /\ UNCHANGED <<now, serverVars>>

Next ==
  \/ Tick
  \/ \E kind \in Kinds : BeginChange(kind)
  \/ CommitChange
  \/ Skip
  \/ get_experiments
  \/ get_experiment_groups
  \/ PollFails
  \/ Apply

\* The client polls for ever, and not every poll fails.
Fairness ==
  /\ WF_vars(get_experiments)
  /\ SF_vars(get_experiment_groups)
  /\ WF_vars(Apply)

Spec == Init /\ [][Next]_vars /\ Fairness

-----------------------------------------------------------------------------
(* Properties *)

\* A client that has an experiment has the change of the groups that was
\* committed with it, although it asks for the two one after the other: an
\* experiment is never served from buckets that do not know it.
GroupsNotOlder == client.groups >= client.experiments.groups

\* A change whose event is not older than the second of the client's last poll
\* reaches the client, whichever polls fail in between.
RecentChangeArrives ==
  \A n \in 1 .. MaxChanges :
    (experiments.changes >= n /\ event >= ToHeader(client.last_polled) /\ poll = Idle)
      ~> client.experiments.changes >= n
=============================================================================
