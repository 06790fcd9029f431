------------------------- MODULE WorkspaceVersions --------------------------
(***************************************************************************)
(* The config version of a workspace.  A workspace serves its newest       *)
(* version unless its row names another one, which update_handler sets     *)
(* and clears.  A request for the configuration carries the settings that  *)
(* the middleware read before the handler ran; the handler compares the    *)
(* creation time of the newest version with the one the client sends.      *)
(*                                                                         *)
(* A version is its place in the order of creation.                        *)
(***************************************************************************)
EXTENDS Naturals, Sequences

CONSTANTS TicksPerSecond,   \* the resolution of created_at
          MaxVersions,   \* bound: how many versions are created
          MaxUpdates,    \* bound: how often the workspace is updated
          Latest         \* no config version is set

VARIABLES created,          \* version -> created_at
          config_version,   \* the column of the workspace's row, or Latest
          updates,          \* updates of the workspace so far
          client,           \* the version the client has and its last_modified
          poll              \* the poll in progress

vars == <<created, config_version, updates, client, poll>>

Idle == [phase |-> "idle"]

newest == Len(created)
Versions == 1..newest

\* Times are compared, and sent, without their nanoseconds.
Second(t) == t \div TicksPerSecond
get_max_created_at == created[newest]

\* Fault: the setting of the workspace is ignored.
AlwaysLatest(setting) == newest

\* The version that a request without a version of its own gets.
get_config_version(setting) == IF setting = Latest THEN newest ELSE setting

\* A database in which the workspace may have a config version; the client has
\* fetched the configuration when it was made.
Init ==
  /\ created = <<0>>
  /\ config_version \in {Latest, 1}
  /\ updates = 0
  /\ client = [version |-> 1, last_modified |-> 0]
  /\ poll = Idle

\* A write to the configuration adds a version, in the same second or in the next.
add_config_version ==
  /\ newest < MaxVersions
  /\ \E ticks \in 1..TicksPerSecond : created' = Append(created, get_max_created_at + ticks)
  /\ UNCHANGED <<config_version, updates, client, poll>>

\* The version has to exist; versions are never deleted.
UpdateWorkspace ==
  /\ updates < MaxUpdates
  /\ \E version \in Versions \cup {Latest} : config_version' = version
  /\ updates' = updates + 1
  /\ UNCHANGED <<created, client, poll>>

\* The middleware reads the workspace.
PollArrives ==
  /\ poll = Idle
  /\ poll' = [phase |-> "arrived", setting |-> config_version]
  /\ UNCHANGED <<created, config_version, updates, client>>

is_not_modified == Second(get_max_created_at) <= client.last_modified

NotModified ==
  /\ poll.phase = "arrived"
  /\ is_not_modified
  /\ poll' = Idle
  /\ UNCHANGED <<created, config_version, updates, client>>

Modified ==
  /\ poll.phase = "arrived"
  /\ ~is_not_modified
  /\ poll' = [phase |-> "modified", setting |-> poll.setting, 
                   last_modified |-> Second(get_max_created_at)]
  /\ UNCHANGED <<created, config_version, updates, client>>

\* The version is read in a second query, and the client takes the answer.
Answer ==
  /\ poll.phase = "modified"
  /\ client' = [version       |-> get_config_version(poll.setting),
                last_modified |-> poll.last_modified]
  /\ poll' = Idle
  /\ UNCHANGED <<created, config_version, updates>>

\* The request or its answer is lost.
PollFails ==
  /\ poll # Idle
  /\ poll' = Idle
  /\ UNCHANGED <<created, config_version, updates, client>>

Next ==
  \/ add_config_version
  \/ UpdateWorkspace
  \/ PollArrives
  \/ NotModified
  \/ Modified
  \/ Answer
  \/ PollFails

\* The client polls for ever, and not every poll fails.
Spec ==
  /\ Init
  /\ [][Next]_vars
  /\ WF_vars(PollArrives)
  /\ SF_vars(Modified)
  /\ SF_vars(Answer)

-----------------------------------------------------------------------------
(* Properties *)

\* The client has the version that the workspace names or, if it names none, one of
\* the second of the newest.
HasServed ==
  IF config_version = Latest THEN Second(created[client.version]) = Second(created[newest])
  ELSE client.version = config_version

\* An update of the workspace reaches the client with the next version of a later
\* second: when the last update is done, the newest version is of a later second than
\* the client's last_modified and no poll is under way with old settings, the client
\* will have what the workspace serves, and keep it (the versions come to an end,
\* MaxVersions).
NextVersionBringsSetting ==
  poll = Idle /\ updates = MaxUpdates /\ ~is_not_modified ~> []HasServed
=============================================================================
