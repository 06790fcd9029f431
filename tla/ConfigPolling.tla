---------------------------- MODULE ConfigPolling ---------------------------
(***************************************************************************)
(* A client that keeps a copy of the configuration (cac_client) and the    *)
(* service it polls, composed: the client sends the time of the last       *)
(* version it has with each poll, and the service answers with the newest  *)
(* version unless that is not newer.  Times travel as text with a          *)
(* resolution of a second.  Resolved configurations are cached, and the    *)
(* cache is emptied when a new configuration arrives.                      *)
(***************************************************************************)
EXTENDS ConfigRequests

CONSTANT TicksPerSecond   \* how many versions may be created in one second

ASSUME TicksAssumption == TicksPerSecond \in Nat \ {0}

VARIABLES client,   \* the copy: its configuration and last_modified; history: when
                    \* the version was created that the configuration is of
          poll,     \* the poll in progress
          cache,    \* the configuration from which the cached result was evaluated
          reader    \* the configuration a resolving thread reads under the lock

clientVars == <<client, poll, cache, reader>>
pollingVars == <<vars, clientVars>>

\* A time as it is written in a header.
Second(t) == t \div TicksPerSecond

Idle == [phase |-> "idle", created |-> 0, config |-> NoRows, version |-> 0]

PollingInit ==
  /\ Init
  /\ client = [config |-> latest.config, last_modified |-> Second(latest.created),
               version |-> latest.created]
  /\ poll = Idle
  /\ cache = None
  /\ reader = None

is_not_modified == Second(latest.created) <= client.last_modified

\* The service reads the greatest created_at and answers 304: the client skips
\* the update.
Skip ==
  /\ poll = Idle
  /\ is_not_modified
  /\ UNCHANGED pollingVars

\* Or it goes on ...
Ask ==
  /\ poll = Idle
  /\ ~is_not_modified
  /\ poll' = [Idle EXCEPT !.phase = "asked", !.created = latest.created]
  /\ UNCHANGED <<vars, client, cache, reader>>

\* ... to read the newest version, in a second query; the answer reaches the
\* client.
Answer ==
  /\ poll.phase = "asked"
  /\ poll' = [poll EXCEPT !.phase = "answered", !.config = latest.config,
                          !.version = latest.created]
  /\ UNCHANGED <<vars, client, cache, reader>>

\* Fault: an error ends the loop.
PollDies ==
  /\ poll.phase = "asked"
  /\ poll' = [poll EXCEPT !.phase = "dead"]
  /\ UNCHANGED <<vars, client, cache, reader>>

\* The request or the answer is lost, or the service answers with an error.
PollFails ==
  /\ poll.phase = "asked"
  /\ poll' = Idle
  /\ UNCHANGED <<vars, client, cache, reader>>

\* Fault: the update does not wait for the threads that read.
ReceiveUnlocked ==
  /\ poll.phase = "answered"
  /\ client' = [client EXCEPT !.config = poll.config, !.version = poll.version]
  /\ poll' = [poll EXCEPT !.phase = "received"]
  /\ UNCHANGED <<vars, cache, reader>>

\* update_cac takes the write lock on the configuration ...
Receive ==
  /\ poll.phase = "answered"
  /\ reader = None
  /\ client' = [client EXCEPT !.config = poll.config, !.version = poll.version]
  /\ poll' = [poll EXCEPT !.phase = "received"]
  /\ UNCHANGED <<vars, cache, reader>>

\* Fault: the time of arrival of the poll is kept instead of the version's.
KeepClock ==
  /\ poll.phase = "received"
  /\ cache' = None
  /\ client' = [client EXCEPT !.last_modified = Second(clock + 1)]
  /\ poll' = Idle
  /\ UNCHANGED <<vars, reader>>

\* ... and keeps it until the cache is empty and last_modified is set.
Invalidate ==
  /\ poll.phase = "received"
  /\ cache' = None
  /\ client' = [client EXCEPT !.last_modified = Second(poll.created)]
  /\ poll' = Idle
  /\ UNCHANGED <<vars, reader>>

\* get_resolved_config after a miss: the read lock is held until the result is
\* in the cache.
ResolveStart ==
  /\ reader = None
  /\ poll.phase # "received"
  /\ reader' = client.config
  /\ UNCHANGED <<vars, client, poll, cache>>

ResolveEnd ==
  /\ reader # None
  /\ cache' = reader
  /\ reader' = None
  /\ UNCHANGED <<vars, client, poll>>

ClientStep ==
  \/ Skip
  \/ Ask
  \/ Answer
  \/ PollFails
  \/ Receive
  \/ Invalidate
  \/ ResolveStart
  \/ ResolveEnd

PollingNext == (Next /\ UNCHANGED clientVars) \/ ClientStep

PollingSpec == PollingInit /\ [][PollingNext]_pollingVars

\* The client polls for ever; polls may fail, but not all of them; a thread that
\* reads releases the lock; requests end.
PollingFairness ==
  /\ WF_pollingVars(Ask)
  /\ SF_pollingVars(Answer)
  /\ SF_pollingVars(Receive)
  /\ WF_pollingVars(Invalidate)
  /\ WF_pollingVars(ResolveEnd)
  /\ \A w \in Workers : SF_pollingVars(Step(w) /\ UNCHANGED clientVars)

FairPollingSpec == PollingSpec /\ PollingFairness

-----------------------------------------------------------------------------
(* Properties *)

\* A cached result was evaluated from the configuration the client has, unless
\* an update is just replacing it: no thread puts an older result back.
CacheFresh ==
  cache # None /\ poll.phase # "received" => cache = client.config

\* The client has the newest version, or an earlier one of the same second.
UpToDate ==
  \/ client.config = latest.config
  \/ client.version < latest.created /\ Second(client.version) = Second(latest.created)

\* The versions come to an end (MaxVersions), and from some time on the client
\* has the last one, or one that was created within the same second: only such a
\* version never arrives.
Converges == <>[]UpToDate

\* When the service says that nothing was modified, all that the client may lack
\* are versions of the very second in which its own was created, although the
\* time and the configuration come from two queries and requests commit between.
SkipsOnlyUnmodified == poll = Idle /\ is_not_modified => UpToDate
=============================================================================
