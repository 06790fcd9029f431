------------------------- MODULE MCProviderRefresh --------------------------
(* A provider with both clients. *)
EXTENDS ProviderRefresh, TLC

\* Every fetch may succeed or fail.
MCAnswers == [op \in {"create", "poll", "onDemand"} |-> {"ok", "err"}]

MCCalls ==
  [s \in {"polling"} |-> {<<"create", "exp">>, <<"eval", "cac">>, <<"get", "exp">>,
                          <<"close", "exp">>}] @@
  [s \in {"onDemand"} |-> {<<"create", "cac">>, <<"onDemand", "cac">>, <<"eval", "cac">>,
                           <<"get", "cac">>, <<"close", "cac">>}]

\* The experiments may be initialised twice.
MCMaxCreates == [c \in {"cac"} |-> 1] @@ [c \in {"exp"} |-> 2]

\* Only the time to live looks at the clock.
MCMaxTime == [s \in {"polling"} |-> 0] @@ [s \in {"onDemand"} |-> 1]

\* Versions of what the service stores: a change of the experiments.
MCMaxVersion == [c \in {"cac"} |-> 1] @@ [c \in {"exp"} |-> 2]
=============================================================================
