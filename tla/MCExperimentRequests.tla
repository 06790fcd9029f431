------------------------ MODULE MCExperimentRequests ------------------------
(* One or two experiments of two variants. *)
EXTENDS ExperimentRequests, TLC

CONSTANTS c1

MCVariants == [e \in ExpIds |-> 2]
Targeted == [e \in ExpIds |-> {c1}]
Global == [e \in ExpIds |-> {}]
MCGroupContexts == {{}}
Symmetric == Permutations(GroupIds) \cup Permutations(Workers)
=============================================================================
