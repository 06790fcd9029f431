---------------------------- MODULE MCSideBySide ----------------------------
EXTENDS SideBySide, TLC

CONSTANTS v1, v2

\* Neighbours differ.
MCSent == <<{v1}, {v2}, {v1}, {v2}>>

\* The second cohort overlaps the first.
MCEnum == <<v1, v2>>
MCDefinitions == v1 :> {v1} @@ v2 :> {v1}

\* Schemas and codes that admit one value or both.
NonEmpty == SUBSET Values \ {{}}

=============================================================================
