--------------------------- MODULE MCJobDispatch ---------------------------
(* Small instances of JobDispatch for TLC.                                 *)
EXTENDS JobDispatch, TLC

CONSTANTS a1, a2, m1

\* a1 has the resource the first job asks for; m1 is pinned to a1.
MCAgentResources == [a \in Agent |-> IF a = a1 THEN {"linux"} ELSE {}]
MCAgentEnvironments == [a \in Agent |-> {}]
MCJobResources == [j \in Job |-> IF j = 1 THEN {"linux"} ELSE {}]
MCJobEnvironments == [j \in Job |-> {}]
MCPinnedAgent == [j \in Job |-> IF j = m1 THEN a1 ELSE NoAgent]

RunSymmetry == Permutations(Run)
=============================================================================
