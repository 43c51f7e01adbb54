---------------------------- MODULE MCManualJobs ----------------------------
(* Two run nodes that share a queue, of which r2 never times out; one job, *)
(* activated twice. Liveness runs two jobs at once only where no timeout   *)
(* helps.                                                                  *)
EXTENDS ManualJobs, TLC
CONSTANTS a1, a2, r1, r2, j1, v1
MCAck == {a1, a2}
MCRunNode == {r1, r2}
MCTimed == {r1}
MCValue == {v1}
MCJob == {j1}
MCConcurrency == [r \in MCRunNode |-> 2]
MCUneven == [r \in MCRunNode |-> IF r \in MCTimed THEN 1 ELSE 2]
Symmetry == Permutations(MCAck)
=============================================================================
