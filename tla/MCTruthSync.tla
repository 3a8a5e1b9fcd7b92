------------------------------ MODULE MCTruthSync ------------------------------
(* Instances of TruthSync for TLC.                                            *)
EXTENDS TruthSync, TLC

\* For the instances where all nodes are alike, and for those where the nodes without
\* truthctl are.
Symmetry     == Permutations(Node)
PeerSymmetry == Permutations(Node \ CliNode)

\* Without statements nothing depends on the clock: events take any timestamp.
WithoutClock == <<tables, minted, logs, net, draft, job, faults>>

===============================================================================
