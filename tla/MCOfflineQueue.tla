---------------------------- MODULE MCOfflineQueue ----------------------------
(* Instances of OfflineQueue for TLC.                                         *)
EXTENDS OfflineQueue

\* Refused operations come first in the queue.
RefusedFirst == [op \in Op |-> IF op \in Rejected THEN 2 ELSE 1]

===============================================================================
