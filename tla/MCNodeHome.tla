------------------------------ MODULE MCNodeHome ------------------------------
(* Instance of NodeHome: two processes, two keys, an address of another node.   *)
EXTENDS NodeHome, TLC
CONSTANTS p1, p2, k1, k2, u1
Perms == Permutations(Proc) \cup Permutations(Key)
===============================================================================
