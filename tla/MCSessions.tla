------------------------------ MODULE MCSessions ------------------------------
(* Instance of Sessions: an administrator, and two processes of another home.  *)
EXTENDS Sessions, TLC
CONSTANTS admin, node, p0, p1, p2
MCHomeOf == (p0 :> admin) @@ (p1 :> node) @@ (p2 :> node)
Peers == Permutations({p1, p2})
==============================================================================
