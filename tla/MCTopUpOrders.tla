---------------------------- MODULE MCTopUpOrders ----------------------------
(***************************************************************************)
(* TLC instances of TopUpOrders: two handlers, in one process or in two.   *)
(***************************************************************************)
EXTENDS TopUpOrders, TLC

CONSTANTS h1, h2, t1, t2, m1, m2, x1

OneProcess == [h \in {h1, h2} |-> "p1"]
TwoProcesses == (h1 :> "p1" @@ h2 :> "p2")

HandlerSymmetry == Permutations({h1, h2})
TopUpSymmetry == HandlerSymmetry \cup Permutations({m1, m2}) \cup Permutations({t1, t2})
==============================================================================
