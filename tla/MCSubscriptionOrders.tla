------------------------- MODULE MCSubscriptionOrders -------------------------
(***************************************************************************)
(* TLC instances of SubscriptionOrders: two plans that share a purchase    *)
(* group at first.                                                         *)
(***************************************************************************)
EXTENDS SubscriptionOrders, TLC

CONSTANTS p1, p2, u1, u2, o1, o2, g

Shared == (p1 :> [group |-> g, limit |-> 2, perUser |-> 0, open |-> TRUE]
           @@ p2 :> [group |-> g, limit |-> 0, perUser |-> 1, open |-> TRUE])
Vip == (p1 :> "vip" @@ p2 :> Nothing)
Asked == {[group |-> Nothing, limit |-> 1, perUser |-> 2, open |-> TRUE],
          [group |-> g, limit |-> 1, perUser |-> 0, open |-> TRUE]}
OrderSymmetry == Permutations({u1, u2}) \cup Permutations({o1, o2})
==============================================================================
