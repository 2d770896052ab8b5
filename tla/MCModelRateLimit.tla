-------------------------- MODULE MCModelRateLimit --------------------------
(***************************************************************************)
(* Instances of ModelRateLimit for TLC.  The handlers are alike.           *)
(***************************************************************************)
EXTENDS ModelRateLimit, TLC

CONSTANTS h1, h2

TwoHandlers == {h1, h2}
Alike == Permutations(Handlers)

ThreeKeys == {"total", "check", "success"}
\* Two or three requests per period, of which two may succeed.
TwoSuccesses == [k \in ThreeKeys |-> 2]
ThreeTotal == [k \in ThreeKeys |-> IF k = "total" THEN 3 ELSE 2]
TwoSeconds == [k \in ThreeKeys |-> 2]
ThreeSeconds == [k \in ThreeKeys |-> 3]

=============================================================================
