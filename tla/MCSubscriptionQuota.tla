------------------------ MODULE MCSubscriptionQuota ------------------------
(***************************************************************************)
(* TLC instances of SubscriptionQuota.                                     *)
(***************************************************************************)
EXTENDS SubscriptionQuota, TLC

CONSTANTS r1, r2

MCRequests == {r1, r2}
MCSubs == {1, 2}

NoWindows(mode, limit, period) ==
  [mode |-> mode, limit |-> limit, period |-> period, aligned |-> TRUE,
   fiveHourAmount |-> 0, fiveHourSeconds |-> 0, windows |-> {}]

\* A weekly aggregate, reset at calendar boundaries, with a five-hour window.
Dual == [NoWindows("dual", 3, 3) EXCEPT
           !.fiveHourAmount = 2, !.fiveHourSeconds = 2]

\* A calendar window of the given length; the first begins at time 1.
Calendar(len) == [NoWindows("generic", 0, 0) EXCEPT
  !.windows = {[mode |-> "calendar", len |-> len, amount |-> 2, anchor |-> 1]}]

\* A request that does not fit in the first subscription goes to the second.
MCPolicy == [x \in MCSubs |-> IF x = 1 THEN Dual ELSE Calendar(2)]

MCEnd == [x \in MCSubs |-> 5 + x]

OneSub == {1}
OneEnd == [x \in OneSub |-> 9]
ShortWindow == [x \in OneSub |-> Calendar(2)]
LongWindow == [x \in OneSub |-> Calendar(4)]

RequestSymmetry == Permutations(MCRequests)
=============================================================================
