---------------------------- MODULE MCTokenQuota ----------------------------
(***************************************************************************)
(* An instance of TokenQuota for TLC.  The three settings are those that   *)
(* change what a token's requests see: the row alone, the row behind the   *)
(* batch updater, and the row with its copy in Redis.                      *)
(***************************************************************************)
EXTENDS TokenQuota

CONSTANTS r1, r2, j1, j2

TwoRequests == {r1, r2}
TwoJobs == {j1, j2}
ThreeSettings ==
  {[redis |-> FALSE, batch |-> FALSE], [redis |-> FALSE, batch |-> TRUE],
   [redis |-> TRUE, batch |-> FALSE]}
\* The goroutines of Redis multiply the states of every request.
FewerWithRedis == [redis \in BOOLEAN |-> IF redis THEN 2 ELSE 3]

=============================================================================
