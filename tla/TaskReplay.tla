----------------------------- MODULE TaskReplay -----------------------------
(***************************************************************************)
(* TaskBilling with the one interruption it leaves out: the process dies,  *)
(* or persistTaskBillingProgress fails, after a side has committed and     *)
(* before its checkpoint is in the row.                                    *)
(***************************************************************************)
EXTENDS TaskBilling

\* settleTaskBillingTarget returns (or the process dies) with the side
\* adjusted and the row still saying that it is not.
CheckpointLost(w) ==
  /\ pc[w] \in Committing
  /\ Goto(w, "idle")
  /\ UNCHANGED <<taskFacts, row, mem, stores, records, failures, crashes>>

ReplayNext == Next \/ CheckpointLost("loop")

ReplaySpec == Init /\ [][ReplayNext]_vars
=============================================================================
