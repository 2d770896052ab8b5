---------------------------- MODULE TaskDispatch ----------------------------
(***************************************************************************)
(* A MiniMax-H3 task waits in the queue of service/minimax_h3_queue.go     *)
(* before the polling loop sees it.  Its dispatcher runs beside that loop: *)
(* a goroutine per claimed task submits it upstream, and the next dispatch *)
(* fails the claims that have become stale.  Both refund a task that they  *)
(* move to FAILURE, while the loop's recovery pass scans the same rows.    *)
(***************************************************************************)
EXTENDS TaskBilling

Submitters == {"submit", "clean"}

ASSUME DispatchAssumption == Submitters \subseteq Workers

dispatchRest == <<taskFacts, stores, records, crashes>>

\* ClaimMiniMaxH3Tasks under its queue lock, for one free slot.
Claim ==
  /\ pc["submit"] = "idle"
  /\ row.status = "NOT_START"
  /\ row' = [row EXCEPT !.status = "DISPATCHING"]
  /\ Remember("submit", row') /\ Goto("submit", "loaded")
  /\ UNCHANGED <<dispatchRest, failures>>

\* submitMiniMaxH3Task: the upstream accepted the task.
SubmitAccepted ==
  /\ pc["submit"] = "loaded"
  /\ \/ /\ UpdateWithStatus("submit", "DISPATCHING",
                            [mem["submit"] EXCEPT !.status = "SUBMITTED"])
        /\ CallWorks
     \/ SwapLost("submit", "DISPATCHING") /\ UNCHANGED row
  /\ Goto("submit", "idle")
  /\ UNCHANGED <<dispatchRest, mem>>

\* Slip: a claim that became stale is never looked at again.
ReadStaleNever == FALSE /\ UNCHANGED vars

\* cleanupStaleMiniMaxH3Dispatches reads a claim that is older than its
\* timeout; the submission may still be running.
ReadStale ==
  /\ pc["clean"] = "idle"
  /\ row.status = "DISPATCHING"
  /\ Remember("clean", row) /\ Goto("clean", "loaded")
  /\ UNCHANGED <<dispatchRest, row, failures>>

\* failMiniMaxH3Dispatch, by the submitter or by the cleanup.
failMiniMaxH3Dispatch(w) ==
  /\ pc[w] = "loaded"
  /\ LET t == [mem[w] EXCEPT !.status = "FAILURE"]
     IN  \/ /\ UpdateWithStatus(w, "DISPATCHING", t) /\ CallWorks
            /\ Remember(w, t)
            /\ Goto(w, IF taskRefundQuota(t) > 0 THEN "refund" ELSE "idle")
         \/ /\ SwapLost(w, "DISPATCHING")
            /\ Goto(w, "idle") /\ UNCHANGED <<row, mem>>
  /\ UNCHANGED dispatchRest

DispatchStep ==
  \/ Claim
  \/ SubmitAccepted
  \/ ReadStale
  \/ \E w \in Submitters : failMiniMaxH3Dispatch(w) \/ BillingStep(w)

DispatchNext ==
  \/ LoopStep
  \/ DispatchStep
  \/ \E w \in Workers : Crash(w)

\* Tasks of every platform; only MiniMax-H3 tasks pass through the queue.
DispatchSpec == InitFor({"suno", "video", "h3"}) /\ [][DispatchNext]_vars

\* Every polling cycle triggers a dispatch, which claims and sweeps; a claimed
\* submission ends because its request context has a timeout.
DispatchFairSpec ==
  /\ DispatchSpec
  /\ WF_vars(LoopStep) /\ WF_vars(Claim) /\ WF_vars(ReadStale)
  /\ WF_vars(SubmitAccepted \/ failMiniMaxH3Dispatch("submit")
               \/ BillingStep("submit"))
  /\ WF_vars(failMiniMaxH3Dispatch("clean") \/ BillingStep("clean"))

\* Polled tasks: when no worker is at a resolved row the stores hold what it
\* says, and a pending checkpoint tells what each store holds, so that resuming
\* moves only what has not moved yet.  (A dispatcher refunds outside the mutex
\* of the recovery pass, and for queued tasks this fails.)
PolledAccounts == platform # "h3" => AccountsMatchRow /\ CheckpointMatchesStores

\* A claimed task leaves the queue: it reaches the upstream or it fails, even
\* when the goroutine that claimed it died.
ClaimEnds ==
  (row.status = "DISPATCHING") ~> (row.status # "DISPATCHING")
=============================================================================
