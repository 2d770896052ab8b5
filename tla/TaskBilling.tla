---------------------------- MODULE TaskBilling ----------------------------
(***************************************************************************)
(* The billing of one asynchronous task after its row was inserted         *)
(* (service/task_polling.go, service/task_billing.go, model/task.go).      *)
(*                                                                         *)
(* The submission has charged the task's quota.  The polling loop moves    *)
(* the row to SUCCESS or FAILURE with a compare-and-swap on its status,    *)
(* and the winner adjusts the charge: to the actual amount, or to zero.    *)
(* The two sides of the charge (funding, token) are in other stores than   *)
(* the row, so the row carries a checkpoint, written after each side, from *)
(* which RetryPendingTaskBilling resumes after a failure or a restart.     *)
(*                                                                         *)
(* row is the database row; mem[w] is the copy that worker w has read and  *)
(* changes in memory, pc[w] where it is.  fundingTaken, rewardTaken and    *)
(* tokenTaken are what the stores have debited for the task.  A database   *)
(* statement is one step; any of them may fail, and a worker may crash     *)
(* between two of them, with one exception that TaskReplay adds: here the  *)
(* checkpoint that follows a committed side is always written.             *)
(***************************************************************************)
EXTENDS Integers

CONSTANTS
  Workers,      \* goroutines that bill the task; the polling loop is one
  MaxQuota,     \* largest quota of the task (bound)
  MaxFailures,  \* how many database calls may fail (bound)
  MaxCrashes    \* how often a worker may be killed (bound)

ASSUME TaskBoundsAssumption ==
  /\ "loop" \in Workers
  /\ MaxQuota \in Nat \ {0}
  /\ MaxFailures \in Nat /\ MaxCrashes \in Nat

Amount == 0 .. MaxQuota
Terminal == {"SUCCESS", "FAILURE"}
Unfinished == {"SUBMITTED", "IN_PROGRESS"}
Queued == {"NOT_START", "DISPATCHING"}

VARIABLES
  \* What the submission fixed: PrivateData.BillingSource, whether the wallet
  \* split was recorded, SubscriptionPreConsumed, the site and the platform.
  source, recorded, subPre, provider, platform,
  row, pc, mem,
  fundingTaken, rewardTaken, tokenTaken,
  \* ConsumeRebate and ProviderProfit rows (unique by request id): amounts.
  rebates, profits,
  \* History: a token key that could not be resolved, failures, crashes.
  tokenSkipped, failures, crashes

taskFacts == <<source, recorded, subPre, provider, platform>>
stores == <<fundingTaken, rewardTaken, tokenTaken, tokenSkipped>>
records == <<rebates, profits>>
vars == <<taskFacts, row, pc, mem, stores, records, failures, crashes>>

(***************************************************************************)
(* Helpers.                                                                *)
(***************************************************************************)
taskTokenQuotaRequired == source # "subscription"

\* The amount reserved for a task: its quota, or what the subscription
\* reserved for a request that was priced at zero.
taskRefundQuota(t) == IF t.quota > 0 THEN t.quota ELSE subPre

CallFails == failures < MaxFailures /\ failures' = failures + 1
CallWorks == UNCHANGED failures

Goto(w, at) == pc' = [pc EXCEPT ![w] = at]
Remember(w, t) == mem' = [mem EXCEPT ![w] = t]

\* persistTaskBillingState writes quota and private_data, never the status.
Persist(t) == row' = [t EXCEPT !.status = row.status]

\* A write whose failure is only logged.
PersistOrLog(t) ==
  \/ Persist(t) /\ CallWorks
  \/ UNCHANGED row /\ CallFails

(***************************************************************************)
(* The checkpoint.                                                         *)
(***************************************************************************)
Checkpoint(t, current, target) ==
  [t EXCEPT !.pending = TRUE, !.target = target,
            !.fAmt = current, !.tAmt = current,
            !.fDone = (current = target),
            !.tDone = (current = target) \/ ~taskTokenQuotaRequired]

\* Slip: a refund assumes that both sides hold the task's quota.
RefundCheckpointFromQuota(t) == Checkpoint(t, taskRefundQuota(t), 0)

\* RefundTaskQuota turns a pending checkpoint towards zero, side by side, and
\* starts one at the reserved amount otherwise.
RefundCheckpoint(t) ==
  IF t.pending
    THEN [t EXCEPT !.target = 0, !.fDone = (t.fAmt = 0),
                   !.tDone = (t.tAmt = 0) \/ ~taskTokenQuotaRequired]
    ELSE Checkpoint(t, taskRefundQuota(t), 0)

clearTaskBillingSettlement(t) ==
  [t EXCEPT !.pending = FALSE, !.target = 0, !.fAmt = 0, !.tAmt = 0,
            !.fDone = FALSE, !.tDone = FALSE]

(***************************************************************************)
(* The row after task.Insert.                                              *)
(***************************************************************************)
NewRow(q, r, p) ==
  [status |-> IF platform = "h3" THEN "NOT_START" ELSE "SUBMITTED",
   quota |-> q, pending |-> FALSE, target |-> 0, fAmt |-> 0, tAmt |-> 0,
   fDone |-> FALSE, tDone |-> FALSE, refunded |-> FALSE,
   rebateSettled |-> FALSE, profitSettled |-> FALSE, reward |-> r, paid |-> p]

InitFor(platforms) ==
  /\ source \in {"wallet", "subscription"}
  /\ recorded \in BOOLEAN /\ (recorded => source = "wallet")
  /\ subPre \in IF source = "subscription" THEN 1 .. MaxQuota ELSE {0}
  /\ provider \in BOOLEAN /\ platform \in platforms
  /\ \E q \in Amount :
       /\ fundingTaken = IF q > 0 THEN q ELSE subPre
       /\ tokenTaken = IF taskTokenQuotaRequired THEN q ELSE 0
       /\ rewardTaken \in IF source = "wallet" THEN 0 .. q ELSE {0}
       /\ row = IF recorded THEN NewRow(q, rewardTaken, q - rewardTaken)
                            ELSE NewRow(q, 0, 0)
  /\ pc = [w \in Workers |-> "idle"] /\ mem = [w \in Workers |-> row]
  /\ rebates = {} /\ profits = {}
  /\ tokenSkipped = FALSE /\ failures = 0 /\ crashes = 0

Init == InitFor({"suno", "video"})

(***************************************************************************)
(* The polling loop: load, ask the upstream, compare and swap.             *)
(***************************************************************************)
LoopLoad ==
  /\ pc["loop"] = "idle"
  /\ row.status \in Unfinished
  /\ Remember("loop", row) /\ Goto("loop", "loaded")
  /\ UNCHANGED <<taskFacts, row, stores, records, failures, crashes>>

\* Slip: the swap does not compare.
UpdateAnyStatus(w, from, t) == row' = t

\* UpdateWithStatus writes every column, if the status is still the one read.
UpdateWithStatus(w, from, t) == row.status = from /\ row' = t

\* The swap was lost to another writer, or the statement failed.
SwapLost(w, from) ==
  \/ row.status # from /\ CallWorks
  \/ CallFails

\* The task is still running: its progress is written, by a swap for video
\* tasks and unconditionally by Suno's task.Update; or the upstream did not
\* answer (an error, a 429) and the row waits for the next cycle.
PollProgress ==
  /\ pc["loop"] = "loaded"
  /\ LET t == [mem["loop"] EXCEPT !.status = "IN_PROGRESS"]
     IN  \/ platform = "suno" /\ row' = t /\ CallWorks
         \/ /\ platform # "suno"
            /\ UpdateWithStatus("loop", mem["loop"].status, t) /\ CallWorks
         \/ SwapLost("loop", mem["loop"].status) /\ UNCHANGED row
         \/ UNCHANGED row /\ CallWorks
  /\ Goto("loop", "idle")
  /\ UNCHANGED <<taskFacts, mem, stores, records, crashes>>

\* settleTaskBillingOnComplete: an actual quota is settled first; Suno's loop
\* has only the rebate to finalize.
AfterSuccess(actual) ==
  CASE actual > 0 -> "settle"
    [] actual = 0 /\ platform = "suno" -> "rebate"
    [] actual = 0 /\ platform # "suno" -> "profit"

\* updateVideoSingleTask and updateSunoTasks on SUCCESS.  Only video tasks have
\* an actual quota; 0 keeps the submitted one.  The finalizers that follow are
\* exclusive (profit on a provider site, rebate on the main site), so their
\* order, which differs between completion and recovery, does not matter.
PollSuccess(actual) ==
  /\ pc["loop"] = "loaded"
  /\ platform = "suno" => actual = 0
  /\ LET t == [mem["loop"] EXCEPT !.status = "SUCCESS"]
     IN  \/ /\ UpdateWithStatus("loop", mem["loop"].status, t) /\ CallWorks
            /\ Remember("loop", [t EXCEPT !.target = actual])
            /\ Goto("loop", AfterSuccess(actual))
         \/ /\ SwapLost("loop", mem["loop"].status)
            /\ Goto("loop", "idle") /\ UNCHANGED <<row, mem>>
  /\ UNCHANGED <<taskFacts, stores, records, crashes>>

\* A failure reported by the upstream, or sweepTimedOutTasks.  (The upstream is
\* taken to give a fail reason only with a FAILURE; sweepTimedOutTasks refunds
\* every task but the ones submitted before the refund existed.)
PollFailure ==
  /\ pc["loop"] = "loaded"
  /\ LET t == [mem["loop"] EXCEPT !.status = "FAILURE"]
     IN  \/ /\ UpdateWithStatus("loop", mem["loop"].status, t) /\ CallWorks
            /\ Remember("loop", t)
            /\ Goto("loop", IF taskRefundQuota(t) > 0 THEN "refund" ELSE "idle")
         \/ /\ SwapLost("loop", mem["loop"].status)
            /\ Goto("loop", "idle") /\ UNCHANGED <<row, mem>>
  /\ UNCHANGED <<taskFacts, stores, records, crashes>>

\* TaskBulkUpdateByID: the upstream id is missing or the channel is gone.  The
\* row fails without a swap and without a refund.
BulkFail ==
  /\ pc["loop"] = "loaded"
  /\ row' = [row EXCEPT !.status = "FAILURE"]
  /\ Goto("loop", "idle")
  /\ UNCHANGED <<taskFacts, mem, stores, records, failures, crashes>>

(***************************************************************************)
(* RefundTaskQuota and RecalculateTaskQuota up to the first side.          *)
(***************************************************************************)
\* Nothing is refunded twice, and nothing when both sides are at zero.  The
\* amount is the largest of the reservation and the two checkpointed sides.
NothingToRefund(t) ==
  \/ t.refunded
  \/ /\ taskRefundQuota(t) <= 0
     /\ t.pending => t.fAmt <= 0 /\ t.tAmt <= 0

\* Where a worker goes when a side fails: the finalizers of a completion are
\* deferred, so they run after a settlement that stopped halfway, too.
Abandoned(w) == IF mem[w].status = "SUCCESS" THEN "profit" ELSE "idle"

StartRefund(w) ==
  /\ pc[w] = "refund"
  /\ LET t == RefundCheckpoint(mem[w])
     IN  \/ /\ NothingToRefund(mem[w])
            /\ Goto(w, "idle") /\ UNCHANGED <<row, mem>> /\ CallWorks
         \/ /\ ~NothingToRefund(mem[w])
            /\ Persist(t) /\ Remember(w, t) /\ CallWorks
            /\ Goto(w, "funding")
         \/ /\ ~NothingToRefund(mem[w])
            /\ CallFails /\ UNCHANGED <<row, mem>> /\ Goto(w, "idle")
  /\ UNCHANGED <<taskFacts, stores, records, crashes>>

\* RecalculateTaskQuota(actual), actual being remembered in mem.target.  A
\* charge that is exact only normalises the row's quota.
StartSettle(w) ==
  /\ pc[w] = "settle"
  /\ LET actual == mem[w].target
         before == [mem[w] EXCEPT !.target = 0]
         exact == [before EXCEPT !.quota = actual]
         t == Checkpoint(before, taskRefundQuota(before), actual)
     IN  \/ /\ actual = taskRefundQuota(before)
            /\ Remember(w, exact) /\ Goto(w, "profit")
            /\ \/ Persist(exact) /\ CallWorks
               \/ before.quota # actual /\ CallFails /\ UNCHANGED row
         \/ /\ actual # taskRefundQuota(before)
            /\ Persist(t) /\ Remember(w, t) /\ CallWorks /\ Goto(w, "funding")
         \/ /\ actual # taskRefundQuota(before)
            /\ CallFails /\ UNCHANGED row /\ Remember(w, t)
            /\ Goto(w, Abandoned(w))
  /\ UNCHANGED <<taskFacts, stores, records, crashes>>

(***************************************************************************)
(* settleTaskBillingTarget: funding, checkpoint, token, checkpoint.        *)
(***************************************************************************)
Min2(a, b) == IF a <= b THEN a ELSE b
Max2(a, b) == IF a >= b THEN a ELSE b

\* taskAdjustFunding when the store accepts it; reward and paid are the split
\* kept in the task.  AdjustSubscriptionPreConsume never goes below zero.
AdjustSubscription(w, delta) ==
  /\ fundingTaken' = Max2(fundingTaken + delta, 0)
  /\ UNCHANGED <<rewardTaken, mem>>

ChargeWallet(w, delta) ==
  /\ delta > 0
  /\ \E r \in 0 .. delta :
       /\ fundingTaken' = fundingTaken + delta
       /\ rewardTaken' = rewardTaken + r
       /\ IF recorded
            THEN Remember(w, [mem[w] EXCEPT !.reward = @ + r,
                                            !.paid = @ + (delta - r)])
            ELSE UNCHANGED mem

\* Paid quota is returned first; the task's split bounds what can come back.
RefundWallet(w, back) ==
  LET paidRefund == Min2(back, mem[w].paid)
      rewardRefund == back - paidRefund
  IN  /\ recorded
      /\ rewardRefund <= mem[w].reward
      /\ fundingTaken' = fundingTaken - back
      /\ rewardTaken' = rewardTaken - rewardRefund
      /\ Remember(w, [mem[w] EXCEPT !.paid = @ - paidRefund,
                                    !.reward = @ - rewardRefund])

\* A task without a recorded split gets everything back as ordinary quota.
RefundWalletLegacy(w, back) ==
  /\ ~recorded
  /\ fundingTaken' = fundingTaken - back
  /\ UNCHANGED <<rewardTaken, mem>>

taskAdjustFunding(w, delta) ==
  \/ source = "subscription" /\ AdjustSubscription(w, delta)
  \/ source = "wallet" /\ ChargeWallet(w, delta)
  \/ source = "wallet" /\ delta < 0 /\ RefundWallet(w, -delta)
  \/ source = "wallet" /\ delta < 0 /\ RefundWalletLegacy(w, -delta)

SettleFunding(w) ==
  /\ pc[w] = "funding"
  /\ \/ /\ mem[w].fDone
        /\ Goto(w, "token") /\ CallWorks
        /\ UNCHANGED <<mem, fundingTaken, rewardTaken>>
     \/ /\ ~mem[w].fDone
        /\ taskAdjustFunding(w, mem[w].target - mem[w].fAmt)
        /\ Goto(w, "ckFunding") /\ CallWorks
     \/ /\ ~mem[w].fDone /\ CallFails
        /\ Goto(w, Abandoned(w)) /\ UNCHANGED <<mem, fundingTaken, rewardTaken>>
  /\ UNCHANGED <<taskFacts, row, tokenTaken, tokenSkipped, records, crashes>>

CheckpointFunding(w) ==
  /\ pc[w] = "ckFunding"
  /\ LET t == [mem[w] EXCEPT !.fAmt = mem[w].target, !.fDone = TRUE]
     IN  Persist(t) /\ Remember(w, t)
  /\ Goto(w, "token")
  /\ UNCHANGED <<taskFacts, stores, records, failures, crashes>>

\* taskAdjustTokenQuota.  A token whose key cannot be read (deleted, or the
\* query failed) is skipped and counts as done.
SettleToken(w) ==
  /\ pc[w] = "token"
  /\ \/ /\ mem[w].tDone
        /\ Goto(w, "complete") /\ CallWorks
        /\ UNCHANGED <<tokenTaken, tokenSkipped>>
     \/ /\ ~mem[w].tDone
        /\ tokenTaken' = tokenTaken + (mem[w].target - mem[w].tAmt)
        /\ Goto(w, "ckToken") /\ CallWorks /\ UNCHANGED tokenSkipped
     \/ /\ ~mem[w].tDone
        /\ tokenSkipped' = TRUE
        /\ Goto(w, "ckToken") /\ CallWorks /\ UNCHANGED tokenTaken
     \/ /\ ~mem[w].tDone /\ CallFails
        /\ Goto(w, Abandoned(w)) /\ UNCHANGED <<tokenTaken, tokenSkipped>>
  /\ UNCHANGED <<taskFacts, row, mem, fundingTaken, rewardTaken, records,
                 crashes>>

CheckpointToken(w) ==
  /\ pc[w] = "ckToken"
  /\ LET t == [mem[w] EXCEPT !.tAmt = mem[w].target, !.tDone = TRUE]
     IN  Persist(t) /\ Remember(w, t)
  /\ Goto(w, "complete")
  /\ UNCHANGED <<taskFacts, stores, records, failures, crashes>>

(***************************************************************************)
(* After both sides: the row's final state, then profit and rebate.        *)
(***************************************************************************)
CompleteRefund(w) ==
  /\ pc[w] = "complete" /\ mem[w].status = "FAILURE"
  /\ LET t == [clearTaskBillingSettlement(mem[w]) EXCEPT !.refunded = TRUE]
     IN  \/ /\ Persist(t) /\ Remember(w, t) /\ CallWorks
            /\ Goto(w, IF recorded THEN "noRebate" ELSE "idle")
         \/ CallFails /\ UNCHANGED <<row, mem>> /\ Goto(w, "idle")
  /\ UNCHANGED <<taskFacts, stores, records, crashes>>

\* A refunded task never pays a rebate.
ForbidRebate(w) ==
  /\ pc[w] = "noRebate"
  /\ PersistOrLog([mem[w] EXCEPT !.rebateSettled = TRUE])
  /\ Goto(w, "idle")
  /\ UNCHANGED <<taskFacts, mem, stores, records, crashes>>

\* A failed write is only logged here: the finalizers go on from memory.
CompleteSettle(w) ==
  /\ pc[w] = "complete" /\ mem[w].status = "SUCCESS"
  /\ LET t == [clearTaskBillingSettlement(mem[w])
                 EXCEPT !.quota = mem[w].target]
     IN  Remember(w, t) /\ PersistOrLog(t)
  /\ Goto(w, "profit")
  /\ UNCHANGED <<taskFacts, stores, records, crashes>>

\* FinalizeTaskProviderProfit: ApplyProviderProfit inserts by a unique request
\* id; what the provider's user paid is capped by the charge.
ProfitDue(t) == provider /\ ~t.profitSettled /\ ~t.pending

ApplyProfit(w) ==
  /\ pc[w] = "profit"
  /\ \/ /\ ~ProfitDue(mem[w])
        /\ Goto(w, "rebate") /\ UNCHANGED profits /\ CallWorks
     \/ /\ ProfitDue(mem[w])
        /\ profits' = IF profits = {} THEN {mem[w].paid} ELSE profits
        /\ Goto(w, "ckProfit") /\ CallWorks
     \/ /\ ProfitDue(mem[w]) /\ CallFails
        /\ Goto(w, "rebate") /\ UNCHANGED profits
  /\ UNCHANGED <<taskFacts, row, mem, stores, rebates, crashes>>

MarkProfit(w) ==
  /\ pc[w] = "ckProfit"
  /\ LET t == [mem[w] EXCEPT !.profitSettled = TRUE]
     IN  Remember(w, t) /\ PersistOrLog(t)
  /\ Goto(w, "rebate")
  /\ UNCHANGED <<taskFacts, stores, records, crashes>>

\* Slip: a rebate is due although a side is still pending.
RebateDueEarly(t) == recorded /\ ~t.rebateSettled /\ ~provider

\* FinalizeTaskConsumeRebate.
RebateDue(t) == recorded /\ ~t.rebateSettled /\ ~t.pending /\ ~provider

ApplyRebate(w) ==
  /\ pc[w] = "rebate"
  /\ \/ /\ ~RebateDue(mem[w])
        /\ Goto(w, "idle") /\ UNCHANGED rebates /\ CallWorks
     \/ /\ RebateDue(mem[w])
        /\ rebates' = IF rebates = {} /\ mem[w].paid > 0
                        THEN {mem[w].paid} ELSE rebates
        /\ Goto(w, "ckRebate") /\ CallWorks
     \/ /\ RebateDue(mem[w]) /\ mem[w].paid > 0 /\ CallFails
        /\ Goto(w, "idle") /\ UNCHANGED rebates
  /\ UNCHANGED <<taskFacts, row, mem, stores, profits, crashes>>

MarkRebate(w) ==
  /\ pc[w] = "ckRebate"
  /\ LET t == [mem[w] EXCEPT !.rebateSettled = TRUE]
     IN  Remember(w, t) /\ PersistOrLog(t)
  /\ Goto(w, "idle")
  /\ UNCHANGED <<taskFacts, stores, records, crashes>>

(***************************************************************************)
(* RetryPendingTaskBilling: terminal rows with a pending checkpoint.       *)
(***************************************************************************)
\* Slip: only successful tasks are recovered.
RecoverSuccessOnly ==
  /\ pc["loop"] = "idle"
  /\ row.status = "SUCCESS" /\ row.pending
  /\ Remember("loop", row) /\ Goto("loop", "funding")
  /\ UNCHANGED <<taskFacts, row, stores, records, failures, crashes>>

\* A SUCCESS row resumes its target (always positive: RecalculateTaskQuota sets
\* no other); a FAILURE row is refunded.
Recover ==
  /\ pc["loop"] = "idle"
  /\ row.status \in Terminal /\ row.pending
  /\ Remember("loop", row)
  /\ Goto("loop", IF row.status = "FAILURE" THEN "refund" ELSE "funding")
  /\ UNCHANGED <<taskFacts, row, stores, records, failures, crashes>>

\* The process is killed; memory is lost.  Not between a committed side and
\* its checkpoint (see TaskReplay).
Committing == {"ckFunding", "ckToken"}

Crash(w) ==
  /\ pc[w] \notin {"idle"} \cup Committing
  /\ crashes < MaxCrashes /\ crashes' = crashes + 1
  /\ Goto(w, "idle")
  /\ UNCHANGED <<taskFacts, row, mem, stores, records, failures>>

(***************************************************************************)
(* The specification.                                                      *)
(***************************************************************************)
BillingStep(w) ==
  \/ StartRefund(w)
  \/ StartSettle(w)
  \/ SettleFunding(w)
  \/ CheckpointFunding(w)
  \/ SettleToken(w)
  \/ CheckpointToken(w)
  \/ CompleteRefund(w)
  \/ ForbidRebate(w)
  \/ CompleteSettle(w)
  \/ ApplyProfit(w)
  \/ MarkProfit(w)
  \/ ApplyRebate(w)
  \/ MarkRebate(w)

PollStep ==
  \/ LoopLoad
  \/ PollProgress
  \/ \E actual \in Amount : PollSuccess(actual)
  \/ PollFailure
  \/ Recover
  \/ BillingStep("loop")

LoopStep == PollStep \/ BulkFail

Next == LoopStep \/ Crash("loop")

Spec == Init /\ [][Next]_vars

\* The loop runs for as long as the process does.
FairSpec == Spec /\ WF_vars(LoopStep)

(***************************************************************************)
(* Properties.                                                             *)
(***************************************************************************)
Row ==
  [status : Unfinished \cup Terminal \cup Queued, quota : Amount,
   pending : BOOLEAN, target : Amount, fAmt : Amount, tAmt : Amount,
   fDone : BOOLEAN, tDone : BOOLEAN, refunded : BOOLEAN,
   rebateSettled : BOOLEAN, profitSettled : BOOLEAN,
   reward : Amount, paid : Amount]

Steps == {"idle", "loaded", "refund", "settle", "funding", "ckFunding",
          "token", "ckToken", "complete", "noRebate", "profit", "ckProfit",
          "rebate", "ckRebate"}

\* Every column and every copy of the row is of its type; amounts stay within
\* the task's range.
TaskTypeOK ==
  /\ source \in {"wallet", "subscription"} /\ recorded \in BOOLEAN
  /\ subPre \in Amount /\ provider \in BOOLEAN
  /\ platform \in {"suno", "video", "h3", "realtime"}
  /\ row \in Row /\ mem \in [Workers -> Row] /\ pc \in [Workers -> Steps]
  /\ fundingTaken \in Int /\ rewardTaken \in Int /\ tokenTaken \in Int
  /\ rebates \subseteq Amount /\ profits \subseteq Amount
  /\ tokenSkipped \in BOOLEAN
  /\ failures \in 0 .. MaxFailures /\ crashes \in 0 .. MaxCrashes

Quiet == \A w \in Workers : pc[w] = "idle"

\* What a row without a pending checkpoint says is charged.
Owed == IF row.refunded THEN 0 ELSE taskRefundQuota(row)

\* When no worker is at it and no checkpoint is pending, both stores hold what
\* the row says: the quota, or nothing once it is refunded; and the recorded
\* split is the real one, whatever failed or crashed on the way.
AccountsMatchRow ==
  Quiet /\ ~row.pending =>
    /\ fundingTaken = Owed
    /\ taskTokenQuotaRequired /\ ~tokenSkipped => tokenTaken = Owed
    /\ recorded => /\ row.reward = rewardTaken
                   /\ row.reward + row.paid = fundingTaken

\* A pending checkpoint tells exactly what each store holds, so resuming from
\* it moves only what has not moved yet.
CheckpointMatchesStores ==
  row.pending /\ (\A w \in Workers : pc[w] \notin Committing) =>
    /\ fundingTaken = row.fAmt
    /\ taskTokenQuotaRequired /\ ~tokenSkipped => tokenTaken = row.tAmt
    /\ row.fDone => row.fAmt = row.target

\* The invite rebate is paid on the final paid amount of a successful task:
\* never on a charge that a pending side may still change or that came back.
RebateFollowsCharge ==
  rebates # {} =>
    /\ row.status = "SUCCESS" /\ ~row.refunded
    /\ rebates = {fundingTaken - rewardTaken}

\* A terminal status is never left: the billing of a terminal transition
\* belongs to the one writer that won it.
TerminalIsFinal == [][row.status \in Terminal => row'.status = row.status]_vars

\* A pending checkpoint of a terminal task is eventually resolved, through
\* failures and restarts.
PendingConverges == row.pending ~> ~row.pending

\* RefundTaskQuota's promise: a task that fails gets its quota back.
FailureRefunded ==
  (row.status = "FAILURE" /\ taskRefundQuota(row) > 0) ~> row.refunded
=============================================================================
