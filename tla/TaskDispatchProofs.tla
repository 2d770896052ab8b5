------------------------- MODULE TaskDispatchProofs -------------------------
(***************************************************************************)
(* TerminalIsFinal, PolledAccounts and RebateFollowsCharge for any quota,  *)
(* any number of failed statements and of crashes, with the polling loop,  *)
(* the submitter and the cleanup running beside each other.                *)
(*                                                                         *)
(* None is inductive: what the stores hold between two statements depends  *)
(* on where the worker is and on the copy it carries, and the row may lag  *)
(* behind that copy when a write was only logged.                          *)
(***************************************************************************)
EXTENDS TaskDispatch, TLAPS

RefundSteps == {"refund", "funding", "ckFunding", "token", "ckToken", "complete", "noRebate"}
SettleSteps == {"settle", "funding", "ckFunding", "token", "ckToken", "complete",
                "profit", "ckProfit", "rebate", "ckRebate"}
Moving == {"funding", "ckFunding", "token", "ckToken", "complete"}

-----------------------------------------------------------------------------
(* The inductive invariant                                                 *)

\* Only MiniMax-H3 tasks are queued, and only a wallet has a split.
StatusInv ==
  /\ recorded => source = "wallet"
  /\ platform \in {"suno", "video", "h3"}
  /\ platform # "h3" => row.status \notin Queued

\* The workers that bill this task.
Bills(w) == w = "loop" \/ (w \in Submitters /\ platform = "h3")

\* Where a worker is tells the status of the row and of the copy it carries.
WorkerInv(w) ==
  \/ pc[w] = "idle"
  \/ /\ w = "loop" /\ pc[w] = "loaded"
     /\ row.status \in Unfinished /\ mem[w] = row
  \/ /\ Bills(w) /\ w # "loop" /\ pc[w] = "loaded"
     /\ mem[w].status = "DISPATCHING" /\ row.status # "NOT_START"
     /\ row.status = "DISPATCHING" => mem[w] = row
  \/ /\ w = "loop" /\ pc[w] \in SettleSteps
     /\ row.status = "SUCCESS" /\ mem[w].status = "SUCCESS"
  \/ /\ Bills(w) /\ pc[w] \in RefundSteps
     /\ row.status = "FAILURE" /\ mem[w].status = "FAILURE"
     /\ pc[w] \in Moving => mem[w].target = 0

\* The stores hold what the row or copy t says.
TokenCounts == taskTokenQuotaRequired /\ ~tokenSkipped
Owes(t) == IF t.refunded THEN 0 ELSE taskRefundQuota(t)
Split(t) == recorded => t.reward = rewardTaken /\ t.reward + t.paid = fundingTaken

Settled(t) ==
  /\ ~t.pending /\ (t.refunded => t.status = "FAILURE")
  /\ fundingTaken = Owes(t) /\ (TokenCounts => tokenTaken = Owes(t)) /\ Split(t)

\* A checkpoint leads to the actual amount of a task that succeeded, or to
\* zero, and a side that is done is there.
Aimed(t) ==
  /\ t.pending /\ ~t.refunded
  /\ \/ t.status = "SUCCESS" /\ t.target > 0
     \/ t.status = "FAILURE" /\ t.target = 0
  /\ t.fDone => t.fAmt = t.target
  /\ t.tDone /\ taskTokenQuotaRequired => t.tAmt = t.target

Checked(t) ==
  /\ Aimed(t) /\ Split(t)
  /\ fundingTaken = t.fAmt /\ (TokenCounts => tokenTaken = t.tAmt)

\* The copy t that the loop carries at the step p.  Between a side and its
\* checkpoint the store is ahead of the copy; a finalizer goes by a copy that
\* is settled, while the row may still show a finished checkpoint.
CopyInv(t, p) ==
  /\ p = "settle" => Settled(t) /\ t.target > 0 /\ ~row.pending
  /\ p = "refund" => Settled(t) \/ Checked(t)
  /\ p = "funding" => t = row
  /\ p \in {"funding", "token", "complete"} => Checked(t)
  /\ p \in {"token", "ckToken", "complete"} => t.fDone /\ row.fDone
  /\ p = "complete" => t.tDone
  /\ p = "ckFunding" => /\ Aimed(t) /\ Split(t) /\ ~t.fDone /\ fundingTaken = t.target
                        /\ TokenCounts => tokenTaken = t.tAmt
  /\ p = "ckToken" => /\ Aimed(t) /\ Split(t) /\ ~t.tDone /\ fundingTaken = t.fAmt
                      /\ TokenCounts => tokenTaken = t.target
  /\ p = "noRebate" => Settled(t)
  /\ p \in {"profit", "rebate"} =>
       ~t.refunded /\ (~t.pending => Settled(t) /\ (row.pending => row.fDone))
  /\ p \in {"ckProfit", "ckRebate"} =>
       ~t.refunded /\ Settled(t) /\ (row.pending => row.fDone)

\* The loop is alone with a task that is not a failed MiniMax-H3 task.
Sole == platform = "h3" => row.status # "FAILURE"

LoopInv ==
  Sole => /\ pc["loop"] \notin Committing => Settled(row) \/ Checked(row)
          /\ CopyInv(mem["loop"], pc["loop"])

\* Once the rebate is paid the funding does not move any more.
RebateInv ==
  rebates # {} =>
    /\ row.status = "SUCCESS" /\ ~row.refunded /\ recorded
    /\ rebates = {fundingTaken - rewardTaken}
    /\ row.pending => row.fDone
    /\ pc["loop"] \notin {"settle", "ckFunding"}
    /\ pc["loop"] = "funding" => mem["loop"].fDone

TaskInv ==
  /\ TaskTypeOK /\ StatusInv /\ (\A w \in Workers : WorkerInv(w))
  /\ LoopInv /\ RebateInv

-----------------------------------------------------------------------------
(* Types                                                                   *)

\* The reserved amount is in range.
LEMMA RefundQuotaTyped ==
  ASSUME TaskTypeOK, NEW t \in Row
  PROVE  taskRefundQuota(t) \in Amount
BY DEF taskRefundQuota, Row, TaskTypeOK

\* A checkpoint of a row is a row, and what it says.
LEMMA CheckpointTyped ==
  ASSUME TaskTypeOK, NEW t \in Row, NEW a \in Amount, NEW b \in Amount
  PROVE  LET u == Checkpoint(t, a, b)
         IN  /\ u \in Row /\ u.status = t.status /\ u.refunded = t.refunded
             /\ u.reward = t.reward /\ u.paid = t.paid
             /\ u.pending /\ u.target = b /\ u.fAmt = a /\ u.tAmt = a
             /\ (u.fDone <=> a = b) /\ (u.tDone <=> a = b \/ ~taskTokenQuotaRequired)
<1>1. taskTokenQuotaRequired \in BOOLEAN
  BY DEF taskTokenQuotaRequired
<1> QED BY <1>1 DEF Checkpoint, Row

\* So is the checkpoint of a refund, which aims at zero.
LEMMA RefundCheckpointTyped ==
  ASSUME TaskTypeOK, NEW t \in Row
  PROVE  LET u == RefundCheckpoint(t)
         IN  /\ u \in Row /\ u.status = t.status /\ u.refunded = t.refunded
             /\ u.reward = t.reward /\ u.paid = t.paid
             /\ u.pending /\ u.target = 0
             /\ u.fAmt = (IF t.pending THEN t.fAmt ELSE taskRefundQuota(t))
             /\ u.tAmt = (IF t.pending THEN t.tAmt ELSE taskRefundQuota(t))
             /\ (u.fDone <=> u.fAmt = 0)
             /\ (u.tDone <=> u.tAmt = 0 \/ ~taskTokenQuotaRequired)
<1>1. taskTokenQuotaRequired \in BOOLEAN /\ 0 \in Amount
  BY TaskBoundsAssumption DEF taskTokenQuotaRequired, Amount
<1>2. CASE t.pending
  BY <1>1, <1>2 DEF RefundCheckpoint, Row
<1>3. CASE ~t.pending
  <2>1. RefundCheckpoint(t) = Checkpoint(t, taskRefundQuota(t), 0)
    BY <1>3 DEF RefundCheckpoint
  <2>2. taskRefundQuota(t) \in Amount
    BY RefundQuotaTyped
  <2> HIDE DEF Row
  <2>3. LET u == Checkpoint(t, taskRefundQuota(t), 0)
        IN  /\ u \in Row /\ u.status = t.status /\ u.refunded = t.refunded
            /\ u.reward = t.reward /\ u.paid = t.paid
            /\ u.pending /\ u.target = 0
            /\ u.fAmt = taskRefundQuota(t) /\ u.tAmt = taskRefundQuota(t)
            /\ (u.fDone <=> taskRefundQuota(t) = 0)
            /\ (u.tDone <=> taskRefundQuota(t) = 0 \/ ~taskTokenQuotaRequired)
    BY <1>1, <2>2, CheckpointTyped
  <2> QED BY <1>3, <2>1, <2>3
<1> QED BY <1>2, <1>3

\* A copy whose status is the row's is written whole.
LEMMA PersistWhole ==
  ASSUME NEW t \in Row, Persist(t), t.status = row.status
  PROVE  row' = t
BY DEF Persist, Row

-----------------------------------------------------------------------------
(* What each billing step of a worker does                                 *)

\* Only w moves.
Reach(w) ==
  /\ UNCHANGED taskFacts /\ failures' \in 0 .. MaxFailures
  /\ pc' \in [Workers -> Steps] /\ mem' \in [Workers -> Row] /\ row' \in Row
  /\ \A v \in Workers \ {w} : pc'[v] = pc[v] /\ mem'[v] = mem[v]

\* And no status changes.
Frame(w) ==
  /\ Reach(w) /\ UNCHANGED crashes
  /\ row'.status = row.status /\ mem'[w].status = mem[w].status

\* The worker w goes to p with the copy t and leaves the row r.
Moves(w, p, t, r) == pc'[w] = p /\ mem'[w] = t /\ row' = r

LEMMA MovesReach ==
  ASSUME TaskTypeOK, NEW w \in Workers, NEW p \in Steps, NEW t \in Row, NEW r \in Row,
         Goto(w, p), Remember(w, t), row' = r, CallWorks \/ CallFails, UNCHANGED taskFacts
  PROVE  Reach(w) /\ Moves(w, p, t, r)
<1>1. pc \in [Workers -> Steps] /\ mem \in [Workers -> Row]
      /\ failures \in 0 .. MaxFailures /\ MaxFailures \in Nat
  BY TaskBoundsAssumption DEF TaskTypeOK
<1>2. failures' \in 0 .. MaxFailures
  BY <1>1 DEF CallWorks, CallFails
<1>3. pc' \in [Workers -> Steps] /\ pc'[w] = p /\ \A v \in Workers \ {w} : pc'[v] = pc[v]
  BY <1>1 DEF Goto
<1>4. mem' \in [Workers -> Row] /\ mem'[w] = t /\ \A v \in Workers \ {w} : mem'[v] = mem[v]
  BY <1>1 DEF Remember
<1> QED BY <1>2, <1>3, <1>4 DEF Reach, Moves

LEMMA StaysReach ==
  ASSUME TaskTypeOK, NEW w \in Workers, NEW p \in Steps, NEW r \in Row,
         Goto(w, p), mem' = mem, row' = r, CallWorks \/ CallFails, UNCHANGED taskFacts
  PROVE  Reach(w) /\ Moves(w, p, mem[w], r)
<1>1. mem \in [Workers -> Row]
  BY DEF TaskTypeOK
<1>2. Remember(w, mem[w]) /\ mem[w] \in Row
  BY <1>1 DEF Remember
<1> QED BY <1>2, MovesReach

LEMMA MovesFrame ==
  ASSUME TaskTypeOK, NEW w \in Workers, NEW p \in Steps, NEW t \in Row, NEW r \in Row,
         Goto(w, p), Remember(w, t), row' = r, CallWorks \/ CallFails,
         UNCHANGED <<taskFacts, crashes>>, r.status = row.status,
         t.status = mem[w].status
  PROVE  Frame(w) /\ Moves(w, p, t, r)
<1>1. Reach(w) /\ Moves(w, p, t, r)
  BY MovesReach
<1> QED BY <1>1 DEF Frame, Moves

\* A step that leaves the copy alone.
LEMMA StaysFrame ==
  ASSUME TaskTypeOK, NEW w \in Workers, NEW p \in Steps, NEW r \in Row,
         Goto(w, p), mem' = mem, row' = r, CallWorks \/ CallFails,
         UNCHANGED <<taskFacts, crashes>>, r.status = row.status
  PROVE  Frame(w) /\ Moves(w, p, mem[w], r)
<1>1. mem \in [Workers -> Row]
  BY DEF TaskTypeOK
<1>2. Remember(w, mem[w]) /\ mem[w] \in Row
  BY <1>1 DEF Remember
<1> QED BY <1>2, MovesFrame

LEMMA StartRefundDoes ==
  ASSUME TaskTypeOK, NEW w \in Workers, mem[w].status = row.status, StartRefund(w)
  PROVE  /\ pc[w] = "refund" /\ Frame(w) /\ UNCHANGED <<stores, records>>
         /\ \/ Moves(w, "idle", mem[w], row)
            \/ /\ ~NothingToRefund(mem[w])
               /\ Moves(w, "funding", RefundCheckpoint(mem[w]), RefundCheckpoint(mem[w]))
<1> DEFINE t == RefundCheckpoint(mem[w])
<1>1. mem[w] \in Row /\ row \in Row /\ "idle" \in Steps /\ "funding" \in Steps
  BY DEF TaskTypeOK, Steps
<1>2. t \in Row /\ t.status = mem[w].status
  BY <1>1, RefundCheckpointTyped
<1> HIDE DEF t
<1>3. CASE Goto(w, "idle") /\ UNCHANGED <<row, mem>>
  <2>1. CallWorks \/ CallFails
    BY DEF StartRefund
  <2> QED BY <1>1, <1>3, <2>1, StaysFrame DEF StartRefund
<1>4. CASE /\ ~NothingToRefund(mem[w])
           /\ Persist(t) /\ Remember(w, t) /\ CallWorks /\ Goto(w, "funding")
  <2>1. row' = t
    BY <1>2, <1>4, PersistWhole
  <2> QED BY <1>1, <1>2, <1>4, <2>1, MovesFrame DEF StartRefund, t
<1> QED BY <1>3, <1>4 DEF StartRefund, t

LEMMA StartSettleDoes ==
  ASSUME TaskTypeOK, NEW w \in Workers, mem[w].status = row.status, StartSettle(w)
  PROVE  LET actual == mem[w].target
             before == [mem[w] EXCEPT !.target = 0]
             exact == [before EXCEPT !.quota = actual]
             t == Checkpoint(before, taskRefundQuota(before), actual)
         IN  /\ pc[w] = "settle" /\ Frame(w) /\ UNCHANGED <<stores, records>>
             /\ \/ /\ actual = taskRefundQuota(before)
                   /\ Moves(w, "profit", exact, exact) \/ Moves(w, "profit", exact, row)
                \/ /\ actual # taskRefundQuota(before)
                   /\ Moves(w, "funding", t, t) \/ Moves(w, Abandoned(w), t, row)
<1> DEFINE actual == mem[w].target
           before == [mem[w] EXCEPT !.target = 0]
           exact == [before EXCEPT !.quota = actual]
           t == Checkpoint(before, taskRefundQuota(before), actual)
<1>0. mem[w] \in Row /\ row \in Row /\ 0 \in Amount /\ Abandoned(w) \in Steps
      /\ "profit" \in Steps /\ "funding" \in Steps
  BY TaskBoundsAssumption DEF TaskTypeOK, Steps, Amount, Abandoned
<1>1. actual \in Amount /\ before \in Row /\ before.status = row.status
  BY <1>0 DEF Row
<1>2. exact \in Row /\ exact.status = row.status
  BY <1>1 DEF Row
<1>3. t \in Row /\ t.status = row.status
  <2> HIDE DEF before, actual
  <2>1. taskRefundQuota(before) \in Amount
    BY <1>1, RefundQuotaTyped
  <2> QED BY <1>1, <2>1, CheckpointTyped
<1>4. /\ pc[w] = "settle" /\ UNCHANGED <<taskFacts, stores, records, crashes>>
      /\ \/ /\ actual = taskRefundQuota(before)
            /\ Remember(w, exact) /\ Goto(w, "profit")
            /\ \/ Persist(exact) /\ CallWorks
               \/ before.quota # actual /\ CallFails /\ UNCHANGED row
         \/ /\ actual # taskRefundQuota(before)
            /\ Persist(t) /\ Remember(w, t) /\ CallWorks /\ Goto(w, "funding")
         \/ /\ actual # taskRefundQuota(before)
            /\ CallFails /\ UNCHANGED row /\ Remember(w, t)
            /\ Goto(w, Abandoned(w))
  BY DEF StartSettle
<1> HIDE DEF actual, before, exact, t
<1>5. Persist(exact) => row' = exact
  BY <1>2, PersistWhole
<1>6. Persist(t) => row' = t
  BY <1>3, PersistWhole
<1>7. CASE actual = taskRefundQuota(before)
  <2>1. /\ Remember(w, exact) /\ Goto(w, "profit") /\ row' \in {exact, row}
        /\ CallWorks \/ CallFails
    BY <1>4, <1>5, <1>7
  <2>2. CASE row' = exact
    <3>1. Frame(w) /\ Moves(w, "profit", exact, exact)
      BY <1>0, <1>2, <1>4, <2>1, <2>2, MovesFrame
    <3> QED BY <1>4, <1>7, <3>1 DEF actual, before, exact, t
  <2>3. CASE row' = row
    <3>1. Frame(w) /\ Moves(w, "profit", exact, row)
      BY <1>0, <1>2, <1>4, <2>1, <2>3, MovesFrame
    <3> QED BY <1>4, <1>7, <3>1 DEF actual, before, exact, t
  <2> QED BY <2>1, <2>2, <2>3
<1>8. CASE actual # taskRefundQuota(before)
  <2>1. CASE Persist(t) /\ Remember(w, t) /\ CallWorks /\ Goto(w, "funding")
    <3>1. Frame(w) /\ Moves(w, "funding", t, t)
      BY <1>0, <1>3, <1>4, <1>6, <2>1, MovesFrame
    <3> QED BY <1>4, <1>8, <3>1 DEF actual, before, exact, t
  <2>2. CASE CallFails /\ UNCHANGED row /\ Remember(w, t) /\ Goto(w, Abandoned(w))
    <3>1. Frame(w) /\ Moves(w, Abandoned(w), t, row)
      BY <1>0, <1>3, <1>4, <2>2, MovesFrame
    <3> QED BY <1>4, <1>8, <3>1 DEF actual, before, exact, t
  <2> QED BY <1>4, <1>8, <2>1, <2>2
<1> QED BY <1>7, <1>8

\* The copies t and u differ at most in the wallet split.
OnlySplit(t, u) ==
  /\ u.status = t.status /\ u.quota = t.quota /\ u.pending = t.pending
  /\ u.target = t.target /\ u.fAmt = t.fAmt /\ u.tAmt = t.tAmt
  /\ u.fDone = t.fDone /\ u.tDone = t.tDone /\ u.refunded = t.refunded

\* The store moves by delta, and a recorded split with it.
LEMMA AdjustDoes ==
  ASSUME TaskTypeOK, StatusInv, NEW w \in Workers, NEW delta \in Int,
         taskAdjustFunding(w, delta),
         recorded /\ delta > 0 => mem[w].reward + mem[w].paid + delta <= MaxQuota
  PROVE  /\ fundingTaken' \in Int /\ rewardTaken' \in Int
         /\ fundingTaken + delta >= 0 => fundingTaken' = fundingTaken + delta
         /\ \E t \in Row :
              /\ Remember(w, t) /\ OnlySplit(mem[w], t)
              /\ recorded => /\ t.reward - mem[w].reward = rewardTaken' - rewardTaken
                             /\ t.reward + t.paid = mem[w].reward + mem[w].paid + delta
<1> DEFINE m == mem[w]
<1>0. /\ mem \in [Workers -> Row] /\ m \in Row /\ m.reward \in Nat /\ m.paid \in Nat
      /\ m.reward \in Amount /\ m.paid \in Amount /\ MaxQuota \in Nat
      /\ m.reward <= MaxQuota /\ m.paid <= MaxQuota
      /\ fundingTaken \in Int /\ rewardTaken \in Int
  BY TaskBoundsAssumption DEF TaskTypeOK, Row, Amount
<1>1. mem' = mem => Remember(w, m) /\ OnlySplit(m, m)
  BY <1>0 DEF Remember, OnlySplit
<1>2. CASE source = "subscription" /\ AdjustSubscription(w, delta)
  <2>1. ~recorded
    BY <1>2 DEF StatusInv
  <2>2. fundingTaken' \in Int /\ (fundingTaken + delta >= 0 => fundingTaken' = fundingTaken + delta)
    BY <1>0, <1>2 DEF AdjustSubscription, Max2
  <2>3. rewardTaken' = rewardTaken /\ mem' = mem
    BY <1>2 DEF AdjustSubscription
  <2> QED BY <1>0, <1>1, <2>1, <2>2, <2>3
<1>3. CASE source = "wallet" /\ delta < 0 /\ RefundWalletLegacy(w, -delta)
  <2>1. ~recorded /\ fundingTaken' = fundingTaken + delta /\ rewardTaken' = rewardTaken /\ mem' = mem
    BY <1>0, <1>3 DEF RefundWalletLegacy
  <2>2. fundingTaken + delta \in Int
    BY <1>0
  <2> QED BY <1>0, <1>1, <2>1, <2>2
<1>4. CASE source = "wallet" /\ ChargeWallet(w, delta)
  <2>1. delta > 0
    BY <1>4 DEF ChargeWallet
  <2>2. PICK r \in 0 .. delta :
          /\ fundingTaken' = fundingTaken + delta /\ rewardTaken' = rewardTaken + r
          /\ IF recorded
               THEN Remember(w, [m EXCEPT !.reward = @ + r, !.paid = @ + (delta - r)])
               ELSE UNCHANGED mem
    BY <1>4 DEF ChargeWallet
  <2>3. fundingTaken' \in Int /\ rewardTaken' \in Int
    BY <1>0, <2>2
  <2>4. CASE recorded
    <3> DEFINE u == [m EXCEPT !.reward = @ + r, !.paid = @ + (delta - r)]
    <3>1. u.reward = m.reward + r /\ u.paid = m.paid + (delta - r) /\ OnlySplit(m, u)
      BY <1>0 DEF OnlySplit, Row
    <3>2. m.reward + r \in Amount /\ m.paid + (delta - r) \in Amount
      BY <1>0, <2>1, <2>4 DEF Amount
    <3>3. u \in Row
      BY <1>0, <3>2 DEF Row
    <3>4. Remember(w, u)
      BY <2>2, <2>4
    <3> HIDE DEF u
    <3>5. /\ u.reward - m.reward = rewardTaken' - rewardTaken
          /\ u.reward + u.paid = m.reward + m.paid + delta
      BY <1>0, <2>2, <3>1
    <3> QED BY <2>2, <2>3, <3>1, <3>3, <3>4, <3>5
  <2>5. CASE ~recorded
    BY <1>0, <1>1, <2>2, <2>3, <2>5
  <2> QED BY <2>4, <2>5
<1>5. CASE source = "wallet" /\ delta < 0 /\ RefundWallet(w, -delta)
  <2> DEFINE paidRefund == Min2(-delta, m.paid)
             rewardRefund == (-delta) - paidRefund
             u == [m EXCEPT !.paid = @ - paidRefund, !.reward = @ - rewardRefund]
  <2>1. /\ rewardRefund <= m.reward /\ fundingTaken' = fundingTaken - (-delta)
        /\ rewardTaken' = rewardTaken - rewardRefund /\ Remember(w, u)
    BY <1>5 DEF RefundWallet
  <2>2. u.reward = m.reward - rewardRefund /\ u.paid = m.paid - paidRefund /\ OnlySplit(m, u)
    BY <1>0 DEF OnlySplit, Row
  <2>3. paidRefund \in 0 .. m.paid /\ rewardRefund \in Nat
    BY <1>0, <1>5 DEF Min2
  <2> HIDE DEF paidRefund
  <2>4. m.paid - paidRefund \in Amount /\ m.reward - rewardRefund \in Amount
    BY <1>0, <2>1, <2>3 DEF Amount
  <2>5. u \in Row
    BY <1>0, <2>4 DEF Row
  <2> HIDE DEF u
  <2>6. /\ fundingTaken' \in Int /\ rewardTaken' \in Int
        /\ fundingTaken' = fundingTaken + delta
        /\ u.reward - m.reward = rewardTaken' - rewardTaken
        /\ u.reward + u.paid = m.reward + m.paid + delta
    BY <1>0, <2>1, <2>2, <2>3
  <2> QED BY <2>1, <2>2, <2>5, <2>6
<1> QED BY <1>2, <1>3, <1>4, <1>5 DEF taskAdjustFunding

LEMMA SettleFundingDoes ==
  ASSUME TaskTypeOK, StatusInv, NEW w \in Workers, SettleFunding(w),
         recorded /\ mem[w].target > mem[w].fAmt => mem[w].reward + mem[w].paid = mem[w].fAmt
  PROVE  /\ pc[w] = "funding" /\ Frame(w)
         /\ UNCHANGED <<row, tokenTaken, tokenSkipped, records>>
         /\ \/ /\ mem[w].fDone /\ Moves(w, "token", mem[w], row)
               /\ UNCHANGED <<fundingTaken, rewardTaken>>
            \/ /\ ~mem[w].fDone /\ Moves(w, Abandoned(w), mem[w], row)
               /\ UNCHANGED <<fundingTaken, rewardTaken>>
            \/ LET delta == mem[w].target - mem[w].fAmt
                   t == mem'[w]
               IN  /\ ~mem[w].fDone /\ pc'[w] = "ckFunding" /\ OnlySplit(mem[w], t)
                   /\ fundingTaken' \in Int /\ rewardTaken' \in Int
                   /\ fundingTaken + delta >= 0 => fundingTaken' = fundingTaken + delta
                   /\ recorded => /\ t.reward - mem[w].reward = rewardTaken' - rewardTaken
                                  /\ t.reward + t.paid = mem[w].reward + mem[w].paid + delta
<1>0. /\ mem[w] \in Row /\ row \in Row /\ Abandoned(w) \in Steps /\ "token" \in Steps
      /\ "ckFunding" \in Steps
  BY DEF TaskTypeOK, Steps, Abandoned
<1>1. pc[w] = "funding" /\ UNCHANGED <<taskFacts, row, tokenTaken, tokenSkipped, records, crashes>>
  BY DEF SettleFunding
<1>2. CASE /\ mem[w].fDone /\ Goto(w, "token") /\ CallWorks
           /\ UNCHANGED <<mem, fundingTaken, rewardTaken>>
  <2>1. Frame(w) /\ Moves(w, "token", mem[w], row)
    BY <1>0, <1>1, <1>2, StaysFrame
  <2> QED BY <1>1, <1>2, <2>1
<1>3. CASE /\ ~mem[w].fDone /\ CallFails /\ Goto(w, Abandoned(w))
           /\ UNCHANGED <<mem, fundingTaken, rewardTaken>>
  <2>1. Frame(w) /\ Moves(w, Abandoned(w), mem[w], row)
    BY <1>0, <1>1, <1>3, StaysFrame
  <2> QED BY <1>1, <1>3, <2>1
<1>4. CASE /\ ~mem[w].fDone /\ taskAdjustFunding(w, mem[w].target - mem[w].fAmt)
           /\ Goto(w, "ckFunding") /\ CallWorks
  <2> DEFINE delta == mem[w].target - mem[w].fAmt
  <2>1. delta \in Int
    BY <1>0, TaskBoundsAssumption DEF Row, Amount
  <2>2. recorded /\ delta > 0 => mem[w].reward + mem[w].paid + delta <= MaxQuota
    BY <1>0, TaskBoundsAssumption DEF Row, Amount
  <2> HIDE DEF delta
  <2>3. taskAdjustFunding(w, delta)
    BY <1>4 DEF delta
  <2>4. /\ fundingTaken' \in Int /\ rewardTaken' \in Int
        /\ fundingTaken + delta >= 0 => fundingTaken' = fundingTaken + delta
    BY <2>1, <2>2, <2>3, AdjustDoes
  <2>5. PICK t \in Row :
              /\ Remember(w, t) /\ OnlySplit(mem[w], t)
              /\ recorded => /\ t.reward - mem[w].reward = rewardTaken' - rewardTaken
                             /\ t.reward + t.paid = mem[w].reward + mem[w].paid + delta
    BY <2>1, <2>2, <2>3, AdjustDoes
  <2>6. Frame(w) /\ Moves(w, "ckFunding", t, row)
    BY <1>0, <1>1, <1>4, <2>5, MovesFrame DEF OnlySplit
  <2>7. mem'[w] = t /\ pc'[w] = "ckFunding"
    BY <2>6 DEF Moves
  <2> QED BY <1>1, <1>4, <2>4, <2>5, <2>6, <2>7 DEF delta
<1> QED BY <1>2, <1>3, <1>4 DEF SettleFunding

\* A write that may only be logged leaves the copy or the row as it was.
LEMMA LoggedWhole ==
  ASSUME NEW t \in Row, PersistOrLog(t), t.status = row.status
  PROVE  row' \in {t, row} /\ (CallWorks \/ CallFails)
BY PersistWhole DEF PersistOrLog

\* The copy with one side done.
FundingDone(t) == [t EXCEPT !.fAmt = t.target, !.fDone = TRUE]
TokenDone(t) == [t EXCEPT !.tAmt = t.target, !.tDone = TRUE]

LEMMA CheckpointFundingDoes ==
  ASSUME TaskTypeOK, NEW w \in Workers, mem[w].status = row.status, CheckpointFunding(w)
  PROVE  /\ pc[w] = "ckFunding" /\ Frame(w) /\ UNCHANGED <<stores, records>>
         /\ Moves(w, "token", FundingDone(mem[w]), FundingDone(mem[w]))
<1> DEFINE t == FundingDone(mem[w])
<1>1. mem[w] \in Row /\ "token" \in Steps
  BY DEF TaskTypeOK, Steps
<1>2. t \in Row /\ t.status = mem[w].status
  BY <1>1 DEF Row, FundingDone
<1>3. /\ pc[w] = "ckFunding" /\ Persist(t) /\ Remember(w, t) /\ Goto(w, "token")
      /\ UNCHANGED <<taskFacts, stores, records, failures, crashes>>
  BY DEF CheckpointFunding, FundingDone
<1> HIDE DEF t
<1>4. row' = t
  BY <1>2, <1>3, PersistWhole
<1>5. Frame(w) /\ Moves(w, "token", t, t)
  BY <1>1, <1>2, <1>3, <1>4, MovesFrame DEF CallWorks
<1> QED BY <1>3, <1>5 DEF t

LEMMA CheckpointTokenDoes ==
  ASSUME TaskTypeOK, NEW w \in Workers, mem[w].status = row.status, CheckpointToken(w)
  PROVE  /\ pc[w] = "ckToken" /\ Frame(w) /\ UNCHANGED <<stores, records>>
         /\ Moves(w, "complete", TokenDone(mem[w]), TokenDone(mem[w]))
<1> DEFINE t == TokenDone(mem[w])
<1>1. mem[w] \in Row /\ "complete" \in Steps
  BY DEF TaskTypeOK, Steps
<1>2. t \in Row /\ t.status = mem[w].status
  BY <1>1 DEF Row, TokenDone
<1>3. /\ pc[w] = "ckToken" /\ Persist(t) /\ Remember(w, t) /\ Goto(w, "complete")
      /\ UNCHANGED <<taskFacts, stores, records, failures, crashes>>
  BY DEF CheckpointToken, TokenDone
<1> HIDE DEF t
<1>4. row' = t
  BY <1>2, <1>3, PersistWhole
<1>5. Frame(w) /\ Moves(w, "complete", t, t)
  BY <1>1, <1>2, <1>3, <1>4, MovesFrame DEF CallWorks
<1> QED BY <1>3, <1>5 DEF t

LEMMA SettleTokenDoes ==
  ASSUME TaskTypeOK, NEW w \in Workers, SettleToken(w)
  PROVE  /\ pc[w] = "token" /\ Frame(w)
         /\ UNCHANGED <<row, fundingTaken, rewardTaken, records>>
         /\ \/ /\ mem[w].tDone /\ Moves(w, "complete", mem[w], row)
               /\ UNCHANGED <<tokenTaken, tokenSkipped>>
            \/ /\ ~mem[w].tDone /\ Moves(w, "ckToken", mem[w], row)
               /\ tokenTaken' = tokenTaken + (mem[w].target - mem[w].tAmt)
               /\ UNCHANGED tokenSkipped
            \/ /\ ~mem[w].tDone /\ Moves(w, "ckToken", mem[w], row)
               /\ tokenSkipped' = TRUE /\ UNCHANGED tokenTaken
            \/ /\ ~mem[w].tDone /\ Moves(w, Abandoned(w), mem[w], row)
               /\ UNCHANGED <<tokenTaken, tokenSkipped>>
<1>0. /\ row \in Row /\ Abandoned(w) \in Steps /\ "ckToken" \in Steps /\ "complete" \in Steps
  BY DEF TaskTypeOK, Steps, Abandoned
<1>1. /\ pc[w] = "token"
      /\ UNCHANGED <<taskFacts, row, mem, fundingTaken, rewardTaken, records, crashes>>
      /\ CallWorks \/ CallFails
  BY DEF SettleToken
<1>2. ASSUME NEW p \in Steps, Goto(w, p) PROVE Frame(w) /\ Moves(w, p, mem[w], row)
  BY <1>0, <1>1, <1>2, StaysFrame
<1> QED BY <1>0, <1>1, <1>2 DEF SettleToken

\* What CompleteRefund and CompleteSettle make of the copy.
RefundedCopy(t) == [clearTaskBillingSettlement(t) EXCEPT !.refunded = TRUE]
SettledCopy(t) == [clearTaskBillingSettlement(t) EXCEPT !.quota = t.target]

LEMMA CopiesTyped ==
  ASSUME TaskTypeOK, NEW t \in Row
  PROVE  /\ RefundedCopy(t) \in Row /\ SettledCopy(t) \in Row
         /\ ~RefundedCopy(t).pending /\ RefundedCopy(t).refunded
         /\ RefundedCopy(t).status = t.status /\ RefundedCopy(t).reward = t.reward
         /\ RefundedCopy(t).paid = t.paid /\ RefundedCopy(t).quota = t.quota
         /\ ~SettledCopy(t).pending /\ SettledCopy(t).refunded = t.refunded
         /\ SettledCopy(t).status = t.status /\ SettledCopy(t).reward = t.reward
         /\ SettledCopy(t).paid = t.paid /\ SettledCopy(t).quota = t.target
<1>1. 0 \in Amount
  BY TaskBoundsAssumption DEF Amount
<1> QED BY <1>1 DEF RefundedCopy, SettledCopy, clearTaskBillingSettlement, Row

LEMMA CompleteRefundDoes ==
  ASSUME TaskTypeOK, NEW w \in Workers, mem[w].status = row.status, CompleteRefund(w)
  PROVE  /\ pc[w] = "complete" /\ mem[w].status = "FAILURE" /\ Frame(w)
         /\ UNCHANGED <<stores, records>>
         /\ \/ Moves(w, IF recorded THEN "noRebate" ELSE "idle",
                     RefundedCopy(mem[w]), RefundedCopy(mem[w]))
            \/ Moves(w, "idle", mem[w], row)
<1> DEFINE t == RefundedCopy(mem[w])
           p == IF recorded THEN "noRebate" ELSE "idle"
<1>1. mem[w] \in Row /\ row \in Row /\ "idle" \in Steps /\ p \in Steps
  BY DEF TaskTypeOK, Steps
<1>2. t \in Row /\ t.status = mem[w].status
  BY <1>1, CopiesTyped
<1>3. /\ pc[w] = "complete" /\ mem[w].status = "FAILURE"
      /\ UNCHANGED <<taskFacts, stores, records, crashes>>
      /\ \/ Persist(t) /\ Remember(w, t) /\ CallWorks /\ Goto(w, p)
         \/ CallFails /\ UNCHANGED <<row, mem>> /\ Goto(w, "idle")
  BY DEF CompleteRefund, RefundedCopy
<1> HIDE DEF t, p
<1>4. CASE Persist(t) /\ Remember(w, t) /\ CallWorks /\ Goto(w, p)
  <2>1. row' = t
    BY <1>2, <1>4, PersistWhole
  <2>2. Frame(w) /\ Moves(w, p, t, t)
    BY <1>1, <1>2, <1>3, <1>4, <2>1, MovesFrame
  <2> QED BY <1>3, <2>2 DEF t, p
<1>5. CASE CallFails /\ UNCHANGED <<row, mem>> /\ Goto(w, "idle")
  <2>1. Frame(w) /\ Moves(w, "idle", mem[w], row)
    BY <1>1, <1>3, <1>5, StaysFrame
  <2> QED BY <1>3, <2>1
<1> QED BY <1>3, <1>4, <1>5

LEMMA ForbidRebateDoes ==
  ASSUME TaskTypeOK, NEW w \in Workers, mem[w].status = row.status, ForbidRebate(w)
  PROVE  /\ pc[w] = "noRebate" /\ Frame(w) /\ UNCHANGED <<stores, records>>
         /\ \/ Moves(w, "idle", mem[w], row)
            \/ Moves(w, "idle", mem[w], [mem[w] EXCEPT !.rebateSettled = TRUE])
<1> DEFINE t == [mem[w] EXCEPT !.rebateSettled = TRUE]
<1>1. mem[w] \in Row /\ row \in Row /\ "idle" \in Steps
  BY DEF TaskTypeOK, Steps
<1>2. t \in Row /\ t.status = mem[w].status
  BY <1>1 DEF Row
<1>3. /\ pc[w] = "noRebate" /\ PersistOrLog(t) /\ Goto(w, "idle")
      /\ UNCHANGED <<taskFacts, mem, stores, records, crashes>>
  BY DEF ForbidRebate
<1> HIDE DEF t
<1>4. row' \in {t, row} /\ (CallWorks \/ CallFails)
  BY <1>2, <1>3, LoggedWhole
<1>5. Frame(w) /\ (Moves(w, "idle", mem[w], t) \/ Moves(w, "idle", mem[w], row))
  BY <1>1, <1>2, <1>3, <1>4, StaysFrame
<1> QED BY <1>3, <1>5 DEF t

LEMMA CompleteSettleDoes ==
  ASSUME TaskTypeOK, NEW w \in Workers, mem[w].status = row.status, CompleteSettle(w)
  PROVE  /\ pc[w] = "complete" /\ mem[w].status = "SUCCESS" /\ Frame(w)
         /\ UNCHANGED <<stores, records>>
         /\ \/ Moves(w, "profit", SettledCopy(mem[w]), row)
            \/ Moves(w, "profit", SettledCopy(mem[w]), SettledCopy(mem[w]))
<1> DEFINE t == SettledCopy(mem[w])
<1>1. mem[w] \in Row /\ row \in Row /\ "profit" \in Steps
  BY DEF TaskTypeOK, Steps
<1>2. t \in Row /\ t.status = mem[w].status
  BY <1>1, CopiesTyped
<1>3. /\ pc[w] = "complete" /\ mem[w].status = "SUCCESS"
      /\ Remember(w, t) /\ PersistOrLog(t) /\ Goto(w, "profit")
      /\ UNCHANGED <<taskFacts, stores, records, crashes>>
  BY DEF CompleteSettle, SettledCopy
<1> HIDE DEF t
<1>4. row' \in {t, row} /\ (CallWorks \/ CallFails)
  BY <1>2, <1>3, LoggedWhole
<1>5. Frame(w) /\ (Moves(w, "profit", t, t) \/ Moves(w, "profit", t, row))
  BY <1>1, <1>2, <1>3, <1>4, MovesFrame
<1> QED BY <1>3, <1>5 DEF t

LEMMA ApplyProfitDoes ==
  ASSUME TaskTypeOK, NEW w \in Workers, ApplyProfit(w)
  PROVE  /\ pc[w] = "profit" /\ Frame(w) /\ UNCHANGED <<row, stores, rebates>>
         /\ profits' \subseteq Amount
         /\ \/ Moves(w, "rebate", mem[w], row)
            \/ ~mem[w].pending /\ Moves(w, "ckProfit", mem[w], row)
<1>0. /\ row \in Row /\ mem[w] \in Row /\ "rebate" \in Steps /\ "ckProfit" \in Steps
      /\ profits \subseteq Amount
  BY DEF TaskTypeOK, Steps
<1>1. mem[w].paid \in Amount
  BY <1>0 DEF Row
<1>2. /\ pc[w] = "profit" /\ UNCHANGED <<taskFacts, row, mem, stores, rebates, crashes>>
      /\ CallWorks \/ CallFails
      /\ \/ Goto(w, "rebate") /\ UNCHANGED profits
         \/ /\ ~mem[w].pending /\ Goto(w, "ckProfit")
            /\ profits' = IF profits = {} THEN {mem[w].paid} ELSE profits
  BY DEF ApplyProfit, ProfitDue
<1>3. ASSUME NEW p \in Steps, Goto(w, p) PROVE Frame(w) /\ Moves(w, p, mem[w], row)
  BY <1>0, <1>2, <1>3, StaysFrame
<1> QED BY <1>0, <1>1, <1>2, <1>3

LEMMA MarkProfitDoes ==
  ASSUME TaskTypeOK, NEW w \in Workers, mem[w].status = row.status, MarkProfit(w)
  PROVE  LET t == [mem[w] EXCEPT !.profitSettled = TRUE]
         IN  /\ pc[w] = "ckProfit" /\ Frame(w) /\ UNCHANGED <<stores, records>>
             /\ Moves(w, "rebate", t, row) \/ Moves(w, "rebate", t, t)
<1> DEFINE t == [mem[w] EXCEPT !.profitSettled = TRUE]
<1>1. mem[w] \in Row /\ row \in Row /\ "rebate" \in Steps
  BY DEF TaskTypeOK, Steps
<1>2. t \in Row /\ t.status = mem[w].status
  BY <1>1 DEF Row
<1>3. /\ pc[w] = "ckProfit" /\ Remember(w, t) /\ PersistOrLog(t) /\ Goto(w, "rebate")
      /\ UNCHANGED <<taskFacts, stores, records, crashes>>
  BY DEF MarkProfit
<1> HIDE DEF t
<1>4. row' \in {t, row} /\ (CallWorks \/ CallFails)
  BY <1>2, <1>3, LoggedWhole
<1>5. Frame(w) /\ (Moves(w, "rebate", t, t) \/ Moves(w, "rebate", t, row))
  BY <1>1, <1>2, <1>3, <1>4, MovesFrame
<1> QED BY <1>3, <1>5 DEF t

LEMMA ApplyRebateDoes ==
  ASSUME TaskTypeOK, NEW w \in Workers, ApplyRebate(w)
  PROVE  /\ pc[w] = "rebate" /\ Frame(w) /\ UNCHANGED <<row, stores, profits>>
         /\ rebates' \subseteq Amount
         /\ \/ Moves(w, "idle", mem[w], row) /\ UNCHANGED rebates
            \/ /\ recorded /\ ~mem[w].pending /\ Moves(w, "ckRebate", mem[w], row)
               /\ UNCHANGED rebates \/ (rebates = {} /\ rebates' = {mem[w].paid})
<1>0. /\ row \in Row /\ mem[w] \in Row /\ "idle" \in Steps /\ "ckRebate" \in Steps
      /\ rebates \subseteq Amount
  BY DEF TaskTypeOK, Steps
<1>1. mem[w].paid \in Amount
  BY <1>0 DEF Row
<1>2. /\ pc[w] = "rebate" /\ UNCHANGED <<taskFacts, row, mem, stores, profits, crashes>>
      /\ CallWorks \/ CallFails
      /\ \/ Goto(w, "idle") /\ UNCHANGED rebates
         \/ /\ recorded /\ ~mem[w].pending /\ Goto(w, "ckRebate")
            /\ UNCHANGED rebates \/ (rebates = {} /\ rebates' = {mem[w].paid})
  BY DEF ApplyRebate, RebateDue
<1>3. ASSUME NEW p \in Steps, Goto(w, p) PROVE Frame(w) /\ Moves(w, p, mem[w], row)
  BY <1>0, <1>2, <1>3, StaysFrame
<1> QED BY <1>0, <1>1, <1>2, <1>3

LEMMA MarkRebateDoes ==
  ASSUME TaskTypeOK, NEW w \in Workers, mem[w].status = row.status, MarkRebate(w)
  PROVE  LET t == [mem[w] EXCEPT !.rebateSettled = TRUE]
         IN  /\ pc[w] = "ckRebate" /\ Frame(w) /\ UNCHANGED <<stores, records>>
             /\ Moves(w, "idle", t, row) \/ Moves(w, "idle", t, t)
<1> DEFINE t == [mem[w] EXCEPT !.rebateSettled = TRUE]
<1>1. mem[w] \in Row /\ row \in Row /\ "idle" \in Steps
  BY DEF TaskTypeOK, Steps
<1>2. t \in Row /\ t.status = mem[w].status
  BY <1>1 DEF Row
<1>3. /\ pc[w] = "ckRebate" /\ Remember(w, t) /\ PersistOrLog(t) /\ Goto(w, "idle")
      /\ UNCHANGED <<taskFacts, stores, records, crashes>>
  BY DEF MarkRebate
<1> HIDE DEF t
<1>4. row' \in {t, row} /\ (CallWorks \/ CallFails)
  BY <1>2, <1>3, LoggedWhole
<1>5. Frame(w) /\ (Moves(w, "idle", t, t) \/ Moves(w, "idle", t, row))
  BY <1>1, <1>2, <1>3, <1>4, MovesFrame
<1> QED BY <1>3, <1>5 DEF t

-----------------------------------------------------------------------------
(* Who bills, and where it goes                                            *)

\* A worker that takes a billing step is the loop at a task that succeeded,
\* or any of the three at one that failed.
LEMMA BillingAt ==
  ASSUME NEW w \in Workers, WorkerInv(w), BillingStep(w)
  PROVE  /\ mem[w].status = row.status
         /\ \/ w = "loop" /\ row.status = "SUCCESS" /\ pc[w] \in SettleSteps
            \/ /\ Bills(w) /\ row.status = "FAILURE" /\ pc[w] \in RefundSteps
               /\ pc[w] \in Moving => mem[w].target = 0
<1>1. pc[w] \notin {"idle", "loaded"}
  BY DEF BillingStep, StartRefund, StartSettle, SettleFunding, CheckpointFunding, SettleToken,
     CheckpointToken, CompleteRefund, ForbidRebate, CompleteSettle, ApplyProfit, MarkProfit,
     ApplyRebate, MarkRebate
<1> QED BY <1>1 DEF WorkerInv

\* A charge that is raised starts from what the recorded split adds up to.
LEMMA ChargeFits ==
  ASSUME TaskTypeOK, NEW w \in Workers, WorkerInv(w), LoopInv, SettleFunding(w)
  PROVE  recorded /\ mem[w].target > mem[w].fAmt => mem[w].reward + mem[w].paid = mem[w].fAmt
<1>1. pc[w] = "funding" /\ mem[w] \in Row
  BY DEF SettleFunding, TaskTypeOK
<1>2. CASE w = "loop" /\ row.status = "SUCCESS"
  BY <1>1, <1>2 DEF LoopInv, Sole, CopyInv, Checked, Split
<1>3. CASE mem[w].target = 0
  <2>1. mem[w].fAmt \in Nat
    BY <1>1, TaskBoundsAssumption DEF Row, Amount
  <2> QED BY <1>3, <2>1
<1> QED BY <1>1, <1>2, <1>3 DEF WorkerInv, Moving

LEMMA BillingGoes ==
  ASSUME TaskTypeOK, StatusInv, NEW w \in Workers, WorkerInv(w), LoopInv, BillingStep(w)
  PROVE  /\ Frame(w)
         /\ fundingTaken' \in Int /\ rewardTaken' \in Int /\ tokenTaken' \in Int
         /\ tokenSkipped' \in BOOLEAN /\ rebates' \subseteq Amount /\ profits' \subseteq Amount
         /\ row.status = "SUCCESS" => pc'[w] \in SettleSteps \cup {"idle"}
         /\ row.status = "FAILURE" => /\ pc'[w] \in RefundSteps \cup {"idle"}
                                      /\ pc'[w] \in Moving => mem'[w].target = 0
<1>0. /\ mem[w].status = row.status /\ mem[w] \in Row
      /\ fundingTaken \in Int /\ rewardTaken \in Int /\ tokenTaken \in Int
      /\ tokenSkipped \in BOOLEAN /\ rebates \subseteq Amount /\ profits \subseteq Amount
  BY BillingAt DEF TaskTypeOK
<1>01. row.status = "FAILURE" => pc[w] \in RefundSteps /\ (pc[w] \in Moving => mem[w].target = 0)
  BY BillingAt
<1>02. row.status = "SUCCESS" => pc[w] \in SettleSteps
  BY BillingAt
<1> USE DEF SettleSteps, RefundSteps, Moving, Abandoned, Moves, stores, records
<1>1. CASE StartRefund(w)
  <2>1. RefundCheckpoint(mem[w]).target = 0
    BY <1>0, RefundCheckpointTyped
  <2> QED BY <1>0, <1>02, <1>1, <2>1, StartRefundDoes
<1>2. CASE StartSettle(w)
  BY <1>0, <1>01, <1>2, StartSettleDoes
<1>3. CASE SettleFunding(w)
  <2>1. recorded /\ mem[w].target > mem[w].fAmt => mem[w].reward + mem[w].paid = mem[w].fAmt
    BY <1>3, ChargeFits
  <2> QED BY <1>0, <1>01, <1>3, <2>1, SettleFundingDoes DEF OnlySplit
<1>4. CASE CheckpointFunding(w)
  <2>1. FundingDone(mem[w]).target = mem[w].target
    BY <1>0 DEF FundingDone, Row
  <2> QED BY <1>0, <1>01, <1>4, <2>1, CheckpointFundingDoes
<1>5. CASE SettleToken(w)
  <2>1. mem[w].target \in Int /\ mem[w].tAmt \in Int
    BY <1>0, TaskBoundsAssumption DEF Row, Amount
  <2>2. tokenTaken + (mem[w].target - mem[w].tAmt) \in Int
    BY <1>0, <2>1
  <2> QED BY <1>0, <1>01, <1>5, <2>2, SettleTokenDoes
<1>6. CASE CheckpointToken(w)
  <2>1. TokenDone(mem[w]).target = mem[w].target
    BY <1>0 DEF TokenDone, Row
  <2> QED BY <1>0, <1>01, <1>6, <2>1, CheckpointTokenDoes
<1>7. CASE CompleteRefund(w)
  BY <1>0, <1>7, CompleteRefundDoes
<1>8. CASE ForbidRebate(w)
  BY <1>0, <1>8, ForbidRebateDoes
<1>9. CASE CompleteSettle(w)
  BY <1>0, <1>9, CompleteSettleDoes
<1>10. CASE ApplyProfit(w)
  BY <1>0, <1>01, <1>10, ApplyProfitDoes
<1>11. CASE MarkProfit(w)
  BY <1>0, <1>01, <1>11, MarkProfitDoes
<1>12. CASE ApplyRebate(w)
  BY <1>0, <1>01, <1>12, ApplyRebateDoes
<1>13. CASE MarkRebate(w)
  BY <1>0, <1>01, <1>13, MarkRebateDoes
<1> QED
  BY <1>1, <1>2, <1>3, <1>4, <1>5, <1>6, <1>7, <1>8, <1>9, <1>10, <1>11, <1>12, <1>13
  DEF BillingStep

-----------------------------------------------------------------------------
(* What the other steps do                                                 *)

As(s) == [row EXCEPT !.status = s]

\* A worker gives up, or is killed between two statements.
Drops(w) == pc[w] \notin Committing /\ Moves(w, "idle", mem[w], row)

\* The loop loads an unfinished row, the cleanup a claimed one.
Reads(w) ==
  /\ pc[w] = "idle" /\ Moves(w, "loaded", row, row)
  /\ \/ w = "loop" /\ row.status \in Unfinished
     \/ w = "clean" /\ platform = "h3" /\ row.status = "DISPATCHING"

\* The row's own columns are written under a status for which the writer bills
\* nothing: progress, TaskBulkUpdateByID, or the upstream's acceptance.
Passes(w) ==
  \/ /\ w = "loop" /\ pc[w] = "loaded" /\ row.status \in Unfinished
     /\ \E s \in {"IN_PROGRESS", "FAILURE"} : Moves(w, "idle", mem[w], As(s))
  \/ /\ w = "submit" /\ platform = "h3" /\ row.status = "DISPATCHING"
     /\ Moves(w, "idle", mem[w], As("SUBMITTED"))

Succeeds(w) ==
  /\ w = "loop" /\ pc[w] = "loaded" /\ row.status \in Unfinished
  /\ \E actual \in Amount :
       Moves(w, AfterSuccess(actual), [As("SUCCESS") EXCEPT !.target = actual], As("SUCCESS"))

Fails(w) ==
  /\ \/ w = "loop" /\ row.status \in Unfinished
     \/ w \in Submitters /\ platform = "h3" /\ row.status = "DISPATCHING"
  /\ \E p \in {"refund", "idle"} : Moves(w, p, As("FAILURE"), As("FAILURE"))

Resumes(w) ==
  /\ w = "loop" /\ pc[w] = "idle" /\ row.status \in Terminal /\ row.pending
  /\ Moves(w, IF row.status = "FAILURE" THEN "refund" ELSE "funding", row, row)

Claims(w) ==
  /\ w = "submit" /\ platform = "h3" /\ row.status = "NOT_START"
  /\ Moves(w, "loaded", As("DISPATCHING"), As("DISPATCHING"))

QuietStep(w) ==
  /\ Reach(w) /\ UNCHANGED <<stores, records>> /\ crashes' \in 0 .. MaxCrashes
  /\ \/ Drops(w) \/ Reads(w) \/ Passes(w) \/ Succeeds(w) \/ Fails(w) \/ Resumes(w) \/ Claims(w)

LEMMA AsTyped ==
  ASSUME TaskTypeOK, NEW s \in Unfinished \cup Terminal \cup Queued
  PROVE  /\ As(s) \in Row /\ As(s).status = s /\ As(s).quota = row.quota
         /\ As(s).pending = row.pending /\ As(s).refunded = row.refunded
         /\ As(s).reward = row.reward /\ As(s).paid = row.paid /\ As(s).fDone = row.fDone
BY DEF As, Row, TaskTypeOK

\* The worker drops what it has, without a write.
LEMMA DropsQuiet ==
  ASSUME TaskTypeOK, NEW w \in Workers, pc[w] \notin Committing, Goto(w, "idle"),
         UNCHANGED <<taskFacts, row, mem, stores, records>>, CallWorks \/ CallFails,
         crashes' \in 0 .. MaxCrashes
  PROVE  QuietStep(w)
<1>1. "idle" \in Steps /\ row \in Row
  BY DEF Steps, TaskTypeOK
<1> QED BY <1>1, StaysReach DEF QuietStep, Drops

LEMMA WorkersAre == "loop" \in Workers /\ "submit" \in Workers /\ "clean" \in Workers
BY TaskBoundsAssumption, DispatchAssumption DEF Submitters

LEMMA PollQuiet ==
  ASSUME TaskTypeOK, WorkerInv("loop"), StatusInv,
         \/ LoopLoad \/ PollProgress \/ (\E actual \in Amount : PollSuccess(actual))
         \/ PollFailure \/ BulkFail \/ Recover
  PROVE  QuietStep("loop")
<1>0. /\ "loop" \in Workers /\ row \in Row /\ mem["loop"] \in Row
      /\ crashes \in 0 .. MaxCrashes
  BY WorkersAre DEF TaskTypeOK
<1>1. pc["loop"] = "loaded" => row.status \in Unfinished /\ mem["loop"] = row
  BY DEF WorkerInv, SettleSteps, RefundSteps
<1>2. "idle" \in Steps /\ "loaded" \in Steps /\ "refund" \in Steps /\ "funding" \in Steps
  BY DEF Steps
<1>3. /\ As("IN_PROGRESS") \in Row /\ As("FAILURE") \in Row /\ As("SUCCESS") \in Row
  BY AsTyped DEF Unfinished, Terminal
<1>4. CASE LoopLoad
  <2>1. /\ pc["loop"] = "idle" /\ row.status \in Unfinished /\ Remember("loop", row)
        /\ Goto("loop", "loaded") /\ CallWorks
        /\ UNCHANGED <<taskFacts, row, stores, records, crashes>>
    BY <1>4 DEF LoopLoad, CallWorks
  <2>2. Reach("loop") /\ Moves("loop", "loaded", row, row)
    BY <1>0, <1>2, <2>1, MovesReach
  <2> QED BY <1>0, <2>1, <2>2 DEF QuietStep, Reads
<1>5. CASE Recover
  <2> DEFINE p == IF row.status = "FAILURE" THEN "refund" ELSE "funding"
  <2>1. /\ pc["loop"] = "idle" /\ row.status \in Terminal /\ row.pending
        /\ Remember("loop", row) /\ Goto("loop", p) /\ CallWorks
        /\ UNCHANGED <<taskFacts, row, stores, records, crashes>>
    BY <1>5 DEF Recover, CallWorks
  <2>2. p \in Steps
    BY <1>2
  <2> HIDE DEF p
  <2>3. Reach("loop") /\ Moves("loop", p, row, row)
    BY <1>0, <2>1, <2>2, MovesReach
  <2> QED BY <1>0, <2>1, <2>3 DEF QuietStep, Resumes, p
<1>6. CASE PollProgress
  <2>1. /\ pc["loop"] = "loaded" /\ Goto("loop", "idle")
        /\ UNCHANGED <<taskFacts, mem, stores, records, crashes>>
    BY <1>6 DEF PollProgress
  <2>2. row' \in {row, As("IN_PROGRESS")} /\ (CallWorks \/ CallFails)
    BY <1>1, <1>6, <2>1 DEF PollProgress, UpdateWithStatus, SwapLost, As
  <2>3. Reach("loop") /\ Moves("loop", "idle", mem["loop"], row')
    BY <1>0, <1>2, <1>3, <2>1, <2>2, StaysReach
  <2> QED BY <1>0, <1>1, <2>1, <2>2, <2>3 DEF QuietStep, Passes, Drops, Committing
<1>7. CASE \E actual \in Amount : PollSuccess(actual)
  <2>1. PICK actual \in Amount : PollSuccess(actual)
    BY <1>7
  <2> DEFINE t == [As("SUCCESS") EXCEPT !.target = actual]
  <2>2. /\ pc["loop"] = "loaded" /\ UNCHANGED <<taskFacts, stores, records, crashes>>
        /\ \/ /\ row' = As("SUCCESS") /\ CallWorks /\ Remember("loop", t)
              /\ Goto("loop", AfterSuccess(actual))
           \/ /\ CallWorks \/ CallFails
              /\ Goto("loop", "idle") /\ UNCHANGED <<row, mem>>
    BY <1>1, <2>1 DEF PollSuccess, UpdateWithStatus, SwapLost, As
  <2>3. t \in Row
    BY <1>3 DEF Row
  <2>4. AfterSuccess(actual) \in Steps
    <3>1. actual \in Nat
      BY TaskBoundsAssumption DEF Amount
    <3>2. platform = "suno" \/ platform # "suno"
      OBVIOUS
    <3> QED BY <3>1, <3>2 DEF AfterSuccess, Steps
  <2> HIDE DEF t
  <2>5. CASE /\ row' = As("SUCCESS") /\ CallWorks /\ Remember("loop", t)
             /\ Goto("loop", AfterSuccess(actual))
    <3>1. Reach("loop") /\ Moves("loop", AfterSuccess(actual), t, As("SUCCESS"))
      BY <1>0, <1>3, <2>2, <2>3, <2>4, <2>5, MovesReach
    <3>2. Succeeds("loop")
      BY <1>1, <2>2, <3>1 DEF Succeeds, t
    <3> QED BY <1>0, <2>2, <3>1, <3>2 DEF QuietStep
  <2>6. CASE /\ CallWorks \/ CallFails
             /\ Goto("loop", "idle") /\ UNCHANGED <<row, mem>>
    BY <1>0, <2>2, <2>6, DropsQuiet DEF Committing
  <2> QED BY <2>2, <2>5, <2>6
<1>8. CASE PollFailure
  <2>1. /\ pc["loop"] = "loaded" /\ UNCHANGED <<taskFacts, stores, records, crashes>>
        /\ \/ /\ row' = As("FAILURE") /\ CallWorks /\ Remember("loop", As("FAILURE"))
              /\ \E p \in {"refund", "idle"} : Goto("loop", p)
           \/ /\ CallWorks \/ CallFails
              /\ Goto("loop", "idle") /\ UNCHANGED <<row, mem>>
    BY <1>1, <1>8 DEF PollFailure, UpdateWithStatus, SwapLost, As
  <2>2. CASE /\ row' = As("FAILURE") /\ CallWorks /\ Remember("loop", As("FAILURE"))
             /\ \E p \in {"refund", "idle"} : Goto("loop", p)
    <3>1. PICK p \in {"refund", "idle"} : Goto("loop", p)
      BY <2>2
    <3>2. Reach("loop") /\ Moves("loop", p, As("FAILURE"), As("FAILURE"))
      BY <1>0, <1>2, <1>3, <2>1, <2>2, <3>1, MovesReach
    <3> QED BY <1>0, <1>1, <2>1, <3>2 DEF QuietStep, Fails
  <2>3. CASE /\ CallWorks \/ CallFails
             /\ Goto("loop", "idle") /\ UNCHANGED <<row, mem>>
    BY <1>0, <2>1, <2>3, DropsQuiet DEF Committing
  <2> QED BY <2>1, <2>2, <2>3
<1>9. CASE BulkFail
  <2>1. /\ pc["loop"] = "loaded" /\ row' = As("FAILURE") /\ Goto("loop", "idle") /\ CallWorks
        /\ UNCHANGED <<taskFacts, mem, stores, records, crashes>>
    BY <1>9 DEF BulkFail, As, CallWorks
  <2>2. Reach("loop") /\ Moves("loop", "idle", mem["loop"], As("FAILURE"))
    BY <1>0, <1>2, <1>3, <2>1, StaysReach
  <2> QED BY <1>0, <1>1, <2>1, <2>2 DEF QuietStep, Passes
<1> QED BY <1>4, <1>5, <1>6, <1>7, <1>8, <1>9

LEMMA DispatchQuiet ==
  ASSUME TaskTypeOK, \A v \in Workers : WorkerInv(v), StatusInv, NEW w \in Workers,
         \/ w = "submit" /\ (Claim \/ SubmitAccepted)
         \/ w = "clean" /\ ReadStale
         \/ w \in Submitters /\ failMiniMaxH3Dispatch(w)
         \/ Crash(w)
  PROVE  QuietStep(w)
<1>0. /\ row \in Row /\ mem[w] \in Row /\ crashes \in 0 .. MaxCrashes
      /\ crashes \in Nat /\ MaxCrashes \in Nat
  BY TaskBoundsAssumption DEF TaskTypeOK
<1>1. ASSUME w # "loop", pc[w] = "loaded"
      PROVE  platform = "h3" /\ (row.status = "DISPATCHING" => mem[w] = row)
  BY <1>1 DEF WorkerInv, Bills, SettleSteps, RefundSteps
<1>2. "idle" \in Steps /\ "loaded" \in Steps /\ "refund" \in Steps
  BY DEF Steps
<1>3. /\ As("DISPATCHING") \in Row /\ As("FAILURE") \in Row /\ As("SUBMITTED") \in Row
  BY AsTyped DEF Unfinished, Terminal, Queued
<1>4. row.status \in Queued => platform = "h3"
  BY DEF StatusInv
<1>5. CASE w = "submit" /\ Claim
  <2>1. /\ row.status = "NOT_START" /\ row' = As("DISPATCHING")
        /\ Remember(w, As("DISPATCHING")) /\ Goto(w, "loaded") /\ CallWorks
        /\ UNCHANGED <<taskFacts, stores, records, crashes>>
    BY <1>5 DEF Claim, As, CallWorks, dispatchRest, Remember
  <2>2. Reach(w) /\ Moves(w, "loaded", As("DISPATCHING"), As("DISPATCHING"))
    BY <1>2, <1>3, <2>1, MovesReach
  <2>3. platform = "h3"
    BY <1>4, <2>1 DEF Queued
  <2> QED BY <1>0, <1>5, <2>1, <2>2, <2>3 DEF QuietStep, Claims
<1>6. CASE w = "submit" /\ SubmitAccepted
  <2>1. /\ pc[w] = "loaded" /\ Goto(w, "idle") /\ UNCHANGED mem
        /\ UNCHANGED <<taskFacts, stores, records, crashes>>
    BY <1>6 DEF SubmitAccepted, dispatchRest
  <2>2. platform = "h3" /\ (row.status = "DISPATCHING" => mem[w] = row)
    BY <1>1, <1>6, <2>1
  <2>3. /\ \/ row.status = "DISPATCHING" /\ row' = As("SUBMITTED")
           \/ row' = row
        /\ CallWorks \/ CallFails
    BY <1>6, <2>2 DEF SubmitAccepted, UpdateWithStatus, SwapLost, As
  <2>4. Reach(w) /\ Moves(w, "idle", mem[w], row')
    BY <1>0, <1>2, <1>3, <2>1, <2>3, StaysReach
  <2> QED BY <1>0, <1>6, <2>1, <2>2, <2>3, <2>4 DEF QuietStep, Passes, Drops, Committing
<1>7. CASE w = "clean" /\ ReadStale
  <2>1. /\ pc[w] = "idle" /\ row.status = "DISPATCHING"
        /\ Remember(w, row) /\ Goto(w, "loaded") /\ CallWorks
        /\ UNCHANGED <<taskFacts, row, stores, records, crashes>>
    BY <1>7 DEF ReadStale, CallWorks, dispatchRest
  <2>2. Reach(w) /\ Moves(w, "loaded", row, row)
    BY <1>0, <1>2, <2>1, MovesReach
  <2>3. platform = "h3"
    BY <1>4, <2>1 DEF Queued
  <2> QED BY <1>0, <1>7, <2>1, <2>2, <2>3 DEF QuietStep, Reads
<1>8. CASE w \in Submitters /\ failMiniMaxH3Dispatch(w)
  <2>1. pc[w] = "loaded" /\ w # "loop" /\ UNCHANGED <<taskFacts, stores, records, crashes>>
    BY <1>8 DEF failMiniMaxH3Dispatch, dispatchRest, Submitters
  <2>2. platform = "h3" /\ (row.status = "DISPATCHING" => mem[w] = row)
    BY <1>1, <2>1
  <2>3. \/ /\ row.status = "DISPATCHING" /\ row' = As("FAILURE") /\ CallWorks
           /\ Remember(w, As("FAILURE")) /\ \E p \in {"refund", "idle"} : Goto(w, p)
        \/ /\ CallWorks \/ CallFails
           /\ Goto(w, "idle") /\ UNCHANGED <<row, mem>>
    BY <1>8, <2>2 DEF failMiniMaxH3Dispatch, UpdateWithStatus, SwapLost, As
  <2>4. CASE /\ row.status = "DISPATCHING" /\ row' = As("FAILURE") /\ CallWorks
             /\ Remember(w, As("FAILURE")) /\ \E p \in {"refund", "idle"} : Goto(w, p)
    <3>1. PICK p \in {"refund", "idle"} : Goto(w, p)
      BY <2>4
    <3>2. Reach(w) /\ Moves(w, p, As("FAILURE"), As("FAILURE"))
      BY <1>0, <1>2, <1>3, <2>1, <2>4, <3>1, MovesReach
    <3>3. Fails(w)
      BY <1>8, <2>2, <2>4, <3>2 DEF Fails
    <3> QED BY <1>0, <2>1, <3>2, <3>3 DEF QuietStep
  <2>5. CASE /\ CallWorks \/ CallFails
             /\ Goto(w, "idle") /\ UNCHANGED <<row, mem>>
    BY <1>0, <2>1, <2>5, DropsQuiet DEF Committing
  <2> QED BY <2>3, <2>4, <2>5
<1>9. CASE Crash(w)
  <2>1. /\ pc[w] \notin Committing /\ Goto(w, "idle") /\ CallWorks
        /\ UNCHANGED <<taskFacts, row, mem, stores, records>>
    BY <1>9 DEF Crash, CallWorks
  <2>2. crashes' \in 0 .. MaxCrashes
    BY <1>0, <1>9 DEF Crash
  <2> QED BY <2>1, <2>2, DropsQuiet
<1> QED BY <1>5, <1>6, <1>7, <1>8, <1>9

\* Every step is a billing step or one of the others.
LEMMA StepIs ==
  ASSUME TaskTypeOK, \A v \in Workers : WorkerInv(v), StatusInv, DispatchNext
  PROVE  \E w \in Workers : BillingStep(w) \/ QuietStep(w)
<1>1. "loop" \in Workers /\ "submit" \in Workers /\ "clean" \in Workers
  BY WorkersAre
<1>2. CASE LoopStep
  BY <1>1, <1>2, PollQuiet DEF LoopStep, PollStep
<1>3. CASE DispatchStep
  BY <1>1, <1>3, DispatchQuiet DEF DispatchStep, Submitters
<1>4. CASE \E w \in Workers : Crash(w)
  BY <1>4, DispatchQuiet
<1> QED BY <1>2, <1>3, <1>4 DEF DispatchNext

-----------------------------------------------------------------------------
(* Types, statuses and where the workers are                               *)

CoreInv == TaskTypeOK /\ StatusInv /\ \A w \in Workers : WorkerInv(w)

\* A worker that does not move keeps its place.
LEMMA OthersKeep ==
  ASSUME NEW v \in Workers, WorkerInv(v), pc'[v] = pc[v], mem'[v] = mem[v],
         UNCHANGED platform,
         \/ UNCHANGED row
         \/ row.status \in Terminal /\ row'.status = row.status
         \/ /\ row.status \notin Terminal /\ row'.status \notin Queued
            /\ v # "loop" \/ row.status \in Queued
         \/ row.status = "NOT_START"
  PROVE  WorkerInv(v)'
BY DEF WorkerInv, Bills, Terminal, Queued, Unfinished

LEMMA BillingCore ==
  ASSUME CoreInv, LoopInv, NEW w \in Workers, BillingStep(w)
  PROVE  CoreInv' /\ row'.status = row.status
<1>0. TaskTypeOK /\ StatusInv /\ \A v \in Workers : WorkerInv(v)
  BY DEF CoreInv
<1>1. /\ mem[w].status = row.status
      /\ \/ w = "loop" /\ row.status = "SUCCESS"
         \/ Bills(w) /\ row.status = "FAILURE"
  BY <1>0, BillingAt
<1>2. /\ Frame(w)
      /\ fundingTaken' \in Int /\ rewardTaken' \in Int /\ tokenTaken' \in Int
      /\ tokenSkipped' \in BOOLEAN /\ rebates' \subseteq Amount /\ profits' \subseteq Amount
      /\ row.status = "SUCCESS" => pc'[w] \in SettleSteps \cup {"idle"}
      /\ row.status = "FAILURE" => /\ pc'[w] \in RefundSteps \cup {"idle"}
                                   /\ pc'[w] \in Moving => mem'[w].target = 0
  BY <1>0, BillingGoes
<1>3. /\ UNCHANGED taskFacts /\ UNCHANGED crashes /\ row'.status = row.status
      /\ mem'[w].status = mem[w].status
      /\ \A v \in Workers \ {w} : pc'[v] = pc[v] /\ mem'[v] = mem[v]
  BY <1>2 DEF Frame, Reach
<1>4. TaskTypeOK'
  BY <1>0, <1>2 DEF TaskTypeOK, Frame, Reach, taskFacts
<1>5. StatusInv'
  BY <1>0, <1>3 DEF StatusInv, taskFacts
<1>6. WorkerInv(w)'
  BY <1>1, <1>2, <1>3 DEF WorkerInv, Bills, taskFacts
<1>7. ASSUME NEW v \in Workers \ {w} PROVE WorkerInv(v)'
  BY <1>0, <1>1, <1>3, OthersKeep DEF Terminal, taskFacts
<1> QED BY <1>3, <1>4, <1>5, <1>6, <1>7 DEF CoreInv

LEMMA QuietCore ==
  ASSUME CoreInv, NEW w \in Workers, QuietStep(w)
  PROVE  CoreInv' /\ (row.status \in Terminal => row'.status = row.status)
<1>0. /\ TaskTypeOK /\ StatusInv /\ \A v \in Workers : WorkerInv(v)
      /\ row \in Row /\ row.status \in Unfinished \cup Terminal \cup Queued
  BY DEF CoreInv, TaskTypeOK, Row
<1>1. /\ UNCHANGED <<taskFacts, stores, records>> /\ crashes' \in 0 .. MaxCrashes /\ Reach(w)
      /\ \A v \in Workers \ {w} : pc'[v] = pc[v] /\ mem'[v] = mem[v]
  BY DEF QuietStep, Reach
<1>2. TaskTypeOK'
  BY <1>0, <1>1 DEF TaskTypeOK, Reach, taskFacts, stores, records
<1>3. /\ As("IN_PROGRESS").status = "IN_PROGRESS" /\ As("FAILURE").status = "FAILURE"
      /\ As("SUCCESS").status = "SUCCESS" /\ As("SUBMITTED").status = "SUBMITTED"
      /\ As("DISPATCHING").status = "DISPATCHING"
  BY <1>0, AsTyped DEF Unfinished, Terminal, Queued
<1>4. /\ \/ UNCHANGED row
         \/ /\ row.status \notin Terminal /\ row'.status \notin Queued
            /\ w = "loop" \/ row.status \in Queued
         \/ w = "submit" /\ platform = "h3" /\ row.status = "NOT_START" /\ row'.status = "DISPATCHING"
  BY <1>3 DEF QuietStep, Drops, Reads, Passes, Succeeds, Fails, Resumes, Claims, Moves,
     Terminal, Unfinished, Queued
<1>5. StatusInv'
  BY <1>0, <1>1, <1>4 DEF StatusInv, taskFacts
<1>6. ASSUME NEW v \in Workers \ {w} PROVE WorkerInv(v)'
  BY <1>0, <1>1, <1>4, OthersKeep DEF taskFacts
<1>7. WorkerInv(w)'
  <2>0. UNCHANGED platform
    BY <1>1 DEF taskFacts
  <2>1. CASE Drops(w) \/ Passes(w)
    BY <2>1 DEF Drops, Passes, Moves, WorkerInv
  <2>2. CASE Reads(w)
    BY <2>0, <2>2 DEF Reads, Moves, WorkerInv, Bills, Submitters
  <2>3. CASE Succeeds(w)
    <3>1. PICK actual \in Amount :
            Moves(w, AfterSuccess(actual), [As("SUCCESS") EXCEPT !.target = actual], As("SUCCESS"))
      BY <2>3 DEF Succeeds
    <3>2. AfterSuccess(actual) \in SettleSteps
      <4>1. actual \in Nat
        BY TaskBoundsAssumption DEF Amount
      <4> QED BY <4>1 DEF AfterSuccess, SettleSteps
    <3>3. [As("SUCCESS") EXCEPT !.target = actual].status = "SUCCESS"
      BY <1>0, <1>3 DEF As, Row
    <3> QED BY <1>3, <2>3, <3>1, <3>2, <3>3 DEF Succeeds, Moves, WorkerInv
  <2>4. CASE Fails(w)
    BY <1>3, <2>0, <2>4 DEF Fails, Moves, WorkerInv, Bills, RefundSteps, Moving
  <2>5. CASE Resumes(w)
    BY <2>0, <2>5 DEF Resumes, Moves, WorkerInv, Bills, RefundSteps, SettleSteps, Moving, Terminal
  <2>6. CASE Claims(w)
    BY <1>3, <2>0, <2>6 DEF Claims, Moves, WorkerInv, Bills, Submitters
  <2> QED BY <2>1, <2>2, <2>3, <2>4, <2>5, <2>6 DEF QuietStep
<1>8. row.status \in Terminal => row'.status = row.status
  BY <1>4 DEF Terminal
<1> QED BY <1>2, <1>5, <1>6, <1>7, <1>8 DEF CoreInv

-----------------------------------------------------------------------------
(* What the stores hold                                                    *)

\* As long as no store and no fact of the task changes, a row or copy that
\* matches the stores still does.
LEMMA MatchKept ==
  ASSUME UNCHANGED <<taskFacts, stores>>
  PROVE  /\ row' = row => /\ Settled(row)' = Settled(row) /\ Checked(row)' = Checked(row)
         /\ mem'["loop"] = mem["loop"] =>
              /\ Settled(mem["loop"])' = Settled(mem["loop"])
              /\ Checked(mem["loop"])' = Checked(mem["loop"])
BY DEF taskFacts, stores, Settled, Checked, Aimed, Split, Owes, TokenCounts,
   taskRefundQuota, taskTokenQuotaRequired

\* The loop's copy needs nothing at idle; the row must match.
LEMMA IdleLoop ==
  ASSUME pc'["loop"] \in {"idle", "loaded"}, Sole' => Settled(row)' \/ Checked(row)'
  PROVE  LoopInv'
BY DEF LoopInv, CopyInv

\* A row that is not terminal is settled, under any status.
LEMMA SettledAs ==
  ASSUME TaskTypeOK, Settled(row), ~row.refunded, UNCHANGED <<taskFacts, stores>>,
         NEW s \in Unfinished \cup Terminal \cup Queued, row' = As(s)
  PROVE  Settled(row)' /\ ~row'.refunded /\ ~row'.pending
<1>1. /\ row'.quota = row.quota /\ row'.pending = row.pending /\ row'.refunded = row.refunded
      /\ row'.reward = row.reward /\ row'.paid = row.paid
  BY AsTyped
<1> QED BY <1>1 DEF Settled, Split, Owes, TokenCounts, taskRefundQuota, taskTokenQuotaRequired,
           taskFacts, stores

LEMMA QuietLoop ==
  ASSUME CoreInv, LoopInv, NEW w \in Workers, QuietStep(w)
  PROVE  LoopInv'
<1>0. /\ TaskTypeOK /\ StatusInv /\ row \in Row /\ "loop" \in Workers
      /\ WorkerInv("loop") /\ row.status \in Unfinished \cup Terminal \cup Queued
  BY WorkersAre DEF CoreInv, TaskTypeOK, Row
<1>1. /\ UNCHANGED <<taskFacts, stores>> /\ UNCHANGED platform
      /\ w # "loop" => pc'["loop"] = pc["loop"] /\ mem'["loop"] = mem["loop"]
  BY <1>0 DEF QuietStep, Reach, taskFacts
<1>2. row.status \in Terminal => row'.status = row.status
  BY QuietCore
<1>3. SUFFICES ASSUME Sole' PROVE LoopInv'
  BY DEF LoopInv
<1>4. Sole
  BY <1>1, <1>2, <1>3 DEF Sole, Terminal
<1>5. /\ pc["loop"] \notin Committing => Settled(row) \/ Checked(row)
      /\ CopyInv(mem["loop"], pc["loop"])
  BY <1>4 DEF LoopInv
<1>6. row.status \notin Terminal =>
        pc["loop"] \in {"idle", "loaded"} /\ Settled(row) /\ ~row.refunded
  <2> SUFFICES ASSUME row.status \notin Terminal
               PROVE  pc["loop"] \in {"idle", "loaded"} /\ Settled(row) /\ ~row.refunded
    OBVIOUS
  <2>1. pc["loop"] \in {"idle", "loaded"}
    BY <1>0 DEF WorkerInv, Terminal
  <2>2. ~Checked(row)
    BY DEF Checked, Aimed, Terminal
  <2> QED BY <1>5, <2>1, <2>2 DEF Committing, Settled, Terminal
<1>7. row.status \in Queued => pc["loop"] = "idle"
  BY <1>0 DEF WorkerInv, Queued, Unfinished
<1>8. CASE Drops(w)
  <2>1. row' = row /\ mem'[w] = mem[w]
    BY <1>8 DEF Drops, Moves
  <2>2. CASE w = "loop"
    <3>1. Settled(row)' \/ Checked(row)'
      BY <1>1, <1>5, <1>8, <2>1, <2>2, MatchKept DEF Drops
    <3> QED BY <1>8, <2>2, <3>1, IdleLoop DEF Drops, Moves
  <2>3. CASE w # "loop"
    <3>1. pc'["loop"] = pc["loop"] /\ mem'["loop"] = mem["loop"]
      BY <1>1, <2>3
    <3> QED BY <1>1, <1>5, <2>1, <3>1
            DEF LoopInv, CopyInv, taskFacts, stores, Settled, Checked, Aimed, Split, Owes,
                TokenCounts, taskRefundQuota, taskTokenQuotaRequired
  <2> QED BY <2>2, <2>3
<1>9. CASE Reads(w)
  <2>1. row' = row /\ pc'["loop"] \in {"idle", "loaded"} /\ row.status \notin Terminal
    BY <1>1, <1>6, <1>9 DEF Reads, Moves, Unfinished, Terminal
  <2>2. Settled(row)'
    BY <1>1, <1>6, <2>1, MatchKept
  <2> QED BY <2>1, <2>2, IdleLoop
<1>10. CASE Passes(w)
  <2>1. /\ row.status \notin Terminal /\ pc'["loop"] \in {"idle", "loaded"}
        /\ \E s \in Unfinished \cup Terminal \cup Queued : row' = As(s)
    BY <1>1, <1>6, <1>10 DEF Passes, Moves, Unfinished, Terminal, Queued
  <2>2. Settled(row)'
    BY <1>0, <1>1, <1>6, <2>1, SettledAs
  <2> QED BY <2>1, <2>2, IdleLoop
<1>11. CASE Succeeds(w)
  <2>1. w = "loop" /\ row.status \notin Terminal
    BY <1>11 DEF Succeeds, Unfinished, Terminal
  <2>2. PICK actual \in Amount :
          Moves(w, AfterSuccess(actual), [As("SUCCESS") EXCEPT !.target = actual], As("SUCCESS"))
    BY <1>11 DEF Succeeds
  <2> DEFINE t == mem'["loop"]
  <2>3. row' = As("SUCCESS") /\ pc'["loop"] = AfterSuccess(actual)
        /\ t = [As("SUCCESS") EXCEPT !.target = actual]
    BY <2>1, <2>2 DEF Moves
  <2>4. Settled(row)' /\ ~row'.refunded /\ ~row'.pending
    <3>1. "SUCCESS" \in Unfinished \cup Terminal \cup Queued
      BY DEF Terminal
    <3> QED BY <1>0, <1>1, <1>6, <2>1, <2>3, <3>1, SettledAs
  <2>5. /\ t.quota = row'.quota /\ t.pending = row'.pending /\ t.refunded = row'.refunded
        /\ t.reward = row'.reward /\ t.paid = row'.paid /\ t.status = row'.status
        /\ t.target = actual
    BY <1>0, <2>3 DEF As, Row
  <2>6. Settled(mem["loop"])'
    BY <2>4, <2>5 DEF Settled, Split, Owes, taskRefundQuota
  <2>7. /\ actual \in Nat
        /\ \/ AfterSuccess(actual) = "settle" /\ actual > 0
           \/ AfterSuccess(actual) \in {"profit", "rebate"}
    <3>1. actual \in Nat
      BY TaskBoundsAssumption DEF Amount
    <3> QED BY <3>1 DEF AfterSuccess
  <2> HIDE DEF t
  <2> QED BY <2>3, <2>4, <2>5, <2>6, <2>7 DEF LoopInv, CopyInv, t
<1>12. CASE Fails(w)
  <2>1. PICK p \in {"refund", "idle"} : Moves(w, p, As("FAILURE"), As("FAILURE"))
    BY <1>12 DEF Fails
  <2>2. row' = As("FAILURE") /\ As("FAILURE").status = "FAILURE"
    BY <1>0, <2>1, AsTyped DEF Moves, Terminal
  <2>3. platform # "h3"
    BY <1>1, <1>3, <2>2 DEF Sole
  <2>4. w = "loop" /\ row.status \notin Terminal
    BY <1>12, <2>3 DEF Fails, Unfinished, Terminal
  <2>5. Settled(row)'
    <3>1. "FAILURE" \in Unfinished \cup Terminal \cup Queued
      BY DEF Terminal
    <3> QED BY <1>0, <1>1, <1>6, <2>2, <2>4, <3>1, SettledAs
  <2>6. mem'["loop"] = row' /\ pc'["loop"] = p
    BY <2>1, <2>4 DEF Moves
  <2>7. Settled(mem["loop"])'
    BY <2>5, <2>6 DEF Settled, Split, Owes, taskRefundQuota
  <2> QED BY <2>5, <2>6, <2>7 DEF LoopInv, CopyInv
<1>13. CASE Resumes(w)
  <2>1. /\ row' = row /\ mem'["loop"] = row /\ row.pending /\ w = "loop"
        /\ pc'["loop"] \in {"refund", "funding"} /\ pc["loop"] = "idle"
    BY <1>13 DEF Resumes, Moves
  <2>2. Checked(row)
    BY <1>5, <2>1 DEF Settled, Committing
  <2>3. Checked(row)'
    BY <1>1, <2>1, <2>2, MatchKept
  <2>4. Checked(mem["loop"])'
    BY <2>1, <2>3 DEF Checked, Aimed, Split
  <2> QED BY <2>1, <2>3, <2>4 DEF LoopInv, CopyInv
<1>14. CASE Claims(w)
  <2>1. /\ row.status \notin Terminal /\ pc'["loop"] \in {"idle", "loaded"}
        /\ \E s \in Unfinished \cup Terminal \cup Queued : row' = As(s)
    BY <1>1, <1>6, <1>14 DEF Claims, Moves, Unfinished, Terminal, Queued
  <2>2. Settled(row)'
    BY <1>0, <1>1, <1>6, <2>1, SettledAs
  <2> QED BY <2>1, <2>2, IdleLoop
<1> QED BY <1>8, <1>9, <1>10, <1>11, <1>12, <1>13, <1>14 DEF QuietStep

\* Where the loop stands when it bills alone.
LEMMA SoleBills ==
  ASSUME CoreInv, LoopInv, NEW w \in Workers, BillingStep(w), Sole'
  PROVE  /\ w = "loop" /\ Sole /\ row.status \in Terminal /\ mem["loop"] \in Row /\ row \in Row
         /\ TaskTypeOK /\ StatusInv /\ mem["loop"].status = row.status
         /\ UNCHANGED taskFacts /\ Frame("loop")
         /\ pc["loop"] \notin Committing => Settled(row) \/ Checked(row)
         /\ CopyInv(mem["loop"], pc["loop"])
<1>0. /\ TaskTypeOK /\ StatusInv /\ row \in Row /\ "loop" \in Workers /\ mem["loop"] \in Row
      /\ \A v \in Workers : WorkerInv(v)
  BY WorkersAre DEF CoreInv, TaskTypeOK
<1>1. row'.status = row.status /\ Frame(w) /\ UNCHANGED taskFacts
  BY <1>0, BillingCore, BillingGoes DEF Frame, Reach
<1>2. Sole
  BY <1>1 DEF Sole, taskFacts
<1>3. w = "loop" /\ mem["loop"].status = row.status /\ row.status \in Terminal
  BY <1>0, <1>2, BillingAt DEF Sole, Bills, Submitters, Terminal
<1> QED BY <1>0, <1>1, <1>2, <1>3 DEF LoopInv

LEMMA StartRefundLoop ==
  ASSUME CoreInv, LoopInv, StartRefund("loop"), Sole'
  PROVE  LoopInv'
<1> DEFINE m == mem["loop"]
<1>1. /\ row.status \in Terminal /\ m \in Row /\ row \in Row /\ TaskTypeOK
      /\ m.status = row.status /\ UNCHANGED taskFacts /\ "loop" \in Workers
      /\ pc["loop"] \notin Committing => Settled(row) \/ Checked(row)
      /\ CopyInv(m, pc["loop"])
  BY WorkersAre, SoleBills DEF BillingStep
<1>2. /\ pc["loop"] = "refund" /\ UNCHANGED <<stores, records>>
      /\ \/ Moves("loop", "idle", m, row)
         \/ /\ ~NothingToRefund(m)
            /\ Moves("loop", "funding", RefundCheckpoint(m), RefundCheckpoint(m))
  BY <1>1, StartRefundDoes
<1>3. CASE Moves("loop", "idle", m, row)
  <2>1. Settled(row)' \/ Checked(row)'
    BY <1>1, <1>2, <1>3, MatchKept DEF Moves, Committing
  <2> QED BY <1>3, <2>1, IdleLoop DEF Moves
<1>4. CASE /\ ~NothingToRefund(m)
           /\ Moves("loop", "funding", RefundCheckpoint(m), RefundCheckpoint(m))
  <2> DEFINE r == row'
  <2>1. r = RefundCheckpoint(m) /\ mem'["loop"] = r /\ pc'["loop"] = "funding"
    BY <1>4 DEF Moves
  <2>2. /\ r.status = m.status /\ r.refunded = m.refunded /\ r.reward = m.reward
        /\ r.paid = m.paid /\ r.pending /\ r.target = 0
        /\ r.fAmt = (IF m.pending THEN m.fAmt ELSE taskRefundQuota(m))
        /\ r.tAmt = (IF m.pending THEN m.tAmt ELSE taskRefundQuota(m))
        /\ (r.fDone <=> r.fAmt = 0) /\ (r.tDone <=> r.tAmt = 0 \/ ~taskTokenQuotaRequired)
    BY <1>1, <2>1, RefundCheckpointTyped
  <2>3. Settled(m) \/ Checked(m)
    BY <1>1, <1>2 DEF CopyInv
  <2>4. ~m.refunded
    BY <1>4 DEF NothingToRefund
  <2>5. m.status = "FAILURE"
    BY <1>1, <1>2, WorkersAre DEF CoreInv, WorkerInv, SettleSteps
  <2> HIDE DEF r, m
  <2>6. Aimed(row)'
    BY <1>1, <2>2, <2>4, <2>5 DEF Aimed, r, taskFacts, taskTokenQuotaRequired
  <2>7. fundingTaken = r.fAmt /\ (TokenCounts => tokenTaken = r.tAmt) /\ Split(m)
    BY <2>2, <2>3, <2>4 DEF Settled, Checked, Aimed, Owes
  <2>8. Checked(row)'
    BY <1>1, <1>2, <2>2, <2>6, <2>7
    DEF Checked, Split, TokenCounts, taskTokenQuotaRequired, taskFacts, stores, r
  <2>9. Checked(mem["loop"])'
    BY <2>1, <2>8 DEF Checked, Aimed, Split, r
  <2> QED BY <2>1, <2>8, <2>9 DEF LoopInv, CopyInv, r
<1> QED BY <1>2, <1>3, <1>4

LEMMA StartSettleLoop ==
  ASSUME CoreInv, LoopInv, StartSettle("loop"), Sole'
  PROVE  LoopInv'
<1> DEFINE m == mem["loop"]
           actual == m.target
           before == [m EXCEPT !.target = 0]
           exact == [before EXCEPT !.quota = actual]
           t == Checkpoint(before, taskRefundQuota(before), actual)
<1>1. /\ row.status \in Terminal /\ m \in Row /\ row \in Row /\ TaskTypeOK
      /\ m.status = row.status /\ UNCHANGED taskFacts /\ "loop" \in Workers
      /\ pc["loop"] \notin Committing => Settled(row) \/ Checked(row)
      /\ CopyInv(m, pc["loop"])
  BY WorkersAre, SoleBills DEF BillingStep
<1>2. /\ pc["loop"] = "settle" /\ UNCHANGED <<stores, records>>
      /\ \/ /\ actual = taskRefundQuota(before)
            /\ Moves("loop", "profit", exact, exact) \/ Moves("loop", "profit", exact, row)
         \/ /\ actual # taskRefundQuota(before)
            /\ Moves("loop", "funding", t, t) \/ Moves("loop", Abandoned("loop"), t, row)
  BY <1>1, StartSettleDoes
<1>3. m.status = "SUCCESS"
  BY <1>1, <1>2, WorkersAre DEF CoreInv, WorkerInv, RefundSteps
<1>4. Settled(m) /\ m.target > 0 /\ ~row.pending /\ ~m.refunded /\ ~m.pending
  BY <1>1, <1>2, <1>3 DEF CopyInv, Settled
<1>5. /\ before \in Row /\ before.status = m.status /\ before.refunded = m.refunded
      /\ before.reward = m.reward /\ before.paid = m.paid /\ before.quota = m.quota
      /\ before.pending = m.pending
  BY <1>1, TaskBoundsAssumption DEF Row, Amount
<1>6. taskRefundQuota(before) = taskRefundQuota(m)
  BY <1>5 DEF taskRefundQuota
<1>7. row' = row => Settled(row)'
  BY <1>1, <1>2, <1>4, MatchKept DEF Checked, Aimed, Committing
<1>8. CASE /\ actual = taskRefundQuota(before)
           /\ Moves("loop", "profit", exact, exact) \/ Moves("loop", "profit", exact, row)
  <2> DEFINE x == mem'["loop"]
  <2>1. x = exact /\ pc'["loop"] = "profit" /\ (row' = x \/ row' = row)
    BY <1>8 DEF Moves
  <2>2. /\ x.status = m.status /\ x.refunded = m.refunded /\ x.pending = m.pending
        /\ x.reward = m.reward /\ x.paid = m.paid /\ x.quota = actual
    BY <1>1, <1>5, <2>1 DEF Row
  <2> HIDE DEF x, exact, before, t
  <2>3. Settled(mem["loop"])'
    BY <1>1, <1>2, <1>4, <1>6, <1>8, <2>2
    DEF Settled, Split, Owes, TokenCounts, taskRefundQuota, taskTokenQuotaRequired,
        taskFacts, stores, x
  <2>4. ~row'.pending
    BY <1>4, <2>1, <2>2
  <2>5. Settled(row)'
    <3>1. CASE row' = row
      BY <1>7, <3>1
    <3>2. CASE row' = x
      BY <2>3, <3>2 DEF Settled, Split, Owes, taskRefundQuota, x
    <3> QED BY <2>1, <3>1, <3>2
  <2> QED BY <1>4, <2>1, <2>2, <2>3, <2>4, <2>5 DEF LoopInv, CopyInv, x
<1>9. CASE /\ actual # taskRefundQuota(before)
           /\ Moves("loop", "funding", t, t) \/ Moves("loop", Abandoned("loop"), t, row)
  <2> DEFINE x == mem'["loop"]
  <2>1. x = t /\ \/ pc'["loop"] = "funding" /\ row' = x
                 \/ pc'["loop"] = "profit" /\ row' = row
    BY <1>3, <1>9 DEF Moves, Abandoned
  <2>2. taskRefundQuota(before) \in Amount /\ actual \in Amount
    BY <1>1, <1>5, RefundQuotaTyped DEF Row
  <2> HIDE DEF before, actual
  <2>3. /\ x.status = before.status /\ x.refunded = before.refunded
        /\ x.reward = before.reward /\ x.paid = before.paid
        /\ x.pending /\ x.target = actual
        /\ x.fAmt = taskRefundQuota(before) /\ x.tAmt = taskRefundQuota(before)
        /\ (x.fDone <=> taskRefundQuota(before) = actual)
        /\ (x.tDone <=> taskRefundQuota(before) = actual \/ ~taskTokenQuotaRequired)
    BY <1>1, <1>5, <2>1, <2>2, CheckpointTyped
  <2> HIDE DEF x, t
  <2>4. Aimed(mem["loop"])'
    BY <1>1, <1>3, <1>4, <1>5, <2>3
    DEF Aimed, x, taskFacts, taskTokenQuotaRequired, actual
  <2>5. Checked(mem["loop"])'
    BY <1>1, <1>2, <1>4, <1>5, <1>6, <2>3, <2>4
    DEF Checked, Settled, Owes, Split, TokenCounts, taskTokenQuotaRequired, taskFacts, stores, x
  <2>6. CASE pc'["loop"] = "funding" /\ row' = x
    <3>1. Checked(row)'
      BY <2>5, <2>6 DEF Checked, Aimed, Split, x
    <3> QED BY <2>5, <2>6, <3>1 DEF LoopInv, CopyInv, x
  <2>7. CASE pc'["loop"] = "profit" /\ row' = row
    BY <1>4, <1>5, <1>7, <2>3, <2>7 DEF LoopInv, CopyInv, x
  <2> QED BY <2>1, <2>6, <2>7
<1> QED BY <1>2, <1>8, <1>9

\* The rest of a settlement, side by side.
LEMMA SidesLoop ==
  ASSUME CoreInv, LoopInv, Sole',
         \/ SettleFunding("loop") \/ CheckpointFunding("loop")
         \/ SettleToken("loop") \/ CheckpointToken("loop")
  PROVE  LoopInv'
<1> DEFINE m == mem["loop"]
           x == mem'["loop"]
<1>1. /\ row.status \in Terminal /\ m \in Row /\ row \in Row /\ TaskTypeOK /\ StatusInv
      /\ m.status = row.status /\ UNCHANGED taskFacts /\ "loop" \in Workers
      /\ pc["loop"] \notin Committing => Settled(row) \/ Checked(row)
      /\ CopyInv(m, pc["loop"]) /\ WorkerInv("loop")
  BY WorkersAre, SoleBills DEF BillingStep, CoreInv
<1>2. /\ m.target \in Nat /\ m.fAmt \in Nat /\ m.tAmt \in Nat /\ m.reward \in Nat
      /\ m.paid \in Nat /\ fundingTaken \in Int /\ rewardTaken \in Int /\ tokenTaken \in Int
  BY <1>1, TaskBoundsAssumption DEF Row, Amount, TaskTypeOK
<1>3. ASSUME Moves("loop", Abandoned("loop"), m, row), UNCHANGED stores, Checked(m),
             pc["loop"] \notin Committing
      PROVE  LoopInv'
  <2>1. row' = row /\ x = m /\ pc'["loop"] \in {"idle", "profit"}
    BY <1>3 DEF Moves, Abandoned
  <2>2. Settled(row)' \/ Checked(row)'
    BY <1>1, <1>3, <2>1, MatchKept
  <2>3. x.pending /\ ~x.refunded
    BY <1>3, <2>1 DEF Checked, Aimed
  <2> QED BY <2>1, <2>2, <2>3 DEF LoopInv, CopyInv
<1>4. CASE SettleFunding("loop")
  <2>1. recorded /\ m.target > m.fAmt => m.reward + m.paid = m.fAmt
    BY <1>1, <1>4, ChargeFits
  <2>2. /\ pc["loop"] = "funding" /\ UNCHANGED <<row, tokenTaken, tokenSkipped>>
        /\ \/ /\ m.fDone /\ Moves("loop", "token", m, row)
              /\ UNCHANGED <<fundingTaken, rewardTaken>>
           \/ /\ ~m.fDone /\ Moves("loop", Abandoned("loop"), m, row)
              /\ UNCHANGED <<fundingTaken, rewardTaken>>
           \/ LET delta == m.target - m.fAmt
              IN  /\ ~m.fDone /\ pc'["loop"] = "ckFunding" /\ OnlySplit(m, x)
                  /\ fundingTaken' \in Int /\ rewardTaken' \in Int
                  /\ fundingTaken + delta >= 0 => fundingTaken' = fundingTaken + delta
                  /\ recorded => /\ x.reward - m.reward = rewardTaken' - rewardTaken
                                 /\ x.reward + x.paid = m.reward + m.paid + delta
    BY <1>1, <1>4, <2>1, SettleFundingDoes DEF records
  <2>3. Checked(m) /\ m = row
    BY <1>1, <2>2 DEF CopyInv
  <2>4. CASE /\ m.fDone /\ Moves("loop", "token", m, row)
             /\ UNCHANGED <<fundingTaken, rewardTaken>>
    <3>1. row' = row /\ x = m /\ pc'["loop"] = "token" /\ UNCHANGED stores
      BY <2>2, <2>4 DEF Moves, stores
    <3>2. Checked(row)' /\ Checked(mem["loop"])'
      BY <1>1, <2>3, <3>1, MatchKept
    <3>3. x.fDone /\ row'.fDone
      BY <2>3, <2>4, <3>1
    <3> QED BY <3>1, <3>2, <3>3 DEF LoopInv, CopyInv
  <2>5. CASE /\ ~m.fDone /\ Moves("loop", Abandoned("loop"), m, row)
             /\ UNCHANGED <<fundingTaken, rewardTaken>>
    BY <1>3, <2>2, <2>3, <2>5 DEF stores, Committing
  <2>6. CASE pc'["loop"] = "ckFunding"
    <3> DEFINE delta == m.target - m.fAmt
    <3>1. /\ ~m.fDone /\ OnlySplit(m, x) /\ fundingTaken' \in Int /\ rewardTaken' \in Int
          /\ fundingTaken + delta >= 0 => fundingTaken' = fundingTaken + delta
          /\ recorded => /\ x.reward - m.reward = rewardTaken' - rewardTaken
                         /\ x.reward + x.paid = m.reward + m.paid + delta
      BY <2>2, <2>6 DEF Moves, Abandoned
    <3>2. fundingTaken = m.fAmt
      BY <2>3 DEF Checked
    <3>3. fundingTaken' = m.target
      BY <1>2, <3>1, <3>2
    <3>4. x \in Row
      BY <1>1, SoleBills DEF BillingStep, Frame, Reach, CoreInv
    <3>5. x.reward \in Nat /\ x.paid \in Nat
      BY <3>4, TaskBoundsAssumption DEF Row, Amount
    <3>6. recorded => m.reward = rewardTaken /\ m.reward + m.paid = fundingTaken
      BY <2>3 DEF Checked, Split
    <3>7. recorded => x.reward = rewardTaken' /\ x.reward + x.paid = fundingTaken'
      <4> SUFFICES ASSUME recorded
                   PROVE  x.reward = rewardTaken' /\ x.reward + x.paid = fundingTaken'
        OBVIOUS
      <4> HIDE DEF x, m
      <4>1. x.reward - m.reward = rewardTaken' - m.reward /\ m.reward + m.paid = m.fAmt
        BY <3>1, <3>2, <3>6
      <4>2. x.reward + x.paid = m.fAmt + (m.target - m.fAmt)
        BY <3>1, <4>1
      <4>3. rewardTaken' \in Int
        BY <3>1
      <4>4. \A a, b, c \in Int : a - b = c - b => a = c
        OBVIOUS
      <4>5. \A a, b \in Int : a + (b - a) = b
        OBVIOUS
      <4>6. m.reward \in Int /\ x.reward \in Int /\ m.fAmt \in Int /\ m.target \in Int
        BY <1>2, <3>5
      <4>7. x.reward = rewardTaken'
        BY <4>1, <4>3, <4>4, <4>6
      <4>8. x.reward + x.paid = m.target
        BY <4>2, <4>5, <4>6
      <4> QED BY <3>3, <4>7, <4>8
    <3> HIDE DEF x
    <3>8. Split(mem["loop"])'
      BY <1>1, <3>7 DEF Split, taskFacts, x
    <3>9. Aimed(mem["loop"])'
      BY <1>1, <2>3, <3>1 DEF Checked, Aimed, OnlySplit, taskFacts, taskTokenQuotaRequired, x
    <3>10. ~x.fDone /\ x.target = m.target /\ x.tAmt = m.tAmt
      BY <3>1 DEF OnlySplit
    <3>11. TokenCounts' => tokenTaken' = x.tAmt
      BY <1>1, <2>2, <2>3, <3>10 DEF Checked, TokenCounts, taskTokenQuotaRequired, taskFacts
    <3> QED BY <2>6, <3>3, <3>8, <3>9, <3>10, <3>11 DEF LoopInv, CopyInv, Committing, x
  <2> QED BY <2>2, <2>4, <2>5, <2>6
<1>5. CASE CheckpointFunding("loop")
  <2>1. /\ pc["loop"] = "ckFunding" /\ UNCHANGED stores
        /\ Moves("loop", "token", FundingDone(m), FundingDone(m))
    BY <1>1, <1>5, CheckpointFundingDoes
  <2>2. row' = x /\ pc'["loop"] = "token" /\ x = FundingDone(m)
    BY <2>1 DEF Moves
  <2>3. /\ x.status = m.status /\ x.pending = m.pending /\ x.target = m.target
        /\ x.fAmt = m.target /\ x.fDone = TRUE /\ x.tAmt = m.tAmt /\ x.tDone = m.tDone
        /\ x.refunded = m.refunded /\ x.reward = m.reward /\ x.paid = m.paid
    BY <1>1, <2>2 DEF FundingDone, Row
  <2>4. /\ Aimed(m) /\ Split(m) /\ fundingTaken = m.target
        /\ TokenCounts => tokenTaken = m.tAmt
    BY <1>1, <2>1 DEF CopyInv
  <2> HIDE DEF x
  <2>5. Aimed(mem["loop"])'
    BY <1>1, <2>3, <2>4 DEF Aimed, taskFacts, taskTokenQuotaRequired, x
  <2>6. Checked(mem["loop"])'
    BY <1>1, <2>1, <2>3, <2>4, <2>5
    DEF Checked, Split, TokenCounts, taskTokenQuotaRequired, taskFacts, stores, x
  <2>7. Checked(row)'
    BY <2>2, <2>6 DEF Checked, Aimed, Split, x
  <2> QED BY <2>2, <2>3, <2>6, <2>7 DEF LoopInv, CopyInv, x
<1>6. CASE SettleToken("loop")
  <2>1. /\ pc["loop"] = "token" /\ UNCHANGED <<row, fundingTaken, rewardTaken>>
        /\ \/ /\ m.tDone /\ Moves("loop", "complete", m, row)
              /\ UNCHANGED <<tokenTaken, tokenSkipped>>
           \/ /\ ~m.tDone /\ Moves("loop", "ckToken", m, row)
              /\ tokenTaken' = tokenTaken + (m.target - m.tAmt) /\ UNCHANGED tokenSkipped
           \/ /\ ~m.tDone /\ Moves("loop", "ckToken", m, row)
              /\ tokenSkipped' = TRUE /\ UNCHANGED tokenTaken
           \/ /\ ~m.tDone /\ Moves("loop", Abandoned("loop"), m, row)
              /\ UNCHANGED <<tokenTaken, tokenSkipped>>
    BY <1>1, <1>6, SettleTokenDoes
  <2>2. Checked(m) /\ m.fDone /\ row.fDone
    BY <1>1, <2>1 DEF CopyInv
  <2>3. CASE /\ m.tDone /\ Moves("loop", "complete", m, row)
             /\ UNCHANGED <<tokenTaken, tokenSkipped>>
    <3>1. row' = row /\ x = m /\ pc'["loop"] = "complete" /\ UNCHANGED stores
      BY <2>1, <2>3 DEF Moves, stores
    <3>2. Checked(mem["loop"])' /\ (Settled(row)' \/ Checked(row)')
      BY <1>1, <2>1, <2>2, <3>1, MatchKept DEF Committing
    <3>3. x.fDone /\ x.tDone /\ row'.fDone
      BY <2>2, <2>3, <3>1
    <3> QED BY <3>1, <3>2, <3>3 DEF LoopInv, CopyInv
  <2>4. CASE /\ ~m.tDone /\ Moves("loop", Abandoned("loop"), m, row)
             /\ UNCHANGED <<tokenTaken, tokenSkipped>>
    BY <1>3, <2>1, <2>2, <2>4 DEF stores, Committing
  <2>5. CASE /\ ~m.tDone /\ Moves("loop", "ckToken", m, row)
             /\ \/ tokenTaken' = tokenTaken + (m.target - m.tAmt) /\ UNCHANGED tokenSkipped
                \/ tokenSkipped' = TRUE /\ UNCHANGED tokenTaken
    <3>1. x = m /\ pc'["loop"] = "ckToken" /\ row'.fDone
      BY <2>1, <2>2, <2>5 DEF Moves
    <3>2. TokenCounts' => tokenTaken' = m.target
      <4> SUFFICES ASSUME TokenCounts' PROVE tokenTaken' = m.target
        OBVIOUS
      <4>1. ~tokenSkipped' /\ TokenCounts
        BY <1>1, <2>5 DEF TokenCounts, taskTokenQuotaRequired, taskFacts
      <4>2. tokenTaken = m.tAmt /\ tokenTaken' = tokenTaken + (m.target - m.tAmt)
        BY <2>2, <2>5, <4>1 DEF Checked
      <4> QED BY <1>2, <4>2
    <3> HIDE DEF x, m
    <3>3. Aimed(mem["loop"])' /\ Split(mem["loop"])' /\ fundingTaken' = x.fAmt
      BY <1>1, <2>1, <2>2, <3>1 DEF Checked, Aimed, Split, taskFacts, taskTokenQuotaRequired, x, m
    <3> QED BY <2>2, <2>5, <3>1, <3>2, <3>3 DEF LoopInv, CopyInv, Committing, x
  <2> QED BY <2>1, <2>3, <2>4, <2>5
<1>7. CASE CheckpointToken("loop")
  <2>1. /\ pc["loop"] = "ckToken" /\ UNCHANGED stores
        /\ Moves("loop", "complete", TokenDone(m), TokenDone(m))
    BY <1>1, <1>7, CheckpointTokenDoes
  <2>2. row' = x /\ pc'["loop"] = "complete" /\ x = TokenDone(m)
    BY <2>1 DEF Moves
  <2>3. /\ x.status = m.status /\ x.pending = m.pending /\ x.target = m.target
        /\ x.fAmt = m.fAmt /\ x.fDone = m.fDone /\ x.tAmt = m.target /\ x.tDone = TRUE
        /\ x.refunded = m.refunded /\ x.reward = m.reward /\ x.paid = m.paid
    BY <1>1, <2>2 DEF TokenDone, Row
  <2>4. /\ Aimed(m) /\ Split(m) /\ fundingTaken = m.fAmt /\ m.fDone
        /\ TokenCounts => tokenTaken = m.target
    BY <1>1, <2>1 DEF CopyInv
  <2> HIDE DEF x
  <2>5. Aimed(mem["loop"])'
    BY <1>1, <2>3, <2>4 DEF Aimed, taskFacts, taskTokenQuotaRequired, x
  <2>6. Checked(mem["loop"])'
    BY <1>1, <2>1, <2>3, <2>4, <2>5
    DEF Checked, Split, TokenCounts, taskTokenQuotaRequired, taskFacts, stores, x
  <2>7. Checked(row)'
    BY <2>2, <2>6 DEF Checked, Aimed, Split, x
  <2> QED BY <2>2, <2>3, <2>4, <2>6, <2>7 DEF LoopInv, CopyInv, x
<1> QED BY <1>4, <1>5, <1>6, <1>7

\* After both sides: the row's final state, profit and rebate.
LEMMA FinalizersLoop ==
  ASSUME CoreInv, LoopInv, Sole',
         \/ CompleteRefund("loop") \/ ForbidRebate("loop") \/ CompleteSettle("loop")
         \/ ApplyProfit("loop") \/ MarkProfit("loop") \/ ApplyRebate("loop") \/ MarkRebate("loop")
  PROVE  LoopInv'
<1> DEFINE m == mem["loop"]
           x == mem'["loop"]
<1>1. /\ row.status \in Terminal /\ m \in Row /\ row \in Row /\ TaskTypeOK /\ StatusInv
      /\ m.status = row.status /\ UNCHANGED taskFacts /\ "loop" \in Workers
      /\ pc["loop"] \notin Committing => Settled(row) \/ Checked(row)
      /\ CopyInv(m, pc["loop"]) /\ WorkerInv("loop")
  BY WorkersAre, SoleBills DEF BillingStep, CoreInv
<1>2. m.target \in Nat /\ subPre \in Nat
  BY <1>1, TaskBoundsAssumption DEF Row, Amount, TaskTypeOK
<1>3. ASSUME row' = row, UNCHANGED stores, pc["loop"] \notin Committing
      PROVE  Settled(row)' \/ Checked(row)'
  BY <1>1, <1>3, MatchKept
\* A copy with one more flag set is as settled as before.
<1>4. ASSUME Settled(m), UNCHANGED stores, x.quota = m.quota, x.pending = m.pending,
             x.refunded = m.refunded, x.reward = m.reward, x.paid = m.paid,
             x.status = m.status
      PROVE  Settled(mem["loop"])'
  BY <1>1, <1>4 DEF Settled, Split, Owes, TokenCounts, taskRefundQuota,
     taskTokenQuotaRequired, taskFacts, stores
<1>5. ASSUME Settled(mem["loop"])', row' = x PROVE Settled(row)'
  BY <1>5 DEF Settled, Split, Owes, taskRefundQuota
<1>6. CASE CompleteRefund("loop")
  <2>1. /\ pc["loop"] = "complete" /\ m.status = "FAILURE" /\ UNCHANGED stores
        /\ \/ Moves("loop", IF recorded THEN "noRebate" ELSE "idle",
                    RefundedCopy(m), RefundedCopy(m))
           \/ Moves("loop", "idle", m, row)
    BY <1>1, <1>6, CompleteRefundDoes
  <2>2. CASE Moves("loop", "idle", m, row)
    BY <1>3, <2>1, <2>2, IdleLoop DEF Moves, Committing
  <2>3. CASE Moves("loop", IF recorded THEN "noRebate" ELSE "idle",
                   RefundedCopy(m), RefundedCopy(m))
    <3>1. row' = x /\ x = RefundedCopy(m) /\ pc'["loop"] \in {"noRebate", "idle"}
      BY <2>3 DEF Moves
    <3>2. /\ ~x.pending /\ x.refunded /\ x.status = m.status /\ x.reward = m.reward
          /\ x.paid = m.paid
      <4> HIDE DEF x, m
      <4>1. m \in Row /\ x = RefundedCopy(m)
        BY <1>1, <3>1
      <4>2. /\ ~RefundedCopy(m).pending /\ RefundedCopy(m).refunded
            /\ RefundedCopy(m).status = m.status /\ RefundedCopy(m).reward = m.reward
            /\ RefundedCopy(m).paid = m.paid
        BY <1>1, <4>1, CopiesTyped
      <4> QED BY <4>1, <4>2
    <3>3. Checked(m) /\ m.fDone /\ m.tDone
      BY <1>1, <2>1 DEF CopyInv
    <3>4. fundingTaken = 0 /\ (TokenCounts => tokenTaken = 0) /\ Split(m)
      BY <2>1, <3>3 DEF Checked, Aimed, TokenCounts
    <3> HIDE DEF x
    <3>5. Settled(mem["loop"])'
      BY <1>1, <2>1, <3>2, <3>4
      DEF Settled, Split, Owes, TokenCounts, taskTokenQuotaRequired, taskFacts, stores, x
    <3>6. Settled(row)'
      BY <1>5, <3>1, <3>5
    <3> QED BY <3>1, <3>5, <3>6 DEF LoopInv, CopyInv
  <2> QED BY <2>1, <2>2, <2>3
<1>7. CASE ForbidRebate("loop")
  <2>1. /\ pc["loop"] = "noRebate" /\ UNCHANGED stores
        /\ \/ Moves("loop", "idle", m, row)
           \/ Moves("loop", "idle", m, [m EXCEPT !.rebateSettled = TRUE])
    BY <1>1, <1>7, ForbidRebateDoes
  <2>2. CASE Moves("loop", "idle", m, row)
    BY <1>3, <2>1, <2>2, IdleLoop DEF Moves, Committing
  <2>3. CASE Moves("loop", "idle", m, [m EXCEPT !.rebateSettled = TRUE])
    <3> DEFINE r == row'
    <3>1. r = [m EXCEPT !.rebateSettled = TRUE] /\ pc'["loop"] = "idle"
      BY <2>3 DEF Moves
    <3>2. /\ r.quota = m.quota /\ r.pending = m.pending /\ r.refunded = m.refunded
          /\ r.reward = m.reward /\ r.paid = m.paid /\ r.status = m.status
      BY <1>1, <3>1 DEF Row
    <3>3. Settled(m)
      BY <1>1, <2>1 DEF CopyInv
    <3> HIDE DEF r
    <3>4. Settled(row)'
      BY <1>1, <2>1, <3>2, <3>3
      DEF Settled, Split, Owes, TokenCounts, taskRefundQuota, taskTokenQuotaRequired,
          taskFacts, stores, r
    <3> QED BY <3>1, <3>4, IdleLoop
  <2> QED BY <2>1, <2>2, <2>3
<1>8. CASE CompleteSettle("loop")
  <2>1. /\ pc["loop"] = "complete" /\ m.status = "SUCCESS" /\ UNCHANGED stores
        /\ \/ Moves("loop", "profit", SettledCopy(m), row)
           \/ Moves("loop", "profit", SettledCopy(m), SettledCopy(m))
    BY <1>1, <1>8, CompleteSettleDoes
  <2>2. x = SettledCopy(m) /\ pc'["loop"] = "profit" /\ (row' = row \/ row' = x)
    BY <2>1 DEF Moves
  <2>3. /\ ~x.pending /\ x.refunded = m.refunded /\ x.status = m.status
        /\ x.reward = m.reward /\ x.paid = m.paid /\ x.quota = m.target
    <3> DEFINE c == SettledCopy(m)
    <3>1. TaskTypeOK /\ m \in Row
      BY <1>1
    <3>2. /\ ~c.pending /\ c.refunded = m.refunded /\ c.status = m.status
          /\ c.reward = m.reward /\ c.paid = m.paid /\ c.quota = m.target
      BY <3>1, CopiesTyped
    <3> QED BY <2>2, <3>2
  <2>4. Checked(m) /\ m.fDone /\ m.tDone /\ row.fDone
    BY <1>1, <2>1 DEF CopyInv
  <2>5. /\ fundingTaken = m.target /\ (TokenCounts => tokenTaken = m.target) /\ Split(m)
        /\ ~m.refunded /\ m.target > 0
    BY <2>1, <2>4 DEF Checked, Aimed, TokenCounts
  <2> HIDE DEF x
  <2>6. Settled(mem["loop"])'
    BY <1>1, <2>1, <2>3, <2>5
    DEF Settled, Split, Owes, TokenCounts, taskRefundQuota, taskTokenQuotaRequired,
        taskFacts, stores, x
  <2>7. Settled(row)' \/ Checked(row)'
    BY <1>3, <1>5, <2>1, <2>2, <2>6 DEF Committing
  <2>8. row'.pending => row'.fDone
    BY <2>2, <2>3, <2>4
  <2> QED BY <2>2, <2>3, <2>5, <2>6, <2>7, <2>8 DEF LoopInv, CopyInv, x
<1>9. CASE ApplyProfit("loop")
  <2>1. /\ pc["loop"] = "profit" /\ UNCHANGED <<row, stores>>
        /\ \/ Moves("loop", "rebate", m, row)
           \/ ~m.pending /\ Moves("loop", "ckProfit", m, row)
    BY <1>1, <1>9, ApplyProfitDoes
  <2>2. /\ x = m /\ \/ pc'["loop"] = "rebate"
                    \/ ~m.pending /\ pc'["loop"] = "ckProfit"
    BY <2>1 DEF Moves
  <2>3. ~m.refunded /\ (~m.pending => Settled(m) /\ (row.pending => row.fDone))
    BY <1>1, <2>1 DEF CopyInv
  <2>4. Settled(m) => Settled(mem["loop"])'
    BY <1>4, <2>1, <2>2
  <2>5. Settled(row)' \/ Checked(row)'
    BY <1>3, <2>1 DEF Committing
  <2> QED BY <2>1, <2>2, <2>3, <2>4, <2>5 DEF LoopInv, CopyInv
<1>10. CASE MarkProfit("loop")
  <2>1. /\ pc["loop"] = "ckProfit" /\ UNCHANGED stores
        /\ pc'["loop"] = "rebate" /\ x = [m EXCEPT !.profitSettled = TRUE]
        /\ row' = row \/ row' = x
    BY <1>1, <1>10, MarkProfitDoes DEF Moves
  <2>2. /\ x.quota = m.quota /\ x.pending = m.pending /\ x.refunded = m.refunded
        /\ x.reward = m.reward /\ x.paid = m.paid /\ x.status = m.status
    BY <1>1, <2>1 DEF Row
  <2>3. ~m.refunded /\ Settled(m) /\ (row.pending => row.fDone)
    BY <1>1, <2>1 DEF CopyInv
  <2> HIDE DEF x, m
  <2>4. Settled(mem["loop"])'
    BY <1>4, <2>1, <2>2, <2>3
  <2>5. Settled(row)' \/ Checked(row)'
    BY <1>3, <1>5, <2>1, <2>4 DEF Committing
  <2>6. row'.pending => row'.fDone
    BY <2>1, <2>2, <2>3 DEF Settled
  <2> QED BY <2>1, <2>2, <2>3, <2>4, <2>5, <2>6 DEF LoopInv, CopyInv, x
<1>11. CASE ApplyRebate("loop")
  <2>1. /\ pc["loop"] = "rebate" /\ UNCHANGED <<row, stores>>
        /\ \/ Moves("loop", "idle", m, row)
           \/ ~m.pending /\ Moves("loop", "ckRebate", m, row)
    BY <1>1, <1>11, ApplyRebateDoes
  <2>2. /\ x = m /\ \/ pc'["loop"] = "idle"
                    \/ ~m.pending /\ pc'["loop"] = "ckRebate"
    BY <2>1 DEF Moves
  <2>3. ~m.refunded /\ (~m.pending => Settled(m) /\ (row.pending => row.fDone))
    BY <1>1, <2>1 DEF CopyInv
  <2>4. Settled(m) => Settled(mem["loop"])'
    BY <1>4, <2>1, <2>2
  <2>5. Settled(row)' \/ Checked(row)'
    BY <1>3, <2>1 DEF Committing
  <2> QED BY <2>1, <2>2, <2>3, <2>4, <2>5 DEF LoopInv, CopyInv
<1>12. CASE MarkRebate("loop")
  <2>1. /\ pc["loop"] = "ckRebate" /\ UNCHANGED stores
        /\ pc'["loop"] = "idle" /\ x = [m EXCEPT !.rebateSettled = TRUE]
        /\ row' = row \/ row' = x
    BY <1>1, <1>12, MarkRebateDoes DEF Moves
  <2>2. /\ x.quota = m.quota /\ x.pending = m.pending /\ x.refunded = m.refunded
        /\ x.reward = m.reward /\ x.paid = m.paid /\ x.status = m.status
    BY <1>1, <2>1 DEF Row
  <2>3. Settled(m)
    BY <1>1, <2>1 DEF CopyInv
  <2> HIDE DEF x, m
  <2>4. Settled(mem["loop"])'
    BY <1>4, <2>1, <2>2, <2>3
  <2>5. Settled(row)' \/ Checked(row)'
    BY <1>3, <1>5, <2>1, <2>4 DEF Committing
  <2> QED BY <2>1, <2>5, IdleLoop
<1> QED BY <1>6, <1>7, <1>8, <1>9, <1>10, <1>11, <1>12

LEMMA BillingLoop ==
  ASSUME CoreInv, LoopInv, NEW w \in Workers, BillingStep(w)
  PROVE  LoopInv'
<1>1. SUFFICES ASSUME Sole' PROVE LoopInv'
  BY DEF LoopInv
<1>2. w = "loop"
  BY <1>1, SoleBills
<1> QED BY <1>1, <1>2, StartRefundLoop, StartSettleLoop, SidesLoop, FinalizersLoop DEF BillingStep

-----------------------------------------------------------------------------
(* The rebate                                                              *)

LEMMA QuietRebate ==
  ASSUME CoreInv, RebateInv, NEW w \in Workers, QuietStep(w)
  PROVE  RebateInv'
<1>1. /\ UNCHANGED <<taskFacts, stores, records>> /\ "loop" \in Workers
      /\ w # "loop" => pc'["loop"] = pc["loop"] /\ mem'["loop"] = mem["loop"]
  BY WorkersAre DEF QuietStep, Reach
<1>2. SUFFICES ASSUME rebates # {} PROVE RebateInv'
  BY <1>1 DEF RebateInv, records
<1>3. /\ row.status = "SUCCESS" /\ ~row.refunded /\ recorded /\ rebates = {fundingTaken - rewardTaken}
      /\ row.pending => row.fDone
      /\ pc["loop"] \notin {"settle", "ckFunding"}
      /\ pc["loop"] = "funding" => mem["loop"].fDone
  BY <1>2 DEF RebateInv
<1>4. /\ recorded' /\ rebates' = {fundingTaken' - rewardTaken'}
  BY <1>1, <1>3 DEF taskFacts, stores, records
<1>5. Drops(w) \/ Resumes(w)
  BY <1>3 DEF QuietStep, Reads, Passes, Succeeds, Fails, Claims, Unfinished
<1>6. row' = row
  BY <1>5 DEF Drops, Resumes, Moves
<1>7. CASE Drops(w)
  <2>1. pc'["loop"] = "idle" \/ (pc'["loop"] = pc["loop"] /\ mem'["loop"] = mem["loop"])
    BY <1>1, <1>7 DEF Drops, Moves
  <2> QED BY <1>3, <1>4, <1>6, <2>1 DEF RebateInv
<1>8. CASE Resumes(w)
  <2>1. pc'["loop"] \in {"refund", "funding"} /\ mem'["loop"] = row /\ row.pending
    BY <1>8 DEF Resumes, Moves
  <2> QED BY <1>3, <1>4, <1>6, <2>1 DEF RebateInv
<1> QED BY <1>5, <1>7, <1>8

\* The rebate is paid from a settled copy.
LEMMA RebateFirst ==
  ASSUME CoreInv, LoopInv, NEW w \in Workers, BillingStep(w), rebates = {}, rebates' # {}
  PROVE  RebateInv'
<1> DEFINE m == mem["loop"]
<1>0. TaskTypeOK /\ StatusInv /\ (\A v \in Workers : WorkerInv(v)) /\ "loop" \in Workers
  BY WorkersAre DEF CoreInv
<1>1. ApplyRebate(w)
  BY DEF BillingStep, StartRefund, StartSettle, SettleFunding, CheckpointFunding, SettleToken,
     CheckpointToken, CompleteRefund, ForbidRebate, CompleteSettle, ApplyProfit, MarkProfit,
     MarkRebate, records
<1>2. /\ pc[w] = "rebate" /\ Frame(w) /\ UNCHANGED <<row, stores>>
      /\ recorded /\ ~mem[w].pending /\ Moves(w, "ckRebate", mem[w], row)
      /\ rebates' = {mem[w].paid}
  BY <1>0, <1>1, ApplyRebateDoes
<1>3. w = "loop" /\ row.status = "SUCCESS"
  BY <1>0, <1>2, BillingAt DEF RefundSteps
<1>4. Settled(m) /\ (row.pending => row.fDone) /\ ~row.refunded
  <2>1. CopyInv(m, "rebate") /\ (Settled(row) \/ Checked(row))
    BY <1>2, <1>3 DEF LoopInv, Sole, Committing
  <2> QED BY <1>2, <1>3, <2>1 DEF CopyInv, Settled, Checked, Aimed
<1>5. m.reward = rewardTaken /\ m.reward + m.paid = fundingTaken
  BY <1>2, <1>4 DEF Settled, Split
<1>6. m.reward \in Int /\ m.paid \in Int
  BY <1>0, TaskBoundsAssumption DEF TaskTypeOK, Row, Amount
<1>7. m.paid = fundingTaken - rewardTaken
  <2>1. \A a, b \in Int : (a + b) - a = b
    OBVIOUS
  <2> QED BY <1>5, <1>6, <2>1
<1>8. recorded' /\ UNCHANGED <<fundingTaken, rewardTaken>>
  BY <1>2 DEF Frame, Reach, taskFacts, stores
<1> QED BY <1>2, <1>3, <1>4, <1>7, <1>8 DEF RebateInv, Moves

LEMMA BillingRebate ==
  ASSUME CoreInv, LoopInv, RebateInv, NEW w \in Workers, BillingStep(w)
  PROVE  RebateInv'
<1>1. SUFFICES ASSUME rebates # {} PROVE RebateInv'
  BY RebateFirst DEF RebateInv
<1> DEFINE m == mem["loop"]
           x == mem'["loop"]
<1>2. /\ row.status = "SUCCESS" /\ ~row.refunded /\ recorded /\ rebates = {fundingTaken - rewardTaken}
      /\ row.pending => row.fDone
      /\ pc["loop"] \notin {"settle", "ckFunding"}
      /\ pc["loop"] = "funding" => m.fDone
  BY <1>1 DEF RebateInv
<1>3. /\ TaskTypeOK /\ StatusInv /\ WorkerInv("loop") /\ "loop" \in Workers /\ m \in Row
      /\ \A v \in Workers : WorkerInv(v)
  BY WorkersAre DEF CoreInv, TaskTypeOK
<1>4. /\ w = "loop" /\ m.status = row.status /\ pc["loop"] \in SettleSteps
      /\ BillingStep("loop")
  BY <1>2, <1>3, BillingAt
<1>5. CopyInv(m, pc["loop"])
  BY <1>2 DEF LoopInv, Sole
<1>6. row'.status = "SUCCESS" /\ recorded'
  BY <1>2, <1>3, <1>4, BillingCore, BillingGoes DEF Frame, Reach, taskFacts
<1>7. ASSUME UNCHANGED <<fundingTaken, rewardTaken, rebates>>, row' = row,
             pc'["loop"] \notin {"settle", "ckFunding", "funding"}
      PROVE  RebateInv'
  BY <1>2, <1>6, <1>7 DEF RebateInv
<1>8. ASSUME UNCHANGED <<fundingTaken, rewardTaken, rebates>>, ~row'.pending \/ row'.fDone, ~row'.refunded,
             pc'["loop"] \notin {"settle", "ckFunding", "funding"}
      PROVE  RebateInv'
  BY <1>2, <1>6, <1>8 DEF RebateInv
<1>9. CASE StartRefund("loop") \/ StartSettle("loop") \/ CheckpointFunding("loop")
           \/ CompleteRefund("loop") \/ ForbidRebate("loop")
  BY <1>2, <1>4, <1>9 DEF StartRefund, StartSettle, CheckpointFunding, CompleteRefund,
     ForbidRebate, SettleSteps
<1>10. CASE SettleFunding("loop")
  <2>1. recorded /\ m.target > m.fAmt => m.reward + m.paid = m.fAmt
    BY <1>3, <1>10, ChargeFits
  <2>2. m.fDone
    BY <1>2, <1>10 DEF SettleFunding
  <2>3. /\ UNCHANGED <<fundingTaken, rewardTaken, records>> /\ row' = row
        /\ pc'["loop"] = "token"
    BY <1>3, <1>10, <2>1, <2>2, SettleFundingDoes DEF Moves
  <2> QED BY <1>7, <2>3 DEF records
<1>11. CASE SettleToken("loop")
  <2>1. /\ UNCHANGED <<row, fundingTaken, rewardTaken, records>>
        /\ pc'["loop"] \in {"complete", "ckToken", "idle", "profit"}
    BY <1>3, <1>11, SettleTokenDoes DEF Moves, Abandoned
  <2> QED BY <1>7, <2>1 DEF records
<1>12. CASE CheckpointToken("loop")
  <2>1. /\ pc["loop"] = "ckToken" /\ UNCHANGED <<stores, records>>
        /\ row' = TokenDone(m) /\ pc'["loop"] = "complete"
    BY <1>3, <1>4, <1>12, CheckpointTokenDoes DEF Moves
  <2>2. row'.fDone /\ ~row'.refunded
    BY <1>3, <1>5, <2>1 DEF CopyInv, Aimed, TokenDone, Row
  <2> QED BY <1>8, <2>1, <2>2 DEF stores, records
<1>13. CASE CompleteSettle("loop")
  <2>1. /\ UNCHANGED <<stores, records>> /\ pc'["loop"] = "profit"
        /\ row' = row \/ row' = SettledCopy(m)
    BY <1>3, <1>4, <1>13, CompleteSettleDoes DEF Moves
  <2>2. pc["loop"] = "complete" /\ ~m.refunded
    BY <1>5, <1>13 DEF CompleteSettle, CopyInv, Checked, Aimed
  <2>3. ~SettledCopy(m).pending /\ ~SettledCopy(m).refunded
    BY <1>3, <2>2, CopiesTyped DEF SettledCopy, Row
  <2> QED BY <1>7, <1>8, <2>1, <2>3 DEF stores, records
<1>14. CASE ApplyProfit("loop")
  <2>1. /\ UNCHANGED <<row, stores, rebates>> /\ pc'["loop"] \in {"rebate", "ckProfit"}
    BY <1>3, <1>14, ApplyProfitDoes DEF Moves
  <2> QED BY <1>7, <2>1 DEF stores
<1>15. CASE MarkProfit("loop")
  <2>1. /\ pc["loop"] = "ckProfit" /\ UNCHANGED <<stores, records>> /\ pc'["loop"] = "rebate"
        /\ row' = row \/ row' = [m EXCEPT !.profitSettled = TRUE]
    BY <1>3, <1>4, <1>15, MarkProfitDoes DEF Moves
  <2>2. ~[m EXCEPT !.profitSettled = TRUE].pending /\ ~[m EXCEPT !.profitSettled = TRUE].refunded
    BY <1>3, <1>5, <2>1 DEF CopyInv, Settled, Row
  <2> QED BY <1>7, <1>8, <2>1, <2>2 DEF stores, records
<1>16. CASE ApplyRebate("loop")
  <2>1. /\ UNCHANGED <<row, stores, rebates>> /\ pc'["loop"] \in {"idle", "ckRebate"}
    BY <1>1, <1>3, <1>16, ApplyRebateDoes DEF Moves
  <2> QED BY <1>7, <2>1 DEF stores
<1>17. CASE MarkRebate("loop")
  <2>1. /\ pc["loop"] = "ckRebate" /\ UNCHANGED <<stores, records>> /\ pc'["loop"] = "idle"
        /\ row' = row \/ row' = [m EXCEPT !.rebateSettled = TRUE]
    BY <1>3, <1>4, <1>17, MarkRebateDoes DEF Moves
  <2>2. ~[m EXCEPT !.rebateSettled = TRUE].pending /\ ~[m EXCEPT !.rebateSettled = TRUE].refunded
    BY <1>3, <1>5, <2>1 DEF CopyInv, Settled, Row
  <2> QED BY <1>7, <1>8, <2>1, <2>2 DEF stores, records
<1> QED
  BY <1>4, <1>9, <1>10, <1>11, <1>12, <1>13, <1>14, <1>15, <1>16, <1>17 DEF BillingStep

-----------------------------------------------------------------------------
(* The theorems                                                            *)

LEMMA TaskInit == InitFor({"suno", "video", "h3"}) => TaskInv
<1> SUFFICES ASSUME InitFor({"suno", "video", "h3"}) PROVE TaskInv
  OBVIOUS
<1>1. PICK q \in Amount :
        /\ fundingTaken = IF q > 0 THEN q ELSE subPre
        /\ tokenTaken = IF taskTokenQuotaRequired THEN q ELSE 0
        /\ rewardTaken \in IF source = "wallet" THEN 0 .. q ELSE {0}
        /\ row = IF recorded THEN NewRow(q, rewardTaken, q - rewardTaken) ELSE NewRow(q, 0, 0)
  BY DEF InitFor
<1>2. /\ source \in {"wallet", "subscription"} /\ recorded \in BOOLEAN
      /\ (recorded => source = "wallet")
      /\ provider \in BOOLEAN /\ platform \in {"suno", "video", "h3"}
      /\ subPre \in IF source = "subscription" THEN 1 .. MaxQuota ELSE {0}
  BY DEF InitFor
<1>3. /\ pc = [w \in Workers |-> "idle"] /\ mem = [w \in Workers |-> row]
      /\ rebates = {} /\ profits = {} /\ failures = 0 /\ crashes = 0
  BY DEF InitFor
<1>4. tokenSkipped = FALSE
  BY DEF InitFor
<1>5. /\ MaxQuota \in Nat \ {0} /\ MaxFailures \in Nat /\ MaxCrashes \in Nat /\ q \in 0 .. MaxQuota
  BY TaskBoundsAssumption DEF Amount
<1>6. /\ subPre \in 0 .. MaxQuota /\ fundingTaken \in 0 .. MaxQuota
      /\ tokenTaken \in 0 .. MaxQuota /\ rewardTaken \in 0 .. q
  <2>1. subPre \in 0 .. MaxQuota
    BY <1>2, <1>5
  <2> QED BY <1>1, <1>5, <2>1
<1>7. q - rewardTaken \in 0 .. MaxQuota /\ rewardTaken \in 0 .. MaxQuota /\ 0 \in 0 .. MaxQuota
  BY <1>5, <1>6
<1>8. /\ row \in Row /\ row.quota = q /\ ~row.pending /\ ~row.refunded
      /\ recorded => row.reward = rewardTaken /\ row.paid = q - rewardTaken
      /\ row.status = IF platform = "h3" THEN "NOT_START" ELSE "SUBMITTED"
  <2>1. row.status \in Unfinished \cup Terminal \cup Queued
    BY <1>1 DEF NewRow, Unfinished, Queued
  <2>2. ASSUME NEW a \in Amount, NEW b \in Amount
        PROVE  NewRow(q, a, b) \in Row
    BY <1>5, <1>7 DEF NewRow, Row, Amount, Unfinished, Queued
  <2> QED BY <1>1, <1>7, <2>2 DEF NewRow, Amount
<1>9. TaskTypeOK
  <2>1. /\ row \in Row /\ mem \in [Workers -> Row] /\ pc \in [Workers -> Steps]
    BY <1>3, <1>8 DEF Steps
  <2>2. rebates \subseteq Amount /\ profits \subseteq Amount
    BY <1>3
  <2>3. fundingTaken \in Int /\ rewardTaken \in Int /\ tokenTaken \in Int
    BY <1>5, <1>6
  <2>4. failures \in 0 .. MaxFailures /\ crashes \in 0 .. MaxCrashes
    BY <1>3, <1>5
  <2>5. subPre \in Amount
    BY <1>6 DEF Amount
  <2>6. platform \in {"suno", "video", "h3", "realtime"} /\ tokenSkipped \in BOOLEAN
    BY <1>2, <1>4
  <2> QED BY <1>2, <2>1, <2>2, <2>3, <2>4, <2>5, <2>6 DEF TaskTypeOK
<1>10. StatusInv
  BY <1>2, <1>8 DEF StatusInv, Queued
<1>11. \A w \in Workers : WorkerInv(w)
  BY <1>3 DEF WorkerInv
<1>12. Settled(row)
  <2>1. Owes(row) = fundingTaken
    BY <1>1, <1>8 DEF Owes, taskRefundQuota
  <2>2. taskTokenQuotaRequired => tokenTaken = fundingTaken
    <3> SUFFICES ASSUME taskTokenQuotaRequired PROVE tokenTaken = fundingTaken
      OBVIOUS
    <3>1. subPre = 0
      BY <1>2 DEF taskTokenQuotaRequired
    <3> QED BY <1>1, <1>5, <3>1
  <2>3. recorded => row.reward + row.paid = fundingTaken
    <3> SUFFICES ASSUME recorded PROVE row.reward + row.paid = fundingTaken
      OBVIOUS
    <3>1. subPre = 0
      BY <1>2
    <3>2. fundingTaken = q
      BY <1>1, <1>5, <3>1
    <3>3. rewardTaken + (q - rewardTaken) = q
      BY <1>5, <1>6
    <3> QED BY <1>8, <3>2, <3>3
  <2> QED BY <1>8, <2>1, <2>2, <2>3 DEF Settled, Split, TokenCounts
<1>13. LoopInv /\ RebateInv
  BY <1>3, <1>12, WorkersAre DEF LoopInv, CopyInv, RebateInv
<1> QED BY <1>9, <1>10, <1>11, <1>13 DEF TaskInv

LEMMA TaskNext ==
  ASSUME TaskInv, [DispatchNext]_vars
  PROVE  TaskInv' /\ (row.status \in Terminal => row'.status = row.status)
<1>1. CoreInv /\ LoopInv /\ RebateInv /\ TaskTypeOK /\ StatusInv /\ \A v \in Workers : WorkerInv(v)
  BY DEF TaskInv, CoreInv
<1>2. CASE DispatchNext
  <2>1. PICK w \in Workers : BillingStep(w) \/ QuietStep(w)
    BY <1>1, <1>2, StepIs
  <2>2. CASE BillingStep(w)
    BY <1>1, <2>2, BillingCore, BillingLoop, BillingRebate DEF TaskInv, CoreInv
  <2>3. CASE QuietStep(w)
    BY <1>1, <2>3, QuietCore, QuietLoop, QuietRebate DEF TaskInv, CoreInv
  <2> QED BY <2>1, <2>2, <2>3
<1>3. CASE UNCHANGED vars
  <2> USE <1>1, <1>3 DEF vars, taskFacts, stores, records
  <2>1. TaskTypeOK' /\ StatusInv'
    BY DEF TaskTypeOK, StatusInv
  <2>2. ASSUME NEW v \in Workers PROVE WorkerInv(v)'
    BY DEF WorkerInv, Bills
  <2>3. LoopInv'
    BY DEF LoopInv, CopyInv, Settled, Checked, Aimed, Split, Owes, TokenCounts,
       taskRefundQuota, taskTokenQuotaRequired, Sole
  <2>4. RebateInv'
    BY DEF RebateInv
  <2> QED BY <2>1, <2>2, <2>3, <2>4 DEF TaskInv
<1> QED BY <1>2, <1>3

\* The inductive invariant of a task's billing: the polling loop, the
\* submitter and the cleanup of MiniMax-H3 keep it, through failed statements
\* and crashes.
THEOREM TaskInvariant == DispatchSpec => []TaskInv
<1>1. TaskInv /\ [DispatchNext]_vars => TaskInv'
  BY TaskNext
<1> QED BY TaskInit, <1>1, PTL DEF DispatchSpec

\* Every column, every copy of the row and every amount stays of its type,
\* whichever of the three workers writes it.
THEOREM TaskTypes == DispatchSpec => []TaskTypeOK
<1>1. TaskInv => TaskTypeOK
  BY DEF TaskInv
<1> QED BY TaskInvariant, <1>1, PTL

\* UpdateWithStatus and persistTaskBillingState never take a row out of
\* SUCCESS or FAILURE, and neither does Suno's unconditional task.Update.
THEOREM TerminalStays == DispatchSpec => TerminalIsFinal
<1>1. TaskInv /\ [DispatchNext]_vars => [row.status \in Terminal => row'.status = row.status]_vars
  BY TaskNext
<1> QED BY TaskInvariant, <1>1, PTL DEF DispatchSpec, TerminalIsFinal

\* A task of the polling loop: the stores hold what the row says when nobody
\* is at it, and a pending checkpoint tells what each store holds.
THEOREM PolledTasksAccount == DispatchSpec => []PolledAccounts
<1>1. ASSUME TaskInv, platform # "h3" PROVE AccountsMatchRow /\ CheckpointMatchesStores
  <2>1. /\ "loop" \in Workers
        /\ pc["loop"] \notin Committing => Settled(row) \/ Checked(row)
    BY <1>1, WorkersAre DEF TaskInv, LoopInv, Sole
  <2>2. AccountsMatchRow
    BY <2>1 DEF AccountsMatchRow, Quiet, Committing, Settled, Checked, Aimed, Owes, Owed,
       Split, TokenCounts
  <2>3. CheckpointMatchesStores
    BY <2>1 DEF CheckpointMatchesStores, Settled, Checked, Aimed, TokenCounts
  <2> QED BY <2>2, <2>3
<1>2. TaskInv => PolledAccounts
  BY <1>1 DEF PolledAccounts
<1> QED BY TaskInvariant, <1>2, PTL

\* FinalizeTaskConsumeRebate pays on the final paid amount of a task that
\* succeeded, and nothing moves the charge afterwards.
THEOREM RebatesFollowCharges == DispatchSpec => []RebateFollowsCharge
<1>1. TaskInv => RebateFollowsCharge
  BY DEF TaskInv, RebateInv, RebateFollowsCharge
<1> QED BY TaskInvariant, <1>1, PTL
=============================================================================
