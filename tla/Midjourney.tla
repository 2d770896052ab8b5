----------------------------- MODULE Midjourney -----------------------------
(***************************************************************************)
(* One Midjourney task from its submission (relay/mjproxy_handler.go) over *)
(* the polling loop (controller/midjourney.go) to its refund or its rebate *)
(* (service/task_billing.go, model/midjourney.go).                         *)
(*                                                                         *)
(* The task is a row of its own table.  Three writers share it, and each   *)
(* writes columns from a copy it read or built earlier: the submission     *)
(* writes all billing columns (persistMidjourneyBillingState), the polling *)
(* loop writes the whole row under a compare-and-swap of the status        *)
(* (UpdateWithStatus) and the upstream's notice saves the whole row        *)
(* (Update).  Only the refund reads the row under a lock.                  *)
(*                                                                         *)
(* A submission reserves the full Price (ForcePreConsume), so settlement   *)
(* moves no quota; that a session's Refund gives everything back is shown  *)
(* in BillingSession and is one step here.  held is what the stores still  *)
(* hold of the user's for this task: negative when they gave back more     *)
(* than they took.                                                         *)
(***************************************************************************)
EXTENDS Integers

CONSTANTS
  Price,       \* quota of the task
  Pollers,     \* processes that run UpdateMidjourneyTaskBulk
  MaxFaults,   \* statements that fail and processes that stop (bound)
  MaxNotices,  \* notices of the upstream (bound)
  Overlap      \* whether one writer may read the row while another is busy:
               \* FALSE keeps the loop and the notices away from a running
               \* submission and from each other (two loops still overlap)

ASSUME MidjourneyAssumption ==
  /\ Price \in Nat \ {0}
  /\ MaxFaults \in Nat /\ MaxNotices \in Nat
  /\ Overlap \in BOOLEAN

Statuses == {"", "IN_PROGRESS", "SUCCESS", "FAILURE"}

\* source stands for billing_source and the columns that are always stored
\* with it (billing_pre_consumed, token_id and the subscription's request
\* id); recorded for wallet_quota_breakdown_recorded; full for a progress of
\* 100%; billed for quota # 0; id for an mj_id that is not empty.
Tasks == [status : Statuses, full : BOOLEAN, id : BOOLEAN, billed : BOOLEAN,
          source : {"", "wallet", "subscription"}, refunded : BOOLEAN,
          reward : 0 .. Price, paid : 0 .. Price, recorded : BOOLEAN,
          rebateDone : BOOLEAN]
NoTask == [status |-> "", full |-> FALSE, id |-> FALSE, billed |-> FALSE,
           source |-> "", refunded |-> FALSE, reward |-> 0, paid |-> 0,
           recorded |-> FALSE, rebateDone |-> FALSE]
NotYet == -1

VARIABLES
  \* The submission: which handler, who pays, the reward part, where it is
  \* and the task in its memory.
  kind, funding, split, submit, mine,
  \* The row, and whether it has been inserted.
  row, exists,
  \* Each polling loop: where it is and its copy.
  at, copy,
  \* A notice being handled and its copy.
  noticeAt, noticeCopy,
  \* The stores: quota held and paid quota rebated.
  held, rebated,
  \* An hour has passed since the submission.
  aged,
  \* Counters of faults and notices; history: what the submission got into
  \* the row, and what had been rebated when a refund first committed.
  faults, notices, stored, returned

submitVars == <<kind, funding, split, submit, mine>>
pollVars == <<at, copy>>
noticeVars == <<noticeAt, noticeCopy, notices>>
storeVars == <<held, rebated, returned>>
vars == <<submitVars, row, exists, pollVars, noticeVars, storeVars, aged,
          faults, stored>>

Fault == faults < MaxFaults /\ faults' = faults + 1
NoFault == UNCHANGED faults

Nothing == [wallet |-> 0, reward |-> 0, token |-> 0, subscription |-> 0]

Init ==
  /\ kind = "submit" /\ funding = "free" /\ split = 0
  /\ submit = "start" /\ mine = NoTask
  /\ row = NoTask /\ exists = FALSE
  /\ at = [p \in Pollers |-> "idle"] /\ copy = [p \in Pollers |-> NoTask]
  /\ noticeAt = "idle" /\ noticeCopy = NoTask
  /\ held = Nothing /\ rebated = 0
  /\ aged = FALSE /\ faults = 0 /\ notices = 0
  /\ stored = "nothing" /\ returned = NotYet

(***************************************************************************)
(* Writes and readings of the row.                                         *)
(***************************************************************************)
\* The billing columns of c over the row; status and progress stay.
persistMidjourneyBillingState(c) ==
  [row EXCEPT !.source = c.source, !.refunded = c.refunded,
              !.reward = c.reward, !.paid = c.paid,
              !.recorded = c.recorded, !.rebateDone = c.rebateDone]

\* The status and progress an upstream report leaves in a task.
Reported(c, s) ==
  [c EXCEPT !.status = s, !.full = s \in {"SUCCESS", "FAILURE"}]

\* FinalizeMidjourneyConsumeRebate: the rebate is applied under a request id
\* made from the task's id, so a repetition changes nothing; then the billing
\* columns of the caller's copy are stored.
RebateDue(c) == c.recorded /\ ~c.rebateDone
FinalizeMidjourneyConsumeRebate(c) ==
  \/ ~RebateDue(c) /\ NoFault /\ UNCHANGED <<rebated, row>>
  \/ RebateDue(c) /\ Fault /\ UNCHANGED <<rebated, row>>
  \/ /\ RebateDue(c)
     /\ rebated' = IF c.paid > 0 THEN c.paid ELSE rebated
     /\ \/ Fault /\ UNCHANGED row
        \/ /\ NoFault
           /\ row' = persistMidjourneyBillingState(
                       [c EXCEPT !.rebateDone = TRUE])

(***************************************************************************)
(* The submission: RelayMidjourneySubmit ("submit") and RelaySwapFace      *)
(* ("swap").                                                               *)
(***************************************************************************)
\* PreConsumeBilling reserves the price; "free" stands for free models and
\* the actions that consume nothing.  A refused reservation changes nothing.
Reserve(k, f, r) ==
  /\ submit = "start"
  /\ r = 0 \/ f = "wallet"
  /\ kind' = k /\ funding' = f /\ split' = r /\ submit' = "asked"
  /\ held' = CASE f = "wallet" ->
                    [Nothing EXCEPT !.wallet = Price, !.reward = r,
                                    !.token = Price]
               [] f = "subscription" ->
                    [Nothing EXCEPT !.subscription = Price]
               [] OTHER -> Nothing
  /\ UNCHANGED <<mine, row, exists, pollVars, noticeVars, rebated, returned,
                 aged, faults, stored>>

\* The request to the upstream fails: Billing.Refund.
RequestFails ==
  /\ submit = "asked"
  /\ submit' = "done" /\ held' = Nothing
  /\ UNCHANGED <<kind, funding, split, mine, row, exists, pollVars,
                 noticeVars, rebated, returned, aged, faults, stored>>

\* The upstream answers.  A task that is not accepted is refunded and kept
\* with quota 0, with or without an id; an accepted one has an id, and
\* RelayMidjourneySubmit may take a status from the answer (codes 21 and
\* uploads).
RequestAnswered(accepted, id, s) ==
  /\ submit = "asked"
  /\ accepted => id
  /\ s # "" => accepted /\ kind = "submit"
  /\ submit' = "insert"
  /\ mine' = [NoTask EXCEPT !.status = s, !.full = (s = "SUCCESS"),
                            !.id = id,
                            !.billed = accepted /\ funding # "free"]
  /\ held' = IF accepted THEN held ELSE Nothing
  /\ UNCHANGED <<kind, funding, split, row, exists, pollVars, noticeVars,
                 rebated, returned, aged, faults, stored>>

Insert ==
  /\ submit = "insert"
  /\ \/ /\ NoFault
        /\ row' = mine /\ exists' = TRUE
        /\ submit' = IF mine.billed THEN "record" ELSE "done"
        /\ UNCHANGED held
     \/ /\ Fault
        /\ submit' = "done" /\ held' = Nothing
        /\ UNCHANGED <<row, exists>>
  /\ UNCHANGED <<kind, funding, split, mine, pollVars, noticeVars, rebated,
                 returned, aged, stored>>

\* RecordMidjourneyBilling, the first time.  When it fails, the submission
\* gives the reservation back and leaves the row as it is; RelaySwapFace has
\* settled before and keeps the charge.
RecordMidjourneyBilling ==
  /\ submit = "record"
  /\ \/ /\ NoFault
        /\ mine' = [mine EXCEPT !.source = funding]
        /\ row' = persistMidjourneyBillingState(mine')
        /\ stored' = "snapshot"
        /\ submit' = IF kind = "submit" THEN "split" ELSE "done"
        /\ UNCHANGED held
     \/ /\ Fault
        /\ submit' = "done"
        /\ held' = IF kind = "submit" THEN Nothing ELSE held
        /\ UNCHANGED <<mine, row, stored>>
  /\ UNCHANGED <<kind, funding, split, exists, pollVars, noticeVars, rebated,
                 returned, aged>>

\* RecordMidjourneyWalletFunding, and then RecordMidjourneyBilling again; an
\* error of either is logged.
StoreSplit ==
  \/ NoFault /\ row' = persistMidjourneyBillingState(mine')
     /\ stored' = IF funding = "wallet" THEN "split" ELSE stored
  \/ Fault /\ UNCHANGED <<row, stored>>

RecordMidjourneyWalletFunding ==
  /\ submit = "split" /\ submit' = "again"
  /\ \/ /\ funding = "wallet"
        /\ mine' = [mine EXCEPT !.reward = split, !.paid = Price - split,
                                !.recorded = TRUE]
        /\ StoreSplit
     \/ funding # "wallet" /\ NoFault /\ UNCHANGED <<mine, row, stored>>
  /\ UNCHANGED <<kind, funding, split, exists, pollVars, noticeVars,
                 storeVars, aged>>

RecordAgain ==
  /\ submit = "again"
  /\ submit' = IF mine.status = "SUCCESS" THEN "final" ELSE "done"
  /\ UNCHANGED mine /\ StoreSplit
  /\ UNCHANGED <<kind, funding, split, exists, pollVars, noticeVars,
                 storeVars, aged>>

SubmitFinal ==
  /\ submit = "final" /\ submit' = "done"
  /\ FinalizeMidjourneyConsumeRebate(mine)
  /\ UNCHANGED <<kind, funding, split, mine, exists, pollVars, noticeVars,
                 held, returned, aged, stored>>

\* The process of the submission stops and its session is gone.
SubmitStops ==
  /\ submit \notin {"start", "done"} /\ Fault
  /\ submit' = "done"
  /\ UNCHANGED <<kind, funding, split, mine, row, exists, pollVars,
                 noticeVars, storeVars, aged, stored>>

(***************************************************************************)
(* The refund, in one transaction that holds the row.                      *)
(***************************************************************************)
\* Amounts: of the snapshot, or of quota where there is none.
RefundDue == row.source # "" \/ row.billed

Marked ==
  [row EXCEPT !.refunded = TRUE, !.reward = 0, !.paid = 0,
              !.recorded = FALSE, !.rebateDone = TRUE]

\* What had been rebated when the quota first came back (history).
NoteReturn == returned' = IF returned = NotYet THEN rebated ELSE returned

\* A subscription's request is released once (refundSubscriptionPreConsumeTx);
\* wallet and token change relatively.  Without a source the task is taken
\* for an old wallet task, whose token is not known.
Returned ==
  CASE ~RefundDue -> held
    [] row.source = "subscription" -> [held EXCEPT !.subscription = 0]
    [] OTHER -> [held EXCEPT !.wallet = @ - Price,
                             !.reward = @ - (IF row.recorded THEN row.reward
                                                             ELSE 0),
                             !.token = IF row.source = "wallet"
                                         THEN @ - Price ELSE @]

\* A recorded split that does not add up refuses the refund.
SplitFits ==
  row.source # "subscription" /\ row.recorded => row.reward + row.paid = Price

\* Slip: the transaction does not look at the marker.
RefundUnmarked ==
  /\ SplitFits
  /\ held' = Returned /\ row' = Marked /\ NoteReturn

RefundMidjourneyBilling ==
  \/ (row.refunded \/ ~SplitFits) /\ UNCHANGED <<held, row, returned>>
  \/ /\ ~row.refunded /\ SplitFits
     /\ held' = Returned /\ row' = Marked /\ NoteReturn

(***************************************************************************)
(* The polling loop.                                                       *)
(***************************************************************************)
\* A loop that has done with a task forgets its copy.
Idle(p) ==
  /\ at' = [at EXCEPT ![p] = "idle"]
  /\ copy' = [copy EXCEPT ![p] = NoTask]

MayRead == Overlap \/ (submit = "done" /\ noticeAt = "idle")

\* GetAllUnFinishTasks.
Load(p) ==
  /\ at[p] = "idle" /\ exists /\ ~row.full /\ row.id /\ MayRead
  /\ at' = [at EXCEPT ![p] = "asked"]
  /\ copy' = [copy EXCEPT ![p] = row]
  /\ UNCHANGED <<submitVars, row, exists, noticeVars, storeVars, aged,
                 faults, stored>>

\* A row without an id (MjBulkUpdateByTaskIds), or of a channel that is gone
\* (MjBulkUpdate), is failed without a refund.
FailWithoutId ==
  /\ exists /\ ~row.full /\ ~row.id /\ MayRead
  /\ row' = [row EXCEPT !.status = "FAILURE", !.full = TRUE]
  /\ UNCHANGED <<submitVars, exists, pollVars, noticeVars, storeVars, aged,
                 faults, stored>>

FailWithoutChannel(p) ==
  /\ at[p] = "asked"
  /\ row' = [row EXCEPT !.status = "FAILURE", !.full = TRUE]
  /\ Idle(p)
  /\ UNCHANGED <<submitVars, exists, noticeVars, storeVars, aged, faults,
                 stored>>

\* The upstream does not answer, or without this task, or with no news.
NoAnswer(p) ==
  /\ at[p] = "asked" /\ Idle(p)
  /\ UNCHANGED <<submitVars, row, exists, noticeVars, storeVars, aged, faults,
                 stored>>

\* Slip: the upstream is believed for ever.
VerdictBelieved(s) == s

\* After an hour an unfinished task has failed whatever the upstream says.
Verdict(s) == IF aged THEN "FAILURE" ELSE s

\* The rest of the loop's body: the copy takes the report over and replaces
\* the row if the row's status is still the one that was read.
UpdateWithStatus(p, s) ==
  /\ at[p] = "asked"
  /\ \/ /\ row.status = copy[p].status /\ NoFault
        /\ row' = Reported(copy[p], Verdict(s))
        /\ \/ /\ row'.status = "FAILURE" /\ row'.billed
              /\ at' = [at EXCEPT ![p] = "refund"]
              /\ copy' = [copy EXCEPT ![p] = row']
           \/ /\ row'.status = "SUCCESS"
              /\ at' = [at EXCEPT ![p] = "final"]
              /\ copy' = [copy EXCEPT ![p] = row']
           \/ /\ row'.status # "SUCCESS"
              /\ row'.status = "FAILURE" => ~row'.billed
              /\ Idle(p)
     \/ row.status # copy[p].status /\ NoFault /\ Idle(p) /\ UNCHANGED row
     \/ Fault /\ Idle(p) /\ UNCHANGED row
  /\ UNCHANGED <<submitVars, exists, noticeVars, storeVars, aged, stored>>

\* RefundMidjourneyQuota: an error is logged and nobody tries again.
RefundMidjourneyQuota(p) ==
  /\ at[p] = "refund"
  /\ \/ RefundMidjourneyBilling /\ NoFault
     \/ Fault /\ UNCHANGED <<held, row, returned>>
  /\ Idle(p)
  /\ UNCHANGED <<submitVars, exists, noticeVars, rebated, aged, stored>>

PollFinal(p) ==
  /\ at[p] = "final"
  /\ FinalizeMidjourneyConsumeRebate(copy[p])
  /\ Idle(p)
  /\ UNCHANGED <<submitVars, exists, noticeVars, held, returned, aged, stored>>

\* The process of a loop stops and starts again.
PollerStops(p) ==
  /\ at[p] # "idle" /\ Fault /\ Idle(p)
  /\ UNCHANGED <<submitVars, row, exists, noticeVars, storeVars, aged, stored>>

(***************************************************************************)
(* RelayMidjourneyNotify: a notice, maybe late, replaces the row.          *)
(***************************************************************************)
NotifyRead(s) ==
  /\ noticeAt = "idle" /\ notices < MaxNotices /\ exists /\ row.id
  /\ Overlap \/ (submit = "done" /\ \A p \in Pollers : at[p] = "idle")
  /\ noticeAt' = "save" /\ noticeCopy' = Reported(row, s)
  /\ notices' = notices + 1
  /\ UNCHANGED <<submitVars, row, exists, pollVars, storeVars, aged, faults,
                 stored>>

NotifySave ==
  /\ noticeAt = "save" /\ noticeAt' = "idle" /\ noticeCopy' = NoTask
  /\ \/ NoFault /\ row' = noticeCopy
     \/ Fault /\ UNCHANGED row
  /\ UNCHANGED <<submitVars, exists, pollVars, notices, storeVars, aged,
                 stored>>

Age ==
  /\ ~aged /\ aged' = TRUE
  /\ UNCHANGED <<submitVars, row, exists, pollVars, noticeVars, storeVars,
                 faults, stored>>

(***************************************************************************)
(* The specification.                                                      *)
(***************************************************************************)
Reports == {"IN_PROGRESS", "SUCCESS", "FAILURE"}

Reserves == \E k \in {"submit", "swap"},
               f \in {"wallet", "subscription", "free"}, r \in 0 .. Price :
              Reserve(k, f, r)
Answers == \E accepted, id \in BOOLEAN, s \in {"", "IN_PROGRESS", "SUCCESS"} :
             RequestAnswered(accepted, id, s)

SubmitNext ==
  \/ Reserves \/ RequestFails \/ Answers \/ Insert
  \/ RecordMidjourneyBilling \/ RecordMidjourneyWalletFunding
  \/ RecordAgain \/ SubmitFinal

PollNext(p) ==
  \/ Load(p) \/ FailWithoutChannel(p) \/ NoAnswer(p)
  \/ \E s \in Reports : UpdateWithStatus(p, s)
  \/ RefundMidjourneyQuota(p) \/ PollFinal(p) \/ PollerStops(p)

Next ==
  \/ SubmitNext \/ SubmitStops
  \/ \E p \in Pollers : PollNext(p)
  \/ FailWithoutId
  \/ \E s \in Reports : NotifyRead(s)
  \/ NotifySave \/ Age

Spec == Init /\ [][Next]_vars

\* The handlers run to their end, the clock advances, every loop comes round
\* again, and the upstream does not leave a loop without an answer for ever.
Fairness ==
  /\ WF_vars(SubmitNext) /\ WF_vars(NotifySave) /\ WF_vars(Age)
  /\ WF_vars(FailWithoutId)
  /\ \A p \in Pollers :
       /\ SF_vars(Load(p))
       /\ SF_vars(\E s \in Reports : UpdateWithStatus(p, s))
       /\ WF_vars(RefundMidjourneyQuota(p)) /\ WF_vars(PollFinal(p))

FairSpec == Spec /\ Fairness

(***************************************************************************)
(* Properties.                                                             *)
(***************************************************************************)
MidjourneyTypeOK ==
  /\ row \in Tasks /\ mine \in Tasks /\ noticeCopy \in Tasks
  /\ copy \in [Pollers -> Tasks]
  /\ at \in [Pollers -> {"idle", "asked", "refund", "final"}]
  /\ submit \in {"start", "asked", "insert", "record", "split", "again",
                 "final", "done"}
  /\ held \in [wallet : Int, reward : Int, token : Int, subscription : Int]
  /\ stored \in {"nothing", "snapshot", "split"}

\* A task whose billing snapshot reached its row is given back at most once,
\* from the sources that paid, and completely: no store returns more than it
\* took, a refunded row leaves nothing behind in wallet, token or
\* subscription, and where the split of the wallet was stored the reward
\* part comes back as reward.  No rebate is paid after that, even when a late
\* notice reopens the row and the upstream then reports success.
\* (RefundMidjourneyBilling and its marker, the compare-and-swap of
\* UpdateWithStatus, RecordMidjourneyBilling.)
RefundExact ==
  /\ stored # "nothing" =>
       /\ held.wallet >= 0 /\ held.token >= 0 /\ held.subscription >= 0
       /\ row.refunded =>
            held.wallet = 0 /\ held.token = 0 /\ held.subscription = 0
  /\ stored = "split" =>
       held.reward >= 0 /\ (row.refunded => held.reward = 0)
  /\ returned # NotYet => rebated = returned

\* Every task of the loop comes to an end: its progress reaches 100%,
\* although statements fail, loops stop and notices reopen it
\* (GetAllUnFinishTasks and the hour's limit in UpdateMidjourneyTaskBulk).
MidjourneyEnds == (exists /\ ~row.full) ~> row.full

=============================================================================
