--------------------------- MODULE BillingSession ---------------------------
(***************************************************************************)
(* One request's BillingSession (service/billing_session.go) with its      *)
(* funding source (service/funding_source.go): the reservation of quota    *)
(* before an upstream call, its settlement to the amount really used, and  *)
(* the two ways to give it back.                                           *)
(*                                                                         *)
(* A session moves money on two sides that live in different stores: the   *)
(* funding source (the user's wallet row, or the request's subscription    *)
(* record) and the numeric quota of the API token.  The variables named    *)
(* after the fields of the Go structs are what the session remembers in    *)
(* memory; fundingTaken, rewardTaken and tokenTaken are what the stores    *)
(* have really debited for this session.  Every store statement is         *)
(* relative to the row (quota = quota - ?), or absolute on the request's   *)
(* own record, so the debits of different sessions add up independently    *)
(* and one session is the unit of this module.                             *)
(*                                                                         *)
(* Methods that hold s.mu while they call the stores are one action.  The  *)
(* refund goroutine and RollbackSettlement release s.mu around their store *)
(* calls: each call, and each locked update after it, is an action.        *)
(***************************************************************************)
EXTENDS Integers

CONSTANTS
  MaxQuota,     \* largest amount a session reserves or settles (bound)
  MaxStreamed,  \* largest total of realtime progress charged (bound)
  MaxFailures,  \* how many store calls may fail (bound)
  TokenRollbackAttempts  \* 3 in the handler and 5 in the background

ASSUME BoundsAssumption ==
  /\ MaxQuota \in Nat \ {0}
  /\ MaxStreamed \in Nat /\ MaxFailures \in Nat
  /\ TokenRollbackAttempts \in Nat \ {0}

Amount == 0 .. MaxQuota
Source == {"wallet", "subscription"}

VARIABLES
  \* NewBillingSession: the source being tried, the one to fall back to, the
  \* quota asked for and where the attempt stands.
  funding, fallback, asked, playground, force, stage, effective, attempts,
  \* BillingSession counters.
  preConsumedQuota, fundingQuota, tokenQuota, tokenConsumed,
  \* WalletFunding.consumed / SubscriptionFunding.currentAmount, and the split.
  consumed, rewardConsumed, paidConsumed,
  \* Lifecycle flags.
  settled, refunded, refundStarted, refundFundingDone, refundTokenDone,
  settlementRolledBack, rollbackFundingDone, rollbackTokenDone, rebateApplied,
  \* Retry of a realtime increment.
  progressPending, pendingProgressDelta, pendingProgressTarget,
  \* The two activities that run without the mutex ("idle" is not in flight),
  \* with the token amount each captured before unlocking.
  refundAt, refundTokenAmount, rollbackAt, rollbackTokenAmount,
  \* The stores.
  fundingTaken, rewardTaken, tokenTaken,
  \* History: failed store calls, realtime usage charged, paid quota rebated,
  \* whether a final settlement was tried and whether a rollback was begun.
  failures, streamed, rebatedPaid, finalTried, rollbackStarted

openVars == <<funding, fallback, asked, playground, force, stage, effective,
              attempts>>
purseVars == <<consumed, rewardConsumed, paidConsumed, fundingTaken,
               rewardTaken>>
progressVars == <<progressPending, pendingProgressDelta,
                  pendingProgressTarget>>
refundVars == <<refunded, refundStarted, refundFundingDone, refundTokenDone,
                refundAt, refundTokenAmount>>
rollbackVars == <<settlementRolledBack, rollbackFundingDone,
                  rollbackTokenDone, rollbackAt, rollbackTokenAmount,
                  rollbackStarted>>
tokenVars == <<tokenQuota, tokenConsumed, tokenTaken>>
claimVars == <<rebateApplied, rebatedPaid>>

vars == <<openVars, purseVars, progressVars, refundVars, rollbackVars,
          tokenVars, claimVars, preConsumedQuota, fundingQuota, settled,
          failures, streamed, finalTried>>

(***************************************************************************)
(* Helpers.                                                                *)
(***************************************************************************)
Min2(a, b) == IF a <= b THEN a ELSE b
Max2(a, b) == IF a >= b THEN a ELSE b

\* A store call may fail; then it has committed nothing.
StoreFails == failures < MaxFailures /\ failures' = failures + 1
StoreWorks == UNCHANGED failures

tokenQuotaRequired == ~playground /\ funding # "subscription"

\* Slip: a session whose funding committed first is not seen as refundable.
NeedsRefundTokenOnly ==
  ~settled /\ ~refunded /\ ~refundTokenDone /\ tokenConsumed > 0

\* needsRefundLocked.  sub.preConsumed is preConsumedQuota in an open session.
NeedsRefund ==
  /\ ~settled /\ ~refunded
  /\ \/ ~refundTokenDone /\ tokenConsumed > 0
     \/ /\ ~refundFundingDone
        /\ \/ funding = "wallet" /\ consumed > 0
           \/ funding = "subscription" /\ preConsumedQuota > 0

(***************************************************************************)
(* The funding sources.                                                    *)
(***************************************************************************)
\* DecreaseUserQuotaPreferReward debits d, r of it from the reward quota.  How
\* much is reward depends on the row; RewardShares is every split it can make.
RewardShares(d) == IF funding = "wallet" THEN 0 .. d ELSE {0}

WalletDebit(d, r) ==
  /\ consumed' = consumed + d
  /\ rewardConsumed' = rewardConsumed + r
  /\ paidConsumed' = paidConsumed + (d - r)
  /\ fundingTaken' = fundingTaken + d
  /\ rewardTaken' = rewardTaken + r

\* WalletFunding.Settle with a negative delta gives back d: paid quota first,
\* then reward quota, neither beyond what this session consumed.
WalletCredit(d) ==
  LET paidRefund   == Min2(d, paidConsumed)
      rewardRefund == Min2(d - paidRefund, rewardConsumed)
  IN  /\ consumed' = consumed - (paidRefund + rewardRefund)
      /\ paidConsumed' = paidConsumed - paidRefund
      /\ rewardConsumed' = rewardConsumed - rewardRefund
      /\ fundingTaken' = fundingTaken - (paidRefund + rewardRefund)
      /\ rewardTaken' = rewardTaken - rewardRefund

WalletSettle(delta) ==
  \/ /\ delta > 0
     /\ \E r \in RewardShares(delta) : WalletDebit(delta, r)
  \/ /\ delta < 0
     /\ WalletCredit(-delta)

\* SubscriptionFunding.Settle writes an absolute amount to the request record.
SubscriptionSettle(delta) ==
  /\ consumed' = Max2(consumed + delta, 0)
  /\ fundingTaken' = consumed'
  /\ UNCHANGED <<rewardConsumed, paidConsumed, rewardTaken>>

FundingSettle(delta) ==
  \/ funding = "wallet" /\ WalletSettle(delta)
  \/ funding = "subscription" /\ SubscriptionSettle(delta)

\* Slip: the wallet gives back what was reserved, not what was consumed.
FundingRefundReserved ==
  /\ fundingTaken' = fundingTaken - preConsumedQuota
  /\ UNCHANGED rewardTaken

\* FundingSource.Refund when the store accepts it.  A wallet that consumed
\* nothing calls no store, so it cannot fail.
RefundCallsStore == funding = "subscription" \/ consumed > 0

FundingRefund ==
  \/ /\ funding = "wallet"
     /\ fundingTaken' = fundingTaken - consumed
     /\ rewardTaken' = rewardTaken - rewardConsumed
  \/ /\ funding = "subscription"
     /\ fundingTaken' = 0
     /\ UNCHANGED rewardTaken

(***************************************************************************)
(* NewBillingSession and preConsume.                                       *)
(***************************************************************************)
Init ==
  /\ funding \in Source                          \* billing preference:
  /\ fallback \in (Source \ {funding}) \cup {"none"}  \* *_only or *_first
  /\ asked \in Amount
  /\ playground \in BOOLEAN /\ force \in BOOLEAN
  /\ stage = "try" /\ effective = 0 /\ attempts = 0
  /\ preConsumedQuota = 0 /\ fundingQuota = 0
  /\ tokenQuota = 0 /\ tokenConsumed = 0 /\ tokenTaken = 0
  /\ consumed = 0 /\ rewardConsumed = 0 /\ paidConsumed = 0
  /\ fundingTaken = 0 /\ rewardTaken = 0
  /\ settled = FALSE /\ refunded = FALSE /\ refundStarted = FALSE
  /\ refundFundingDone = FALSE /\ refundTokenDone = FALSE
  /\ settlementRolledBack = FALSE
  /\ rollbackFundingDone = FALSE /\ rollbackTokenDone = FALSE
  /\ rebateApplied = FALSE /\ progressPending = FALSE
  /\ pendingProgressDelta = 0 /\ pendingProgressTarget = 0
  /\ refundAt = "idle" /\ refundTokenAmount = 0
  /\ rollbackAt = "idle" /\ rollbackTokenAmount = 0
  /\ failures = 0 /\ streamed = 0 /\ rebatedPaid = 0
  /\ finalTried = FALSE /\ rollbackStarted = FALSE

opened == <<preConsumedQuota, fundingQuota, settled, claimVars, progressVars,
            refundVars, rollbackVars, streamed, finalTried>>

\* An attempt ended with ErrorCodeInsufficientUserQuota: the other source is
\* tried if the preference names one, with a fresh session.
Unavailable ==
  IF fallback = "none"
    THEN stage' = "failed" /\ UNCHANGED <<funding, fallback>>
    ELSE stage' = "try" /\ funding' = fallback /\ fallback' = "none"

\* tryWallet's check of the (cached) user quota refuses the request.
WalletQuotaCheckFails ==
  /\ stage = "try" /\ funding = "wallet"
  /\ Unavailable
  /\ UNCHANGED <<asked, playground, force, effective, attempts>>
  /\ UNCHANGED <<opened, purseVars, tokenVars, failures>>

\* preConsume up to the token reservation.  A trusted wallet reserves nothing;
\* a subscription reserves at least 1 and never the token.
Reservation(trusted) ==
  IF funding = "subscription" THEN Max2(asked, 1)
  ELSE IF trusted THEN 0 ELSE asked

PreConsumeToken ==
  /\ stage = "try"
  /\ \E trusted \in BOOLEAN :
       /\ trusted => funding = "wallet" /\ ~force
       /\ effective' = Reservation(trusted)
  /\ IF effective' > 0 /\ tokenQuotaRequired
       THEN \/ /\ tokenConsumed' = effective'
               /\ tokenTaken' = tokenTaken + effective'
               /\ stage' = "funding"
            \/ /\ stage' = "failed"
               /\ UNCHANGED <<tokenConsumed, tokenTaken>>
       ELSE stage' = "funding" /\ UNCHANGED <<tokenConsumed, tokenTaken>>
  /\ UNCHANGED <<funding, fallback, asked, playground, force, attempts>>
  /\ UNCHANGED <<opened, purseVars, tokenQuota, failures>>

PreConsumeFunding ==
  /\ stage = "funding"
  /\ \E r \in RewardShares(effective) :
       /\ consumed' = effective
       /\ fundingTaken' = fundingTaken + effective
       /\ rewardConsumed' = rewardConsumed + r
       /\ rewardTaken' = rewardTaken + r
       /\ paidConsumed' = IF funding = "wallet"
                            THEN paidConsumed + (effective - r)
                            ELSE paidConsumed
  /\ preConsumedQuota' = effective
  /\ fundingQuota' = effective
  /\ tokenQuota' = tokenConsumed
  /\ stage' = "open"
  /\ UNCHANGED <<funding, fallback, asked, playground, force, effective,
                 attempts, settled, claimVars, progressVars, refundVars,
                 rollbackVars, streamed, finalTried, tokenConsumed, tokenTaken,
                 failures>>

\* The funding source refuses.  Only a subscription's refusal is classified as
\* unavailable; a wallet's (user quota is not enough) is final.  A reserved
\* token is given back first.  WalletFunding.PreConsume(0) cannot fail.
PreConsumeFundingFails ==
  /\ stage = "funding"
  /\ effective > 0
  /\ \/ /\ tokenConsumed > 0
        /\ stage' = "rollback" /\ UNCHANGED <<funding, fallback>>
     \/ /\ tokenConsumed = 0 /\ funding = "subscription"
        /\ Unavailable
     \/ /\ tokenConsumed = 0
        /\ stage' = "failed" /\ UNCHANGED <<funding, fallback>>
  /\ UNCHANGED <<asked, playground, force, effective, attempts>>
  /\ UNCHANGED <<opened, purseVars, tokenVars, failures>>

\* rollbackPreConsumedTokenQuota and, once its attempts are used up, the
\* background retry.  Neither the number nor the order of failures matters
\* to the outcome: some attempt commits, or every one fails.
TokenRollbackWorks ==
  /\ stage = "rollback"
  /\ tokenTaken' = tokenTaken - tokenConsumed
  /\ tokenConsumed' = 0 /\ tokenQuota' = 0
  /\ stage' = "failed"
  /\ UNCHANGED <<funding, fallback, asked, playground, force, effective,
                 attempts, opened, purseVars, failures>>

TokenRollbackFails ==
  /\ stage = "rollback"
  /\ attempts < TokenRollbackAttempts
  /\ attempts' = attempts + 1
  /\ stage' = IF attempts' = TokenRollbackAttempts THEN "burnt" ELSE stage
  /\ StoreFails
  /\ UNCHANGED <<funding, fallback, asked, playground, force, effective,
                 opened, purseVars, tokenVars>>

(***************************************************************************)
(* applyTargetLocked: funding first, then the token.                       *)
(***************************************************************************)
FundingMoves(target) ==
  /\ \/ target = fundingQuota /\ UNCHANGED purseVars
     \/ target # fundingQuota /\ FundingSettle(target - fundingQuota)
  /\ fundingQuota' = target

\* Slip: the token moves by the funding delta, so a retry skips it.
TokenMovesByFundingDelta(target) ==
  /\ tokenTaken' = IF tokenQuotaRequired
                     THEN tokenTaken + (target - fundingQuota)
                     ELSE tokenTaken
  /\ tokenQuota' = IF tokenQuotaRequired THEN target ELSE 0
  /\ tokenConsumed' = tokenQuota'

TokenMoves(target) ==
  /\ tokenTaken' = IF tokenQuotaRequired
                     THEN tokenTaken + (target - tokenQuota)
                     ELSE tokenTaken
  /\ tokenQuota' = IF tokenQuotaRequired THEN target ELSE 0
  /\ tokenConsumed' = tokenQuota'

TargetFundingFails(target) ==
  /\ target # fundingQuota
  /\ StoreFails
  /\ UNCHANGED <<purseVars, fundingQuota, tokenVars>>

TargetTokenFails(target) ==
  /\ tokenQuotaRequired /\ target # tokenQuota
  /\ FundingMoves(target)
  /\ StoreFails
  /\ UNCHANGED tokenVars

TargetReached(target) ==
  /\ FundingMoves(target)
  /\ TokenMoves(target)
  /\ StoreWorks

TargetFails(target) == TargetFundingFails(target) \/ TargetTokenFails(target)

(***************************************************************************)
(* SettleBilling, with Settle and the one claim of the wallet breakdown.   *)
(***************************************************************************)
\* A subscription whose upstream reported no usage keeps the reservation.
SettleTarget(actual) ==
  IF funding = "subscription" /\ preConsumedQuota > 0 /\ actual = 0
    THEN preConsumedQuota
    ELSE actual

ClaimWalletConsumedForRebate ==
  IF rebateApplied \/ funding # "wallet"
    THEN UNCHANGED claimVars
    ELSE /\ rebateApplied' = TRUE
         /\ rebatedPaid' = rebatedPaid + paidConsumed'

\* Slip: nothing keeps a settlement out once the refund has started.
SettleUnfenced == stage = "open"

\* Settle and SettleProgress refuse a session whose refund has started.
NotRefunding == stage = "open" /\ ~refundStarted

SettleFirst(actual) ==
  /\ ~settled
  /\ progressPending' = FALSE
  /\ \/ TargetFails(SettleTarget(actual)) /\ UNCHANGED <<settled, claimVars>>
     \/ /\ TargetReached(SettleTarget(actual))
        /\ settled' = TRUE
        /\ ClaimWalletConsumedForRebate

SettleAgain ==
  /\ settled
  /\ UNCHANGED <<purseVars, fundingQuota, tokenVars, settled, failures,
                 progressPending>>
  /\ ClaimWalletConsumedForRebate

SettleBilling(actual) ==
  /\ NotRefunding
  /\ SettleFirst(actual) \/ SettleAgain
  /\ finalTried' = TRUE
  /\ UNCHANGED <<openVars, pendingProgressDelta, pendingProgressTarget,
                 refundVars, rollbackVars, preConsumedQuota, streamed>>

(***************************************************************************)
(* SettleProgress: a realtime request charges a chunk while it runs.  The  *)
(* same delta after a failure is taken for a retry of the failed chunk.    *)
(***************************************************************************)
\* Slip: a retried chunk is added a second time.
ProgressTargetAdds(delta) ==
  Max2((IF progressPending THEN pendingProgressTarget ELSE fundingQuota)
         + delta, 0)

ProgressTarget(delta) ==
  IF progressPending
    THEN IF delta = pendingProgressDelta
           THEN pendingProgressTarget
           ELSE Max2(pendingProgressTarget + delta, 0)
    ELSE Max2(fundingQuota + delta, 0)

\* retry: the caller repeats the failed chunk, so no new usage is streamed.
SettleProgress(delta, retry) ==
  /\ NotRefunding /\ ~settled
  /\ retry => progressPending /\ delta = pendingProgressDelta
  /\ ProgressTarget(delta) \in Amount
  /\ streamed' = IF retry THEN streamed ELSE streamed + delta
  /\ streamed' <= MaxStreamed
  /\ pendingProgressDelta' = delta
  /\ pendingProgressTarget' = ProgressTarget(delta)
  /\ \/ TargetFails(ProgressTarget(delta)) /\ progressPending' = TRUE
     \/ TargetReached(ProgressTarget(delta)) /\ progressPending' = FALSE
  /\ UNCHANGED <<openVars, refundVars, rollbackVars, claimVars,
                 preConsumedQuota, settled, finalTried>>

(***************************************************************************)
(* Refund: the mutex section, then the goroutine.                          *)
(***************************************************************************)
sessionRest == <<openVars, progressVars, claimVars, preConsumedQuota,
                 fundingQuota, settled, streamed, finalTried>>

\* Slip: a side with nothing to give back is not marked done.
NothingOnTokenNever == FALSE

NothingOnToken == playground \/ tokenConsumed <= 0

Refund ==
  /\ stage = "open"
  /\ refundAt = "idle"
  /\ NeedsRefund
  /\ refundStarted' = TRUE
  /\ refundTokenDone' = (refundTokenDone \/ NothingOnToken)
  /\ refundTokenAmount' = tokenConsumed
  /\ refundAt' = "funding"
  /\ UNCHANGED <<sessionRest, refunded, refundFundingDone, rollbackVars,
                 purseVars, tokenVars, failures>>

\* 1) The funding source.  A subscription refund is retried and idempotent, so
\* it may also have committed although its last answer was lost.
RefundFunding ==
  /\ refundAt = "funding"
  /\ \/ /\ refundFundingDone
        /\ refundAt' = "token"
        /\ UNCHANGED <<fundingTaken, rewardTaken>> /\ StoreWorks
     \/ /\ ~refundFundingDone
        /\ FundingRefund /\ StoreWorks
        /\ refundAt' = "markFunding"
     \/ /\ ~refundFundingDone /\ RefundCallsStore
        /\ StoreFails
        /\ \/ UNCHANGED <<fundingTaken, rewardTaken>>
           \/ funding = "subscription" /\ FundingRefund
        /\ refundAt' = "token"
  /\ UNCHANGED <<sessionRest, consumed, rewardConsumed, paidConsumed,
                 refunded, refundStarted, refundFundingDone, refundTokenDone,
                 refundTokenAmount, rollbackVars, tokenVars>>

RefundMarkFunding ==
  /\ refundAt = "markFunding"
  /\ refundFundingDone' = TRUE
  /\ refundAt' = "token"
  /\ UNCHANGED <<sessionRest, refunded, refundStarted, refundTokenDone,
                 refundTokenAmount, rollbackVars, purseVars, tokenVars,
                 failures>>

\* 2) The token quota captured when the refund began.
RefundToken ==
  /\ refundAt = "token"
  /\ \/ /\ refundTokenDone \/ refundTokenAmount <= 0 \/ playground
        /\ refundAt' = "finish"
        /\ UNCHANGED tokenTaken /\ StoreWorks
     \/ /\ ~refundTokenDone /\ refundTokenAmount > 0 /\ ~playground
        /\ tokenTaken' = tokenTaken - refundTokenAmount /\ StoreWorks
        /\ refundAt' = "markToken"
     \/ /\ ~refundTokenDone /\ refundTokenAmount > 0 /\ ~playground
        /\ UNCHANGED tokenTaken /\ StoreFails
        /\ refundAt' = "finish"
  /\ UNCHANGED <<sessionRest, refunded, refundStarted, refundFundingDone,
                 refundTokenDone, refundTokenAmount, rollbackVars, purseVars,
                 tokenQuota, tokenConsumed>>

RefundMarkToken ==
  /\ refundAt = "markToken"
  /\ refundTokenDone' = TRUE
  /\ tokenConsumed' = 0
  /\ refundAt' = "finish"
  /\ UNCHANGED <<sessionRest, refunded, refundStarted, refundFundingDone,
                 refundTokenAmount, rollbackVars, purseVars, tokenQuota,
                 tokenTaken, failures>>

RefundFinish ==
  /\ refundAt = "finish"
  /\ refundAt' = "idle"
  /\ refunded' = (refunded \/ (refundFundingDone /\ refundTokenDone))
  /\ UNCHANGED <<sessionRest, refundStarted, refundFundingDone,
                 refundTokenDone, refundTokenAmount, rollbackVars, purseVars,
                 tokenVars, failures>>

(***************************************************************************)
(* RollbackSettlement: undo a settled charge when the task row that should *)
(* carry it could not be inserted.  On an unsettled session it is Refund.  *)
(***************************************************************************)
RollbackSettlement ==
  /\ stage = "open"
  /\ settled /\ ~settlementRolledBack /\ ~refunded
  /\ rollbackAt = "idle"
  /\ rollbackAt' = "funding"
  /\ rollbackStarted' = TRUE
  /\ rollbackTokenAmount' = tokenQuota
  /\ UNCHANGED <<sessionRest, settlementRolledBack, rollbackFundingDone,
                 rollbackTokenDone, refundVars, purseVars, tokenVars,
                 failures>>

RollbackFunding ==
  /\ rollbackAt = "funding"
  /\ \/ /\ rollbackFundingDone
        /\ rollbackAt' = "token"
        /\ UNCHANGED <<fundingTaken, rewardTaken>> /\ StoreWorks
     \/ /\ ~rollbackFundingDone
        /\ FundingRefund /\ StoreWorks
        /\ rollbackAt' = "markFunding"
     \/ /\ ~rollbackFundingDone /\ RefundCallsStore
        /\ StoreFails
        /\ \/ UNCHANGED <<fundingTaken, rewardTaken>>
           \/ funding = "subscription" /\ FundingRefund
        /\ rollbackAt' = "token"
  /\ UNCHANGED <<sessionRest, consumed, rewardConsumed, paidConsumed,
                 refundVars, settlementRolledBack, rollbackFundingDone,
                 rollbackTokenDone, rollbackTokenAmount, rollbackStarted, tokenVars>>

RollbackMarkFunding ==
  /\ rollbackAt = "markFunding"
  /\ rollbackFundingDone' = TRUE
  /\ rollbackAt' = "token"
  /\ UNCHANGED <<sessionRest, refundVars, settlementRolledBack,
                 rollbackTokenDone, rollbackTokenAmount, rollbackStarted, purseVars, tokenVars,
                 failures>>

RollbackToken ==
  /\ rollbackAt = "token"
  /\ \/ /\ rollbackTokenDone \/ rollbackTokenAmount <= 0 \/ playground
        /\ rollbackAt' = "markToken"
        /\ UNCHANGED tokenTaken /\ StoreWorks
     \/ /\ ~rollbackTokenDone /\ rollbackTokenAmount > 0 /\ ~playground
        /\ tokenTaken' = tokenTaken - rollbackTokenAmount /\ StoreWorks
        /\ rollbackAt' = "markToken"
     \/ /\ ~rollbackTokenDone /\ rollbackTokenAmount > 0 /\ ~playground
        /\ UNCHANGED tokenTaken /\ StoreFails
        /\ rollbackAt' = "finish"
  /\ UNCHANGED <<sessionRest, refundVars, settlementRolledBack,
                 rollbackFundingDone, rollbackTokenDone, rollbackTokenAmount, rollbackStarted,
                 purseVars, tokenQuota, tokenConsumed>>

RollbackMarkToken ==
  /\ rollbackAt = "markToken"
  /\ rollbackTokenDone' = TRUE
  /\ rollbackAt' = "finish"
  /\ UNCHANGED <<sessionRest, refundVars, settlementRolledBack,
                 rollbackFundingDone, rollbackTokenAmount, rollbackStarted, purseVars,
                 tokenVars, failures>>

RollbackFinish ==
  LET complete == rollbackFundingDone /\ rollbackTokenDone
  IN  /\ rollbackAt = "finish"
      /\ rollbackAt' = "idle"
      /\ settlementRolledBack' = (settlementRolledBack \/ complete)
      /\ refunded' = (refunded \/ complete)
      /\ UNCHANGED <<sessionRest, refundStarted, refundFundingDone,
                     refundTokenDone, refundAt, refundTokenAmount,
                     rollbackFundingDone, rollbackTokenDone,
                     rollbackTokenAmount, rollbackStarted, purseVars, tokenVars, failures>>

(***************************************************************************)
(* The specification.  The handler and the goroutines always take their    *)
(* next step: a store call returns, with an answer or an error.            *)
(***************************************************************************)
OpenStep ==
  \/ WalletQuotaCheckFails
  \/ PreConsumeToken
  \/ PreConsumeFunding
  \/ PreConsumeFundingFails
  \/ TokenRollbackWorks
  \/ TokenRollbackFails

RefundStep ==
  \/ RefundFunding
  \/ RefundMarkFunding
  \/ RefundToken
  \/ RefundMarkToken
  \/ RefundFinish

RollbackStep ==
  \/ RollbackFunding
  \/ RollbackMarkFunding
  \/ RollbackToken
  \/ RollbackMarkToken
  \/ RollbackFinish

Next ==
  \/ OpenStep
  \/ \E actual \in Amount : SettleBilling(actual)
  \/ \E delta \in 1 .. MaxStreamed, retry \in BOOLEAN :
       SettleProgress(delta, retry)
  \/ Refund
  \/ RefundStep
  \/ RollbackSettlement
  \/ RollbackStep

Spec == Init /\ [][Next]_vars

Fairness == WF_vars(OpenStep) /\ WF_vars(RefundStep) /\ WF_vars(RollbackStep)

FairSpec == Spec /\ Fairness

(***************************************************************************)
(* Properties.                                                             *)
(***************************************************************************)
At == {"idle", "funding", "markFunding", "token", "markToken", "finish"}

\* Every field and store holds a value of its kind; amounts stay in range.
TypeOK ==
  /\ funding \in Source /\ fallback \in Source \cup {"none"}
  /\ asked \in Amount /\ effective \in Amount
  /\ playground \in BOOLEAN /\ force \in BOOLEAN
  /\ stage \in {"try", "funding", "rollback", "burnt", "failed", "open"}
  /\ attempts \in 0 .. TokenRollbackAttempts
  /\ preConsumedQuota \in Amount /\ fundingQuota \in Amount
  /\ tokenQuota \in Amount /\ tokenConsumed \in Amount
  /\ consumed \in Int /\ rewardConsumed \in Int /\ paidConsumed \in Int
  /\ fundingTaken \in Int /\ rewardTaken \in Int /\ tokenTaken \in Int
  /\ settled \in BOOLEAN /\ refunded \in BOOLEAN
  /\ refundStarted \in BOOLEAN
  /\ refundFundingDone \in BOOLEAN /\ refundTokenDone \in BOOLEAN
  /\ settlementRolledBack \in BOOLEAN /\ rollbackFundingDone \in BOOLEAN
  /\ rollbackTokenDone \in BOOLEAN /\ rollbackStarted \in BOOLEAN
  /\ rebateApplied \in BOOLEAN /\ rebatedPaid \in Int
  /\ progressPending \in BOOLEAN
  /\ pendingProgressDelta \in 0 .. MaxStreamed
  /\ pendingProgressTarget \in Amount
  /\ refundAt \in At /\ refundTokenAmount \in Amount
  /\ rollbackAt \in At /\ rollbackTokenAmount \in Amount
  /\ finalTried \in BOOLEAN
  /\ failures \in 0 .. MaxFailures /\ streamed \in 0 .. MaxStreamed

\* A settled session whose settlement was not undone has debited the same
\* amount on both sides (the token only if it is billed), however many store
\* calls of applyTargetLocked failed on the way.
ChargedExactly ==
  settled /\ ~rollbackStarted =>
    /\ fundingTaken = fundingQuota
    /\ tokenTaken = IF tokenQuotaRequired THEN fundingQuota ELSE 0

\* A refunded session (Refund or RollbackSettlement) holds nothing any more in
\* any store, and the reward share came back as reward quota.
RefundedHoldsNothing ==
  refunded => fundingTaken = 0 /\ rewardTaken = 0 /\ tokenTaken = 0

\* A request that NewBillingSession refused holds nothing, whichever source
\* refused it and whatever was reserved before.
RefusedHoldsNothing ==
  stage = "failed" => fundingTaken = 0 /\ rewardTaken = 0 /\ tokenTaken = 0

\* No store ever gets back more than the session took from it: a committed
\* refund side is never repeated, in a retry or by the other refund path.
NeverOverRefunded ==
  /\ 0 <= rewardTaken /\ rewardTaken <= fundingTaken
  /\ 0 <= tokenTaken

\* Whatever partial failures happened, an unsettled session that still holds
\* something and has no refund running can be refunded again (NeedsRefund).
RefundStaysPossible ==
  stage = "open" /\ ~settled /\ refundAt = "idle"
    /\ (fundingTaken > 0 \/ tokenTaken > 0)
    => NeedsRefund

\* Until the final settlement, realtime increments never charge more than was
\* reserved and streamed, even when failed chunks are retried or skipped.
ProgressNeverOvercharges ==
  stage = "open" /\ ~finalTried => fundingTaken <= preConsumedQuota + streamed

\* The paid quota handed to the consume rebate is claimed at most once, and
\* only from a settled charge.
RebateClaimedOnce ==
  /\ rebatedPaid = IF rebateApplied THEN paidConsumed ELSE 0
  /\ rebateApplied => settled

\* Once a refund has started or the settlement has committed, no step debits
\* any store again (the refundStarted fence and the settled guard).
NoDebitAfterClose ==
  [][refundStarted \/ settled =>
       /\ fundingTaken' <= fundingTaken
       /\ rewardTaken' <= rewardTaken
       /\ tokenTaken' <= tokenTaken]_vars

(***************************************************************************)
(* The inductive invariant behind the properties: what the session         *)
(* remembers is what the stores debited, until a side is given back.       *)
(***************************************************************************)
FundingReturned ==
  \/ refundFundingDone \/ refundAt = "markFunding"
  \/ rollbackFundingDone \/ rollbackAt = "markFunding"

TokenReturned ==
  \/ refundTokenDone \/ refundAt = "markToken"
  \/ rollbackTokenDone \/ rollbackAt = "markToken"

\* The session's own record of the funding side.
PurseInv ==
  /\ stage = "open" => consumed = fundingQuota
  /\ stage # "open" => consumed = 0
  /\ rewardConsumed >= 0 /\ paidConsumed >= 0
  /\ funding = "wallet" => rewardConsumed + paidConsumed = consumed
  /\ funding = "subscription" => rewardConsumed = 0 /\ paidConsumed = 0
  /\ consumed = 0 => rewardConsumed = 0 /\ paidConsumed = 0

\* The funding store against that record.  A subscription refund whose answer
\* was lost has emptied the store before it is marked.
FundingStoreInv ==
  /\ FundingReturned => fundingTaken = 0 /\ rewardTaken = 0
  /\ ~FundingReturned =>
       /\ rewardTaken = rewardConsumed
       /\ \/ fundingTaken = consumed
          \/ /\ funding = "subscription" /\ fundingTaken = 0
             /\ refundStarted \/ rollbackStarted

\* The token store against the session's record of it.
TokenStoreInv ==
  /\ stage \in {"try", "failed"} => tokenConsumed = 0 /\ tokenTaken = 0
  /\ stage \in {"funding", "rollback", "burnt"} => tokenTaken = tokenConsumed
  /\ stage # "open" => tokenQuota = 0
  /\ ~tokenQuotaRequired => tokenQuota = 0 /\ tokenConsumed = 0
  /\ TokenReturned => tokenTaken = 0
  /\ stage = "open" /\ ~TokenReturned =>
       tokenTaken = tokenQuota /\ tokenConsumed = tokenQuota
  /\ stage = "open" /\ refundTokenDone => tokenConsumed = 0

\* The order of the lifecycle flags, and the amounts captured by the two
\* compensations.
LifecycleInv ==
  /\ stage # "open" => /\ ~settled /\ ~refundStarted /\ ~refunded
                       /\ ~rollbackStarted
  /\ ~(settled /\ refundStarted)
  /\ rollbackStarted => settled
  /\ refundAt # "idle" \/ refundFundingDone \/ refundTokenDone
       => refundStarted
  /\ rollbackAt # "idle" \/ rollbackFundingDone \/ rollbackTokenDone
       => rollbackStarted
  /\ refunded => \/ refundFundingDone /\ refundTokenDone
                 \/ rollbackFundingDone /\ rollbackTokenDone
  /\ refundAt \in {"funding", "markFunding", "token"} /\ ~refundTokenDone
       => refundTokenAmount = tokenConsumed
  /\ rollbackAt # "idle" => rollbackTokenAmount = tokenQuota
  /\ settled => tokenQuota = IF tokenQuotaRequired THEN fundingQuota ELSE 0
  /\ stage = "open" /\ funding = "subscription" => preConsumedQuota > 0
  /\ stage = "funding" /\ funding = "subscription" => effective > 0

\* Realtime increments stay within what was reserved and streamed.
ProgressInv ==
  /\ stage # "open" => ~progressPending
  /\ ~finalTried =>
       /\ fundingQuota <= preConsumedQuota + streamed
       /\ progressPending =>
            pendingProgressTarget <= preConsumedQuota + streamed

IInv == TypeOK /\ PurseInv /\ FundingStoreInv /\ TokenStoreInv
          /\ LifecycleInv /\ ProgressInv /\ RebateClaimedOnce

\* The session implements the abstract reservation: its flags are a phase, and
\* what the stores debited is what the reservation holds.
ReservationPhase ==
  IF stage = "failed" THEN "closed"
  ELSE IF stage # "open" THEN "opening"
  ELSE IF refunded THEN "closed"
  ELSE IF refundStarted THEN "returning"
  ELSE IF settled THEN "charged" ELSE "active"

Res == INSTANCE Reservation WITH phase <- ReservationPhase,
                                 fundingHeld <- fundingTaken,
                                 tokenHeld <- tokenTaken

\* Every behaviour of the session is one of the abstract reservation.
ImplementsReservation == Res!ResSpec

\* A started refund reaches refunded unless a store call failed.
RefundCompletes == refundStarted ~> (refunded \/ failures > 0)

=============================================================================
