----------------------------- MODULE TopUpOrders -----------------------------
(***************************************************************************)
(* Wallet top-up orders (model/topup.go, model/topup_bonus.go, the topup_* *)
(* controllers): an order is created, its gateway reports a payment as     *)
(* often as it likes, an administrator may complete it by hand, and it is  *)
(* credited to the user's balance.                                         *)
(*                                                                         *)
(* Every crediting handler runs under LockOrder.  Its transaction reads    *)
(* the order with an option that gorm v2 ignores, so read and write are    *)
(* two steps here: only the in-process lock orders them.  The handlers     *)
(* that mark orders failed use the lock or not, as in the code.            *)
(*                                                                         *)
(* The controllers' first read and the model's read of an order are one    *)
(* step: between them only an unlocked handler could write, and none of    *)
(* those writes an order that the controllers judge by its status.         *)
(***************************************************************************)
EXTENDS OrderLock

CONSTANTS
  Methods,      \* payment methods of new orders, a subset of Gateways
  Astray,       \* gateways that report trade numbers which are not theirs
  Hashes,       \* chain transactions a user may submit
  NoHash,
  MaxFaults     \* failing statements and process stops (bound)

Gateways == {"epay", "stripe", "creem", "waffo", "pancake", "crypto"}

ASSUME TopUpAssumption ==
  /\ Methods \subseteq Gateways /\ Astray \subseteq Gateways /\ NoHash \notin Hashes
  /\ MaxFaults \in Nat

VARIABLES
  order,        \* top_ups: status and method; hash is crypto_transactions.tx_hash
  outcome,      \* what the gateway knows: "none", "open", "paid", "lapsed"
  credits,      \* how often the order was added to users.quota
  byHand,       \* orders an administrator completed
  acked,        \* orders whose payment was answered with success
  grant,        \* the topup_bonus_grants row of the user and rule exists
  bonuses,      \* bonus codes redeemed for the user
  pc, call,     \* the step of a handler's request and what it is
  verdict,      \* what the handler decided on the order it read
  faults

progress == <<pc, call, verdict>>
mutexes == <<entry, refs, owner, at, mutex>>
books == <<credits, byHand, acked>>
bonus == <<grant, bonuses>>
vars == <<locks, order, outcome, books, bonus, progress, faults>>

NoOrder == [status |-> "none", method |-> "epay", hash |-> NoHash]

\* Requests: the success report of a gateway, with the hash of a crypto
\* confirmation; the administrator's completion; Stripe's failure events.
Call(kind, hash) == [kind |-> kind, hash |-> hash]
NoCall == Call("none", NoHash)
Failures == {"expired", "failed"}

TopUpInit ==
  /\ LockInit
  /\ order = [t \in Trades |-> NoOrder]
  /\ outcome = [t \in Trades |-> "none"]
  /\ credits = [t \in Trades |-> 0] /\ byHand = {} /\ acked = {}
  /\ grant = FALSE /\ bonuses = 0
  /\ pc = [h \in Handlers |-> "idle"]
  /\ call = [h \in Handlers |-> NoCall]
  /\ verdict = [h \in Handlers |-> "none"]
  /\ faults = 0

Goto(h, step) == pc' = [pc EXCEPT ![h] = step]
SetStatus(t, s) == order' = [order EXCEPT ![t].status = s]
Idle(h) == at[h] = "out" /\ pc[h] = "idle"
Fault == faults < MaxFaults /\ faults' = faults + 1

(***************************************************************************)
(* Creation.  Epay, Lakala and crypto orders are handed out at once; the   *)
(* others only after the gateway has answered.                             *)
(***************************************************************************)
Create(h, t, m) ==
  /\ Idle(h) /\ order[t].status = "none"
  /\ order' = [order EXCEPT ![t] = [status |-> "pending", method |-> m, hash |-> NoHash]]
  /\ IF m \in {"epay", "crypto"}
     THEN outcome' = [outcome EXCEPT ![t] = "open"] /\ UNCHANGED <<progress, key>>
     ELSE /\ key' = [key EXCEPT ![h] = t]
          /\ Goto(h, "link")
          /\ UNCHANGED <<outcome, call, verdict>>
  /\ UNCHANGED <<mutexes, books, bonus, faults>>

\* The end of a request that does not use the lock.
Return(h) == Goto(h, "idle") /\ key' = [key EXCEPT ![h] = NoTrade]

LinkOk(h) ==
  /\ pc[h] = "link"
  /\ outcome' = [outcome EXCEPT ![key[h]] = "open"]
  /\ Return(h)
  /\ UNCHANGED <<mutexes, order, books, bonus, call, verdict, faults>>

\* The gateway refused.  Creem, Waffo and Pancake save the row they created,
\* without looking at it again; Stripe uses UpdatePendingTopUpStatus.
LinkFails(h) ==
  /\ pc[h] = "link"
  /\ IF order[key[h]].method = "stripe"
     THEN Goto(h, "recheck") /\ UNCHANGED <<order, key>>
     ELSE /\ SetStatus(key[h], IF order[key[h]].method = "creem" THEN "expired" ELSE "failed")
          /\ Return(h)
  /\ UNCHANGED <<mutexes, outcome, books, bonus, call, verdict, faults>>

\* UpdatePendingTopUpStatus, and the failure branch of handleWaffoPayment: the
\* status is read ...
Recheck(h) ==
  /\ pc[h] = "recheck"
  /\ IF order[key[h]].status = "pending"
     THEN Goto(h, "mark") /\ UNCHANGED key
     ELSE Return(h)
  /\ UNCHANGED <<mutexes, order, outcome, books, bonus, call, verdict, faults>>

\* ... and the row saved, with no lock held between.
MarkFailed(h) ==
  /\ pc[h] = "mark"
  /\ SetStatus(key[h], "failed")
  /\ Return(h)
  /\ UNCHANGED <<mutexes, outcome, books, bonus, call, verdict, faults>>

(***************************************************************************)
(* The gateways.                                                           *)
(***************************************************************************)
Pay(t) ==
  /\ outcome[t] = "open"
  /\ outcome' = [outcome EXCEPT ![t] = "paid"]
  /\ UNCHANGED <<locks, order, books, bonus, progress, faults>>

Lapse(t) ==
  /\ outcome[t] = "open"
  /\ outcome' = [outcome EXCEPT ![t] = "lapsed"]
  /\ UNCHANGED <<locks, order, books, bonus, progress, faults>>

\* Some order other than t has the hash.
HashUsed(t, x) == \E u \in Trades : u # t /\ order[u].hash = x /\ x # NoHash

\* A request that takes the lock: fulfillOrder, EpayNotify, LakalaNotify,
\* handleCheckoutCompleted, handleWaffoPayment, WaffoPancakeWebhook,
\* AdminCompleteTopUp, and Stripe's failure events.
Request(h, t, c) ==
  /\ Idle(h)
  /\ \E m \in Mutexes : Register(h, t, m)
  /\ call' = [call EXCEPT ![h] = c]
  /\ Goto(h, "read")
  /\ UNCHANGED <<order, outcome, books, bonus, verdict, faults>>

\* The gateway of the order reports the payment, once or again.
Report(h, t) ==
  /\ outcome[t] = "paid" /\ order[t].method # "crypto"
  /\ Request(h, t, Call(order[t].method, NoHash))

\* Another gateway reports a payment under this trade number.
ReportAstray(h, t, g) ==
  /\ order[t].status # "none" /\ g # order[t].method /\ g # "crypto"
  /\ Request(h, t, Call(g, NoHash))

\* RequestCryptoConfirm: status and hash are looked at before the lock.
RequestCryptoConfirm(h, t, x) ==
  /\ order[t].method = "crypto" /\ order[t].status = "pending"
  /\ \A u \in Trades : order[u].hash # x
  /\ Request(h, t, Call("crypto", x))

AdminCompleteTopUp(h, t) ==
  /\ order[t].status # "none"
  /\ Request(h, t, Call("manual", NoHash))

StripeFails(h, t, s) ==
  /\ order[t].method = "stripe" /\ outcome[t] = "lapsed"
  /\ Request(h, t, Call(s, NoHash))

\* handleWaffoPayment on any notification that is not PAY_SUCCESS.
WaffoFails(h, t) ==
  /\ Idle(h) /\ order[t].method = "waffo" /\ outcome[t] # "none"
  /\ key' = [key EXCEPT ![h] = t]
  /\ Goto(h, "recheck")
  /\ UNCHANGED <<mutexes, order, outcome, books, bonus, call, verdict, faults>>

(***************************************************************************)
(* What a transaction decides on the order it read: "credit", "done" (it   *)
(* was credited before, answer success), "refuse", or a failure status.    *)
(***************************************************************************)
Verdict(done, ok) == IF done THEN "done" ELSE IF ok THEN "credit" ELSE "refuse"

Pending(o) == o.status = "pending"
Succeeded(o) == o.status = "success"

Recharge(o) ==
  IF o.method # "stripe" THEN "refuse" ELSE Verdict(Succeeded(o), Pending(o))

RechargeWechatTopUp(o) ==
  IF o.method # "epay" THEN "refuse" ELSE Verdict(Succeeded(o), Pending(o))

\* handleCheckoutCompleted answers every order that is not pending.
RechargeCreem(o) ==
  IF o.method # "creem" THEN "refuse" ELSE Verdict(~ Pending(o), Pending(o))

RechargeWaffo(o) ==
  IF o.method # "waffo" THEN "refuse" ELSE Verdict(Succeeded(o), Pending(o))

RechargeWaffoPancake(o) ==
  IF o.method # "pancake" THEN "refuse" ELSE Verdict(Succeeded(o), Pending(o))

RechargeCrypto(o, used) ==
  IF o.method # "crypto" THEN "refuse"
  ELSE Verdict(Succeeded(o), Pending(o) /\ ~ used)

\* Slip: any order that was not credited yet is completed.
ManualCompleteAny(o) == Verdict(Succeeded(o), TRUE)

ManualCompleteTopUp(o) == Verdict(Succeeded(o), Pending(o))

\* Slip: the status of the order is not compared.
MarkStripeAny(o, s) == IF o.method = "stripe" THEN s ELSE "done"

\* sessionAsyncPaymentFailed and sessionExpired.
MarkStripe(o, s) == IF o.method = "stripe" /\ Pending(o) THEN s ELSE "done"

Decide(c, t) ==
  LET o == order[t] IN
  CASE c.kind = "stripe" -> Recharge(o)
    [] c.kind = "epay" -> RechargeWechatTopUp(o)
    [] c.kind = "creem" -> RechargeCreem(o)
    [] c.kind = "waffo" -> RechargeWaffo(o)
    [] c.kind = "pancake" -> RechargeWaffoPancake(o)
    [] c.kind = "crypto" -> RechargeCrypto(o, HashUsed(t, c.hash))
    [] c.kind = "manual" -> ManualCompleteTopUp(o)
    [] OTHER -> MarkStripe(o, c.kind)

(***************************************************************************)
(* The steps under the lock.                                               *)
(***************************************************************************)
EnterLock(h) ==
  /\ Acquire(h)
  /\ UNCHANGED <<order, outcome, books, bonus, progress, faults>>

\* SELECT ... FROM top_ups WHERE trade_no = ?, which takes no row lock.
ReadOrder(h) ==
  /\ at[h] = "in" /\ pc[h] = "read"
  /\ verdict' = [verdict EXCEPT ![h] = Decide(call[h], key[h])]
  /\ Goto(h, "write")
  /\ UNCHANGED <<locks, order, outcome, books, bonus, call, faults>>

\* Slip: the unique index on tx_hash is missing.
HashFreeAlways(h) == TRUE

\* The unique index of crypto_transactions.tx_hash.
HashFree(h) == call[h].kind # "crypto" \/ ~ HashUsed(key[h], call[h].hash)

\* The order's row and the balance are written in one transaction.
CompleteOrder(h) ==
  /\ at[h] = "in" /\ pc[h] = "write" /\ verdict[h] = "credit" /\ HashFree(h)
  /\ order' = [order EXCEPT ![key[h]].status = "success", ![key[h]].hash = call[h].hash]
  /\ credits' = [credits EXCEPT ![key[h]] = @ + 1]
  /\ byHand' = IF call[h].kind = "manual" THEN byHand \cup {key[h]} ELSE byHand
  /\ Goto(h, "bonus")
  /\ UNCHANGED <<locks, outcome, acked, bonus, call, verdict, faults>>

\* The order fails: topUp.Update() saves the row that was read.
FailOrder(h) ==
  /\ at[h] = "in" /\ pc[h] = "write" /\ verdict[h] \in Failures
  /\ SetStatus(key[h], verdict[h])
  /\ Goto(h, "unlock")
  /\ UNCHANGED <<locks, outcome, books, bonus, call, verdict, faults>>

\* Nothing to do: the order was credited before.
AnswerDone(h) ==
  /\ at[h] = "in" /\ pc[h] = "write" /\ verdict[h] = "done"
  /\ Goto(h, "answer")
  /\ UNCHANGED <<locks, order, outcome, books, bonus, call, verdict, faults>>

\* The answer is an error: the order does not qualify, or the hash is taken.
Refuse(h) ==
  /\ at[h] = "in" /\ pc[h] = "write"
  /\ verdict[h] = "refuse" \/ (verdict[h] = "credit" /\ ~ HashFree(h))
  /\ Goto(h, "unlock")
  /\ UNCHANGED <<locks, order, outcome, books, bonus, call, verdict, faults>>

\* Slip: the error path returns without UnlockOrder.
RollbackKeepsLock(h) ==
  /\ at[h] = "in" /\ pc[h] \in {"read", "write"} /\ Fault
  /\ Goto(h, "idle")
  /\ UNCHANGED <<locks, order, outcome, books, bonus, call, verdict>>

\* A statement of the transaction fails and rolls it back.
Rollback(h) ==
  /\ at[h] = "in" /\ pc[h] \in {"read", "write"} /\ Fault
  /\ Goto(h, "unlock")
  /\ UNCHANGED <<locks, order, outcome, books, bonus, call, verdict>>

(***************************************************************************)
(* The bonus of a top-up, after the commit (GrantTopUpBonus).              *)
(***************************************************************************)
\* Slip: the result of the insert is not looked at.
ClaimBonusAnyway(h) ==
  /\ pc[h] = "bonus" /\ at[h] = "in"
  /\ grant' = TRUE /\ Goto(h, "redeem")
  /\ UNCHANGED <<locks, order, outcome, books, bonuses, call, verdict, faults>>

\* claimTopUpBonusGrant: INSERT ... ON CONFLICT DO NOTHING.
ClaimBonus(h) ==
  /\ pc[h] = "bonus" /\ at[h] = "in"
  /\ grant' = TRUE
  /\ Goto(h, IF grant THEN "answer" ELSE "redeem")
  /\ UNCHANGED <<locks, order, outcome, books, bonuses, call, verdict, faults>>

\* No rule matches the amount, or the bonus is disabled.
NoBonus(h) ==
  /\ pc[h] = "bonus" /\ at[h] = "in"
  /\ Goto(h, "answer")
  /\ UNCHANGED <<locks, order, outcome, books, bonus, call, verdict, faults>>

RedeemBonus(h) ==
  /\ pc[h] = "redeem" /\ at[h] = "in"
  /\ bonuses' = bonuses + 1
  /\ Goto(h, "answer")
  /\ UNCHANGED <<locks, order, outcome, books, grant, call, verdict, faults>>

\* releaseTopUpBonusGrant.
ReleaseBonus(h) ==
  /\ pc[h] = "redeem" /\ at[h] = "in" /\ Fault
  /\ grant' = FALSE
  /\ Goto(h, "answer")
  /\ UNCHANGED <<locks, order, outcome, books, bonuses, call, verdict>>

\* The gateway gets its success answer.
Answer(h) ==
  /\ at[h] = "in" /\ pc[h] = "answer"
  /\ acked' = IF call[h].kind \in Gateways THEN acked \cup {key[h]} ELSE acked
  /\ Goto(h, "unlock")
  /\ UNCHANGED <<locks, order, outcome, credits, byHand, bonus, call, verdict, faults>>

LeaveLock(h) ==
  /\ pc[h] = "unlock" /\ Release(h)
  /\ UNCHANGED <<order, outcome, books, bonus, progress, faults>>

Finish(h) ==
  /\ pc[h] = "unlock" /\ Deregister(h)
  /\ Goto(h, "idle")
  /\ call' = [call EXCEPT ![h] = NoCall]
  /\ verdict' = [verdict EXCEPT ![h] = "none"]
  /\ UNCHANGED <<order, outcome, books, bonus, faults>>

\* A process stops between two steps of its handlers.
Stop(p) ==
  /\ Fault /\ LocksLost(p)
  /\ pc' = [h \in Handlers |-> IF Process[h] = p THEN "idle" ELSE pc[h]]
  /\ call' = [h \in Handlers |-> IF Process[h] = p THEN NoCall ELSE call[h]]
  /\ verdict' = [h \in Handlers |-> IF Process[h] = p THEN "none" ELSE verdict[h]]
  /\ UNCHANGED <<order, outcome, books, bonus>>

Locked(h) ==
  \/ EnterLock(h) \/ ReadOrder(h) \/ CompleteOrder(h) \/ FailOrder(h)
  \/ AnswerDone(h) \/ Refuse(h) \/ Rollback(h)
  \/ ClaimBonus(h) \/ NoBonus(h) \/ RedeemBonus(h) \/ ReleaseBonus(h)
  \/ Answer(h) \/ LeaveLock(h) \/ Finish(h)

Next ==
  \/ \E h \in Handlers :
       \/ \E t \in Trades, m \in Methods : Create(h, t, m)
       \/ LinkOk(h) \/ LinkFails(h) \/ Recheck(h) \/ MarkFailed(h)
       \/ Locked(h)
       \/ \E t \in Trades :
            \/ Report(h, t) \/ AdminCompleteTopUp(h, t) \/ WaffoFails(h, t)
            \/ \E g \in Astray : ReportAstray(h, t, g)
            \/ \E x \in Hashes : RequestCryptoConfirm(h, t, x)
            \/ \E s \in Failures : StripeFails(h, t, s)
  \/ \E t \in Trades : Pay(t) \/ Lapse(t)
  \/ \E p \in Processes : Stop(p)

Spec == TopUpInit /\ [][Next]_vars

\* Handlers run on, a waiting mutex is handed over (Go's mutexes do not starve
\* a waiter), and a gateway reports a payment until it is answered.
Steps(h) ==
  \/ LinkOk(h) \/ LinkFails(h) \/ Recheck(h) \/ MarkFailed(h)
  \/ ReadOrder(h) \/ CompleteOrder(h)
  \/ FailOrder(h) \/ AnswerDone(h) \/ Refuse(h) \/ ClaimBonus(h) \/ NoBonus(h)
  \/ RedeemBonus(h) \/ Answer(h) \/ LeaveLock(h) \/ Finish(h)

Redeliver(t) == t \notin acked /\ \E h \in Handlers : Report(h, t)

FairSpec ==
  /\ Spec
  /\ \A h \in Handlers : WF_vars(Steps(h)) /\ SF_vars(EnterLock(h))
  /\ \A t \in Trades : SF_vars(Redeliver(t))

(***************************************************************************)
(* Properties.                                                             *)
(***************************************************************************)
Statuses == {"none", "pending", "success"} \cup Failures
Orders == [status : Statuses, method : Gateways, hash : Hashes \cup {NoHash}]
Calls == [kind : Gateways \cup Failures \cup {"manual", "none"}, hash : Hashes \cup {NoHash}]

TopUpTypeOK ==
  /\ order \in [Trades -> Orders]
  /\ outcome \in [Trades -> {"none", "open", "paid", "lapsed"}]
  /\ credits \in [Trades -> Nat] /\ byHand \subseteq Trades /\ acked \subseteq Trades
  /\ grant \in BOOLEAN /\ bonuses \in Nat /\ faults \in Nat
  /\ pc \in [Handlers -> {"idle", "link", "recheck", "mark", "read", "write", "bonus",
                          "redeem", "answer", "unlock"}]
  /\ call \in [Handlers -> Calls]
  /\ verdict \in [Handlers -> {"none", "credit", "done", "refuse"} \cup Failures]

\* However often a payment is reported, by whichever handlers, and whatever an
\* administrator completes by hand meanwhile, an order is credited at most once
\* (Recharge and its variants: the status is read, judged and written in steps).
CreditedOnce == \A t \in Trades : credits[t] <= 1

\* Only what was paid is credited: unless an administrator did it, a credited
\* order's own gateway has its payment, and a chain transaction pays for one
\* order only, also when two orders are confirmed with it at the same time.
CreditedWhenPaid ==
  \A t \in Trades : (credits[t] > 0 /\ t \notin byHand) =>
    IF order[t].method = "crypto"
    THEN order[t].hash # NoHash /\ ~ HashUsed(t, order[t].hash)
    ELSE outcome[t] = "paid"

\* Except for Waffo, whose failure notices take no lock, an order that was
\* handed out shows success exactly when it was credited: an expiry event of
\* Stripe never overwrites the success of a payment reported at the same time.
StatusTellsCredit ==
  \A t \in Trades : (outcome[t] # "none" /\ order[t].method # "waffo") =>
    ((credits[t] > 0) <=> (order[t].status = "success"))

\* A user gets the bonus of a rule once, also when two of the user's orders are
\* completed at the same time or a redemption fails and the claim is released.
BonusOnce == bonuses <= 1

\* A payment that was made is credited in the end, whatever statements fail and
\* however often the process stops while it is being handled.
PaidIsCredited ==
  \A t \in Trades :
    (outcome[t] = "paid" /\ order[t].method \notin {"waffo", "crypto"}) ~> (credits[t] > 0)

(***************************************************************************)
(* The inductive invariant behind them, for handlers of one process.       *)
(***************************************************************************)
OutOfLock == {"idle", "link", "recheck", "mark"}

\* Where the lock is when a request is at a step.
StepsMatchLock ==
  \A h \in Handlers :
    /\ (at[h] = "out") <=> (pc[h] \in OutOfLock)
    /\ at[h] = "wait" => pc[h] = "read"
    /\ at[h] = "leave" => pc[h] = "unlock"
    /\ pc[h] # "idle" => key[h] \in Trades

\* An order that is not paid for yet, or that a handler is about to credit, has
\* not been credited.
Uncredited ==
  /\ \A t \in Trades : order[t].status \in {"none", "pending"} => credits[t] = 0
  /\ \A h \in Handlers :
       (pc[h] = "write" /\ verdict[h] = "credit") => credits[key[h]] = 0

\* A report under way is about an order that exists; if it comes from the
\* order's own gateway, the gateway has the payment.
ReportsArePaid ==
  \A h \in Handlers :
    /\ (call[h].kind = "crypto") <=> (call[h].hash # NoHash)
    /\ at[h] # "out" =>
         /\ order[key[h]].status # "none"
         /\ (call[h].kind = order[key[h]].method /\ call[h].kind # "crypto")
              => outcome[key[h]] = "paid"
    /\ (pc[h] = "write" /\ verdict[h] = "credit") =>
         call[h].kind \in {"manual", order[key[h]].method}

\* One handler creates an order, and no gateway knows it before that handler has
\* its answer.
LinkedOnce ==
  /\ \A t \in Trades : order[t].status = "none" => outcome[t] = "none"
  /\ \A h \in Handlers : pc[h] = "link" =>
       /\ order[key[h]].status # "none" /\ outcome[key[h]] = "none"
       /\ \A g \in Handlers : (pc[g] = "link" /\ key[g] = key[h]) => g = h

\* The claim of the bonus belongs to one handler until it is redeemed.
ClaimHeld ==
  /\ bonuses > 0 => grant
  /\ \A h \in Handlers : pc[h] = "redeem" =>
       /\ grant /\ bonuses = 0
       /\ \A g \in Handlers : pc[g] = "redeem" => g = h

\* Whatever the processes, and what needs all handlers in one of them.
BaseInv == TopUpTypeOK /\ LockInv /\ StepsMatchLock /\ ClaimHeld /\ BonusOnce

SingleProcess == \A g, h \in Handlers : Process[g] = Process[h]

CreditInv ==
  Uncredited /\ CreditedOnce /\ LinkedOnce /\ ReportsArePaid /\ CreditedWhenPaid
==============================================================================
