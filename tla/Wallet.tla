------------------------------- MODULE Wallet -------------------------------
(***************************************************************************)
(* The balance of one user (model/user.go, model/redemption.go and the     *)
(* batch updater of model/utils.go) under concurrent requests.             *)
(*                                                                         *)
(* Consumption, the transfer of invite quota and the redemption of a code  *)
(* are transactions that read a row, decide, and write.  They read with    *)
(* tx.Set("gorm:query_option", "FOR UPDATE").  Isolation is what that read *)
(* amounts to:                                                             *)
(*   "serial"    no commit of another request comes between read and write *)
(*               (what the lock is for; SQLite gives it, by failing the    *)
(*               write of a transaction whose snapshot is old);            *)
(*   "unlocked"  a plain read: the option is unknown to gorm v2, so MySQL  *)
(*               and PostgreSQL at their default levels run it unlocked.   *)
(* All other changes of a balance are single relative UPDATEs, or go       *)
(* through the batch updater, which keeps sums in memory and writes them   *)
(* later.  (The debits of PreConsumeQuota and of controller/task_video.go  *)
(* have no caller; the administrator's change of a balance is disabled.)   *)
(***************************************************************************)
EXTENDS Integers

CONSTANTS
  Requests,     \* concurrent requests of the user
  Isolation,    \* see above
  Operations,   \* the read-then-write operations that requests make
  StartQuota,   \* the balance at the start, all of it paid
  CodeQuota,    \* what the redemption code is worth
  MaxAmount,    \* largest amount of one operation (bound)
  MaxOps        \* how many operations may start (bound)

ASSUME WalletAssumption ==
  /\ Isolation \in {"serial", "unlocked"}
  /\ Operations \subseteq {"consume", "transfer", "redeem"}
  /\ StartQuota \in Nat /\ CodeQuota \in Nat
  /\ MaxAmount \in Nat \ {0} /\ MaxOps \in Nat

Amount == 1 .. MaxAmount

VARIABLES
  \* users.quota, reward_quota and aff_quota, and the status of one code.
  wallet,
  \* pc[r] is the transaction r is in, snap[r] the rows it read, need[r] the
  \* amount it wants; fresh are the requests whose snapshot is current.
  pc, snap, need, fresh,
  \* batchUpdateStores[BatchUpdateTypeUserQuota], and what was swapped out of
  \* it and is being written; dropped is what failed writes took with them.
  store, flushing, dropped,
  \* History: the sums of committed changes of quota and of reward_quota; what
  \* consumers hold; invite quota earned and transferred; redemptions.
  ledger, rewardLedger, held, heldReward, earned, transferred, redeemed, ops

batch == <<store, flushing, dropped>>
sums == <<ledger, rewardLedger>>
holds == <<held, heldReward>>
invite == <<earned, transferred>>
walletVars == <<wallet, pc, snap, need, fresh, batch, sums, holds, invite, redeemed,
                ops>>

WalletInit ==
  /\ wallet = [quota |-> StartQuota, reward |-> 0, aff |-> 0, code |-> "enabled"]
  /\ pc = [r \in Requests |-> "idle"]
  /\ snap = [r \in Requests |-> wallet] /\ need = [r \in Requests |-> 0]
  /\ fresh = {}
  /\ store = 0 /\ flushing = 0 /\ dropped = 0
  /\ ledger = StartQuota /\ rewardLedger = 0
  /\ held = 0 /\ heldReward = 0 /\ earned = 0 /\ transferred = 0
  /\ redeemed = 0 /\ ops = 0

(***************************************************************************)
(* Helpers.                                                                *)
(***************************************************************************)
Min2(a, b) == IF a <= b THEN a ELSE b
Max2(a, b) == IF a >= b THEN a ELSE b

CountOp == ops < MaxOps /\ ops' = ops + 1

\* A committed change makes every open snapshot old.
Commit(w) == wallet' = w /\ fresh' = {}

\* UPDATE users SET quota = quota + q, reward_quota = reward_quota + r.
Credit(q, r) ==
  /\ Commit([wallet EXCEPT !.quota = @ + q, !.reward = @ + r])
  /\ ledger' = ledger + q /\ rewardLedger' = rewardLedger + r

\* The transaction's first statement: the locked (or plain) read.
Read(r, op, n) ==
  /\ pc[r] = "idle" /\ op \in Operations /\ CountOp
  /\ pc' = [pc EXCEPT ![r] = op]
  /\ snap' = [snap EXCEPT ![r] = wallet]
  /\ need' = [need EXCEPT ![r] = n]
  /\ fresh' = fresh \cup {r}
  /\ UNCHANGED <<wallet, batch, sums, holds, invite, redeemed>>

MayWrite(r) == Isolation = "serial" => r \in fresh

EndTx(r) == pc' = [pc EXCEPT ![r] = "idle"] /\ UNCHANGED <<snap, need, ops>>

\* The transaction rolls back: its own check refused it, the database refused
\* a write based on an old snapshot, or the statement failed.
Rollback(r) ==
  /\ pc[r] # "idle"
  /\ EndTx(r) /\ fresh' = fresh \ {r}
  /\ UNCHANGED <<wallet, batch, sums, holds, invite, redeemed>>

(***************************************************************************)
(* DecreaseUserQuotaPreferReward.                                          *)
(***************************************************************************)
\* Slip: the balance is not compared with the amount.
SufficientAlways(r) == pc[r] = "consume"

\* The balance that was read covers the amount.
Sufficient(r) == snap[r].quota >= need[r]

\* Reward quota is used first, as far as the balance covers it.
RewardUsed(r) == Min2(need[r], Max2(0, Min2(snap[r].reward, snap[r].quota)))

ConsumeRead(r) == \E n \in Amount : Read(r, "consume", n)

ConsumeWrite(r) ==
  /\ pc[r] = "consume" /\ MayWrite(r) /\ Sufficient(r)
  /\ Credit(-need[r], -RewardUsed(r))
  /\ held' = held + need[r] /\ heldReward' = heldReward + RewardUsed(r)
  /\ EndTx(r) /\ UNCHANGED <<batch, invite, redeemed>>

\* IncreaseUserQuotaByBreakdown: a refund of a part of what was consumed, with
\* the split that the consumption reported.
IncreaseUserQuotaByBreakdown(total, part) ==
  /\ part <= total /\ part <= heldReward /\ total - part <= held - heldReward
  /\ CountOp /\ Credit(total, part)
  /\ held' = held - total /\ heldReward' = heldReward - part
  /\ UNCHANGED <<pc, snap, need, batch, invite, redeemed>>

(***************************************************************************)
(* Income.                                                                 *)
(***************************************************************************)
\* A check-in or another reward, never batched.
IncreaseUserRewardQuota(n) ==
  /\ CountOp /\ Credit(n, n)
  /\ UNCHANGED <<pc, snap, need, batch, holds, invite, redeemed>>

\* IncreaseUserQuota with the batch updater on.
IncreaseUserQuota(n) ==
  /\ CountOp /\ store' = store + n /\ ledger' = ledger + n
  /\ UNCHANGED <<wallet, pc, snap, need, fresh, flushing, dropped,
                 rewardLedger, holds, invite, redeemed>>

\* Slip: the map that was read is not replaced by an empty one.
BatchSwapKeeps ==
  /\ flushing = 0 /\ store # 0
  /\ flushing' = store /\ UNCHANGED store
  /\ UNCHANGED <<wallet, pc, snap, need, fresh, dropped, sums, holds, invite,
                 redeemed, ops>>

\* batchUpdate swaps the map under its lock and writes it without the lock.
BatchSwap ==
  /\ flushing = 0 /\ store # 0
  /\ flushing' = store /\ store' = 0
  /\ UNCHANGED <<wallet, pc, snap, need, fresh, dropped, sums, holds, invite,
                 redeemed, ops>>

BatchWrite ==
  /\ flushing # 0
  /\ Commit([wallet EXCEPT !.quota = @ + flushing]) /\ flushing' = 0
  /\ UNCHANGED <<pc, snap, need, store, dropped, sums, holds, invite, redeemed,
                 ops>>

\* The write fails: the error is logged and the swapped map is gone.
BatchWriteFails ==
  /\ flushing # 0
  /\ dropped' = dropped + flushing /\ flushing' = 0
  /\ UNCHANGED <<wallet, pc, snap, need, fresh, store, sums, holds, invite,
                 redeemed, ops>>

(***************************************************************************)
(* Invite quota.                                                           *)
(***************************************************************************)
\* The inviter's reward for a registration: aff_quota + n.
grantInviterReward(n) ==
  /\ CountOp /\ Commit([wallet EXCEPT !.aff = @ + n]) /\ earned' = earned + n
  /\ UNCHANGED <<pc, snap, need, batch, sums, holds, transferred, redeemed>>

TransferRead(r) == Read(r, "transfer", 0)

\* Slip: the invite quota is not set to zero.
SavedKeepsAff(r) ==
  [wallet EXCEPT !.quota = snap[r].quota + snap[r].aff,
                 !.reward = snap[r].reward + snap[r].aff]

\* The user as tx.Save writes it: every column, from the row that was read.
Saved(r) ==
  [wallet EXCEPT !.quota = snap[r].quota + snap[r].aff,
                 !.reward = snap[r].reward + snap[r].aff, !.aff = 0]

\* TransferAllAffQuotaToQuota.
TransferWrite(r) ==
  /\ pc[r] = "transfer" /\ MayWrite(r) /\ snap[r].aff > 0
  /\ Commit(Saved(r))
  /\ ledger' = ledger + snap[r].aff /\ rewardLedger' = rewardLedger + snap[r].aff
  /\ transferred' = transferred + snap[r].aff
  /\ EndTx(r) /\ UNCHANGED <<batch, holds, earned, redeemed>>

(***************************************************************************)
(* A redemption code.                                                      *)
(***************************************************************************)
RedeemRead(r) == Read(r, "redeem", 0)

\* Slip: the code's new status is not saved.
RedeemWriteUnmarked(r) ==
  /\ pc[r] = "redeem" /\ MayWrite(r) /\ snap[r].code = "enabled"
  /\ Credit(CodeQuota, CodeQuota)
  /\ redeemed' = redeemed + 1
  /\ EndTx(r) /\ UNCHANGED <<batch, holds, invite>>

\* redeem: the code must be enabled; its quota is credited as reward.
RedeemWrite(r) ==
  /\ pc[r] = "redeem" /\ MayWrite(r) /\ snap[r].code = "enabled"
  /\ Commit([wallet EXCEPT !.quota = @ + CodeQuota, !.reward = @ + CodeQuota,
                           !.code = "used"])
  /\ ledger' = ledger + CodeQuota /\ rewardLedger' = rewardLedger + CodeQuota
  /\ redeemed' = redeemed + 1
  /\ EndTx(r) /\ UNCHANGED <<batch, holds, invite>>

(***************************************************************************)
(* The specification.                                                      *)
(***************************************************************************)
RequestStep(r) ==
  \/ ConsumeRead(r)
  \/ ConsumeWrite(r)
  \/ TransferRead(r)
  \/ TransferWrite(r)
  \/ RedeemRead(r)
  \/ RedeemWrite(r)
  \/ Rollback(r)

WalletNext ==
  \/ \E r \in Requests : RequestStep(r)
  \/ \E t \in Amount, p \in 0 .. MaxAmount : IncreaseUserQuotaByBreakdown(t, p)
  \/ \E n \in Amount : IncreaseUserRewardQuota(n)
  \/ \E n \in Amount : IncreaseUserQuota(n)
  \/ \E n \in Amount : grantInviterReward(n)
  \/ BatchSwap
  \/ BatchWrite
  \/ BatchWriteFails

WalletSpec == WalletInit /\ [][WalletNext]_walletVars

(***************************************************************************)
(* Properties.                                                             *)
(***************************************************************************)
Balances == [quota : Int, reward : Int, aff : Int, code : {"enabled", "used"}]

\* Rows, snapshots and counters are of their types.
WalletTypeOK ==
  /\ wallet \in Balances /\ snap \in [Requests -> Balances]
  /\ pc \in [Requests -> {"idle", "consume", "transfer", "redeem"}]
  /\ need \in [Requests -> 0 .. MaxAmount] /\ fresh \subseteq Requests
  /\ store \in Nat /\ flushing \in Nat /\ dropped \in Nat
  /\ ledger \in Int /\ rewardLedger \in Int /\ held \in Nat
  /\ heldReward \in Nat /\ earned \in Nat /\ transferred \in Nat
  /\ redeemed \in Nat /\ ops \in Nat

\* No request loses or repeats a change of another: the row, with what the
\* batch updater still carries or has dropped, is the sum of all changes.
LedgerBalances ==
  /\ wallet.quota + store + flushing + dropped = ledger
  /\ wallet.reward = rewardLedger

\* DecreaseUserQuotaPreferReward refuses what the balance does not cover, so
\* the balance never becomes negative.
NeverOverdrawn == wallet.quota >= 0

\* Reward quota is a part of the balance, and never more than was granted: the
\* split reported by a consumption is quota the user really had.
RewardBacked == 0 <= wallet.reward /\ wallet.reward <= wallet.quota

\* TransferAllAffQuotaToQuota moves every unit of invite quota once.
TransferredOnce == transferred + wallet.aff = earned

\* A redemption code is credited at most once.
RedeemedOnce == redeemed <= IF wallet.code = "used" THEN 1 ELSE 0

(***************************************************************************)
(* The inductive invariant behind them: a fresh snapshot is the row, which *)
(* is what the lock is for.                                                *)
(***************************************************************************)
SnapshotCurrent == \A r \in fresh : snap[r] = wallet

Sound ==
  /\ LedgerBalances /\ NeverOverdrawn /\ RewardBacked
  /\ TransferredOnce /\ RedeemedOnce

IInv == WalletTypeOK /\ SnapshotCurrent /\ Sound

\* Without the lock: nobody is about to save a whole row.
NoSave == \A r \in Requests : pc[r] # "transfer"

RelativeInv == WalletTypeOK /\ NoSave /\ LedgerBalances
=============================================================================
