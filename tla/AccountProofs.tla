--------------------------- MODULE AccountProofs ----------------------------
(***************************************************************************)
(* Proofs about what an account owns: its wallet, and the subscriptions it *)
(* buys.                                                                   *)
(***************************************************************************)
EXTENDS Wallet, SubscriptionOrders, ArithmeticTheorems, FiniteSetTheorems, TLAPS

(***************************************************************************)
(* Proofs about Wallet, for every number of requests and every amount.     *)
(***************************************************************************)
\* The transactions of a serial database start sound.
LEMMA InitSound == WalletInit => IInv
  BY WalletAssumption
  DEF WalletInit, IInv, WalletTypeOK, Balances, SnapshotCurrent, Sound,
      LedgerBalances, NeverOverdrawn, RewardBacked, TransferredOnce,
      RedeemedOnce, Amount

\* The fields of a balance.
LEMMA Fields ==
  ASSUME NEW w \in Balances
  PROVE  /\ w.quota \in Int /\ w.reward \in Int /\ w.aff \in Int
         /\ w.code \in {"enabled", "used"}
  BY DEF Balances

\* Opening a transaction takes a current snapshot and changes no row.
LEMMA ReadKeeps ==
  ASSUME IInv, NEW r \in Requests,
         NEW op \in {"consume", "transfer", "redeem"}, NEW n \in 0 .. MaxAmount,
         Read(r, op, n)
  PROVE  IInv'
  <1> USE DEF IInv, Read, CountOp, batch, sums, holds, invite
  <1>1. WalletTypeOK'
    BY DEF WalletTypeOK, Balances
  <1>2. SnapshotCurrent'
    BY DEF SnapshotCurrent, WalletTypeOK
  <1>3. Sound'
    BY DEF Sound, LedgerBalances, NeverOverdrawn, RewardBacked,
           TransferredOnce, RedeemedOnce
  <1> QED BY <1>1, <1>2, <1>3

\* A consumption that holds a current snapshot stays within the balance, and
\* the reward part it reports is reward the user has.
LEMMA ConsumeKeeps ==
  ASSUME IInv, Isolation = "serial", NEW r \in Requests, ConsumeWrite(r)
  PROVE  IInv'
  <1> USE DEF IInv, ConsumeWrite, Credit, Commit, EndTx, batch, sums, holds,
              invite
  <1> DEFINE u == RewardUsed(r)
  <1>1. /\ wallet.quota \in Int /\ wallet.reward \in Int /\ wallet.aff \in Int
        /\ need[r] \in Nat /\ snap[r] = wallet /\ wallet.quota >= need[r]
    BY DEF MayWrite, SnapshotCurrent, Sufficient, WalletTypeOK, Balances
  <1>2. /\ u \in Nat /\ u <= need[r] /\ u <= wallet.reward
        /\ u = need[r] \/ u = wallet.reward
    BY <1>1 DEF RewardUsed, Min2, Max2, Sound, RewardBacked
  <1>3. /\ wallet' = [wallet EXCEPT !.quota = @ + (-need[r]),
                                    !.reward = @ + (-u)]
        /\ ledger' = ledger + (-need[r]) /\ rewardLedger' = rewardLedger + (-u)
        /\ held' = held + need[r] /\ heldReward' = heldReward + u
    OBVIOUS
  <1> HIDE DEF u
  <1>4. /\ wallet'.quota = wallet.quota - need[r]
        /\ wallet'.reward = wallet.reward - u
        /\ wallet'.aff = wallet.aff /\ wallet'.code = wallet.code
        /\ wallet' \in Balances
    <2>1. /\ wallet \in Balances /\ wallet.quota + (-need[r]) \in Int
          /\ wallet.reward + (-u) \in Int
          /\ wallet.quota + (-need[r]) = wallet.quota - need[r]
          /\ wallet.reward + (-u) = wallet.reward - u
      BY <1>1, <1>2 DEF WalletTypeOK
    <2>2. wallet' = [wallet EXCEPT !.quota = wallet.quota + (-need[r]),
                                   !.reward = wallet.reward + (-u)]
      BY <1>3
    <2>3. wallet' \in Balances
      BY <2>1, <2>2 DEF Balances
    <2>4. /\ wallet'.quota = wallet.quota - need[r]
          /\ wallet'.reward = wallet.reward - u
      BY <2>1, <2>2 DEF Balances
    <2>5. wallet'.aff = wallet.aff /\ wallet'.code = wallet.code
      BY <2>1, <2>2 DEF Balances
    <2> QED BY <2>3, <2>4, <2>5
  <1>5. WalletTypeOK'
    BY <1>1, <1>2, <1>3, <1>4 DEF WalletTypeOK
  <1>6. SnapshotCurrent'
    BY DEF SnapshotCurrent
  <1>7. LedgerBalances' /\ NeverOverdrawn' /\ RewardBacked'
    BY <1>1, <1>2, <1>3, <1>4
    DEF Sound, LedgerBalances, NeverOverdrawn, RewardBacked, WalletTypeOK
  <1>8. TransferredOnce' /\ RedeemedOnce'
    BY <1>4 DEF Sound, TransferredOnce, RedeemedOnce
  <1> QED BY <1>5, <1>6, <1>7, <1>8 DEF Sound

\* A transfer that holds a current snapshot overwrites nothing of another
\* request, and leaves no invite quota behind.
LEMMA TransferKeeps ==
  ASSUME IInv, Isolation = "serial", NEW r \in Requests, TransferWrite(r)
  PROVE  IInv'
  <1> USE DEF IInv, TransferWrite, Commit, EndTx, batch, sums, holds, invite
  <1>1. /\ wallet.quota \in Int /\ wallet.reward \in Int /\ wallet.aff \in Int
        /\ snap[r] = wallet /\ wallet.aff > 0
    BY DEF MayWrite, SnapshotCurrent, WalletTypeOK, Balances
  <1>2. /\ wallet'.quota = wallet.quota + wallet.aff
        /\ wallet'.reward = wallet.reward + wallet.aff
        /\ wallet'.aff = 0 /\ wallet'.code = wallet.code
        /\ wallet' \in Balances
    <2>1. /\ wallet \in Balances /\ wallet.quota + wallet.aff \in Int
          /\ wallet.reward + wallet.aff \in Int /\ 0 \in Int
      BY <1>1 DEF WalletTypeOK
    <2>2. wallet' = [wallet EXCEPT !.quota = wallet.quota + wallet.aff,
                                   !.reward = wallet.reward + wallet.aff,
                                   !.aff = 0]
      BY <1>1 DEF Saved
    <2>3. wallet' \in Balances
      BY <2>1, <2>2 DEF Balances
    <2>4. /\ wallet'.quota = wallet.quota + wallet.aff
          /\ wallet'.reward = wallet.reward + wallet.aff
      BY <2>1, <2>2 DEF Balances
    <2>5. wallet'.aff = 0 /\ wallet'.code = wallet.code
      BY <2>1, <2>2 DEF Balances
    <2> QED BY <2>3, <2>4, <2>5
  <1>3. WalletTypeOK'
    BY <1>1, <1>2 DEF WalletTypeOK
  <1>4. SnapshotCurrent'
    BY DEF SnapshotCurrent
  <1>5. LedgerBalances' /\ NeverOverdrawn' /\ RewardBacked' /\ TransferredOnce'
    BY <1>1, <1>2
    DEF Sound, LedgerBalances, NeverOverdrawn, RewardBacked, TransferredOnce,
        WalletTypeOK
  <1>6. RedeemedOnce'
    BY <1>2 DEF Sound, RedeemedOnce
  <1> QED BY <1>3, <1>4, <1>5, <1>6 DEF Sound

\* A redemption that holds a current snapshot finds the code unused.
LEMMA RedeemKeeps ==
  ASSUME IInv, Isolation = "serial", NEW r \in Requests, RedeemWrite(r)
  PROVE  IInv'
  <1> USE DEF IInv, RedeemWrite, Commit, EndTx, batch, sums, holds, invite
  <1>1. /\ wallet.quota \in Int /\ wallet.reward \in Int /\ wallet.aff \in Int
        /\ wallet.code = "enabled" /\ CodeQuota \in Nat
    BY WalletAssumption
    DEF MayWrite, SnapshotCurrent, WalletTypeOK, Balances
  <1>2. /\ wallet'.quota = wallet.quota + CodeQuota
        /\ wallet'.reward = wallet.reward + CodeQuota
        /\ wallet'.aff = wallet.aff /\ wallet'.code = "used"
        /\ wallet' \in Balances
    <2>1. /\ wallet \in Balances /\ wallet.quota + CodeQuota \in Int
          /\ wallet.reward + CodeQuota \in Int
      BY <1>1 DEF WalletTypeOK
    <2>2. wallet' = [wallet EXCEPT !.quota = wallet.quota + CodeQuota,
                                   !.reward = wallet.reward + CodeQuota,
                                   !.code = "used"]
      OBVIOUS
    <2>3. wallet' \in Balances
      BY <2>1, <2>2 DEF Balances
    <2>4. /\ wallet'.quota = wallet.quota + CodeQuota
          /\ wallet'.reward = wallet.reward + CodeQuota
      BY <2>1, <2>2 DEF Balances
    <2>5. wallet'.aff = wallet.aff /\ wallet'.code = "used"
      BY <2>1, <2>2 DEF Balances
    <2> QED BY <2>3, <2>4, <2>5
  <1>3. WalletTypeOK'
    BY <1>1, <1>2 DEF WalletTypeOK
  <1>4. SnapshotCurrent'
    BY DEF SnapshotCurrent
  <1>5. LedgerBalances' /\ NeverOverdrawn' /\ RewardBacked' /\ TransferredOnce'
    BY <1>1, <1>2
    DEF Sound, LedgerBalances, NeverOverdrawn, RewardBacked, TransferredOnce,
        WalletTypeOK
  <1>6. RedeemedOnce'
    BY <1>1, <1>2 DEF Sound, RedeemedOnce, WalletTypeOK
  <1> QED BY <1>3, <1>4, <1>5, <1>6 DEF Sound

\* The relative updates keep the invariant whatever the isolation.
LEMMA CreditKeeps ==
  ASSUME IInv, NEW q \in Nat, NEW p \in Nat, p <= q, Credit(q, p),
         UNCHANGED <<snap, batch, transferred, earned, redeemed>>,
         pc' = pc, need' = need, held' \in Nat, heldReward' \in Nat, ops' \in Nat
  PROVE  IInv'
  <1> USE DEF IInv, Credit, Commit, batch
  <1>0. /\ wallet.quota \in Int /\ wallet.reward \in Int /\ wallet.aff \in Int
        /\ wallet \in Balances
    BY Fields DEF WalletTypeOK
  <1>1. /\ wallet.quota \in Int /\ wallet.reward \in Int /\ wallet.aff \in Int
        /\ wallet'.quota = wallet.quota + q
        /\ wallet'.reward = wallet.reward + p
        /\ wallet'.aff = wallet.aff /\ wallet'.code = wallet.code
        /\ wallet' \in Balances
    <2>1. wallet.quota + q \in Int /\ wallet.reward + p \in Int
      BY <1>0
    <2>2. wallet' = [wallet EXCEPT !.quota = wallet.quota + q,
                                   !.reward = wallet.reward + p]
      OBVIOUS
    <2>3. wallet' \in Balances
      BY <1>0, <2>1, <2>2 DEF Balances
    <2>4. wallet'.quota = wallet.quota + q /\ wallet'.reward = wallet.reward + p
      BY <1>0, <2>1, <2>2 DEF Balances
    <2>5. wallet'.aff = wallet.aff /\ wallet'.code = wallet.code
      BY <1>0, <2>1, <2>2 DEF Balances
    <2> QED BY <1>0, <2>3, <2>4, <2>5
  <1>2. WalletTypeOK'
    BY <1>1 DEF WalletTypeOK
  <1>3. SnapshotCurrent'
    BY DEF SnapshotCurrent
  <1>4. Sound'
    BY <1>1
    DEF Sound, LedgerBalances, NeverOverdrawn, RewardBacked, TransferredOnce,
        RedeemedOnce, WalletTypeOK
  <1> QED BY <1>2, <1>3, <1>4

\* The batch updater and the invite reward keep it too.
LEMMA BatchKeeps ==
  ASSUME IInv,
         \/ \E n \in Amount : IncreaseUserQuota(n)
         \/ \E n \in Amount : grantInviterReward(n)
         \/ BatchSwap \/ BatchWrite \/ BatchWriteFails
  PROVE  IInv'
  <1> USE DEF IInv, batch, sums, holds, invite
  <1>0. /\ wallet.quota \in Int /\ wallet.reward \in Int /\ wallet.aff \in Int
        /\ Amount \subseteq Nat
    BY WalletAssumption DEF WalletTypeOK, Balances, Amount
  <1> USE DEF Sound, LedgerBalances, NeverOverdrawn, RewardBacked,
              TransferredOnce, RedeemedOnce, SnapshotCurrent, WalletTypeOK
  <1>1. ASSUME NEW n \in Amount, IncreaseUserQuota(n) PROVE IInv'
    BY <1>0, <1>1 DEF IncreaseUserQuota, CountOp
  <1>2. ASSUME NEW n \in Amount, grantInviterReward(n) PROVE IInv'
    <2>1. /\ wallet'.quota = wallet.quota /\ wallet'.reward = wallet.reward
          /\ wallet'.aff = wallet.aff + n /\ wallet'.code = wallet.code
          /\ wallet' \in Balances
      BY <1>0, <1>2 DEF grantInviterReward, Commit, Balances
    <2> QED BY <1>0, <1>2, <2>1 DEF grantInviterReward, CountOp, Commit
  <1>3. CASE BatchSwap
    BY <1>0, <1>3 DEF BatchSwap
  <1>4. CASE BatchWrite
    <2>1. /\ wallet'.quota = wallet.quota + flushing
          /\ wallet'.reward = wallet.reward
          /\ wallet'.aff = wallet.aff /\ wallet'.code = wallet.code
          /\ wallet' \in Balances
      BY <1>0, <1>4 DEF BatchWrite, Commit, Balances
    <2> QED BY <1>0, <1>4, <2>1 DEF BatchWrite, Commit
  <1>5. CASE BatchWriteFails
    BY <1>0, <1>5 DEF BatchWriteFails
  <1> QED BY <1>1, <1>2, <1>3, <1>4, <1>5

\* A serial database keeps the wallet sound: every change is counted once, the
\* balance is never negative, reward quota is a part of it, invite quota is
\* transferred once and a code is redeemed once.
THEOREM SerialIsSound ==
  ASSUME Isolation = "serial"
  PROVE  WalletSpec => []IInv
  <1>1. WalletInit => IInv
    BY InitSound
  <1>2. IInv /\ [WalletNext]_walletVars => IInv'
    <2> SUFFICES ASSUME IInv, [WalletNext]_walletVars PROVE IInv'
      OBVIOUS
    <2>0. Amount \subseteq 0 .. MaxAmount /\ 0 \in 0 .. MaxAmount
      BY WalletAssumption DEF Amount
    <2>1. ASSUME NEW r \in Requests, RequestStep(r) PROVE IInv'
      <3>1. CASE ConsumeRead(r)
        BY <3>1, <2>0, ReadKeeps DEF ConsumeRead
      <3>2. CASE TransferRead(r)
        BY <3>2, <2>0, ReadKeeps DEF TransferRead
      <3>3. CASE RedeemRead(r)
        BY <3>3, <2>0, ReadKeeps DEF RedeemRead
      <3>4. CASE Rollback(r)
        BY <3>4
        DEF Rollback, EndTx, IInv, WalletTypeOK, SnapshotCurrent, Sound,
            LedgerBalances, NeverOverdrawn, RewardBacked, TransferredOnce,
            RedeemedOnce, batch, sums, holds, invite
      <3> QED
        BY <2>1, <3>1, <3>2, <3>3, <3>4, ConsumeKeeps, TransferKeeps, RedeemKeeps
        DEF RequestStep
    <2>2. ASSUME NEW t \in Amount, NEW p \in 0 .. MaxAmount,
                 IncreaseUserQuotaByBreakdown(t, p)
          PROVE  IInv'
      <3>1. /\ t \in Nat /\ p \in Nat /\ p <= t /\ Credit(t, p)
            /\ UNCHANGED <<snap, batch, transferred, earned, redeemed>>
            /\ pc' = pc /\ need' = need
        BY <2>2, WalletAssumption
        DEF IncreaseUserQuotaByBreakdown, Amount, invite
      <3>2. held' \in Nat /\ heldReward' \in Nat /\ ops' \in Nat
        BY <2>2, <3>1
        DEF IncreaseUserQuotaByBreakdown, CountOp, IInv, WalletTypeOK
      <3> QED BY <3>1, <3>2, CreditKeeps
    <2>3. ASSUME NEW n \in Amount, IncreaseUserRewardQuota(n) PROVE IInv'
      <3>1. /\ n \in Nat /\ n <= n /\ Credit(n, n)
            /\ UNCHANGED <<snap, batch, transferred, earned, redeemed>>
            /\ pc' = pc /\ need' = need
        BY <2>3, WalletAssumption DEF IncreaseUserRewardQuota, Amount, invite
      <3>2. held' \in Nat /\ heldReward' \in Nat /\ ops' \in Nat
        BY <2>3 DEF IncreaseUserRewardQuota, CountOp, IInv, WalletTypeOK, holds
      <3> QED BY <3>1, <3>2, CreditKeeps
    <2>4. CASE UNCHANGED walletVars
      BY <2>4
      DEF walletVars, IInv, WalletTypeOK, SnapshotCurrent, Sound,
          LedgerBalances, NeverOverdrawn, RewardBacked, TransferredOnce,
          RedeemedOnce, batch, sums, holds, invite
    <2> QED BY <2>1, <2>2, <2>3, <2>4, BatchKeeps DEF WalletNext
  <1> QED BY <1>1, <1>2, PTL DEF WalletSpec

\* On a serial database the balance is never negative, and the reward part of
\* it is never more than it.
THEOREM SerialBalance ==
  ASSUME Isolation = "serial"
  PROVE  WalletSpec => [](NeverOverdrawn /\ RewardBacked)
  BY SerialIsSound, PTL DEF IInv, Sound

\* On a serial database invite quota is transferred once.
THEOREM SerialTransfer ==
  ASSUME Isolation = "serial"
  PROVE  WalletSpec => []TransferredOnce
  BY SerialIsSound, PTL DEF IInv, Sound

\* On a serial database a redemption code is redeemed once.
THEOREM SerialRedemption ==
  ASSUME Isolation = "serial"
  PROVE  WalletSpec => []RedeemedOnce
  BY SerialIsSound, PTL DEF IInv, Sound

\* What a consumption reports as reward is a part of its amount, whatever its
\* snapshot says.
LEMMA RewardUsedBound ==
  ASSUME WalletTypeOK, NEW r \in Requests
  PROVE  RewardUsed(r) \in Nat /\ need[r] \in Nat
  <1>1. snap[r] \in Balances /\ need[r] \in Nat
    BY WalletAssumption DEF WalletTypeOK
  <1>2. snap[r].quota \in Int /\ snap[r].reward \in Int
    BY <1>1, Fields
  <1> QED BY <1>1, <1>2 DEF RewardUsed, Min2, Max2

\* A relative change of the two columns keeps the sums.
LEMMA RelativeCredit ==
  ASSUME WalletTypeOK, LedgerBalances, NEW q \in Int, NEW p \in Int,
         Credit(q, p), UNCHANGED batch
  PROVE  /\ wallet' \in Balances /\ fresh' = {} /\ LedgerBalances'
         /\ ledger' \in Int /\ rewardLedger' \in Int
  <1> USE DEF Credit, Commit, batch
  <1>1. /\ wallet \in Balances /\ wallet.quota \in Int /\ wallet.reward \in Int
    BY Fields DEF WalletTypeOK
  <1>2. wallet.quota + q \in Int /\ wallet.reward + p \in Int
    BY <1>1
  <1>3. wallet' = [wallet EXCEPT !.quota = wallet.quota + q,
                                 !.reward = wallet.reward + p]
    OBVIOUS
  <1>4. wallet' \in Balances
    BY <1>1, <1>2, <1>3 DEF Balances
  <1>5. wallet'.quota = wallet.quota + q /\ wallet'.reward = wallet.reward + p
    BY <1>1, <1>2, <1>3 DEF Balances
  <1> QED BY <1>1, <1>4, <1>5 DEF WalletTypeOK, LedgerBalances

\* Whatever the isolation, concurrent requests lose no change of the balance as
\* long as nobody transfers invite quota: every other write is relative.
THEOREM RelativeUpdatesAreKept ==
  ASSUME "transfer" \notin Operations
  PROVE  WalletSpec => []LedgerBalances
  <1>1. WalletInit => RelativeInv
    BY WalletAssumption
    DEF WalletInit, RelativeInv, WalletTypeOK, Balances, NoSave, LedgerBalances
  <1>2. RelativeInv /\ [WalletNext]_walletVars => RelativeInv'
    <2> SUFFICES ASSUME RelativeInv, [WalletNext]_walletVars PROVE RelativeInv'
      OBVIOUS
    <2> USE DEF RelativeInv, batch, sums, holds, invite
    <2>0. /\ Amount \subseteq Nat /\ Amount \subseteq 0 .. MaxAmount
          /\ 0 \in 0 .. MaxAmount /\ CodeQuota \in Nat
          /\ wallet.quota \in Int /\ wallet.reward \in Int /\ wallet.aff \in Int
      BY WalletAssumption, Fields DEF Amount, WalletTypeOK
    <2>1. ASSUME NEW r \in Requests, NEW op, NEW n \in 0 .. MaxAmount,
                 op \in {"consume", "redeem"}, Read(r, op, n)
          PROVE  RelativeInv'
      BY <2>1 DEF Read, CountOp, WalletTypeOK, NoSave, LedgerBalances
    <2>2. ASSUME NEW r \in Requests, ConsumeWrite(r) PROVE RelativeInv'
      <3> USE <2>2 DEF ConsumeWrite, EndTx
      <3>1. RewardUsed(r) \in Nat /\ need[r] \in Nat
        BY RewardUsedBound
      <3>2. /\ wallet' \in Balances /\ fresh' = {} /\ LedgerBalances'
            /\ ledger' \in Int /\ rewardLedger' \in Int
        <4>1. -need[r] \in Int /\ -RewardUsed(r) \in Int
          BY <3>1
        <4> QED BY <4>1, RelativeCredit
      <3> QED BY <3>1, <3>2 DEF WalletTypeOK, NoSave
    <2>3. ASSUME NEW r \in Requests, RedeemWrite(r) PROVE RelativeInv'
      <3> USE <2>3 DEF RedeemWrite, EndTx, Commit
      <3>1. /\ wallet \in Balances /\ wallet.quota + CodeQuota \in Int
            /\ wallet.reward + CodeQuota \in Int
        BY <2>0 DEF WalletTypeOK
      <3>2. wallet' \in Balances
        BY <3>1 DEF Balances
      <3>3. /\ wallet'.quota = wallet.quota + CodeQuota
            /\ wallet'.reward = wallet.reward + CodeQuota
        BY <3>1 DEF Balances
      <3> QED BY <2>0, <3>2, <3>3 DEF WalletTypeOK, NoSave, LedgerBalances
    <2>4. ASSUME NEW r \in Requests, Rollback(r) PROVE RelativeInv'
      BY <2>4 DEF Rollback, EndTx, WalletTypeOK, NoSave, LedgerBalances
    <2>5. ASSUME NEW t \in Amount, NEW p \in 0 .. MaxAmount,
                 IncreaseUserQuotaByBreakdown(t, p)
          PROVE  RelativeInv'
      <3> USE <2>5 DEF IncreaseUserQuotaByBreakdown, CountOp
      <3>1. /\ wallet' \in Balances /\ fresh' = {} /\ LedgerBalances'
            /\ ledger' \in Int /\ rewardLedger' \in Int
        <4>1. t \in Int /\ p \in Int
          BY <2>0
        <4> QED BY <4>1, RelativeCredit
      <3> QED BY <2>0, <3>1 DEF WalletTypeOK, NoSave
    <2>6. ASSUME NEW n \in Amount, IncreaseUserRewardQuota(n) PROVE RelativeInv'
      <3> USE <2>6 DEF IncreaseUserRewardQuota, CountOp
      <3>1. /\ wallet' \in Balances /\ fresh' = {} /\ LedgerBalances'
            /\ ledger' \in Int /\ rewardLedger' \in Int
        <4>1. n \in Int
          BY <2>0
        <4> QED BY <4>1, RelativeCredit
      <3> QED BY <2>0, <3>1 DEF WalletTypeOK, NoSave
    <2>7. ASSUME NEW n \in Amount, IncreaseUserQuota(n) PROVE RelativeInv'
      BY <2>0, <2>7
      DEF IncreaseUserQuota, CountOp, WalletTypeOK, NoSave, LedgerBalances
    <2>8. ASSUME NEW n \in Amount, grantInviterReward(n) PROVE RelativeInv'
      <3>1. /\ wallet'.quota = wallet.quota /\ wallet'.reward = wallet.reward
            /\ wallet' \in Balances
        BY <2>0, <2>8 DEF grantInviterReward, Commit, WalletTypeOK, Balances
      <3> QED BY <2>0, <2>8, <3>1
          DEF grantInviterReward, Commit, CountOp, WalletTypeOK, NoSave,
              LedgerBalances
    <2>9. CASE BatchWrite
      <3>1. /\ wallet'.quota = wallet.quota + flushing
            /\ wallet'.reward = wallet.reward /\ wallet' \in Balances
        BY <2>0, <2>9 DEF BatchWrite, Commit, WalletTypeOK, Balances
      <3> QED BY <2>0, <2>9, <3>1
          DEF BatchWrite, Commit, WalletTypeOK, NoSave, LedgerBalances
    <2>10. CASE BatchSwap \/ BatchWriteFails
      BY <2>0, <2>10
      DEF BatchSwap, BatchWriteFails, WalletTypeOK, NoSave, LedgerBalances
    <2>11. CASE UNCHANGED walletVars
      BY <2>11 DEF walletVars, WalletTypeOK, NoSave, LedgerBalances
    <2>12. ASSUME NEW r \in Requests, RequestStep(r) PROVE RelativeInv'
      <3>1. CASE ConsumeRead(r)
        BY <2>0, <2>1, <3>1 DEF ConsumeRead
      <3>2. CASE RedeemRead(r)
        BY <2>0, <2>1, <3>2 DEF RedeemRead
      <3>3. ~TransferRead(r)
        BY DEF TransferRead, Read
      <3>4. ~TransferWrite(r)
        BY DEF TransferWrite, NoSave
      <3> QED BY <2>2, <2>3, <2>4, <2>12, <3>1, <3>2, <3>3, <3>4 DEF RequestStep
    <2> QED BY <2>5, <2>6, <2>7, <2>8, <2>9, <2>10, <2>11, <2>12 DEF WalletNext
  <1>3. RelativeInv => LedgerBalances
    BY DEF RelativeInv
  <1> QED BY <1>1, <1>2, <1>3, PTL DEF WalletSpec

(***************************************************************************)
(* The subscription orders for any number of users, plans, orders and      *)
(* subscriptions.                                                          *)
(*                                                                         *)
(* StockMatchesOrders and IssuedOnce: every step that changes an order's   *)
(* state or issues a subscription moves the plan's counters with it.  The  *)
(* argument is one of cardinalities: an order enters or leaves the pending *)
(* orders of one plan, a row enters the issued rows of one plan.           *)
(*                                                                         *)
(* PendingCompletable rests on the first of them (an order that is pending *)
(* is counted) and on plans moving only without pending orders.            *)
(* EntitledKeepsGroup rests on what the expiry pass knows about the user   *)
(* it is going to move.  PurchaseWithinUserLimit: only creation, binding   *)
(* and airdrop add to what a user holds, and they count it first.          *)
(* NeverOversold: the stock of all the plans that share a limit is within  *)
(* the limit of each of them (ScopesWithin); what a step takes from the    *)
(* sum of a scope, or adds to it, is the stock of one plan.                *)
(***************************************************************************)
UserGroups == {BaseGroup, Nothing} \cup {Upgrade[p] : p \in Plans}
SubRows == [user : Users \cup {Nothing}, plan : Plans \cup {Nothing}, status : SubStates,
            start : Nat, end : Nat, upgrade : UserGroups, prev : UserGroups,
            from : Orders \cup {Nothing}]
EditRows == [plan : Plans, group : Groups \cup {Nothing}, limit : Limits, perUser : Limits,
             open : BOOLEAN, was : Groups \cup {Nothing}, free : BOOLEAN]
Sweeps == [pass : {"idle", "orders", "subs"}, todo : SUBSET (Orders \cup Users),
           at : Nat, user : Users \cup {Nothing}, to : UserGroups]

\* Every table has the rows it may have; an order that exists names its user and
\* its plan, a subscription its user.
RowsInv ==
  /\ plan \in [Plans -> PlanRows]
  /\ order \in [Orders -> OrderRows]
  /\ sub \in [Slots -> SubRows]
  /\ income \in [Orders -> Nat]
  /\ group \in [Users -> UserGroups]
  /\ paid \subseteq Orders
  /\ sweep \in Sweeps
  /\ edit = NoEdit \/ edit \in EditRows
  /\ now \in Nat
  /\ \A o \in Orders : order[o].status # "none" =>
       order[o].user \in Users /\ order[o].plan \in Plans
  /\ \A s \in Slots : sub[s].status # "none" => sub[s].user \in Users

\* The counters match, each success is issued once, and a free row is nobody's.
BookInv ==
  /\ StockMatchesOrders
  /\ IssuedOnce
  /\ \A s \in Slots : sub[s].status = "none" => sub[s].from = Nothing

\* The groups pending orders rely on.
SnapInv ==
  \A o \in Orders : order[o].status = "pending" => plan[order[o].plan].group = order[o].snap

\* What the expiry pass knows: it runs at the present time, and the user it is
\* about to move has no subscription left that entitles to a group.
GroupInv ==
  /\ EntitledKeepsGroup
  /\ \A s \in Slots : sub[s].start <= now
  /\ sweep.pass = "subs" => sweep.at = now
  /\ sweep.user # Nothing =>
       /\ sweep.pass = "subs"
       /\ \A s \in Slots : /\ sub[s].user = sweep.user /\ sub[s].status = "active"
                           /\ sub[s].upgrade # Nothing
                           => sub[s].end <= now

(***************************************************************************)
(* Rows.                                                                   *)
(***************************************************************************)
\* Giving a reservation back (expireSubscriptionOrderTx) keeps the tables.
LEMMA ExpireOrderRows ==
  ASSUME RowsInv, NEW o \in Orders, ExpireOrder(o)
  PROVE  /\ plan' \in [Plans -> PlanRows]
         /\ order' \in [Orders -> OrderRows]
         /\ \A x \in Orders : order'[x].status # "none" =>
              order'[x].user \in Users /\ order'[x].plan \in Plans
<1>1. CASE order[o].status = "pending"
  <2> DEFINE p == order[o].plan
  <2>1. /\ p \in Plans /\ plan[p].reserved > 0
        /\ plan' = [plan EXCEPT ![p].reserved = @ - 1]
        /\ order' = [order EXCEPT ![o].status = "expired"]
    BY <1>1 DEF ExpireOrder, RowsInv
  <2>2. plan[p].reserved - 1 \in Nat
    BY <2>1 DEF RowsInv, PlanRows
  <2>3. plan' \in [Plans -> PlanRows]
    BY <2>1, <2>2 DEF RowsInv, PlanRows
  <2>4. order' \in [Orders -> OrderRows]
    BY <2>1 DEF RowsInv, OrderRows
  <2>5. ASSUME NEW x \in Orders, order'[x].status # "none"
        PROVE  order'[x].user \in Users /\ order'[x].plan \in Plans
    BY <1>1, <2>1, <2>5 DEF RowsInv, OrderRows
  <2> QED BY <2>3, <2>4, <2>5
<1>2. CASE order[o].status # "pending"
  BY <1>2 DEF ExpireOrder, RowsInv
<1> QED BY <1>1, <1>2

\* What issuing does (createUserSubscriptionFromPlanTxWithSnapshot): one free
\* row becomes a subscription, and the user is in the plan's upgrade group when
\* it has one.
LEMMA IssueFacts ==
  ASSUME RowsInv, NEW u \in Users, NEW p \in Plans, NEW o \in Orders \cup {Nothing},
         Issue(u, p, o)
  PROVE  /\ \E s \in Slots, prev \in UserGroups :
              /\ sub[s].status = "none"
              /\ sub' = [sub EXCEPT ![s] =
                   [user |-> u, plan |-> p, status |-> "active", start |-> now,
                    end |-> now + Duration, upgrade |-> Upgrade[p], prev |-> prev, from |-> o]]
         /\ sub' \in [Slots -> SubRows]
         /\ group' \in [Users -> UserGroups]
         /\ \A s \in Slots : sub'[s].status # "none" => sub'[s].user \in Users
         /\ Upgrade[p] # Nothing => group'[u] = Upgrade[p]
         /\ group' = group \/ (Upgrade[p] # Nothing /\ group' = [group EXCEPT ![u] = Upgrade[p]])
<1> DEFINE moves == Upgrade[p] # Nothing /\ group[u] # Upgrade[p]
           prev == IF moves THEN group[u] ELSE Nothing
           made == [user |-> u, plan |-> p, status |-> "active", start |-> now,
                    end |-> now + Duration, upgrade |-> Upgrade[p], prev |-> prev, from |-> o]
<1>1. PICK s \in Slots : /\ sub[s].status = "none"
                         /\ sub' = [sub EXCEPT ![s] = made]
                         /\ group' = IF moves THEN [group EXCEPT ![u] = Upgrade[p]] ELSE group
  BY DEF Issue
<1>2. prev \in UserGroups /\ Upgrade[p] \in UserGroups
  BY DEF RowsInv, UserGroups
<1>3. made \in SubRows
  <2>1. now + Duration \in Nat
    BY SubOrderAssumption DEF RowsInv
  <2> HIDE DEF prev
  <2> QED BY <1>2, <2>1 DEF RowsInv, SubRows, SubStates
<1>4. sub' \in [Slots -> SubRows]
  <2> HIDE DEF made
  <2> QED BY <1>1, <1>3 DEF RowsInv
<1>5. group' \in [Users -> UserGroups]
  BY <1>1, <1>2 DEF RowsInv
<1>6. \A x \in Slots : sub'[x].status # "none" => sub'[x].user \in Users
  <2>1. made.user \in Users
    OBVIOUS
  <2> HIDE DEF made
  <2> QED BY <1>1, <2>1 DEF RowsInv
<1>7. \E x \in Slots, y \in UserGroups :
        /\ sub[x].status = "none"
        /\ sub' = [sub EXCEPT ![x] =
             [user |-> u, plan |-> p, status |-> "active", start |-> now,
              end |-> now + Duration, upgrade |-> Upgrade[p], prev |-> y, from |-> o]]
  <2> USE <1>2
  <2> WITNESS s \in Slots, prev \in UserGroups
  <2> QED BY <1>1
<1>8. /\ Upgrade[p] # Nothing => group'[u] = Upgrade[p]
      /\ group' = group \/ (Upgrade[p] # Nothing /\ group' = [group EXCEPT ![u] = Upgrade[p]])
  BY <1>1 DEF RowsInv
<1> QED BY <1>4, <1>5, <1>6, <1>7, <1>8

\* A step of an order keeps the tables.
LEMMA OrderRowsKept ==
  ASSUME RowsInv, NEW o \in Orders, OrderStep(o)
  PROVE  RowsInv'
<1>1. ASSUME NEW u \in Users, NEW p \in Plans, Quote(o, u, p)  PROVE RowsInv'
  <2>1. plan[p].group \in Groups \cup {Nothing}
    BY DEF RowsInv, PlanRows
  <2>2. order' \in [Orders -> OrderRows]
    BY <1>1, <2>1 DEF Quote, RowsInv, OrderRows
  <2>3. \A x \in Orders : order'[x].status # "none" =>
          order'[x].user \in Users /\ order'[x].plan \in Plans
    BY <1>1 DEF Quote, RowsInv
  <2> QED BY <1>1, <2>2, <2>3 DEF Quote, RowsInv, books, gateway, requests
<1>2. CASE CreateSubscriptionOrder(o)
  <2> DEFINE p == order[o].plan
  <2>1. p \in Plans
    BY <1>2 DEF CreateSubscriptionOrder, RowsInv
  <2>2. plan' \in [Plans -> PlanRows]
    <3>1. [plan[p] EXCEPT !.reserved = @ + 1] \in PlanRows
      BY <2>1 DEF RowsInv, PlanRows
    <3>2. plan' = [plan EXCEPT ![p] = [plan[p] EXCEPT !.reserved = @ + 1]]
      BY <1>2 DEF CreateSubscriptionOrder
    <3> QED BY <3>1, <3>2 DEF RowsInv
  <2>3. order' \in [Orders -> OrderRows]
    BY <1>2 DEF CreateSubscriptionOrder, RowsInv, OrderRows
  <2>4. \A x \in Orders : order'[x].status # "none" =>
          order'[x].user \in Users /\ order'[x].plan \in Plans
    BY <1>2 DEF CreateSubscriptionOrder, RowsInv, OrderRows
  <2> QED BY <1>2, <2>2, <2>3, <2>4 DEF CreateSubscriptionOrder, RowsInv, books, gateway, requests
<1>3. CASE CreateRefused(o)
  BY <1>3 DEF CreateRefused, NoOrder, OrderRows, RowsInv, books, gateway, requests
<1>4. CASE OpenCheckout(o)
  <2>1. order' \in [Orders -> OrderRows]
    <3>1. [order[o] EXCEPT !.linked = TRUE] \in OrderRows
      BY DEF RowsInv, OrderRows
    <3>2. order' = [order EXCEPT ![o] = [order[o] EXCEPT !.linked = TRUE]]
      BY <1>4 DEF OpenCheckout
    <3> QED BY <3>1, <3>2 DEF RowsInv
  <2>2. \A x \in Orders : order'[x].status # "none" =>
          order'[x].user \in Users /\ order'[x].plan \in Plans
    BY <1>4 DEF OpenCheckout, RowsInv, OrderRows
  <2> QED BY <1>4, <2>1, <2>2 DEF OpenCheckout, RowsInv, books, requests
<1>5. CASE CheckoutFails(o)
  BY <1>5, ExpireOrderRows DEF CheckoutFails, RowsInv, books, gateway, requests
<1>6. CASE CheckoutLost(o)
  <2>1. order' \in [Orders -> OrderRows]
    <3>1. [order[o] EXCEPT !.linked = TRUE] \in OrderRows
      BY DEF RowsInv, OrderRows
    <3>2. order' = [order EXCEPT ![o] = [order[o] EXCEPT !.linked = TRUE]]
      BY <1>6 DEF CheckoutLost
    <3> QED BY <3>1, <3>2 DEF RowsInv
  <2>2. \A x \in Orders : order'[x].status # "none" =>
          order'[x].user \in Users /\ order'[x].plan \in Plans
    BY <1>6 DEF CheckoutLost, RowsInv, OrderRows
  <2> QED BY <1>6, <2>1, <2>2 DEF CheckoutLost, RowsInv, books, gateway, requests
<1>7. CASE Pay(o)
  BY <1>7 DEF Pay, RowsInv, books, requests
<1>8. CASE SessionExpired(o)
  BY <1>8, ExpireOrderRows DEF SessionExpired, RowsInv, books, requests
<1>9. CASE ResumeSubscriptionOrder(o)
  <2>1. CASE ExpireOrder(o)
    BY <1>9, <2>1, ExpireOrderRows DEF ResumeSubscriptionOrder, RowsInv, books, requests
  <2>2. CASE UNCHANGED <<plan, order>>
    BY <1>9, <2>2 DEF ResumeSubscriptionOrder, RowsInv, books, requests
  <2> QED BY <1>9, <2>1, <2>2 DEF ResumeSubscriptionOrder
<1>10. CASE CompleteSubscriptionOrder(o)
  <2> DEFINE p == order[o].plan
  <2>1. p \in Plans /\ order[o].user \in Users /\ order[o].status = "pending"
    BY <1>10 DEF CompleteSubscriptionOrder, Completable, RowsInv
  <2>2. plan[p].reserved - 1 \in Nat /\ plan[p].issued + 1 \in Nat
    BY <1>10, <2>1 DEF CompleteSubscriptionOrder, Completable, RowsInv, PlanRows
  <2>3. plan' \in [Plans -> PlanRows]
    BY <1>10, <2>1, <2>2 DEF CompleteSubscriptionOrder, RowsInv, PlanRows
  <2>4. order' \in [Orders -> OrderRows]
    BY <1>10 DEF CompleteSubscriptionOrder, RowsInv, OrderRows
  <2>5. \A x \in Orders : order'[x].status # "none" =>
          order'[x].user \in Users /\ order'[x].plan \in Plans
    BY <1>10, <2>1 DEF CompleteSubscriptionOrder, RowsInv, OrderRows
  <2>6. Issue(order[o].user, p, o)
    BY <1>10 DEF CompleteSubscriptionOrder
  <2>7. /\ sub' \in [Slots -> SubRows] /\ group' \in [Users -> UserGroups]
        /\ \A s \in Slots : sub'[s].status # "none" => sub'[s].user \in Users
    BY <2>1, <2>6, IssueFacts
  <2>8. income' \in [Orders -> Nat]
    BY <1>10 DEF CompleteSubscriptionOrder, CreditIncome, RowsInv
  <2> QED BY <1>10, <2>3, <2>4, <2>5, <2>7, <2>8
          DEF CompleteSubscriptionOrder, RowsInv, gateway, requests
<1>11. CASE CompleteAgain(o)
  BY <1>11 DEF CompleteAgain, CreditIncome, RowsInv, gateway, requests
<1> QED BY <1>1, <1>2, <1>3, <1>4, <1>5, <1>6, <1>7, <1>8, <1>9, <1>10, <1>11 DEF OrderStep

\* A change of a row's status or end keeps the subscriptions.
LEMMA DowngradeRows ==
  ASSUME RowsInv, NEW s \in Slots, sub[s].status # "none", Downgrade(s)
  PROVE  group' \in [Users -> UserGroups]
BY DEF RowsInv, Downgrade, SubRows

\* A step of an administrator keeps the tables.
LEMMA AdminRowsKept ==
  ASSUME RowsInv, AdminStep
  PROVE  RowsInv'
<1> USE SubOrderAssumption
<1>1. ASSUME NEW u \in Users, NEW p \in Plans, AdminBindSubscription(u, p)  PROVE RowsInv'
  <2>1. plan' \in [Plans -> PlanRows]
    BY <1>1 DEF AdminBindSubscription, IssueStock, RowsInv, PlanRows
  <2>2. Issue(u, p, Nothing)
    BY <1>1 DEF AdminBindSubscription
  <2>3. /\ sub' \in [Slots -> SubRows] /\ group' \in [Users -> UserGroups]
        /\ \A s \in Slots : sub'[s].status # "none" => sub'[s].user \in Users
    BY <2>2, IssueFacts
  <2> QED BY <1>1, <2>1, <2>3 DEF AdminBindSubscription, RowsInv, gateway, requests
<1>2. ASSUME NEW u \in Users, AirdropBegin(u)  PROVE RowsInv'
  BY <1>2 DEF AirdropBegin, RowsInv, books, gateway
<1>3. ASSUME NEW u \in Users, GrantAirdropSubscription(u)  PROVE RowsInv'
  <2>1. plan' \in [Plans -> PlanRows]
    BY <1>3 DEF GrantAirdropSubscription, IssueStock, RowsInv, PlanRows
  <2>2. Issue(u, AirdropPlan, Nothing)
    BY <1>3 DEF GrantAirdropSubscription
  <2>3. /\ sub' \in [Slots -> SubRows] /\ group' \in [Users -> UserGroups]
        /\ \A s \in Slots : sub'[s].status # "none" => sub'[s].user \in Users
    BY <2>2, IssueFacts
  <2> QED BY <1>3, <2>1, <2>3 DEF GrantAirdropSubscription, RowsInv, gateway
<1>4. ASSUME NEW u \in Users, AirdropRefused(u)  PROVE RowsInv'
  BY <1>4 DEF AirdropRefused, RowsInv, books, gateway
<1>5. ASSUME NEW s \in Slots, AdminInvalidateUserSubscription(s)  PROVE RowsInv'
  <2>1. sub[s].status # "none" /\ Downgrade(s)
    BY <1>5 DEF AdminInvalidateUserSubscription, Rows
  <2>2. group' \in [Users -> UserGroups]
    BY <2>1, DowngradeRows
  <2>3. sub' \in [Slots -> SubRows]
    <3> DEFINE ended == [sub[s] EXCEPT !.status = "cancelled", !.end = now]
    <3>1. ended \in SubRows
      <4>1. sub[s] \in SubRows /\ now \in Nat /\ "cancelled" \in SubStates
        BY DEF RowsInv, SubStates
      <4> QED BY <4>1 DEF SubRows
    <3>2. sub' = [sub EXCEPT ![s] = ended]
      BY <1>5 DEF AdminInvalidateUserSubscription
    <3> HIDE DEF ended
    <3> QED BY <3>1, <3>2 DEF RowsInv
  <2>4. \A x \in Slots : sub'[x].status # "none" => sub'[x].user \in Users
    BY <1>5, <2>1 DEF AdminInvalidateUserSubscription, RowsInv, SubRows
  <2> QED BY <1>5, <2>2, <2>3, <2>4 DEF AdminInvalidateUserSubscription, RowsInv, gateway, requests
<1>6. ASSUME NEW s \in Slots, AdminDeleteUserSubscription(s)  PROVE RowsInv'
  <2>1. sub[s].status # "none" /\ Downgrade(s)
    BY <1>6 DEF AdminDeleteUserSubscription, Rows
  <2>2. group' \in [Users -> UserGroups]
    BY <2>1, DowngradeRows
  <2>3. sub' \in [Slots -> SubRows]
    BY <1>6 DEF AdminDeleteUserSubscription, RowsInv, SubRows, SubStates
  <2>4. \A x \in Slots : sub'[x].status # "none" => sub'[x].user \in Users
    BY <1>6, <2>1 DEF AdminDeleteUserSubscription, RowsInv, SubRows
  <2> QED BY <1>6, <2>2, <2>3, <2>4 DEF AdminDeleteUserSubscription, RowsInv, gateway, requests
<1>7. ASSUME NEW p \in Plans, NEW asked \in Edits, EditBegin(p, asked)  PROVE RowsInv'
  <2>1. asked \in Settings /\ plan[p].group \in Groups \cup {Nothing}
    BY DEF RowsInv, PlanRows
  <2>2. (SnapshotReads /\ PendingOrders(p) = {}) \in BOOLEAN
    OBVIOUS
  <2>3. edit' \in EditRows
    BY <1>7, <2>1, <2>2 DEF EditBegin, EditRows, Settings
  <2> QED BY <1>7, <2>3 DEF EditBegin, RowsInv, books, gateway
<1>8. CASE AdminUpdateSubscriptionPlan
  <2>1. edit \in EditRows
    BY <1>8 DEF AdminUpdateSubscriptionPlan, RowsInv
  <2>2. plan' \in [Plans -> PlanRows]
    <3> DEFINE asked == [plan[edit.plan] EXCEPT !.group = edit.group, !.limit = edit.limit,
                                                !.perUser = edit.perUser, !.open = edit.open]
    <3>1. edit.plan \in Plans /\ plan[edit.plan] \in PlanRows
      BY <2>1 DEF RowsInv, EditRows
    <3>2. asked \in PlanRows
      BY <2>1, <3>1 DEF PlanRows, EditRows
    <3>3. plan' = [plan EXCEPT ![edit.plan] = asked]
      BY <1>8, <3>1 DEF AdminUpdateSubscriptionPlan, RowsInv
    <3> HIDE DEF asked
    <3> QED BY <3>2, <3>3 DEF RowsInv
  <2> QED BY <1>8, <2>2 DEF AdminUpdateSubscriptionPlan, RowsInv, books, gateway
<1>9. CASE EditRefused
  BY <1>9 DEF EditRefused, RowsInv, books, gateway
<1>10. ASSUME NEW p \in Plans, AdminUpdateSubscriptionPlanStatus(p)  PROVE RowsInv'
  <2>1. plan' \in [Plans -> PlanRows]
    <3>1. [plan[p] EXCEPT !.open = ~@] \in PlanRows
      BY DEF RowsInv, PlanRows
    <3>2. plan' = [plan EXCEPT ![p] = [plan[p] EXCEPT !.open = ~@]]
      BY <1>10 DEF AdminUpdateSubscriptionPlanStatus
    <3> QED BY <3>1, <3>2 DEF RowsInv
  <2> QED BY <1>10, <2>1 DEF AdminUpdateSubscriptionPlanStatus, RowsInv, books, gateway, requests
<1> QED BY <1>1, <1>2, <1>3, <1>4, <1>5, <1>6, <1>7, <1>8, <1>9, <1>10 DEF AdminStep

\* A step of the maintenance pass keeps the tables.
LEMMA SweepRowsKept ==
  ASSUME RowsInv, SweepStep
  PROVE  RowsInv'
<1>0. Resting \in Sweeps
  BY DEF Resting, Sweeps, UserGroups
<1>1. CASE ExpireReservedSubscriptionOrders
  <2>1. Overdue \subseteq Orders \cup Users
    BY DEF Overdue
  <2>2. sweep' \in Sweeps
    BY <1>1, <2>1 DEF ExpireReservedSubscriptionOrders, Resting, Sweeps, UserGroups
  <2> QED BY <1>1, <2>2 DEF ExpireReservedSubscriptionOrders, RowsInv, books, gateway, requests
<1>2. ASSUME NEW o \in Orders, ExpireSubscriptionOrder(o)  PROVE RowsInv'
  <2>1. sweep' \in Sweeps
    BY <1>2 DEF ExpireSubscriptionOrder, RowsInv, Sweeps
  <2> QED BY <1>2, <2>1, ExpireOrderRows
          DEF ExpireSubscriptionOrder, RowsInv, books, gateway, requests
<1>3. CASE ExpireDueSubscriptions
  <2> DEFINE due == {sub[s].user : s \in {r \in Slots : Ended(r, now)}}
  <2>1. due \subseteq Orders \cup Users
    BY DEF Ended, RowsInv
  <2>2. sweep' \in Sweeps
    <3> HIDE DEF due
    <3> QED BY <1>3, <2>1 DEF ExpireDueSubscriptions, Resting, Sweeps, UserGroups, RowsInv, due
  <2> QED BY <1>3, <2>2 DEF ExpireDueSubscriptions, RowsInv, books, gateway, requests
<1>4. ASSUME NEW u \in Users, ExpireUser(u)  PROVE RowsInv'
  <2> DEFINE due == {s \in Slots : sub[s].user = u /\ Ended(s, sweep.at)}
             lapsed == {s \in Slots : /\ sub[s].user = u /\ sub[s].upgrade # Nothing
                                      /\ s \in due \/ sub[s].status = "expired"}
             back == Returns(u, lapsed)
  <2>1. /\ sub' = [s \in Slots |-> IF s \in due THEN [sub[s] EXCEPT !.status = "expired"]
                                   ELSE sub[s]]
        /\ sweep' = [sweep EXCEPT !.todo = @ \ {u},
                        !.user = IF back = {} THEN Nothing ELSE u,
                        !.to = IF back = {} THEN Nothing
                               ELSE sub[CHOOSE s \in back : TRUE].prev]
    BY <1>4 DEF ExpireUser
  <2>2. back # {} => (CHOOSE s \in back : TRUE) \in Slots
    BY DEF Returns
  <2>3. (IF back = {} THEN Nothing ELSE sub[CHOOSE s \in back : TRUE].prev) \in UserGroups
    <3> HIDE DEF back
    <3> QED BY <2>2 DEF RowsInv, SubRows, UserGroups
  <2>4. sweep' \in Sweeps
    <3> DEFINE to == IF back = {} THEN Nothing ELSE sub[CHOOSE s \in back : TRUE].prev
    <3>1. to \in UserGroups
      BY <2>3
    <3>2. sweep' = [sweep EXCEPT !.todo = @ \ {u}, !.user = IF back = {} THEN Nothing ELSE u,
                                 !.to = to]
      BY <2>1
    <3> HIDE DEF back, to
    <3> QED BY <3>1, <3>2 DEF RowsInv, Sweeps
  <2>5. sub' \in [Slots -> SubRows]
    <3> HIDE DEF due
    <3> QED BY <2>1 DEF RowsInv, SubRows, SubStates
  <2>6. \A s \in Slots : sub'[s].status # "none" => sub'[s].user \in Users
    BY <2>1 DEF RowsInv, SubRows, Ended
  <2> QED BY <1>4, <2>4, <2>5, <2>6 DEF ExpireUser, RowsInv, gateway, requests
<1>5. CASE ReturnUser
  <2>1. group' \in [Users -> UserGroups]
    BY <1>5 DEF ReturnUser, RowsInv, Sweeps
  <2>2. sweep' \in Sweeps
    BY <1>5 DEF ReturnUser, RowsInv, Sweeps, UserGroups
  <2> QED BY <1>5, <2>1, <2>2 DEF ReturnUser, RowsInv, gateway, requests
<1>6. CASE SweepDone
  BY <1>0, <1>6 DEF SweepDone, RowsInv, books, gateway, requests
<1> QED BY <1>1, <1>2, <1>3, <1>4, <1>5, <1>6 DEF SweepStep

\* The tables keep their shape.
THEOREM RowsInvariant == Spec => []RowsInv
<1>1. ASSUME Init  PROVE RowsInv
  <2> USE <1>1, SubOrderAssumption DEF Init
  <2>1. plan \in [Plans -> PlanRows]
    BY DEF PlanRows, Settings
  <2>2. order \in [Orders -> OrderRows] /\ \A o \in Orders : order[o].status = "none"
    BY DEF NoOrder, OrderRows
  <2>3. sub \in [Slots -> SubRows] /\ \A s \in Slots : sub[s].status = "none"
    BY DEF NoSub, SubRows, SubStates, UserGroups
  <2>4. income \in [Orders -> Nat] /\ group \in [Users -> UserGroups] /\ now \in Nat
    BY DEF UserGroups
  <2>5. sweep \in Sweeps
    BY DEF Resting, Sweeps, UserGroups
  <2> QED BY <2>1, <2>2, <2>3, <2>4, <2>5 DEF RowsInv
<1>2. RowsInv /\ [Next]_vars => RowsInv'
  <2> SUFFICES ASSUME RowsInv, [Next]_vars  PROVE RowsInv'
    OBVIOUS
  <2>1. CASE SweepFails
    BY <2>1 DEF SweepFails, RowsInv, Resting, Sweeps, UserGroups, books, gateway, requests
  <2>2. CASE Tick
    BY <2>2 DEF Tick, RowsInv, books, gateway, requests
  <2>3. CASE UNCHANGED vars
    BY <2>3 DEF RowsInv, vars, books, gateway, requests
  <2> QED BY <2>1, <2>2, <2>3, OrderRowsKept, AdminRowsKept, SweepRowsKept DEF Next
<1> QED BY <1>1, <1>2, PTL DEF Spec

\* The declared types of the tables hold in every state.
THEOREM SubOrderTypes == Spec => []SubOrderTypeOK
<1>1. RowsInv => SubOrderTypeOK
  BY DEF RowsInv, SubOrderTypeOK, SubRows
<1> QED BY <1>1, RowsInvariant, PTL

(***************************************************************************)
(* The counters.                                                           *)
(***************************************************************************)
\* The sets that are counted are finite.
LEMMA Counted ==
  /\ \A S : S \subseteq Orders => IsFiniteSet(S)
  /\ \A S : S \subseteq Slots => IsFiniteSet(S)
<1>1. IsFiniteSet(Orders) /\ IsFiniteSet(Slots)
  <2>1. 1 \in Int /\ MaxSubs \in Int
    BY SubOrderAssumption
  <2>2. IsFiniteSet(1 .. MaxSubs)
    BY <2>1, FS_Interval
  <2> QED BY <2>2, SubOrderAssumption DEF Slots
<1>2. ASSUME NEW S, S \subseteq Orders  PROVE IsFiniteSet(S)
  BY <1>1, <1>2, FS_Subset
<1>3. ASSUME NEW S, S \subseteq Slots  PROVE IsFiniteSet(S)
  BY <1>1, <1>3, FS_Subset
<1> QED BY <1>2, <1>3

One(b) == IF b THEN 1 ELSE 0

\* An order that becomes pending is counted once more with its plan, and with no
\* other.
LEMMA PendingEnters ==
  ASSUME RowsInv, NEW o \in Orders, order[o].status = "opening",
         order' = [order EXCEPT ![o].status = "pending"], NEW p \in Plans
  PROVE  Cardinality(PendingOrders(p)') = Cardinality(PendingOrders(p)) + One(order[o].plan = p)
<1>0. IsFiniteSet(PendingOrders(p)) /\ o \notin PendingOrders(p)
  BY Counted DEF PendingOrders
<1>1. CASE order[o].plan = p
  <2>1. PendingOrders(p)' = PendingOrders(p) \cup {o}
    BY <1>1 DEF PendingOrders, RowsInv, OrderRows
  <2> QED BY <1>0, <1>1, <2>1, FS_AddElement DEF One
<1>2. CASE order[o].plan # p
  <2>1. PendingOrders(p)' = PendingOrders(p)
    BY <1>2 DEF PendingOrders, RowsInv, OrderRows
  <2> QED BY <1>0, <1>2, <2>1, FS_CardinalityType DEF One
<1> QED BY <1>1, <1>2

\* An order that leaves the pending ones is taken off its plan's count.
LEMMA PendingLeaves ==
  ASSUME RowsInv, NEW o \in Orders, order[o].status = "pending",
         NEW st, st # "pending", order' = [order EXCEPT ![o].status = st], NEW p \in Plans
  PROVE  Cardinality(PendingOrders(p)') = Cardinality(PendingOrders(p)) - One(order[o].plan = p)
<1>0. IsFiniteSet(PendingOrders(p))
  BY Counted DEF PendingOrders
<1>1. CASE order[o].plan = p
  <2>1. PendingOrders(p)' = PendingOrders(p) \ {o} /\ o \in PendingOrders(p)
    BY <1>1 DEF PendingOrders, RowsInv, OrderRows
  <2> QED BY <1>0, <1>1, <2>1, FS_RemoveElement DEF One
<1>2. CASE order[o].plan # p
  <2>1. PendingOrders(p)' = PendingOrders(p)
    BY <1>2 DEF PendingOrders, RowsInv, OrderRows
  <2> QED BY <1>0, <1>2, <2>1, FS_CardinalityType DEF One
<1> QED BY <1>1, <1>2

SubsFrom(o) == {s \in Slots : sub[s].from = o}

\* A subscription that is issued is counted with its plan and with its order.
LEMMA IssueCounts ==
  ASSUME RowsInv, BookInv, NEW u \in Users, NEW p \in Plans, NEW o \in Orders \cup {Nothing},
         Issue(u, p, o)
  PROVE  /\ \A q \in Plans : Cardinality(IssuedOf(q)') = Cardinality(IssuedOf(q)) + One(q = p)
         /\ \A x \in Orders : Cardinality(SubsFrom(x)') = Cardinality(SubsFrom(x)) + One(x = o)
         /\ \A s \in Slots : sub'[s].status = "none" => sub'[s].from = Nothing
<1>1. PICK s \in Slots, prev \in UserGroups :
        /\ sub[s].status = "none"
        /\ sub' = [sub EXCEPT ![s] =
             [user |-> u, plan |-> p, status |-> "active", start |-> now,
              end |-> now + Duration, upgrade |-> Upgrade[p], prev |-> prev, from |-> o]]
  BY IssueFacts
<1>2. /\ sub'[s].status = "active" /\ sub'[s].plan = p /\ sub'[s].from = o
      /\ \A r \in Slots \ {s} : sub'[r] = sub[r]
      /\ sub[s].from = Nothing
  BY <1>1 DEF RowsInv, BookInv
<1>3. ASSUME NEW q \in Plans
      PROVE  Cardinality(IssuedOf(q)') = Cardinality(IssuedOf(q)) + One(q = p)
  <2>0. IsFiniteSet(IssuedOf(q)) /\ s \notin IssuedOf(q)
    BY <1>1, Counted DEF IssuedOf
  <2>1. CASE q = p
    <3>1. IssuedOf(q)' = IssuedOf(q) \cup {s}
      BY <1>2, <2>1 DEF IssuedOf
    <3> QED BY <2>0, <2>1, <3>1, FS_AddElement DEF One
  <2>2. CASE q # p
    <3>1. IssuedOf(q)' = IssuedOf(q)
      BY <1>1, <1>2, <2>2 DEF IssuedOf
    <3> QED BY <2>0, <2>2, <3>1, FS_CardinalityType DEF One
  <2> QED BY <2>1, <2>2
<1>4. ASSUME NEW x \in Orders
      PROVE  Cardinality(SubsFrom(x)') = Cardinality(SubsFrom(x)) + One(x = o)
  <2>0. IsFiniteSet(SubsFrom(x)) /\ s \notin SubsFrom(x)
    BY <1>2, Counted, SubOrderAssumption DEF SubsFrom
  <2>1. CASE x = o
    <3>1. SubsFrom(x)' = SubsFrom(x) \cup {s}
      BY <1>2, <2>1 DEF SubsFrom
    <3> QED BY <2>0, <2>1, <3>1, FS_AddElement DEF One
  <2>2. CASE x # o
    <3>1. SubsFrom(x)' = SubsFrom(x)
      BY <1>2, <2>0, <2>2 DEF SubsFrom
    <3> QED BY <2>0, <2>2, <3>1, FS_CardinalityType DEF One
  <2> QED BY <2>1, <2>2
<1>5. \A r \in Slots : sub'[r].status = "none" => sub'[r].from = Nothing
  BY <1>2 DEF BookInv
<1> QED BY <1>3, <1>4, <1>5

\* Steps that change neither what is counted nor the counters.
LEMMA QuietBooks ==
  ASSUME RowsInv, BookInv,
         \A p \in Plans : plan'[p].issued = plan[p].issued /\ plan'[p].reserved = plan[p].reserved,
         \A o \in Orders : /\ (order'[o].status = "pending") = (order[o].status = "pending")
                           /\ (order'[o].status = "success") = (order[o].status = "success")
                           /\ order[o].status = "pending" => order'[o].plan = order[o].plan,
         \A s \in Slots : /\ (sub'[s].status = "none") = (sub[s].status = "none")
                          /\ sub'[s].plan = sub[s].plan /\ sub'[s].from = sub[s].from,
         \A o \in Orders : income'[o] = income[o]
  PROVE  BookInv'
<1>1. ASSUME NEW p \in Plans  PROVE PendingOrders(p)' = PendingOrders(p) /\ IssuedOf(p)' = IssuedOf(p)
  BY DEF PendingOrders, IssuedOf
<1>2. ASSUME NEW o \in Orders  PROVE SubsFrom(o)' = SubsFrom(o)
  BY DEF SubsFrom
<1>3. StockMatchesOrders'
  BY <1>1 DEF BookInv, StockMatchesOrders
<1>4. IssuedOnce'
  BY <1>2 DEF BookInv, IssuedOnce, SubsFrom
<1>5. (\A s \in Slots : sub[s].status = "none" => sub[s].from = Nothing)'
  BY DEF BookInv
<1> QED BY <1>3, <1>4, <1>5 DEF BookInv

\* Giving a reservation back: the order and its plan's counter go together.
LEMMA ExpireOrderBooks ==
  ASSUME RowsInv, BookInv, NEW o \in Orders, ExpireOrder(o), UNCHANGED <<sub, income>>
  PROVE  BookInv'
<1>1. CASE order[o].status = "pending"
  <2> DEFINE p == order[o].plan
  <2>1. /\ p \in Plans
        /\ plan' = [plan EXCEPT ![p].reserved = @ - 1]
        /\ order' = [order EXCEPT ![o].status = "expired"]
    BY <1>1 DEF ExpireOrder, RowsInv
  <2>2. ASSUME NEW q \in Plans
        PROVE  /\ plan'[q].reserved = Cardinality(PendingOrders(q)')
               /\ plan'[q].issued = Cardinality(IssuedOf(q)')
    <3>1. plan'[q].reserved = plan[q].reserved - One(p = q) /\ plan'[q].issued = plan[q].issued
      BY <2>1 DEF RowsInv, PlanRows, One
    <3>2. Cardinality(PendingOrders(q)') = Cardinality(PendingOrders(q)) - One(p = q)
      BY <1>1, <2>1, PendingLeaves
    <3>3. IssuedOf(q)' = IssuedOf(q)
      BY DEF IssuedOf
    <3> QED BY <3>1, <3>2, <3>3 DEF BookInv, StockMatchesOrders
  <2>3. \A x \in Orders : (order'[x].status = "success") = (order[x].status = "success")
    BY <1>1, <2>1 DEF RowsInv, OrderRows
  <2>4. IssuedOnce'
    BY <2>3 DEF BookInv, IssuedOnce
  <2> QED BY <2>2, <2>4 DEF BookInv, StockMatchesOrders
<1>2. CASE order[o].status # "pending"
  BY <1>2, QuietBooks DEF ExpireOrder
<1> QED BY <1>1, <1>2

\* A subscription without an order: one more is issued of its plan.
LEMMA GiftBooks ==
  ASSUME RowsInv, BookInv, NEW u \in Users, NEW p \in Plans, IssueStock(p),
         Issue(u, p, Nothing), UNCHANGED <<order, income>>
  PROVE  BookInv'
<1>1. /\ \A q \in Plans : Cardinality(IssuedOf(q)') = Cardinality(IssuedOf(q)) + One(q = p)
      /\ \A x \in Orders : Cardinality(SubsFrom(x)') = Cardinality(SubsFrom(x)) + One(x = Nothing)
      /\ \A s \in Slots : sub'[s].status = "none" => sub'[s].from = Nothing
  BY IssueCounts
<1>2. ASSUME NEW q \in Plans
      PROVE  /\ plan'[q].reserved = Cardinality(PendingOrders(q)')
             /\ plan'[q].issued = Cardinality(IssuedOf(q)')
  <2>1. plan'[q].reserved = plan[q].reserved /\ plan'[q].issued = plan[q].issued + One(q = p)
    BY DEF IssueStock, RowsInv, PlanRows, One
  <2>2. PendingOrders(q)' = PendingOrders(q)
    BY DEF PendingOrders
  <2> QED BY <1>1, <2>1, <2>2 DEF BookInv, StockMatchesOrders
<1>3. ASSUME NEW x \in Orders
      PROVE  /\ Cardinality(SubsFrom(x)') = One(order'[x].status = "success")
             /\ income'[x] = One(order'[x].status = "success")
  <2>1. x # Nothing
    BY SubOrderAssumption
  <2>2. /\ Cardinality(SubsFrom(x)) = One(order[x].status = "success")
        /\ income[x] = One(order[x].status = "success")
    BY DEF BookInv, IssuedOnce, SubsFrom, One
  <2> QED BY <1>1, <2>1, <2>2 DEF One
<1>4. StockMatchesOrders'
  BY <1>2 DEF StockMatchesOrders
<1>5. IssuedOnce'
  BY <1>3 DEF IssuedOnce, SubsFrom, One
<1> QED BY <1>1, <1>4, <1>5 DEF BookInv

\* A payment that is reported: the reservation becomes a subscription.
LEMMA CompleteBooks ==
  ASSUME RowsInv, BookInv, NEW o \in Orders, CompleteSubscriptionOrder(o)
  PROVE  BookInv'
<1> DEFINE p == order[o].plan
<1>1. /\ order[o].status = "pending" /\ p \in Plans /\ order[o].user \in Users
      /\ order' = [order EXCEPT ![o].status = "success"]
      /\ plan' = [plan EXCEPT ![p].reserved = @ - 1, ![p].issued = @ + 1]
      /\ Issue(order[o].user, p, o)
      /\ CreditIncome(o)
  BY DEF CompleteSubscriptionOrder, Completable, RowsInv
<1>2. /\ \A q \in Plans : Cardinality(IssuedOf(q)') = Cardinality(IssuedOf(q)) + One(q = p)
      /\ \A x \in Orders : Cardinality(SubsFrom(x)') = Cardinality(SubsFrom(x)) + One(x = o)
      /\ \A s \in Slots : sub'[s].status = "none" => sub'[s].from = Nothing
  BY <1>1, IssueCounts
<1>3. ASSUME NEW q \in Plans
      PROVE  /\ plan'[q].reserved = Cardinality(PendingOrders(q)')
             /\ plan'[q].issued = Cardinality(IssuedOf(q)')
  <2>1. /\ plan'[q].reserved = plan[q].reserved - One(p = q)
        /\ plan'[q].issued = plan[q].issued + One(q = p)
    BY <1>1 DEF RowsInv, PlanRows, One
  <2>2. Cardinality(PendingOrders(q)') = Cardinality(PendingOrders(q)) - One(p = q)
    BY <1>1, PendingLeaves
  <2> QED BY <1>2, <2>1, <2>2 DEF BookInv, StockMatchesOrders
<1>4. ASSUME NEW x \in Orders
      PROVE  /\ Cardinality(SubsFrom(x)') = One(order'[x].status = "success")
             /\ income'[x] = One(order'[x].status = "success")
  <2>1. /\ Cardinality(SubsFrom(x)) = One(order[x].status = "success")
        /\ income[x] = One(order[x].status = "success")
        /\ income[o] = 0
    BY <1>1 DEF BookInv, IssuedOnce, SubsFrom, One
  <2>2. income'[x] = income[x] + One(x = o)
    BY <1>1, <2>1 DEF CreditIncome, IncomeDue, RowsInv, One
  <2>3. order'[x].status = IF x = o THEN "success" ELSE order[x].status
    BY <1>1 DEF RowsInv, OrderRows
  <2> QED BY <1>1, <1>2, <2>1, <2>2, <2>3 DEF One
<1>5. StockMatchesOrders'
  BY <1>3 DEF StockMatchesOrders
<1>6. IssuedOnce'
  BY <1>4 DEF IssuedOnce, SubsFrom, One
<1> QED BY <1>2, <1>5, <1>6 DEF BookInv

\* A step of an order keeps the counters.
LEMMA OrderBooks ==
  ASSUME RowsInv, BookInv, NEW o \in Orders, OrderStep(o)
  PROVE  BookInv'
<1>1. ASSUME NEW u \in Users, NEW p \in Plans, Quote(o, u, p)  PROVE BookInv'
  BY <1>1, QuietBooks DEF Quote, RowsInv, books
<1>2. CASE CreateSubscriptionOrder(o)
  <2> DEFINE p == order[o].plan
  <2>1. /\ p \in Plans /\ order[o].status = "opening"
        /\ plan' = [plan EXCEPT ![p].reserved = @ + 1]
        /\ order' = [order EXCEPT ![o].status = "pending"]
        /\ UNCHANGED <<sub, income>>
    BY <1>2 DEF CreateSubscriptionOrder, RowsInv, books
  <2>2. ASSUME NEW q \in Plans
        PROVE  /\ plan'[q].reserved = Cardinality(PendingOrders(q)')
               /\ plan'[q].issued = Cardinality(IssuedOf(q)')
    <3>1. plan'[q].reserved = plan[q].reserved + One(p = q) /\ plan'[q].issued = plan[q].issued
      BY <2>1 DEF RowsInv, PlanRows, One
    <3>2. Cardinality(PendingOrders(q)') = Cardinality(PendingOrders(q)) + One(p = q)
      BY <2>1, PendingEnters
    <3>3. IssuedOf(q)' = IssuedOf(q)
      BY <2>1 DEF IssuedOf
    <3> QED BY <3>1, <3>2, <3>3 DEF BookInv, StockMatchesOrders
  <2>3. \A x \in Orders : (order'[x].status = "success") = (order[x].status = "success")
    BY <2>1 DEF RowsInv, OrderRows
  <2>4. IssuedOnce'
    BY <2>1, <2>3 DEF BookInv, IssuedOnce
  <2> QED BY <2>1, <2>2, <2>4 DEF BookInv, StockMatchesOrders
<1>3. CASE CreateRefused(o)
  BY <1>3, QuietBooks DEF CreateRefused, NoOrder, RowsInv, books
<1>4. CASE OpenCheckout(o)
  BY <1>4, QuietBooks DEF OpenCheckout, RowsInv, OrderRows, books
<1>5. CASE CheckoutFails(o)
  BY <1>5, ExpireOrderBooks DEF CheckoutFails, books
<1>6. CASE CheckoutLost(o)
  BY <1>6, QuietBooks DEF CheckoutLost, RowsInv, OrderRows, books
<1>7. CASE Pay(o)
  BY <1>7, QuietBooks DEF Pay, books
<1>8. CASE SessionExpired(o)
  BY <1>8, ExpireOrderBooks DEF SessionExpired, books
<1>9. CASE ResumeSubscriptionOrder(o)
  <2>0. UNCHANGED <<sub, income>>
    BY <1>9 DEF ResumeSubscriptionOrder, books
  <2>1. CASE ExpireOrder(o)
    BY <2>0, <2>1, ExpireOrderBooks
  <2>2. CASE UNCHANGED <<plan, order>>
    BY <2>0, <2>2, QuietBooks
  <2> QED BY <1>9, <2>1, <2>2 DEF ResumeSubscriptionOrder
<1>10. CASE CompleteSubscriptionOrder(o)
  BY <1>10, CompleteBooks
<1>11. CASE CompleteAgain(o)
  <2>1. income[o] = 1
    BY <1>11 DEF CompleteAgain, BookInv, IssuedOnce
  <2>2. UNCHANGED <<plan, order, sub, income>>
    BY <1>11, <2>1 DEF CompleteAgain, CreditIncome, IncomeDue
  <2> QED BY <2>2, QuietBooks
<1> QED BY <1>1, <1>2, <1>3, <1>4, <1>5, <1>6, <1>7, <1>8, <1>9, <1>10, <1>11 DEF OrderStep

\* A step of an administrator keeps the counters.
LEMMA AdminBooks ==
  ASSUME RowsInv, BookInv, AdminStep
  PROVE  BookInv'
<1>1. ASSUME NEW u \in Users, NEW p \in Plans, AdminBindSubscription(u, p)  PROVE BookInv'
  BY <1>1, GiftBooks DEF AdminBindSubscription
<1>2. ASSUME NEW u \in Users, AirdropBegin(u)  PROVE BookInv'
  BY <1>2, QuietBooks DEF AirdropBegin, books
<1>3. ASSUME NEW u \in Users, GrantAirdropSubscription(u)  PROVE BookInv'
  BY <1>3, GiftBooks, SubOrderAssumption DEF GrantAirdropSubscription
<1>4. ASSUME NEW u \in Users, AirdropRefused(u)  PROVE BookInv'
  BY <1>4, QuietBooks DEF AirdropRefused, books
<1>5. ASSUME NEW s \in Slots, AdminInvalidateUserSubscription(s)  PROVE BookInv'
  <2>1. \A r \in Slots : /\ (sub'[r].status = "none") = (sub[r].status = "none")
                         /\ sub'[r].plan = sub[r].plan /\ sub'[r].from = sub[r].from
    BY <1>5 DEF AdminInvalidateUserSubscription, Rows, RowsInv, SubRows
  <2> QED BY <1>5, <2>1, QuietBooks DEF AdminInvalidateUserSubscription
<1>6. ASSUME NEW s \in Slots, AdminDeleteUserSubscription(s)  PROVE BookInv'
  <2>1. \A r \in Slots : /\ (sub'[r].status = "none") = (sub[r].status = "none")
                         /\ sub'[r].plan = sub[r].plan /\ sub'[r].from = sub[r].from
    BY <1>6 DEF AdminDeleteUserSubscription, Rows, RowsInv, SubRows
  <2> QED BY <1>6, <2>1, QuietBooks DEF AdminDeleteUserSubscription
<1>7. ASSUME NEW p \in Plans, NEW asked \in Edits, EditBegin(p, asked)  PROVE BookInv'
  BY <1>7, QuietBooks DEF EditBegin, books
<1>8. CASE AdminUpdateSubscriptionPlan
  <2>1. edit \in EditRows
    BY <1>8 DEF AdminUpdateSubscriptionPlan, RowsInv
  <2>2. \A p \in Plans : plan'[p].issued = plan[p].issued /\ plan'[p].reserved = plan[p].reserved
    BY <1>8, <2>1 DEF AdminUpdateSubscriptionPlan, RowsInv, PlanRows, EditRows
  <2> QED BY <1>8, <2>2, QuietBooks DEF AdminUpdateSubscriptionPlan, books
<1>9. CASE EditRefused
  BY <1>9, QuietBooks DEF EditRefused, books
<1>10. ASSUME NEW p \in Plans, AdminUpdateSubscriptionPlanStatus(p)  PROVE BookInv'
  <2>1. \A q \in Plans : plan'[q].issued = plan[q].issued /\ plan'[q].reserved = plan[q].reserved
    BY <1>10 DEF AdminUpdateSubscriptionPlanStatus, RowsInv, PlanRows
  <2> QED BY <1>10, <2>1, QuietBooks DEF AdminUpdateSubscriptionPlanStatus, books
<1> QED BY <1>1, <1>2, <1>3, <1>4, <1>5, <1>6, <1>7, <1>8, <1>9, <1>10 DEF AdminStep

\* A step of the maintenance pass keeps the counters.
LEMMA SweepBooks ==
  ASSUME RowsInv, BookInv, SweepStep
  PROVE  BookInv'
<1>1. CASE ExpireReservedSubscriptionOrders
  BY <1>1, QuietBooks DEF ExpireReservedSubscriptionOrders, books
<1>2. ASSUME NEW o \in Orders, ExpireSubscriptionOrder(o)  PROVE BookInv'
  BY <1>2, ExpireOrderBooks DEF ExpireSubscriptionOrder, books
<1>3. CASE ExpireDueSubscriptions
  BY <1>3, QuietBooks DEF ExpireDueSubscriptions, books
<1>4. ASSUME NEW u \in Users, ExpireUser(u)  PROVE BookInv'
  <2>1. \A r \in Slots : /\ (sub'[r].status = "none") = (sub[r].status = "none")
                         /\ sub'[r].plan = sub[r].plan /\ sub'[r].from = sub[r].from
    BY <1>4 DEF ExpireUser, Ended, RowsInv, SubRows
  <2> QED BY <1>4, <2>1, QuietBooks DEF ExpireUser
<1>5. CASE ReturnUser
  BY <1>5, QuietBooks DEF ReturnUser
<1>6. CASE SweepDone
  BY <1>6, QuietBooks DEF SweepDone, books
<1> QED BY <1>1, <1>2, <1>3, <1>4, <1>5, <1>6 DEF SweepStep

\* The counters, the issued rows and the incomes are what the orders say; it is
\* inductive over well-formed tables.
THEOREM BooksInvariant == Spec => []BookInv
<1>1. ASSUME Init  PROVE BookInv
  <2>1. ASSUME NEW p \in Plans
        PROVE  plan[p].reserved = Cardinality(PendingOrders(p)) /\ plan[p].issued = Cardinality(IssuedOf(p))
    <3>1. PendingOrders(p) = {} /\ IssuedOf(p) = {}
      BY <1>1 DEF Init, NoOrder, NoSub, PendingOrders, IssuedOf
    <3> QED BY <1>1, <3>1, FS_EmptySet DEF Init
  <2>2. ASSUME NEW o \in Orders
        PROVE  order[o].status = "none" /\ Cardinality({s \in Slots : sub[s].from = o}) = 0 /\ income[o] = 0
    <3>1. {s \in Slots : sub[s].from = o} = {}
      BY <1>1, SubOrderAssumption DEF Init, NoSub
    <3> QED BY <1>1, <3>1, FS_EmptySet DEF Init, NoOrder
  <2>3. \A s \in Slots : sub[s].from = Nothing
    BY <1>1 DEF Init, NoSub
  <2> QED BY <2>1, <2>2, <2>3 DEF BookInv, StockMatchesOrders, IssuedOnce
<1>2. RowsInv /\ BookInv /\ [Next]_vars => BookInv'
  <2> SUFFICES ASSUME RowsInv, BookInv, [Next]_vars  PROVE BookInv'
    OBVIOUS
  <2>1. CASE SweepFails
    BY <2>1, QuietBooks DEF SweepFails, books
  <2>2. CASE Tick
    BY <2>2, QuietBooks DEF Tick, books
  <2>3. CASE UNCHANGED vars
    BY <2>3, QuietBooks DEF vars, books
  <2> QED BY <2>1, <2>2, <2>3, OrderBooks, AdminBooks, SweepBooks DEF Next
<1> QED BY <1>1, <1>2, RowsInvariant, PTL DEF Spec

\* StockMatchesOrders for any number of orders and plans: through creation,
\* payment, three ways of expiry and administration, reserved is the number of a
\* plan's pending orders and issued the number of its subscriptions.
THEOREM StockIsOrders == Spec => []StockMatchesOrders
<1>1. BookInv => StockMatchesOrders
  BY DEF BookInv
<1> QED BY <1>1, BooksInvariant, PTL

\* IssuedOnce for any number of orders: however often completeSubscriptionOrderTx
\* runs, a successful order has one subscription and one income, others none.
THEOREM OrdersIssueOnce == Spec => []IssuedOnce
<1>1. BookInv => IssuedOnce
  BY DEF BookInv
<1> QED BY <1>1, BooksInvariant, PTL

(***************************************************************************)
(* Plans that move.                                                        *)
(***************************************************************************)
\* Steps after which every pending order was pending before, in a plan that did
\* not move.
LEMMA QuietSnap ==
  ASSUME RowsInv, SnapInv,
         \A p \in Plans : plan'[p].group = plan[p].group,
         \A o \in Orders : order'[o].status = "pending" =>
            order[o].status = "pending" /\ order'[o].plan = order[o].plan
              /\ order'[o].snap = order[o].snap
  PROVE  SnapInv'
BY DEF RowsInv, SnapInv

\* Giving a reservation back moves no plan.
LEMMA ExpireOrderSnap ==
  ASSUME RowsInv, SnapInv, NEW o \in Orders, ExpireOrder(o)
  PROVE  SnapInv'
<1>1. CASE order[o].status = "pending"
  <2>1. order[o].plan \in Plans
    BY <1>1 DEF RowsInv
  <2>2. \A p \in Plans : plan'[p].group = plan[p].group
    BY <1>1, <2>1 DEF ExpireOrder, RowsInv, PlanRows
  <2>3. \A x \in Orders : order'[x].status = "pending" =>
           order[x].status = "pending" /\ order'[x].plan = order[x].plan
             /\ order'[x].snap = order[x].snap
    BY <1>1 DEF ExpireOrder, RowsInv, OrderRows
  <2> QED BY <2>2, <2>3, QuietSnap
<1>2. CASE order[o].status # "pending"
  BY <1>2, QuietSnap DEF ExpireOrder
<1> QED BY <1>1, <1>2

\* An order becomes pending in the group it was quoted for.
LEMMA OrderSnap ==
  ASSUME RowsInv, SnapInv, NEW o \in Orders, OrderStep(o)
  PROVE  SnapInv'
<1>1. ASSUME NEW u \in Users, NEW p \in Plans, Quote(o, u, p)  PROVE SnapInv'
  BY <1>1, QuietSnap DEF Quote, RowsInv
<1>2. CASE CreateSubscriptionOrder(o)
  <2>1. order[o].plan \in Plans /\ plan[order[o].plan].group = order[o].snap
    BY <1>2 DEF CreateSubscriptionOrder, Orderable, RowsInv
  <2>2. \A p \in Plans : plan'[p].group = plan[p].group
    BY <1>2, <2>1 DEF CreateSubscriptionOrder, RowsInv, PlanRows
  <2>3. \A x \in Orders : /\ order'[x].plan = order[x].plan /\ order'[x].snap = order[x].snap
                          /\ x # o => order'[x] = order[x]
    BY <1>2 DEF CreateSubscriptionOrder, RowsInv, OrderRows
  <2> QED BY <2>1, <2>2, <2>3 DEF SnapInv, RowsInv
<1>3. CASE CreateRefused(o)
  BY <1>3, QuietSnap DEF CreateRefused, NoOrder, RowsInv
<1>4. CASE OpenCheckout(o)
  BY <1>4, QuietSnap DEF OpenCheckout, RowsInv, OrderRows
<1>5. CASE CheckoutFails(o)
  BY <1>5, ExpireOrderSnap DEF CheckoutFails
<1>6. CASE CheckoutLost(o)
  BY <1>6, QuietSnap DEF CheckoutLost, RowsInv, OrderRows
<1>7. CASE Pay(o)
  BY <1>7, QuietSnap DEF Pay
<1>8. CASE SessionExpired(o)
  BY <1>8, ExpireOrderSnap DEF SessionExpired
<1>9. CASE ResumeSubscriptionOrder(o)
  BY <1>9, ExpireOrderSnap, QuietSnap DEF ResumeSubscriptionOrder
<1>10. CASE CompleteSubscriptionOrder(o)
  <2>1. order[o].plan \in Plans
    BY <1>10 DEF CompleteSubscriptionOrder, Completable, RowsInv
  <2>2. \A p \in Plans : plan'[p].group = plan[p].group
    BY <1>10, <2>1 DEF CompleteSubscriptionOrder, RowsInv, PlanRows
  <2>3. \A x \in Orders : order'[x].status = "pending" =>
           order[x].status = "pending" /\ order'[x].plan = order[x].plan
             /\ order'[x].snap = order[x].snap
    BY <1>10 DEF CompleteSubscriptionOrder, RowsInv, OrderRows
  <2> QED BY <2>2, <2>3, QuietSnap
<1>11. CASE CompleteAgain(o)
  BY <1>11, QuietSnap DEF CompleteAgain
<1> QED BY <1>1, <1>2, <1>3, <1>4, <1>5, <1>6, <1>7, <1>8, <1>9, <1>10, <1>11 DEF OrderStep

\* A plan moves to another group only without pending orders, when they are
\* counted in the state in which it moves.
LEMMA AdminSnap ==
  ASSUME ~SnapshotReads, RowsInv, SnapInv, AdminStep
  PROVE  SnapInv'
<1>1. ASSUME NEW u \in Users, NEW p \in Plans, AdminBindSubscription(u, p)  PROVE SnapInv'
  <2>1. \A q \in Plans : plan'[q].group = plan[q].group
    BY <1>1 DEF AdminBindSubscription, IssueStock, RowsInv, PlanRows
  <2> QED BY <1>1, <2>1, QuietSnap DEF AdminBindSubscription
<1>2. ASSUME NEW u \in Users, AirdropBegin(u)  PROVE SnapInv'
  BY <1>2, QuietSnap DEF AirdropBegin
<1>3. ASSUME NEW u \in Users, GrantAirdropSubscription(u)  PROVE SnapInv'
  <2>1. \A q \in Plans : plan'[q].group = plan[q].group
    BY <1>3, SubOrderAssumption DEF GrantAirdropSubscription, IssueStock, RowsInv, PlanRows
  <2> QED BY <1>3, <2>1, QuietSnap DEF GrantAirdropSubscription
<1>4. ASSUME NEW u \in Users, AirdropRefused(u)  PROVE SnapInv'
  BY <1>4, QuietSnap DEF AirdropRefused
<1>5. ASSUME NEW s \in Slots, AdminInvalidateUserSubscription(s)  PROVE SnapInv'
  BY <1>5, QuietSnap DEF AdminInvalidateUserSubscription
<1>6. ASSUME NEW s \in Slots, AdminDeleteUserSubscription(s)  PROVE SnapInv'
  BY <1>6, QuietSnap DEF AdminDeleteUserSubscription
<1>7. ASSUME NEW p \in Plans, NEW asked \in Edits, EditBegin(p, asked)  PROVE SnapInv'
  BY <1>7, QuietSnap DEF EditBegin
<1>8. CASE AdminUpdateSubscriptionPlan
  <2>1. edit \in EditRows /\ edit.plan \in Plans
    BY <1>8 DEF AdminUpdateSubscriptionPlan, RowsInv, EditRows
  <2>2. /\ \A p \in Plans \ {edit.plan} : plan'[p].group = plan[p].group
        /\ plan'[edit.plan].group = edit.group
    BY <1>8, <2>1 DEF AdminUpdateSubscriptionPlan, RowsInv, PlanRows, EditRows
  <2>3. edit.group = plan[edit.plan].group \/ PendingOrders(edit.plan) = {}
    BY <1>8 DEF AdminUpdateSubscriptionPlan, Editable, MayMove
  <2>4. order' = order
    BY <1>8 DEF AdminUpdateSubscriptionPlan
  <2> QED BY <2>1, <2>2, <2>3, <2>4 DEF SnapInv, RowsInv, PendingOrders
<1>9. CASE EditRefused
  BY <1>9, QuietSnap DEF EditRefused
<1>10. ASSUME NEW p \in Plans, AdminUpdateSubscriptionPlanStatus(p)  PROVE SnapInv'
  <2>1. \A q \in Plans : plan'[q].group = plan[q].group
    BY <1>10 DEF AdminUpdateSubscriptionPlanStatus, RowsInv, PlanRows
  <2> QED BY <1>10, <2>1, QuietSnap DEF AdminUpdateSubscriptionPlanStatus
<1> QED BY <1>1, <1>2, <1>3, <1>4, <1>5, <1>6, <1>7, <1>8, <1>9, <1>10 DEF AdminStep

\* The maintenance pass moves no plan.
LEMMA SweepSnap ==
  ASSUME RowsInv, SnapInv, SweepStep
  PROVE  SnapInv'
<1>1. ASSUME NEW o \in Orders, ExpireSubscriptionOrder(o)  PROVE SnapInv'
  BY <1>1, ExpireOrderSnap DEF ExpireSubscriptionOrder
<1>2. CASE UNCHANGED <<plan, order>>
  BY <1>2, QuietSnap
<1> QED BY <1>1, <1>2 DEF SweepStep, ExpireReservedSubscriptionOrders, ExpireDueSubscriptions,
                          ExpireUser, ReturnUser, SweepDone

\* Where a transaction's reads see what is committed when it holds its locks, a
\* pending order's plan stays in the group of the order's snapshot.
THEOREM PlansStayForOrders ==
  ASSUME ~SnapshotReads
  PROVE  Spec => []SnapInv
<1>1. Init => SnapInv
  BY DEF Init, NoOrder, SnapInv
<1>2. RowsInv /\ SnapInv /\ [Next]_vars => SnapInv'
  <2> SUFFICES ASSUME RowsInv, SnapInv, [Next]_vars  PROVE SnapInv'
    OBVIOUS
  <2>1. CASE SweepFails \/ Tick \/ UNCHANGED vars
    BY <2>1, QuietSnap DEF SweepFails, Tick, vars
  <2> QED BY <2>1, OrderSnap, AdminSnap, SweepSnap DEF Next
<1> QED BY <1>1, <1>2, RowsInvariant, PTL DEF Spec

\* PendingCompletable for any number of orders, plans and edits: when plain reads
\* see committed rows, completeSubscriptionOrderTx finds the plan of a pending
\* order in the order's group and with the order's reservation.
THEOREM PendingIsCompletable ==
  ASSUME ~SnapshotReads
  PROVE  Spec => []PendingCompletable
<1>1. RowsInv /\ BookInv /\ SnapInv => PendingCompletable
  <2> SUFFICES ASSUME RowsInv, BookInv, SnapInv, NEW o \in Orders, order[o].status = "pending"
               PROVE  /\ plan[order[o].plan].group = order[o].snap
                      /\ plan[order[o].plan].reserved > 0
    BY DEF PendingCompletable
  <2> DEFINE p == order[o].plan
  <2>1. p \in Plans /\ o \in PendingOrders(p) /\ IsFiniteSet(PendingOrders(p))
    BY Counted DEF RowsInv, PendingOrders
  <2>2. Cardinality(PendingOrders(p)) \in Nat /\ Cardinality(PendingOrders(p)) # 0
    BY <2>1, FS_CardinalityType, FS_EmptySet
  <2> QED BY <2>1, <2>2 DEF BookInv, StockMatchesOrders, SnapInv
<1> QED BY <1>1, RowsInvariant, BooksInvariant, PlansStayForOrders, PTL

(***************************************************************************)
(* Upgrade groups.                                                         *)
(***************************************************************************)
\* Issuing while no user expires: the subscription's user is in the upgrade group.
LEMMA IssueGroups ==
  ASSUME RowsInv, GroupInv, \A q \in Plans : Upgrade[q] # BaseGroup,
         sweep.pass # "subs", NEW u \in Users, NEW p \in Plans, NEW o \in Orders \cup {Nothing},
         Issue(u, p, o), UNCHANGED <<sweep, now>>
  PROVE  GroupInv'
<1>1. PICK s \in Slots, prev \in UserGroups :
        /\ sub[s].status = "none"
        /\ sub' = [sub EXCEPT ![s] =
             [user |-> u, plan |-> p, status |-> "active", start |-> now,
              end |-> now + Duration, upgrade |-> Upgrade[p], prev |-> prev, from |-> o]]
  BY IssueFacts
<1>2. /\ sub'[s].user = u /\ sub'[s].upgrade = Upgrade[p] /\ sub'[s].start = now
      /\ \A r \in Slots \ {s} : sub'[r] = sub[r]
  BY <1>1 DEF RowsInv
<1>3. /\ Upgrade[p] # Nothing => group'[u] = Upgrade[p]
      /\ \A v \in Users : group'[v] = group[v] \/ group'[v] = Upgrade[p]
  BY IssueFacts DEF RowsInv
<1>4. ASSUME NEW r \in Slots, sub'[r].status = "active", sub'[r].upgrade # Nothing,
             now' < sub'[r].end
      PROVE  group'[sub'[r].user] # BaseGroup
  <2>1. CASE r = s
    BY <1>2, <1>3, <1>4, <2>1
  <2>2. CASE r # s
    <3>1. sub'[r] = sub[r] /\ sub[r].user \in Users
      BY <1>2, <1>4, <2>2 DEF RowsInv
    <3>2. group[sub[r].user] # BaseGroup
      BY <1>4, <3>1 DEF GroupInv, EntitledKeepsGroup
    <3> QED BY <1>3, <3>1, <3>2
  <2> QED BY <2>1, <2>2
<1>5. EntitledKeepsGroup'
  BY <1>4 DEF EntitledKeepsGroup
<1>6. \A r \in Slots : sub'[r].start <= now'
  BY <1>2 DEF GroupInv, RowsInv
<1> QED BY <1>5, <1>6 DEF GroupInv

\* Steps that move nobody and after which every running subscription ran before.
LEMMA QuietGroups ==
  ASSUME RowsInv, GroupInv, UNCHANGED group, now' \in Nat, now <= now',
         \A s \in Slots :
            /\ sub'[s].user = sub[s].user /\ sub'[s].upgrade = sub[s].upgrade
            /\ sub'[s].start = sub[s].start
            /\ sub'[s].status = "active" =>
                 sub[s].status = "active" /\ sub'[s].end = sub[s].end,
         sweep'.pass = "subs" => sweep'.at = now',
         \/ sweep'.user = Nothing
         \/ sweep'.user = sweep.user /\ sweep'.pass = sweep.pass
  PROVE  GroupInv'
<1>0. now \in Nat /\ \A s \in Slots : sub[s].start \in Nat /\ sub[s].end \in Nat
  BY DEF RowsInv, SubRows
<1>1. EntitledKeepsGroup'
  BY <1>0 DEF GroupInv, EntitledKeepsGroup
<1>2. \A s \in Slots : sub'[s].start <= now'
  BY <1>0 DEF GroupInv
<1>3. sweep'.user # Nothing =>
        /\ sweep'.pass = "subs"
        /\ \A s \in Slots : /\ sub'[s].user = sweep'.user /\ sub'[s].status = "active"
                            /\ sub'[s].upgrade # Nothing
                            => sub'[s].end <= now'
  BY <1>0 DEF GroupInv
<1> QED BY <1>1, <1>2, <1>3 DEF GroupInv

\* An administrator ends a subscription: the user goes back only when no other
\* one entitles to a group (downgradeUserGroupForSubscriptionTx).
LEMMA DowngradeGroups ==
  ASSUME RowsInv, GroupInv, NEW s \in Slots, sub[s].status # "none", Downgrade(s),
         UNCHANGED <<sweep, now>>,
         \A r \in Slots \ {s} : sub'[r] = sub[r],
         /\ sub'[s].user = sub[s].user /\ sub'[s].start = sub[s].start
         /\ sub'[s].status # "active"
  PROVE  GroupInv'
<1> DEFINE u == sub[s].user
<1>1. u \in Users /\ now \in Nat
  BY DEF RowsInv
<1>2. \/ group' = group
      \/ ~Upgraded(u, now, Slots \ {s}) /\ group' = [group EXCEPT ![u] = sub[s].prev]
  BY DEF Downgrade
<1>3. ASSUME NEW r \in Slots, sub'[r].status = "active", sub'[r].upgrade # Nothing,
             now' < sub'[r].end
      PROVE  group'[sub'[r].user] # BaseGroup
  <2>1. r \in Slots \ {s} /\ sub'[r] = sub[r] /\ sub[r].user \in Users
    BY <1>3 DEF RowsInv
  <2>2. group[sub[r].user] # BaseGroup
    BY <1>3, <2>1 DEF GroupInv, EntitledKeepsGroup
  <2>3. Upgraded(sub[r].user, now, Slots \ {s})
    BY <1>3, <2>1 DEF GroupInv, Upgraded
  <2> QED BY <1>1, <1>2, <2>1, <2>2, <2>3 DEF RowsInv
<1>4. EntitledKeepsGroup'
  BY <1>3 DEF EntitledKeepsGroup
<1> QED BY <1>4 DEF GroupInv

\* The pass decides on a user: nothing of the user's runs on when it goes back.
LEMMA ExpireGroups ==
  ASSUME RowsInv, GroupInv, NEW u \in Users, ExpireUser(u)
  PROVE  GroupInv'
<1> DEFINE due == {s \in Slots : sub[s].user = u /\ Ended(s, sweep.at)}
           lapsed == {s \in Slots : /\ sub[s].user = u /\ sub[s].upgrade # Nothing
                                    /\ s \in due \/ sub[s].status = "expired"}
           back == Returns(u, lapsed)
           to == IF back = {} THEN Nothing ELSE sub[CHOOSE s \in back : TRUE].prev
<1>1. /\ sub' = [s \in Slots |-> IF s \in due THEN [sub[s] EXCEPT !.status = "expired"]
                                 ELSE sub[s]]
      /\ sweep' = [sweep EXCEPT !.todo = @ \ {u}, !.user = IF back = {} THEN Nothing ELSE u,
                                !.to = to]
      /\ sweep.pass = "subs"
      /\ UNCHANGED <<group, now>>
  BY DEF ExpireUser
<1>2. back # {} => ~Upgraded(u, sweep.at, Slots)
  BY DEF Returns
<1>3. /\ sweep'.pass = "subs" /\ sweep'.at = sweep.at
      /\ sweep'.user = IF back = {} THEN Nothing ELSE u
  <2> HIDE DEF back, to
  <2> QED BY <1>1 DEF RowsInv, Sweeps
<1>4. \A s \in Slots : /\ sub'[s].user = sub[s].user /\ sub'[s].upgrade = sub[s].upgrade
                       /\ sub'[s].start = sub[s].start /\ sub'[s].end = sub[s].end
                       /\ sub'[s].status = "active" => sub[s].status = "active"
  <2> HIDE DEF due
  <2> QED BY <1>1 DEF RowsInv, SubRows
<1>5. sweep.at = now /\ now \in Nat
  BY <1>1 DEF GroupInv, RowsInv
<1> HIDE DEF back, due, lapsed, to
<1>6. EntitledKeepsGroup'
  BY <1>1, <1>4 DEF GroupInv, EntitledKeepsGroup
<1>7. ASSUME sweep'.user # Nothing, NEW s \in Slots, sub'[s].user = sweep'.user,
             sub'[s].status = "active", sub'[s].upgrade # Nothing
      PROVE  sub'[s].end <= now'
  <2>1. back # {} /\ sweep'.user = u
    BY <1>3, <1>7
  <2>2. /\ sub[s].user = u /\ sub[s].status = "active" /\ sub[s].upgrade # Nothing
        /\ sub[s].start <= now /\ ~(now < sub[s].end) => sub'[s].end <= now'
    BY <1>1, <1>4, <1>5, <1>7, <2>1 DEF GroupInv, RowsInv, SubRows
  <2> QED BY <1>2, <1>4, <1>5, <1>7, <2>1, <2>2 DEF Upgraded, GroupInv
<1> QED BY <1>1, <1>3, <1>4, <1>5, <1>6, <1>7 DEF GroupInv

\* The group of whoever runs a subscription, where no time passes and nothing is
\* issued while users expire.
LEMMA StepGroups ==
  ASSUME Undisturbed, \A p \in Plans : Upgrade[p] # BaseGroup, RowsInv, GroupInv, [Next]_vars
  PROVE  GroupInv'
<1>0. now \in Nat /\ now <= now
  BY DEF RowsInv
<1>1. CASE UNCHANGED <<sub, group, sweep, now>>
  BY <1>0, <1>1, QuietGroups DEF GroupInv
<1>2. ASSUME NEW o \in Orders, OrderStep(o)  PROVE GroupInv'
  <2>1. CASE CompleteSubscriptionOrder(o)
    <3>1. order[o].plan \in Plans /\ order[o].user \in Users
      BY <2>1 DEF CompleteSubscriptionOrder, Completable, RowsInv
    <3> QED BY <2>1, <3>1, IssueGroups DEF CompleteSubscriptionOrder, Calm
  <2>2. CASE ~CompleteSubscriptionOrder(o)
    <3>1. UNCHANGED <<sub, group, sweep, now>>
      BY <1>2, <2>2 DEF OrderStep, Quote, CreateSubscriptionOrder, CreateRefused, OpenCheckout,
                        CheckoutFails, CheckoutLost, Pay, SessionExpired,
                        ResumeSubscriptionOrder, CompleteAgain, books
    <3> QED BY <1>1, <3>1
  <2> QED BY <2>1, <2>2
<1>3. CASE AdminStep
  <2>1. ASSUME NEW u \in Users, NEW p \in Plans, AdminBindSubscription(u, p)  PROVE GroupInv'
    BY <2>1, IssueGroups DEF AdminBindSubscription, Calm
  <2>2. ASSUME NEW u \in Users, GrantAirdropSubscription(u)  PROVE GroupInv'
    BY <2>2, IssueGroups, SubOrderAssumption DEF GrantAirdropSubscription, Calm
  <2>3. ASSUME NEW s \in Slots, AdminInvalidateUserSubscription(s)  PROVE GroupInv'
    <3>1. /\ sub[s].status # "none" /\ Downgrade(s)
          /\ \A r \in Slots \ {s} : sub'[r] = sub[r]
          /\ sub'[s].user = sub[s].user /\ sub'[s].start = sub[s].start
          /\ sub'[s].status # "active"
      BY <2>3 DEF AdminInvalidateUserSubscription, Rows, RowsInv, SubRows
    <3> QED BY <2>3, <3>1, DowngradeGroups DEF AdminInvalidateUserSubscription
  <2>4. ASSUME NEW s \in Slots, AdminDeleteUserSubscription(s)  PROVE GroupInv'
    <3>1. /\ sub[s].status # "none" /\ Downgrade(s)
          /\ \A r \in Slots \ {s} : sub'[r] = sub[r]
          /\ sub'[s].user = sub[s].user /\ sub'[s].start = sub[s].start
          /\ sub'[s].status # "active"
      BY <2>4 DEF AdminDeleteUserSubscription, Rows, RowsInv, SubRows
    <3> QED BY <2>4, <3>1, DowngradeGroups DEF AdminDeleteUserSubscription
  <2> QED BY <1>1, <1>3, <2>1, <2>2, <2>3, <2>4
          DEF AdminStep, AirdropBegin, AirdropRefused, EditBegin, AdminUpdateSubscriptionPlan,
              EditRefused, AdminUpdateSubscriptionPlanStatus, books
<1>4. CASE SweepStep \/ SweepFails
  <2>1. CASE ExpireReservedSubscriptionOrders
    BY <1>0, <2>1, QuietGroups DEF ExpireReservedSubscriptionOrders, Resting, books
  <2>2. ASSUME NEW o \in Orders, ExpireSubscriptionOrder(o)  PROVE GroupInv'
    <3>1. sweep'.pass = sweep.pass /\ sweep'.at = sweep.at /\ sweep'.user = sweep.user
      BY <2>2 DEF ExpireSubscriptionOrder, RowsInv, Sweeps
    <3> QED BY <1>0, <2>2, <3>1, QuietGroups DEF ExpireSubscriptionOrder, GroupInv, books
  <2>3. CASE ExpireDueSubscriptions
    <3>1. sweep'.at = now /\ sweep'.user = Nothing
      BY <2>3 DEF ExpireDueSubscriptions, Resting
    <3> QED BY <1>0, <2>3, <3>1, QuietGroups DEF ExpireDueSubscriptions, books
  <2>4. ASSUME NEW u \in Users, ExpireUser(u)  PROVE GroupInv'
    BY <2>4, ExpireGroups
  <2>5. CASE ReturnUser
    <3>1. /\ sweep.user \in Users /\ UNCHANGED <<sub, now>>
          /\ group' = [group EXCEPT ![sweep.user] = sweep.to]
          /\ sweep'.user = Nothing /\ sweep'.pass = sweep.pass /\ sweep'.at = sweep.at
      BY <2>5 DEF ReturnUser, RowsInv, Sweeps
    <3>2. \A s \in Slots : /\ sub[s].user = sweep.user /\ sub[s].status = "active"
                           /\ sub[s].upgrade # Nothing
                           => ~(now < sub[s].end)
      BY <2>5 DEF ReturnUser, GroupInv, RowsInv, SubRows
    <3>3. EntitledKeepsGroup'
      BY <3>1, <3>2 DEF GroupInv, EntitledKeepsGroup, RowsInv
    <3> QED BY <3>1, <3>3 DEF GroupInv
  <2>6. CASE SweepDone \/ SweepFails
    BY <1>0, <2>6, QuietGroups DEF SweepDone, SweepFails, Resting, books
  <2> QED BY <1>4, <2>1, <2>2, <2>3, <2>4, <2>5, <2>6 DEF SweepStep
<1>5. CASE Tick
  <2>1. /\ now' = now + 1 /\ UNCHANGED <<sub, group, sweep>> /\ sweep.pass # "subs"
    BY <1>5 DEF Tick, Calm, books
  <2> QED BY <1>0, <2>1, QuietGroups DEF GroupInv
<1>6. CASE UNCHANGED vars
  BY <1>1, <1>6 DEF vars, books
<1> QED BY <1>2, <1>3, <1>4, <1>5, <1>6 DEF Next

\* EntitledKeepsGroup for any number of users, plans, upgrade groups and
\* subscriptions: provided nothing is issued while the pass expires users (it
\* writes the user's row without a lock) and no plan upgrades to the base group,
\* nobody with a running upgrade is put back into the base group.
THEOREM EntitledStay ==
  ASSUME Undisturbed, \A p \in Plans : Upgrade[p] # BaseGroup
  PROVE  Spec => []EntitledKeepsGroup
<1>1. Init => GroupInv
  BY SubOrderAssumption DEF Init, NoSub, Resting, GroupInv, EntitledKeepsGroup
<1>2. RowsInv /\ GroupInv /\ [Next]_vars => GroupInv'
  BY StepGroups
<1>3. GroupInv => EntitledKeepsGroup
  BY DEF GroupInv
<1> QED BY <1>1, <1>2, <1>3, RowsInvariant, PTL DEF Spec

(***************************************************************************)
(* Limits per user.                                                        *)
(***************************************************************************)
\* Plans of one scope have the same scope.
LEMMA ScopeOfMember ==
  ASSUME RowsInv, NEW p \in Plans, NEW q \in Scope(p)
  PROVE  q \in Plans /\ Scope(q) = Scope(p)
BY DEF Scope, RowsInv

\* What a user has in a set of plans is a number.
LEMMA HoldingsCounted ==
  ASSUME NEW u, NEW P
  PROVE  /\ IsFiniteSet(SubsOf(u, P)) /\ Cardinality(SubsOf(u, P)) \in Nat
         /\ IsFiniteSet(PendingOf(u, P)) /\ Cardinality(PendingOf(u, P)) \in Nat
BY Counted, FS_CardinalityType DEF SubsOf, Rows, PendingOf

\* The same after the step.
LEMMA HoldingsCountedAfter ==
  ASSUME NEW u, NEW P
  PROVE  /\ IsFiniteSet(SubsOf(u, P)') /\ Cardinality(SubsOf(u, P)') \in Nat
         /\ IsFiniteSet(PendingOf(u, P)') /\ Cardinality(PendingOf(u, P)') \in Nat
BY Counted, FS_CardinalityType DEF SubsOf, Rows, PendingOf

\* Steps after which a user holds nothing new.
LEMMA NothingNew ==
  ASSUME NEW u, NEW P,
         SubsOf(u, P)' \subseteq SubsOf(u, P), PendingOf(u, P)' \subseteq PendingOf(u, P)
  PROVE  Cardinality(SubsOf(u, P)') + Cardinality(PendingOf(u, P)')
           <= Cardinality(SubsOf(u, P)) + Cardinality(PendingOf(u, P))
<1>1. /\ Cardinality(SubsOf(u, P)') <= Cardinality(SubsOf(u, P))
      /\ Cardinality(PendingOf(u, P)') <= Cardinality(PendingOf(u, P))
  BY HoldingsCounted, FS_Subset
<1> QED BY <1>1, HoldingsCounted, HoldingsCountedAfter

\* Issuing adds one to what its user holds of its plan, and to nothing else.
LEMMA IssueHoldings ==
  ASSUME RowsInv, NEW v \in Users, NEW q \in Plans, NEW o \in Orders \cup {Nothing},
         Issue(v, q, o), NEW u \in Users, NEW P
  PROVE  Cardinality(SubsOf(u, P)') = Cardinality(SubsOf(u, P)) + One(u = v /\ q \in P)
<1>1. PICK s \in Slots, prev \in UserGroups :
        /\ sub[s].status = "none"
        /\ sub' = [sub EXCEPT ![s] =
             [user |-> v, plan |-> q, status |-> "active", start |-> now,
              end |-> now + Duration, upgrade |-> Upgrade[q], prev |-> prev, from |-> o]]
  BY IssueFacts
<1>2. /\ sub'[s].status = "active" /\ sub'[s].plan = q /\ sub'[s].user = v
      /\ \A r \in Slots \ {s} : sub'[r] = sub[r]
  BY <1>1 DEF RowsInv
<1>3. s \notin SubsOf(u, P)
  BY <1>1 DEF SubsOf, Rows
<1>4. CASE u = v /\ q \in P
  <2>1. SubsOf(u, P)' = SubsOf(u, P) \cup {s}
    BY <1>2, <1>4 DEF SubsOf, Rows
  <2> QED BY <1>3, <1>4, <2>1, HoldingsCounted, FS_AddElement DEF One
<1>5. CASE ~(u = v /\ q \in P)
  <2>1. SubsOf(u, P)' = SubsOf(u, P)
    BY <1>1, <1>2, <1>5 DEF SubsOf, Rows
  <2> QED BY <1>5, <2>1, HoldingsCounted DEF One
<1> QED BY <1>4, <1>5

\* A subscription without an order, under the limit that was checked.
LEMMA GiftWithinLimit ==
  ASSUME RowsInv, NEW v \in Users, NEW q \in Plans, Issue(v, q, Nothing), UNCHANGED order,
         ~AtUserLimit(q, Count(v, q)),
         NEW u \in Users, NEW p \in Plans, NEW P, P = Scope(p),
         Cardinality(SubsOf(u, P)') + Cardinality(PendingOf(u, P)')
           > Cardinality(SubsOf(u, P)) + Cardinality(PendingOf(u, P))
  PROVE  ~AtUserLimit(p, Count(u, p))
<1>1. PendingOf(u, P)' = PendingOf(u, P)
  BY DEF PendingOf
<1>2. Cardinality(SubsOf(u, P)') = Cardinality(SubsOf(u, P)) + One(u = v /\ q \in P)
  BY IssueHoldings
<1>3. u = v /\ q \in P
  BY <1>1, <1>2, HoldingsCounted DEF One
<1>4. Scope(q) = Scope(p)
  BY <1>3, ScopeOfMember
<1> QED BY <1>3, <1>4 DEF AtUserLimit, UserLimit, Count

\* Giving a reservation back gives nobody anything.
LEMMA ExpireOrderHoldings ==
  ASSUME RowsInv, NEW o \in Orders, ExpireOrder(o), UNCHANGED sub, NEW u \in Users, NEW P
  PROVE  SubsOf(u, P)' \subseteq SubsOf(u, P) /\ PendingOf(u, P)' \subseteq PendingOf(u, P)
<1>1. SubsOf(u, P)' = SubsOf(u, P)
  BY DEF SubsOf, Rows
<1>2. PendingOf(u, P)' \subseteq PendingOf(u, P)
  BY DEF ExpireOrder, PendingOf, RowsInv, OrderRows
<1> QED BY <1>1, <1>2

\* A step of an order: creating one counts under the lock of the user's row, and
\* completing one exchanges it for a subscription.
LEMMA OrderWithinLimit ==
  ASSUME RowsInv, NEW o \in Orders, OrderStep(o),
         NEW u \in Users, NEW p \in Plans, NEW P, P = Scope(p),
         Cardinality(SubsOf(u, P)') + Cardinality(PendingOf(u, P)')
           > Cardinality(SubsOf(u, P)) + Cardinality(PendingOf(u, P))
  PROVE  ~AtUserLimit(p, Count(u, p))
<1> DEFINE Quiet == /\ SubsOf(u, P)' \subseteq SubsOf(u, P)
                    /\ PendingOf(u, P)' \subseteq PendingOf(u, P)
<1>0. ~Quiet
  BY NothingNew, HoldingsCounted, HoldingsCountedAfter
<1>1. ASSUME NEW v \in Users, NEW q \in Plans, Quote(o, v, q)  PROVE Quiet
  BY <1>1 DEF Quote, SubsOf, Rows, PendingOf, RowsInv, books
<1>2. CASE CreateSubscriptionOrder(o)
  <2> DEFINE v == order[o].user
             q == order[o].plan
  <2>1. /\ order[o].status = "opening" /\ q \in Plans /\ v \in Users
        /\ ~AtUserLimit(q, Count(v, q))
        /\ order' = [order EXCEPT ![o].status = "pending"]
        /\ UNCHANGED sub
    BY <1>2 DEF CreateSubscriptionOrder, Orderable, RowsInv, books
  <2>2. SubsOf(u, P)' = SubsOf(u, P)
    BY <2>1 DEF SubsOf, Rows
  <2>3. u = v /\ q \in P
    <3> SUFFICES ASSUME ~(u = v /\ q \in P)  PROVE FALSE
      OBVIOUS
    <3>1. PendingOf(u, P)' \subseteq PendingOf(u, P)
      BY <2>1 DEF PendingOf, RowsInv, OrderRows
    <3> QED BY <1>0, <2>2, <3>1
  <2>4. Scope(q) = Scope(p)
    BY <2>3, ScopeOfMember
  <2> QED BY <2>1, <2>3, <2>4 DEF AtUserLimit, UserLimit, Count
<1>3. CASE CreateRefused(o)
  <2>1. Quiet
    BY <1>3 DEF CreateRefused, NoOrder, SubsOf, Rows, PendingOf, RowsInv, books
  <2> QED BY <1>0, <2>1
<1>4. CASE OpenCheckout(o)
  <2>1. Quiet
    BY <1>4 DEF OpenCheckout, SubsOf, Rows, PendingOf, RowsInv, OrderRows, books
  <2> QED BY <1>0, <2>1
<1>5. CASE CheckoutFails(o)
  BY <1>0, <1>5, ExpireOrderHoldings DEF CheckoutFails, books
<1>6. CASE CheckoutLost(o)
  <2>1. Quiet
    BY <1>6 DEF CheckoutLost, SubsOf, Rows, PendingOf, RowsInv, OrderRows, books
  <2> QED BY <1>0, <2>1
<1>7. CASE Pay(o)
  BY <1>0, <1>7 DEF Pay, SubsOf, Rows, PendingOf, books
<1>8. CASE SessionExpired(o)
  BY <1>0, <1>8, ExpireOrderHoldings DEF SessionExpired, books
<1>9. CASE ResumeSubscriptionOrder(o)
  <2>0. UNCHANGED sub
    BY <1>9 DEF ResumeSubscriptionOrder, books
  <2>1. CASE ExpireOrder(o)
    BY <1>0, <2>0, <2>1, ExpireOrderHoldings
  <2>2. CASE UNCHANGED <<plan, order>>
    BY <1>0, <2>0, <2>2 DEF SubsOf, Rows, PendingOf
  <2> QED BY <1>9, <2>1, <2>2 DEF ResumeSubscriptionOrder
<1>10. CASE CompleteSubscriptionOrder(o)
  <2> DEFINE v == order[o].user
             q == order[o].plan
  <2>1. /\ order[o].status = "pending" /\ q \in Plans /\ v \in Users
        /\ order' = [order EXCEPT ![o].status = "success"]
        /\ Issue(v, q, o)
    BY <1>10 DEF CompleteSubscriptionOrder, Completable, RowsInv
  <2>2. Cardinality(SubsOf(u, P)') = Cardinality(SubsOf(u, P)) + One(u = v /\ q \in P)
    BY <2>1, IssueHoldings
  <2>3. CASE u = v /\ q \in P
    <3>1. PendingOf(u, P)' = PendingOf(u, P) \ {o} /\ o \in PendingOf(u, P)
      BY <2>1, <2>3 DEF PendingOf, RowsInv, OrderRows
    <3>2. IsFiniteSet(PendingOf(u, P))
      BY HoldingsCounted
    <3>3. Cardinality(PendingOf(u, P) \ {o}) = Cardinality(PendingOf(u, P)) - 1
      BY <3>1, <3>2, FS_RemoveElement
    <3>4. Cardinality(PendingOf(u, P)') = Cardinality(PendingOf(u, P)) - 1
      BY <3>1, <3>3
    <3> QED BY <2>2, <2>3, <3>4, HoldingsCounted DEF One
  <2>4. CASE ~(u = v /\ q \in P)
    <3>1. PendingOf(u, P)' = PendingOf(u, P)
      BY <2>1, <2>4 DEF PendingOf, RowsInv, OrderRows
    <3> QED BY <2>2, <2>4, <3>1, HoldingsCounted DEF One
  <2> QED BY <2>3, <2>4
<1>11. CASE CompleteAgain(o)
  BY <1>0, <1>11 DEF CompleteAgain, SubsOf, Rows, PendingOf
<1> QED BY <1>0, <1>1, <1>2, <1>3, <1>4, <1>5, <1>6, <1>7, <1>8, <1>9, <1>10, <1>11 DEF OrderStep

\* A step of an administrator: binding and airdrop count under that lock too,
\* when the count is of the rows committed by then.
LEMMA AdminWithinLimit ==
  ASSUME ~SnapshotReads, RowsInv, AdminStep,
         NEW u \in Users, NEW p \in Plans, NEW P, P = Scope(p),
         Cardinality(SubsOf(u, P)') + Cardinality(PendingOf(u, P)')
           > Cardinality(SubsOf(u, P)) + Cardinality(PendingOf(u, P))
  PROVE  ~AtUserLimit(p, Count(u, p))
<1> DEFINE Quiet == /\ SubsOf(u, P)' \subseteq SubsOf(u, P)
                    /\ PendingOf(u, P)' \subseteq PendingOf(u, P)
<1>0. ~Quiet
  BY NothingNew, HoldingsCounted, HoldingsCountedAfter
<1>1. ASSUME NEW v \in Users, NEW q \in Plans, AdminBindSubscription(v, q)
      PROVE  ~AtUserLimit(p, Count(u, p))
  BY <1>1, GiftWithinLimit DEF AdminBindSubscription
<1>2. ASSUME NEW v \in Users, GrantAirdropSubscription(v)
      PROVE  ~AtUserLimit(p, Count(u, p))
  <2>1. ~AtUserLimit(AirdropPlan, Count(v, AirdropPlan))
    BY <1>2 DEF GrantAirdropSubscription, Grantable, AirdropCount
  <2> QED BY <1>2, <2>1, GiftWithinLimit, SubOrderAssumption DEF GrantAirdropSubscription
<1>3. ASSUME NEW s \in Slots, AdminInvalidateUserSubscription(s)  PROVE Quiet
  BY <1>3 DEF AdminInvalidateUserSubscription, SubsOf, Rows, PendingOf, RowsInv, SubRows
<1>4. ASSUME NEW s \in Slots, AdminDeleteUserSubscription(s)  PROVE Quiet
  BY <1>4 DEF AdminDeleteUserSubscription, SubsOf, Rows, PendingOf, RowsInv, SubRows
<1>5. CASE UNCHANGED <<sub, order>>
  BY <1>0, <1>5 DEF SubsOf, Rows, PendingOf
<1> QED BY <1>0, <1>1, <1>2, <1>3, <1>4, <1>5
        DEF AdminStep, AirdropBegin, AirdropRefused, EditBegin, AdminUpdateSubscriptionPlan,
            EditRefused, AdminUpdateSubscriptionPlanStatus, books

\* The other steps give nobody anything.
LEMMA RestWithinLimit ==
  ASSUME RowsInv, SweepStep \/ SweepFails \/ Tick \/ UNCHANGED vars, NEW u \in Users, NEW P
  PROVE  SubsOf(u, P)' \subseteq SubsOf(u, P) /\ PendingOf(u, P)' \subseteq PendingOf(u, P)
<1>1. ASSUME NEW o \in Orders, ExpireSubscriptionOrder(o)
      PROVE  SubsOf(u, P)' \subseteq SubsOf(u, P) /\ PendingOf(u, P)' \subseteq PendingOf(u, P)
  BY <1>1, ExpireOrderHoldings DEF ExpireSubscriptionOrder, books
<1>2. ASSUME NEW v \in Users, ExpireUser(v)
      PROVE  SubsOf(u, P)' \subseteq SubsOf(u, P) /\ PendingOf(u, P)' \subseteq PendingOf(u, P)
  <2>1. \A s \in Slots : /\ sub'[s].user = sub[s].user /\ sub'[s].plan = sub[s].plan
                         /\ sub'[s].status \notin {"none", "deleted"} =>
                              sub[s].status \notin {"none", "deleted"}
    BY <1>2 DEF ExpireUser, Ended, RowsInv, SubRows
  <2> QED BY <1>2, <2>1 DEF ExpireUser, SubsOf, Rows, PendingOf
<1>3. CASE UNCHANGED <<sub, order>>
  BY <1>3 DEF SubsOf, Rows, PendingOf
<1> QED BY <1>1, <1>2, <1>3 DEF SweepStep, ExpireReservedSubscriptionOrders,
          ExpireDueSubscriptions, ReturnUser, SweepDone, SweepFails, Tick, vars, books

\* PurchaseWithinUserLimit for any number of users, plans and orders: where plain
\* reads see committed rows, no step takes a user's subscriptions and pending
\* orders in a purchase group beyond the group's limit per user.
THEOREM PurchasesWithinUserLimit ==
  ASSUME ~SnapshotReads
  PROVE  Spec => PurchaseWithinUserLimit
<1> DEFINE Step == \A u \in Users, p \in Plans :
       (\A q \in Plans : plan'[q].group = plan[q].group) /\ Count(u, p)' > Count(u, p)
         => ~AtUserLimit(p, Count(u, p))
<1>1. RowsInv /\ [Next]_vars => Step
  <2> SUFFICES ASSUME RowsInv, [Next]_vars, NEW u \in Users, NEW p \in Plans,
                      \A q \in Plans : plan'[q].group = plan[q].group,
                      Count(u, p)' > Count(u, p)
               PROVE  ~AtUserLimit(p, Count(u, p))
    OBVIOUS
  <2>1. \E P \in SUBSET Plans : P = Scope(p)
    BY DEF Scope
  <2>2. PICK P \in SUBSET Plans : P = Scope(p)
    BY <2>1
  <2>3. Scope(p)' = P
    BY <2>2 DEF Scope
  <2>4. /\ Count(u, p) = Cardinality(SubsOf(u, P)) + Cardinality(PendingOf(u, P))
        /\ Count(u, p)' = Cardinality(SubsOf(u, P)') + Cardinality(PendingOf(u, P)')
    BY <2>2, <2>3 DEF Count, SubsOf, PendingOf
  <2>5. ASSUME SweepStep \/ SweepFails \/ Tick \/ UNCHANGED vars  PROVE FALSE
    BY <2>4, <2>5, RestWithinLimit, NothingNew, HoldingsCounted, HoldingsCountedAfter
  <2> QED BY <2>2, <2>4, <2>5, OrderWithinLimit, AdminWithinLimit DEF Next
<1>2. RowsInv /\ [Next]_vars => [Step]_vars
  BY <1>1
<1> QED BY <1>2, RowsInvariant, PTL DEF Spec, PurchaseWithinUserLimit

(***************************************************************************)
(* Stock within the limits of purchase groups.                             *)
(***************************************************************************)
\* NeverOversold without the minimum: every limit of a scope is kept.
ScopesWithin ==
  \A p \in Plans : \A q \in Scope(p) :
    plan[q].limit > 0 => Allocated(Scope(p)) <= plan[q].limit

\* The strictest positive limit (minPositive) is one of them, and none is smaller.
LEMMA MinPositiveIs ==
  ASSUME NEW S, IsFiniteSet(S), S \subseteq Nat
  PROVE  /\ minPositive(S) \in Nat
         /\ minPositive(S) > 0 => minPositive(S) \in S
         /\ \A x \in S : x > 0 => minPositive(S) > 0 /\ minPositive(S) <= x
<1> DEFINE P == S \ {0}
<1>1. IsFiniteSet(P) /\ P \subseteq Int
  BY FS_Subset
<1>2. CASE P = {}
  BY <1>2 DEF minPositive
<1>3. CASE P # {}
  <2>1. Min(P) \in P /\ \A y \in P : Min(P) <= y
    BY <1>1, <1>3, MinOfFinite
  <2>2. minPositive(S) = Min(P)
    BY <1>3 DEF minPositive
  <2>3. /\ \A y \in P : y \in Nat /\ y > 0 /\ y \in S
        /\ \A x \in S : x > 0 => x \in P
    OBVIOUS
  <2> HIDE DEF P
  <2> QED BY <2>1, <2>2, <2>3
<1> QED BY <1>2, <1>3

\* The limits of some plans are such a set.
LEMMA LimitsOf ==
  ASSUME RowsInv, NEW P \in SUBSET Plans
  PROVE  /\ IsFiniteSet({plan[q].limit : q \in P})
         /\ {plan[q].limit : q \in P} \subseteq Nat
<1> DEFINE L == {plan[q].limit : q \in P}
           f == [q \in P |-> plan[q].limit]
<1>1. IsFiniteSet(P)
  BY SubOrderAssumption, FS_Subset
<1>2. f \in Surjection(P, L)
  BY DEF Surjection
<1>3. L \subseteq Nat
  <2>1. \A q \in Plans : plan[q].limit \in Limits
    BY DEF RowsInv, PlanRows
  <2> QED BY <2>1, SubOrderAssumption
<1> HIDE DEF f, L
<1>4. IsFiniteSet(L)
  BY <1>1, <1>2, FS_Surjection
<1> QED BY <1>3, <1>4 DEF L

\* Stock is a number, also after a step, and so is what a set of plans has allocated.
LEMMA StockTypes ==
  ASSUME RowsInv, RowsInv', NEW P \in SUBSET Plans
  PROVE  /\ IsFiniteSet(P)
         /\ \A q \in Plans : Stock(q) \in Nat /\ Stock(q)' \in Nat
         /\ Allocated(P) \in Nat /\ Allocated(P)' \in Nat
<1>1. IsFiniteSet(P)
  BY SubOrderAssumption, FS_Subset
<1>2. \A q \in Plans : Stock(q) \in Nat /\ Stock(q)' \in Nat
  BY DEF RowsInv, PlanRows, Stock
<1> DEFINE f == [q \in Plans |-> Stock(q)]
           g == [q \in Plans |-> Stock(q)']
<1>3. \A q \in P : f[q] \in Nat /\ g[q] \in Nat
  BY <1>2
<1>4. Allocated(P) = SumFunctionOnSet(f, P) /\ Allocated(P)' = SumFunctionOnSet(g, P)
  BY DEF Allocated
<1> HIDE DEF f, g
<1>5. SumFunctionOnSet(f, P) \in Nat /\ SumFunctionOnSet(g, P) \in Nat
  BY <1>1, <1>3, SumNat
<1> QED BY <1>1, <1>2, <1>4, <1>5

\* Where no plan's stock grows, nothing allocated does.
LEMMA AllocatedShrinks ==
  ASSUME RowsInv, RowsInv', NEW P \in SUBSET Plans, \A q \in P : Stock(q)' <= Stock(q)
  PROVE  Allocated(P)' <= Allocated(P)
<1> DEFINE f == [q \in Plans |-> Stock(q)]
           g == [q \in Plans |-> Stock(q)']
<1>1. IsFiniteSet(P) /\ \A q \in Plans : Stock(q) \in Nat /\ Stock(q)' \in Nat
  BY StockTypes
<1>2. \A q \in P : g[q] \in Int /\ f[q] \in Int /\ g[q] <= f[q]
  BY <1>1
<1>3. Allocated(P) = SumFunctionOnSet(f, P) /\ Allocated(P)' = SumFunctionOnSet(g, P)
  BY DEF Allocated
<1> HIDE DEF f, g
<1>4. SumFunctionOnSet(g, P) <= SumFunctionOnSet(f, P)
  BY <1>1, <1>2, SumMonotone
<1> QED BY <1>3, <1>4

\* One plan's stock grows by one: so does what its scope has allocated.
LEMMA AllocatedGrows ==
  ASSUME RowsInv, RowsInv', NEW P \in SUBSET Plans, NEW p \in P,
         \A q \in P \ {p} : Stock(q)' <= Stock(q), Stock(p)' = Stock(p) + 1
  PROVE  Allocated(P)' <= Allocated(P) + 1
<1> DEFINE f == [q \in Plans |-> Stock(q)]
           g == [q \in Plans |-> Stock(q)']
           R == P \ {p}
<1>1. IsFiniteSet(P) /\ \A q \in Plans : Stock(q) \in Nat /\ Stock(q)' \in Nat
  BY StockTypes
<1>2. (\A q \in P : f[q] \in Int) /\ (\A q \in P : g[q] \in Int)
  BY <1>1
<1>3. Allocated(P) = SumFunctionOnSet(f, P) /\ Allocated(P)' = SumFunctionOnSet(g, P)
  BY DEF Allocated
<1>4. g[p] = f[p] + 1 /\ \A q \in R : g[q] <= f[q]
  BY <1>1
<1> HIDE DEF f, g
<1>5. /\ SumFunctionOnSet(f, P) = f[p] + SumFunctionOnSet(f, R)
      /\ SumFunctionOnSet(f, R) \in Int
  BY <1>1, <1>2, SumRemove
<1>5a. /\ SumFunctionOnSet(g, P) = g[p] + SumFunctionOnSet(g, R)
       /\ SumFunctionOnSet(g, R) \in Int
  BY <1>1, <1>2, SumRemove
<1>6. SumFunctionOnSet(g, R) <= SumFunctionOnSet(f, R)
  <2>1. IsFiniteSet(R) /\ \A q \in R : g[q] \in Int /\ f[q] \in Int /\ g[q] <= f[q]
    BY <1>1, <1>2, <1>4, FS_Subset
  <2> QED BY <2>1, SumMonotone
<1> HIDE DEF R
<1>7. f[p] \in Int /\ g[p] \in Int
  BY <1>2
<1> QED BY <1>3, <1>4, <1>5, <1>5a, <1>6, <1>7

\* Steps that leave groups and limits alone and take no stock.
LEMMA QuietStock ==
  ASSUME RowsInv, RowsInv', ScopesWithin,
         \A q \in Plans : /\ plan'[q].group = plan[q].group /\ plan'[q].limit = plan[q].limit
                          /\ Stock(q)' <= Stock(q)
  PROVE  ScopesWithin'
<1> SUFFICES ASSUME NEW p \in Plans, NEW q \in Scope(p)', plan'[q].limit > 0
             PROVE  Allocated(Scope(p))' <= plan'[q].limit
  BY DEF ScopesWithin
<1>1. PICK P \in SUBSET Plans : P = Scope(p)
  BY DEF Scope
<1>2. Scope(p)' = P
  BY <1>1 DEF Scope
<1>3. Allocated(P) <= plan[q].limit /\ plan'[q].limit = plan[q].limit
  BY <1>1, <1>2 DEF ScopesWithin
<1>4. Allocated(P)' <= Allocated(P)
  BY AllocatedShrinks
<1>5. Allocated(P) \in Nat /\ Allocated(P)' \in Nat /\ plan[q].limit \in Nat
  BY <1>1, <1>2, StockTypes, SubOrderAssumption DEF RowsInv, PlanRows
<1>6. Allocated(Scope(p))' = Allocated(P)'
  BY <1>2 DEF Allocated
<1> QED BY <1>3, <1>4, <1>5, <1>6

\* A unit is taken of a plan whose group is not sold out
\* (incrementSubscriptionPurchaseScopeStockTx).
LEMMA TakeStock ==
  ASSUME RowsInv, RowsInv', ScopesWithin, NEW t \in Plans, ~SoldOut(t),
         Stock(t)' = Stock(t) + 1,
         \A q \in Plans : /\ plan'[q].group = plan[q].group /\ plan'[q].limit = plan[q].limit
                          /\ q # t => Stock(q)' <= Stock(q)
  PROVE  ScopesWithin'
<1> SUFFICES ASSUME NEW p \in Plans, NEW q \in Scope(p)', plan'[q].limit > 0
             PROVE  Allocated(Scope(p))' <= plan'[q].limit
  BY DEF ScopesWithin
<1>1. PICK P \in SUBSET Plans : P = Scope(p)
  BY DEF Scope
<1>2. Scope(p)' = P
  BY <1>1 DEF Scope
<1>3. Allocated(P) <= plan[q].limit /\ plan'[q].limit = plan[q].limit
  BY <1>1, <1>2 DEF ScopesWithin
<1>4. Allocated(P) \in Nat /\ Allocated(P)' \in Nat /\ plan[q].limit \in Nat
  BY <1>1, <1>2, StockTypes, SubOrderAssumption DEF RowsInv, PlanRows
<1>5. Allocated(Scope(p))' = Allocated(P)'
  BY <1>2 DEF Allocated
<1>6. CASE t \notin P
  <2>1. Allocated(P)' <= Allocated(P)
    BY <1>6, AllocatedShrinks
  <2> QED BY <2>1, <1>3, <1>4, <1>5
<1>7. CASE t \in P
  <2>1. Scope(t) = P
    BY <1>1, <1>7, ScopeOfMember
  <2> DEFINE m == minPositive({plan[x].limit : x \in P})
  <2>2. m \in Nat /\ m > 0 /\ m <= plan[q].limit
    <3>1. plan[q].limit \in {plan[x].limit : x \in P} /\ plan[q].limit > 0
      BY <1>2, <1>3
    <3> QED BY <3>1, LimitsOf, MinPositiveIs
  <2>3. ~(Allocated(P) >= m)
    BY <2>1, <2>2 DEF SoldOut
  <2>4. Allocated(P)' <= Allocated(P) + 1
    BY <1>7, AllocatedGrows
  <2> HIDE DEF m
  <2> QED BY <2>2, <2>3, <2>4, <1>3, <1>4, <1>5
<1> QED BY <1>6, <1>7

\* A plan that an administrator edits fits into the group it moves to, and the
\* group it leaves gets lighter (ValidateSubscriptionPlanPurchaseLimitsTx).
LEMMA EditStock ==
  ASSUME RowsInv, RowsInv', ScopesWithin, AdminUpdateSubscriptionPlan
  PROVE  ScopesWithin'
<1> SUFFICES ASSUME NEW p \in Plans, NEW q \in Scope(p)', plan'[q].limit > 0
             PROVE  Allocated(Scope(p))' <= plan'[q].limit
  BY DEF ScopesWithin
<1>0. edit.plan \in Plans /\ edit \in EditRows
  BY DEF AdminUpdateSubscriptionPlan, RowsInv, EditRows
<1>1. PICK t \in Plans : t = edit.plan
  BY <1>0
<1> DEFINE members == IF edit.group = Nothing THEN {}
                      ELSE {x \in Plans \ {t} : plan[x].group = edit.group}
<1>2. /\ plan'[t].group = edit.group /\ plan'[t].limit = edit.limit /\ Stock(t)' = Stock(t)
      /\ \A x \in Plans \ {t} : /\ plan'[x] = plan[x] /\ Stock(x)' = Stock(x)
  BY <1>0, <1>1 DEF AdminUpdateSubscriptionPlan, RowsInv, PlanRows, EditRows, Stock
<1>3. q \in Plans /\ plan'[q].limit \in Nat
  BY SubOrderAssumption DEF Scope, RowsInv, PlanRows
<1>4. PICK P \in SUBSET Plans : P = Scope(p)'
  BY DEF Scope
<1>5. Allocated(Scope(p))' = Allocated(P)'
  BY <1>4 DEF Allocated
<1>6. Allocated(P) \in Nat /\ Allocated(P)' \in Nat /\ Allocated(P)' <= Allocated(P)
  <2>1. \A x \in P : Stock(x)' = Stock(x) /\ Stock(x) \in Nat
    BY <1>2, StockTypes
  <2>2. \A x \in P : Stock(x)' <= Stock(x)
    BY <2>1
  <2> QED BY <2>2, StockTypes, AllocatedShrinks
<1>7. CASE t \in P
  <2>1. P = members \cup {t} /\ t \notin members
    BY <1>1, <1>2, <1>4, <1>7 DEF Scope
  <2> DEFINE L == {edit.limit} \cup {plan[x].limit : x \in members}
             m == minPositive(L)
  <2>2. Fits(edit)
    BY DEF AdminUpdateSubscriptionPlan, Editable
  <2>3. m = 0 \/ Stock(t) + Allocated(members) <= m
    BY <1>1, <2>2 DEF Fits
  <2>4. plan'[q].limit \in L
    BY <1>2, <1>4, <2>1
  <2>5. IsFiniteSet(L) /\ L \subseteq Nat
    <3>1. members \in SUBSET Plans
      OBVIOUS
    <3> HIDE DEF members
    <3>2. /\ IsFiniteSet({plan[x].limit : x \in members})
          /\ {plan[x].limit : x \in members} \subseteq Nat
      BY <3>1, LimitsOf
    <3>3. edit.limit \in Nat
      BY <1>0, SubOrderAssumption DEF EditRows
    <3> QED BY <3>2, <3>3, FS_Union, FS_Singleton
  <2>6. m \in Nat /\ m > 0 /\ m <= plan'[q].limit
    <3> HIDE DEF L
    <3> QED BY <2>4, <2>5, MinPositiveIs
  <2>7. Allocated(P) = Stock(t) + Allocated(members)
    <3>1. members \in SUBSET Plans
      OBVIOUS
    <3> DEFINE f == [x \in Plans |-> Stock(x)]
    <3>2. IsFiniteSet(members) /\ f[t] = Stock(t) /\ \A x \in members \cup {t} : f[x] \in Int
      BY <1>1, StockTypes, <3>1
    <3>3. /\ Allocated(P) = SumFunctionOnSet(f, members \cup {t})
          /\ Allocated(members) = SumFunctionOnSet(f, members)
      BY <2>1 DEF Allocated
    <3> HIDE DEF f, members
    <3>4. /\ SumFunctionOnSet(f, members \cup {t}) = SumFunctionOnSet(f, members) + f[t]
          /\ SumFunctionOnSet(f, members) \in Int
      BY <2>1, <3>2, SumAdd
    <3>5. f[t] \in Int
      BY <3>2
    <3> QED BY <3>2, <3>3, <3>4, <3>5
  <2> HIDE DEF L, m, members
  <2> QED BY <1>3, <1>5, <1>6, <2>3, <2>6, <2>7
<1>8. CASE t \notin P
  <2>1. P \subseteq Scope(p) /\ plan'[q].limit = plan[q].limit
    BY <1>1, <1>2, <1>3, <1>4, <1>8 DEF Scope
  <2>2. PICK R \in SUBSET Plans : R = Scope(p)
    BY DEF Scope
  <2>3. Allocated(R) <= plan[q].limit
    BY <1>4, <2>1, <2>2 DEF ScopesWithin
  <2>4. Allocated(P) <= Allocated(R)
    <3> DEFINE f == [x \in Plans |-> Stock(x)]
    <3>1. IsFiniteSet(R) /\ P \in SUBSET R /\ \A x \in R : f[x] \in Nat
      BY <2>1, <2>2, StockTypes
    <3>2. Allocated(P) = SumFunctionOnSet(f, P) /\ Allocated(R) = SumFunctionOnSet(f, R)
      BY DEF Allocated
    <3> HIDE DEF f
    <3> QED BY <3>1, <3>2, SumPart
  <2>5. Allocated(R) \in Nat
    BY StockTypes
  <2> QED BY <1>3, <1>5, <1>6, <2>1, <2>3, <2>4, <2>5
<1> QED BY <1>7, <1>8

\* Giving a reservation back takes no stock.
LEMMA ExpireOrderStock ==
  ASSUME RowsInv, RowsInv', ScopesWithin, NEW o \in Orders, ExpireOrder(o)
  PROVE  ScopesWithin'
<1> SUFFICES ASSUME NEW q \in Plans
             PROVE  /\ plan'[q].group = plan[q].group /\ plan'[q].limit = plan[q].limit
                    /\ Stock(q)' <= Stock(q)
  BY QuietStock
<1>1. CASE order[o].status = "pending"
  <2>1. PICK p \in Plans : p = order[o].plan
    BY <1>1 DEF RowsInv
  <2>2. plan' = [plan EXCEPT ![p].reserved = @ - 1]
    BY <1>1, <2>1 DEF ExpireOrder
  <2> QED BY <2>2 DEF RowsInv, PlanRows, Stock
<1>2. CASE order[o].status # "pending"
  <2>1. plan' = plan
    BY <1>2 DEF ExpireOrder
  <2>2. Stock(q)' = Stock(q) /\ Stock(q) \in Nat
    BY <2>1, StockTypes DEF Stock
  <2> QED BY <2>1, <2>2
<1> QED BY <1>1, <1>2

\* A subscription is issued of a plan that is not sold out.
LEMMA GiftStock ==
  ASSUME RowsInv, RowsInv', ScopesWithin, NEW p \in Plans, ~SoldOut(p), IssueStock(p)
  PROVE  ScopesWithin'
<1>1. /\ Stock(p)' = Stock(p) + 1
      /\ \A q \in Plans : /\ plan'[q].group = plan[q].group /\ plan'[q].limit = plan[q].limit
                          /\ q # p => Stock(q)' <= Stock(q)
  BY DEF IssueStock, RowsInv, PlanRows, Stock
<1> QED BY <1>1, TakeStock

\* NeverOversold for any number of plans, orders and administrators' acts, on
\* either database: whatever is issued and reserved in a purchase group stays
\* within the strictest limit of the group's plans.
THEOREM NothingOversold == Spec => []NeverOversold
<1>1. Init => ScopesWithin
  <2> SUFFICES ASSUME Init, NEW p \in Plans, NEW q \in Scope(p), plan[q].limit > 0
               PROVE  Allocated(Scope(p)) <= plan[q].limit
    BY DEF ScopesWithin
  <2> DEFINE f == [x \in Plans |-> Stock(x)]
             P == Scope(p)
  <2>1. \A x \in P : f[x] \in {0}
    BY DEF Init, Stock, Scope
  <2>2. IsFiniteSet(P)
    BY SubOrderAssumption, FS_Subset DEF Scope
  <2>3. Allocated(P) = SumFunctionOnSet(f, P)
    BY DEF Allocated
  <2>4. plan[q].limit \in Nat
    BY SubOrderAssumption DEF Init, Scope, Settings
  <2> HIDE DEF f, P
  <2>5. SumFunctionOnSet(f, P) \in {0}
    <3>1. 0 \in {0} /\ \A a, b \in {0} : a + b \in {0}
      OBVIOUS
    <3> QED BY <2>1, <2>2, <3>1, SumType
  <2> QED BY <2>3, <2>4, <2>5 DEF P
<1>2. RowsInv /\ RowsInv' /\ ScopesWithin /\ [Next]_vars => ScopesWithin'
  <2> SUFFICES ASSUME RowsInv, RowsInv', ScopesWithin, [Next]_vars  PROVE ScopesWithin'
    OBVIOUS
  <2>1. CASE UNCHANGED plan
    <3>1. \A q \in Plans : Stock(q)' <= Stock(q)
      BY <2>1, StockTypes DEF Stock
    <3> QED BY <2>1, <3>1, QuietStock
  <2>2. ASSUME NEW o \in Orders, OrderStep(o)  PROVE ScopesWithin'
    <3>1. CASE CreateSubscriptionOrder(o)
      <4>0. PICK p \in Plans : p = order[o].plan
        BY <3>1 DEF CreateSubscriptionOrder, RowsInv
      <4>1. ~SoldOut(p) /\ plan' = [plan EXCEPT ![p].reserved = @ + 1]
        BY <3>1, <4>0 DEF CreateSubscriptionOrder, Orderable
      <4>2. /\ Stock(p)' = Stock(p) + 1
            /\ \A q \in Plans : /\ plan'[q].group = plan[q].group
                                /\ plan'[q].limit = plan[q].limit
                                /\ q # p => Stock(q)' <= Stock(q)
        <5>1. plan[p].issued \in Nat /\ plan[p].reserved \in Nat
          BY DEF RowsInv, PlanRows
        <5>2. Stock(p)' = Stock(p) + 1
          BY <4>1, <5>1 DEF RowsInv, Stock
        <5>3. \A q \in Plans : /\ plan'[q].group = plan[q].group
                               /\ plan'[q].limit = plan[q].limit
                               /\ q # p => plan'[q] = plan[q]
          BY <4>1 DEF RowsInv, PlanRows
        <5>4. \A q \in Plans : q # p => Stock(q)' <= Stock(q)
          BY <5>3, StockTypes DEF Stock
        <5> QED BY <5>2, <5>3, <5>4
      <4> QED BY <4>1, <4>2, TakeStock
    <3>2. CASE CompleteSubscriptionOrder(o)
      <4>1. PICK p \in Plans : p = order[o].plan
        BY <3>2 DEF CompleteSubscriptionOrder, Completable, RowsInv
      <4>2. plan' = [plan EXCEPT ![p].reserved = @ - 1, ![p].issued = @ + 1]
        BY <3>2, <4>1 DEF CompleteSubscriptionOrder
      <4>3. ASSUME NEW q \in Plans
            PROVE  /\ plan'[q].group = plan[q].group /\ plan'[q].limit = plan[q].limit
                   /\ Stock(q)' <= Stock(q)
        <5>1. plan[q].issued \in Nat /\ plan[q].reserved \in Nat
          BY DEF RowsInv, PlanRows
        <5>2. /\ plan'[q].group = plan[q].group /\ plan'[q].limit = plan[q].limit
              /\ \/ plan'[q] = plan[q]
                 \/ /\ plan'[q].issued = plan[q].issued + 1
                    /\ plan'[q].reserved = plan[q].reserved - 1
          BY <4>2 DEF RowsInv, PlanRows
        <5> QED BY <5>1, <5>2 DEF Stock
      <4> QED BY <4>3, QuietStock
    <3>3. CASE ExpireOrder(o)
      BY <3>3, ExpireOrderStock
    <3> QED BY <2>1, <2>2, <3>1, <3>2, <3>3
            DEF OrderStep, Quote, CreateRefused, OpenCheckout, CheckoutFails, CheckoutLost, Pay,
                SessionExpired, ResumeSubscriptionOrder, CompleteAgain
  <2>3. CASE AdminStep
    <3>1. ASSUME NEW u \in Users, NEW p \in Plans, AdminBindSubscription(u, p)
          PROVE  ScopesWithin'
      BY <3>1, GiftStock DEF AdminBindSubscription
    <3>2. ASSUME NEW u \in Users, GrantAirdropSubscription(u)  PROVE ScopesWithin'
      BY <3>2, GiftStock, SubOrderAssumption DEF GrantAirdropSubscription, Grantable
    <3>3. CASE AdminUpdateSubscriptionPlan
      BY <3>3, EditStock
    <3>4. ASSUME NEW p \in Plans, AdminUpdateSubscriptionPlanStatus(p)  PROVE ScopesWithin'
      <4>1. \A q \in Plans : /\ plan'[q].group = plan[q].group
                             /\ plan'[q].limit = plan[q].limit
                             /\ Stock(q)' <= Stock(q)
        BY <3>4 DEF AdminUpdateSubscriptionPlanStatus, RowsInv, PlanRows, Stock
      <4> QED BY <4>1, QuietStock
    <3> QED BY <2>1, <2>3, <3>1, <3>2, <3>3, <3>4
            DEF AdminStep, AirdropBegin, AirdropRefused, AdminInvalidateUserSubscription,
                AdminDeleteUserSubscription, EditBegin, EditRefused
  <2>4. CASE SweepStep
    BY <2>1, <2>4, ExpireOrderStock DEF SweepStep, ExpireReservedSubscriptionOrders,
      ExpireSubscriptionOrder, ExpireDueSubscriptions, ExpireUser, ReturnUser, SweepDone
  <2> QED BY <2>1, <2>2, <2>3, <2>4 DEF Next, SweepFails, Tick, vars
<1>3. RowsInv /\ ScopesWithin => NeverOversold
  <2> SUFFICES ASSUME RowsInv, ScopesWithin, NEW p \in Plans,
                      minPositive({plan[q].limit : q \in Scope(p)}) > 0
               PROVE  Allocated(Scope(p)) <= minPositive({plan[q].limit : q \in Scope(p)})
    BY DEF NeverOversold
  <2>1. Scope(p) \in SUBSET Plans
    BY DEF Scope
  <2>2. PICK q \in Scope(p) : plan[q].limit = minPositive({plan[x].limit : x \in Scope(p)})
    BY <2>1, LimitsOf, MinPositiveIs
  <2> QED BY <2>2 DEF ScopesWithin
<1> QED BY <1>1, <1>2, <1>3, RowsInvariant, PTL DEF Spec
=============================================================================
