---------------------- MODULE SubscriptionQuotaProofs ----------------------
(***************************************************************************)
(* Proofs about SubscriptionQuota, for any number of subscriptions and     *)
(* requests and any policies.                                              *)
(*                                                                         *)
(* AggregateIsUsage follows from where periods begin: the period of a row  *)
(* begins at the start of the subscription or at one of its boundaries,    *)
(* its next reset is the first boundary after that (RowInv), and no        *)
(* request was admitted after a boundary that the row has not passed       *)
(* (NoneLater).  A reset then forgets requests of earlier periods only.    *)
(*                                                                         *)
(* PeriodWithinLimit and WindowWithinLimit count records that were cleaned *)
(* up, which the code's queries no longer find.  They hold when a record   *)
(* outlives every request that can still grow in its period or window.     *)
(***************************************************************************)
EXTENDS SubscriptionQuota, ArithmeticTheorems

Rows == [used : Nat, last : 0 .. MaxTime, next : Nat, end : Nat,
         status : {"active", "expired", "cancelled", "gone"}]

Records == [state : {"none", "consumed", "refunded"}, sub : Subs \cup {0},
            amount : 0 .. MaxAmount, created : 0 .. MaxTime, updated : 0 .. MaxTime,
            deleted : BOOLEAN]

(***************************************************************************)
(* The boundaries of periods.                                              *)
(***************************************************************************)
\* Subscription x has periods.
Resets(x) == policyTracksAggregate(x) /\ policy(x).period # 0

\* b ends a period of x that began at base, or a later one.
Bound(x, base, b) ==
  /\ base < b
  /\ IF policy(x).aligned THEN b % policy(x).period = 0
                          ELSE (b - base) % policy(x).period = 0

\* Where the period of row s began.
Base(s) == IF s.last > 0 THEN s.last ELSE Start

\* n is the first boundary after now, or 0 where the subscription, which ends at e,
\* has none before its end.
FirstAfter(x, base, e, now, n) ==
  /\ n \in Nat
  /\ n > 0 => /\ Bound(x, base, n) /\ now < n /\ n <= e
              /\ \A b \in Nat : Bound(x, base, b) /\ now < b => n <= b

LEMMA PolicyTypes ==
  ASSUME NEW x \in Subs
  PROVE  /\ policy(x) \in Policies /\ policy(x).period \in Nat
         /\ policy(x).limit \in Nat /\ policyWeeklyLimit(x) \in Nat /\ End[x] \in Nat
<1>1. Snapshot[x] \in Policies /\ End[x] \in Nat
  BY SubscriptionAssumption
<1>2. QED
  BY <1>1 DEF policy, Policies, policyWeeklyLimit

\* The boundaries after a boundary are the same, counted from there.
LEMMA BoundChain ==
  ASSUME NEW x \in Subs, Resets(x), NEW a \in Nat, NEW c \in Nat, NEW b \in Nat,
         Bound(x, a, c), c < b
  PROVE  Bound(x, a, b) <=> Bound(x, c, b)
<1> DEFINE p == policy(x).period
<1>1. p \in Nat \ {0}
  BY PolicyTypes DEF Resets
<1>2. CASE policy(x).aligned
  BY <1>2 DEF Bound
<1>3. CASE ~policy(x).aligned
  <2>1. (c - a) % p = 0
    BY <1>3 DEF Bound
  <2> HIDE DEF p
  <2>2. (b - c) % p = 0 <=> ((c - a) + (b - c)) % p = 0
    BY <1>1, <2>1, MultipleSum, c - a \in Int, b - c \in Int
  <2>3. (c - a) + (b - c) = b - a
    OBVIOUS
  <2>4. QED
    BY <1>3, <2>2, <2>3 DEF Bound, p
<1>4. QED
  BY <1>2, <1>3

\* A period is no longer than the policy says.
LEMMA BoundNear ==
  ASSUME NEW x \in Subs, Resets(x), NEW a \in Nat, NEW c \in Nat, a <= c
  PROVE  \E b \in Nat : Bound(x, a, b) /\ c < b /\ b <= c + policy(x).period
<1> DEFINE p == policy(x).period
<1>1. p \in Nat \ {0}
  BY PolicyTypes DEF Resets
<1>2. CASE policy(x).aligned
  <2> HIDE DEF p
  <2>1. PICK m \in Int : c < m /\ m <= c + p /\ m % p = 0
    BY <1>1, NextMultiple, c \in Int
  <2>2. m \in Nat
    BY <2>1
  <2>3. QED
    BY <1>1, <1>2, <2>1, <2>2 DEF Bound, p
<1>3. CASE ~policy(x).aligned
  <2> HIDE DEF p
  <2>1. PICK m \in Int : c - a < m /\ m <= (c - a) + p /\ m % p = 0
    BY <1>1, NextMultiple, c - a \in Int
  <2>2. a + m \in Nat /\ c < a + m /\ a + m <= c + p /\ (a + m) - a = m
    BY <1>1, <2>1
  <2>3. QED
    BY <1>1, <1>3, <2>1, <2>2 DEF Bound, p
<1>4. QED
  BY <1>2, <1>3

LEMMA BoundariesAre ==
  ASSUME NEW x \in Subs, Resets(x), NEW a \in Nat, NEW e \in Nat
  PROVE  /\ Boundaries(x, a, e) \subseteq Nat /\ IsFiniteSet(Boundaries(x, a, e))
         /\ \A b \in Nat : b \in Boundaries(x, a, e) <=> Bound(x, a, b) /\ b <= e
<1>1. Boundaries(x, a, e) \subseteq a + 1 .. e
  BY DEF Boundaries, Resets
<1>2. IsFiniteSet(a + 1 .. e)
  BY FS_Interval
<1>3. IsFiniteSet(Boundaries(x, a, e))
  BY <1>1, <1>2, FS_Subset
<1>4. ASSUME NEW b \in Nat
      PROVE  b \in Boundaries(x, a, e) <=> Bound(x, a, b) /\ b <= e
  BY DEF Boundaries, Resets, Bound
<1>5. QED
  BY <1>1, <1>3, <1>4

LEMMA FirstOrZeroIs ==
  ASSUME NEW S, IsFiniteSet(S), S \subseteq Nat
  PROVE  /\ FirstOrZero(S) \in Nat
         /\ FirstOrZero(S) > 0 => FirstOrZero(S) \in S /\ \A b \in S : FirstOrZero(S) <= b
<1>1. CASE S = {}
  BY <1>1 DEF FirstOrZero
<1>2. CASE S # {}
  <2>1. S \subseteq Int
    OBVIOUS
  <2>2. Min(S) \in S /\ \A b \in S : Min(S) <= b
    BY <1>2, <2>1, MinOfFinite
  <2>3. QED
    BY <1>2, <2>2 DEF FirstOrZero
<1>3. QED
  BY <1>1, <1>2


(***************************************************************************)
(* Resets.                                                                 *)
(***************************************************************************)
\* Row s of x: its period began at the start or at a boundary, and its next reset,
\* where it has one, is the first boundary after that.
RowInv(x, s, now) ==
  /\ s.last <= now /\ (s.last > 0 => Start <= s.last)
  /\ s.status = "active" => s.end = End[x]
  /\ ~Resets(x) => s.last = 0
  /\ Resets(x) /\ s.last > 0 => s.last <= s.end /\ (s.last = Start \/ Bound(x, Start, s.last))
  /\ Resets(x) /\ s.next > 0 => /\ Bound(x, Base(s), s.next)
                                /\ \A b \in Nat : Bound(x, Base(s), b) => s.next <= b

\* What row t is after the reset of row s at now: the same row, where no boundary has
\* passed; a new period with nothing used; or the first period, now with its end.
Kept(x, s, now, t) ==
  /\ t = s
  /\ \/ ~Resets(x)
     \/ s.next > now
     \/ \A b \in Nat : Bound(x, Base(s), b) /\ b <= s.end => now < b

Renewed(x, s, now, t) ==
  /\ t.used = 0 /\ t.end = s.end /\ t.status = s.status
  /\ t.last \in Nat /\ Bound(x, Base(s), t.last) /\ t.last <= now /\ t.last <= s.end
  /\ \A b \in Nat : Bound(x, Base(s), b) /\ b <= s.end /\ b <= now => b <= t.last
  /\ FirstAfter(x, Base(s), s.end, now, t.next)

Begun(x, s, now, t) ==
  /\ t.used = s.used /\ t.end = s.end /\ t.status = s.status
  /\ t.last = Base(s) /\ t.next > 0
  /\ FirstAfter(x, Base(s), s.end, now, t.next)
  /\ \A b \in Nat : Bound(x, Base(s), b) /\ b <= s.end => now < b

LEMMA BaseType ==
  ASSUME NEW s \in Rows
  PROVE  Base(s) \in Nat /\ Base(s) > 0 /\ (Base(s) <= MaxTime) /\ s.end \in Nat /\ s.last \in Nat
           /\ s.next \in Nat
BY SubscriptionAssumption DEF Base, Rows

LEMMA ResetIs ==
  ASSUME NEW x \in Subs, NEW s \in Rows, NEW now \in Nat, NEW t, t = Reset(x, s, now)
  PROVE  \/ Kept(x, s, now, t)
         \/ Resets(x) /\ Renewed(x, s, now, t)
         \/ Resets(x) /\ Begun(x, s, now, t)
<1> DEFINE base == Base(s)
           all == Boundaries(x, base, s.end)
           due == {b \in all : b <= now}
           rest == all \ due
           ahead == FirstOrZero(rest)
<1>1. t = IF ~Resets(x) \/ s.next > now THEN s
          ELSE IF due # {} THEN [s EXCEPT !.used = 0, !.last = Max(due), !.next = ahead]
          ELSE IF s.next = 0 /\ ahead > 0 THEN [s EXCEPT !.last = base, !.next = ahead]
          ELSE s
  BY DEF Reset, Resets, Base
<1>2. CASE ~Resets(x) \/ s.next > now
  BY <1>1, <1>2 DEF Kept
<1>3. CASE Resets(x) /\ ~(s.next > now)
  <2>0. base \in Nat /\ s.end \in Nat
    BY BaseType
  <2> HIDE DEF base
  <2>1. all \subseteq Nat /\ IsFiniteSet(all)
        /\ \A b \in Nat : b \in all <=> Bound(x, base, b) /\ b <= s.end
    BY <1>3, <2>0, BoundariesAre
  <2> HIDE DEF all
  <2>2. IsFiniteSet(due) /\ IsFiniteSet(rest) /\ rest \subseteq Nat /\ due \subseteq Nat
    BY <2>1, FS_Subset
  <2>3. \A b \in Nat : b \in due <=> Bound(x, base, b) /\ b <= s.end /\ b <= now
    BY <2>1
  <2>4. \A b \in Nat : b \in rest <=> Bound(x, base, b) /\ b <= s.end /\ now < b
    BY <2>1
  <2> HIDE DEF due, rest
  <2>5. /\ ahead \in Nat
        /\ ahead > 0 => ahead \in rest /\ \A b \in rest : ahead <= b
    BY <2>2, FirstOrZeroIs
  <2> HIDE DEF ahead
  <2>6. FirstAfter(x, base, s.end, now, ahead)
    <3>1. ASSUME ahead > 0, NEW b \in Nat, Bound(x, base, b), now < b
          PROVE  ahead <= b
      <4>1. ahead <= s.end
        BY <2>4, <2>5, <3>1
      <4>2. CASE b <= s.end
        BY <2>4, <2>5, <3>1, <4>2
      <4>3. CASE s.end < b
        BY <2>0, <2>5, <4>1, <4>3
      <4>4. QED
        BY <2>0, <4>2, <4>3
    <3>2. ahead > 0 => Bound(x, base, ahead) /\ now < ahead /\ ahead <= s.end
      BY <2>4, <2>5
    <3>3. QED
      BY <2>5, <3>1, <3>2 DEF FirstAfter
  <2>7. CASE due # {}
    <3>1. Max(due) \in due /\ \A b \in due : Max(due) >= b
      BY <2>2, <2>7, MaxOfFinite, due \subseteq Int
    <3>2. t = [s EXCEPT !.used = 0, !.last = Max(due), !.next = ahead]
      BY <1>1, <1>3, <2>7
    <3>3. t.used = 0 /\ t.last = Max(due) /\ t.next = ahead /\ t.end = s.end
          /\ t.status = s.status
      BY <3>2 DEF Rows
    <3>4. Max(due) \in Nat
      BY <2>2, <3>1
    <3>5. Bound(x, base, t.last) /\ t.last <= s.end /\ t.last <= now
      BY <2>3, <3>1, <3>3, <3>4
    <3>6. \A b \in Nat : Bound(x, base, b) /\ b <= s.end /\ b <= now => b <= t.last
      BY <2>3, <3>1, <3>3, <3>4
    <3>7. QED
      BY <1>3, <2>6, <3>3, <3>4, <3>5, <3>6 DEF Renewed, base
  <2>8. CASE due = {} /\ s.next = 0 /\ ahead > 0
    <3>1. t = [s EXCEPT !.last = base, !.next = ahead]
      BY <1>1, <1>3, <2>8
    <3>2. t.used = s.used /\ t.last = base /\ t.next = ahead /\ t.end = s.end
          /\ t.status = s.status
      BY <3>1 DEF Rows
    <3>3. \A b \in Nat : Bound(x, base, b) /\ b <= s.end => now < b
      BY <2>3, <2>8
    <3>4. QED
      BY <1>3, <2>6, <2>8, <3>2, <3>3 DEF Begun, base
  <2>9. CASE due = {} /\ ~(s.next = 0 /\ ahead > 0)
    <3>1. t = s
      BY <1>1, <1>3, <2>9
    <3>2. \A b \in Nat : Bound(x, base, b) /\ b <= s.end => now < b
      BY <2>3, <2>9
    <3>3. QED
      BY <3>1, <3>2 DEF Kept, base
  <2>10. QED
    BY <2>7, <2>8, <2>9
<1>4. QED
  BY <1>2, <1>3


LEMMA ResetType ==
  ASSUME NEW x \in Subs, NEW s \in Rows, NEW now \in Start .. MaxTime
  PROVE  Reset(x, s, now) \in Rows
<1>0. now \in Nat
  BY SubscriptionAssumption
<1> DEFINE t == Reset(x, s, now)
<1>1. \/ t = s
      \/ t = [s EXCEPT !.used = t.used, !.last = t.last, !.next = t.next]
  <2>1. \/ t = s
        \/ \E u, a, b : t = [s EXCEPT !.used = u, !.last = a, !.next = b]
        \/ \E a, b : t = [s EXCEPT !.last = a, !.next = b]
    BY DEF Reset
  <2>2. ASSUME NEW a, NEW b, t = [s EXCEPT !.last = a, !.next = b]
        PROVE  t = [s EXCEPT !.used = s.used, !.last = a, !.next = b]
    BY <2>2 DEF Rows
  <2>3. ASSUME NEW u, NEW a, NEW b, t = [s EXCEPT !.used = u, !.last = a, !.next = b]
        PROVE  u = t.used /\ a = t.last /\ b = t.next
    <3> HIDE DEF t
    <3> QED
      BY <2>3 DEF Rows
  <2>4. ASSUME NEW u, NEW a, NEW b, t = [s EXCEPT !.used = u, !.last = a, !.next = b]
        PROVE  t = [s EXCEPT !.used = t.used, !.last = t.last, !.next = t.next]
    BY <2>3, <2>4
  <2> HIDE DEF t
  <2>5. QED
    BY <2>1, <2>2, <2>4
<1>2. \/ Kept(x, s, now, t)
      \/ Resets(x) /\ Renewed(x, s, now, t)
      \/ Resets(x) /\ Begun(x, s, now, t)
  BY <1>0, ResetIs
<1> HIDE DEF t
<1>3. t = s \/ (t.used \in Nat /\ t.last \in 0 .. MaxTime /\ t.next \in Nat)
  <2>1. CASE Renewed(x, s, now, t)
    <3>1. t.used = 0 /\ t.last \in Nat /\ t.last <= now /\ t.next \in Nat
      BY <2>1 DEF Renewed, FirstAfter
    <3>2. QED
      BY <3>1, SubscriptionAssumption
  <2>2. CASE Begun(x, s, now, t)
    <3>1. t.used = s.used /\ t.last = Base(s) /\ t.next \in Nat
      BY <2>2 DEF Begun, FirstAfter
    <3>2. QED
      BY <3>1, BaseType, SubscriptionAssumption DEF Rows
  <2>3. QED
    BY <1>2, <2>1, <2>2 DEF Kept
<1>4. QED
  BY <1>1, <1>3 DEF Rows, t

\* A reset keeps what RowInv says of the row.
LEMMA ResetRow ==
  ASSUME NEW x \in Subs, NEW s \in Rows, NEW now \in Start .. MaxTime,
         RowInv(x, s, now), NEW t, t = Reset(x, s, now)
  PROVE  RowInv(x, t, now) /\ t.end = s.end /\ t.status = s.status
<1>0. now \in Nat /\ Start \in Nat \ {0} /\ Start <= now
  BY SubscriptionAssumption
<1>1. Base(s) \in Nat /\ Base(s) > 0 /\ s.end \in Nat /\ s.last \in Nat /\ s.next \in Nat
  BY BaseType
<1>2. CASE Kept(x, s, now, t)
  BY <1>2 DEF Kept
<1>3. ASSUME Resets(x) PROVE Base(s) = Start \/ Bound(x, Start, Base(s))
  BY <1>3 DEF RowInv, Base
<1>4. Start <= Base(s) /\ Base(s) <= now
  BY <1>0, <1>1 DEF RowInv, Base
<1>5. CASE Resets(x) /\ Renewed(x, s, now, t)
  <2>1. /\ t.end = s.end /\ t.status = s.status
        /\ t.last \in Nat /\ Bound(x, Base(s), t.last) /\ t.last <= now /\ t.last <= s.end
        /\ FirstAfter(x, Base(s), s.end, now, t.next)
    BY <1>5 DEF Renewed
  <2>2. Base(s) < t.last
    BY <2>1 DEF Bound
  <2>3. t.last > 0 /\ Start <= t.last /\ Base(t) = t.last
    BY <1>0, <1>1, <1>4, <2>1, <2>2 DEF Base
  <2>4. Bound(x, Start, t.last)
    BY <1>0, <1>1, <1>3, <1>5, <2>1, <2>2, BoundChain
  <2>5. ASSUME t.next > 0
        PROVE  Bound(x, Base(t), t.next) /\ \A b \in Nat : Bound(x, Base(t), b) => t.next <= b
    <3>1. /\ t.next \in Nat /\ Bound(x, Base(s), t.next) /\ now < t.next
          /\ \A b \in Nat : Bound(x, Base(s), b) /\ now < b => t.next <= b
      BY <2>1, <2>5 DEF FirstAfter
    <3>2. t.last < t.next
      BY <1>0, <2>1, <3>1
    <3>3. Bound(x, t.last, t.next)
      BY <1>1, <1>5, <2>1, <3>1, <3>2, BoundChain
    <3>4. ASSUME NEW b \in Nat, Bound(x, t.last, b)
          PROVE  t.next <= b
      <4>1. t.last < b
        BY <3>4 DEF Bound
      <4>2. Bound(x, Base(s), b)
        BY <1>1, <1>5, <2>1, <3>4, <4>1, BoundChain
      <4>3. CASE now < b
        BY <3>1, <4>2, <4>3
      <4>4. CASE b <= now
        <5>1. CASE b <= s.end
          <6>1. b <= t.last
            BY <1>5, <4>2, <4>4, <5>1 DEF Renewed
          <6>2. QED
            BY <2>1, <4>1, <6>1
        <5>2. CASE s.end < b
          <6>1. t.next <= s.end
            BY <2>1, <2>5 DEF FirstAfter
          <6>2. QED
            BY <1>1, <3>1, <5>2, <6>1
        <5>3. QED
          BY <1>1, <5>1, <5>2
      <4>5. QED
        BY <1>0, <4>3, <4>4
    <3>5. QED
      BY <2>3, <3>3, <3>4
  <2>6. s.status = "active" => s.end = End[x]
    BY DEF RowInv
  <2>7. QED
    BY <1>5, <2>1, <2>3, <2>4, <2>5, <2>6 DEF RowInv
<1>6. CASE Resets(x) /\ Begun(x, s, now, t)
  <2>1. /\ t.end = s.end /\ t.status = s.status /\ t.last = Base(s) /\ t.next > 0
        /\ FirstAfter(x, Base(s), s.end, now, t.next)
        /\ \A b \in Nat : Bound(x, Base(s), b) /\ b <= s.end => now < b
    BY <1>6 DEF Begun
  <2>2. Base(t) = Base(s)
    BY <1>1, <2>1 DEF Base
  <2>3. /\ t.next \in Nat /\ Bound(x, Base(s), t.next) /\ t.next <= s.end
        /\ \A b \in Nat : Bound(x, Base(s), b) /\ now < b => t.next <= b
    BY <2>1 DEF FirstAfter
  <2>4. ASSUME NEW b \in Nat, Bound(x, Base(s), b) PROVE t.next <= b
    BY <1>0, <1>1, <2>1, <2>3, <2>4
  <2>5. t.last <= s.end
    BY <1>1, <2>1, <2>3 DEF Bound
  <2>6. s.status = "active" => s.end = End[x]
    BY DEF RowInv
  <2>7. QED
    BY <1>3, <1>4, <1>6, <2>1, <2>2, <2>3, <2>4, <2>5, <2>6 DEF RowInv
<1>7. QED
  BY <1>0, <1>2, <1>5, <1>6, ResetIs

\* After a reset every boundary that the row has not passed is ahead of now, as long
\* as the subscription has not ended.
LEMMA ResetAhead ==
  ASSUME NEW x \in Subs, Resets(x), NEW s \in Rows, NEW now \in Start .. MaxTime,
         RowInv(x, s, now), NEW t, t = Reset(x, s, now), now < s.end,
         NEW b \in Nat, Bound(x, Base(t), b)
  PROVE  now < b
<1>0. now \in Nat
  BY SubscriptionAssumption
<1>1. Base(s) \in Nat /\ Base(s) > 0 /\ s.end \in Nat /\ s.next \in Nat
  BY BaseType
<1>2. SUFFICES ASSUME b <= now PROVE FALSE
  BY <1>0
<1>3. b <= s.end
  BY <1>0, <1>1, <1>2
<1>4. CASE Kept(x, s, now, t)
  <2>1. CASE s.next > now
    <3>1. s.next > 0
      BY <1>0, <1>1, <2>1
    <3>2. s.next <= b
      BY <1>4, <3>1 DEF RowInv, Kept
    <3>3. QED
      BY <1>0, <1>1, <1>2, <2>1, <3>2
  <2>2. CASE \A a \in Nat : Bound(x, Base(s), a) /\ a <= s.end => now < a
    BY <1>0, <1>2, <1>3, <1>4, <2>2 DEF Kept
  <2>3. QED
    BY <1>4, <2>1, <2>2 DEF Kept
<1>5. CASE Renewed(x, s, now, t)
  <2>1. t.last \in Nat /\ Bound(x, Base(s), t.last)
        /\ \A a \in Nat : Bound(x, Base(s), a) /\ a <= s.end /\ a <= now => a <= t.last
    BY <1>5 DEF Renewed
  <2>2. Base(t) = t.last
    BY <1>1, <2>1 DEF Base, Bound
  <2>3. t.last < b
    BY <2>2 DEF Bound
  <2>4. Bound(x, Base(s), b)
    BY <1>1, <2>1, <2>2, <2>3, BoundChain
  <2>5. QED
    BY <1>2, <1>3, <2>1, <2>3, <2>4
<1>6. CASE Begun(x, s, now, t)
  <2>1. t.last = Base(s) /\ \A a \in Nat : Bound(x, Base(s), a) /\ a <= s.end => now < a
    BY <1>6 DEF Begun
  <2>2. Base(t) = Base(s)
    BY <1>1, <2>1 DEF Base
  <2>3. QED
    BY <1>0, <1>2, <1>3, <2>1, <2>2
<1>7. QED
  BY <1>0, <1>4, <1>5, <1>6, ResetIs


(***************************************************************************)
(* Records and the aggregate.  The records are a parameter of these        *)
(* definitions: they are compared before and after a step.                 *)
(***************************************************************************)
HeldBy(rc, x) == {r \in Requests : rc[r].state = "consumed" /\ rc[r].sub = x}

Usage(rc, S) == SumFunctionOnSet([r \in Requests |-> rc[r].amount], S)

\* No request was admitted after a boundary that row s has not passed.
NoneLater(x, s, rc) ==
  Resets(x) => \A r \in HeldBy(rc, x), b \in Nat : Bound(x, Base(s), b) => rc[r].created < b

\* A request comes after the start and before the end of its subscription, and its
\* record is not deleted before its retention is over.
RecordInv(p, now) ==
  p.state # "none" =>
    /\ p.sub \in Subs /\ p.created < End[p.sub]
    /\ Start <= p.created /\ p.created <= p.updated /\ p.updated <= now
    /\ p.deleted => p.updated < now - Retention

Current(rc, x, last) == {r \in HeldBy(rc, x) : rc[r].created >= last}

UsageInv(x, s, rc) ==
  policyTracksAggregate(x) /\ s.status # "gone" => s.used = Usage(rc, Current(rc, x, s.last))

LedgerInv(x, s, rc, now) == RowInv(x, s, now) /\ NoneLater(x, s, rc) /\ UsageInv(x, s, rc)

\* A set of requests has a finite number of them, and a natural number as its usage.
LEMMA UsageType ==
  ASSUME NEW rc \in [Requests -> Records], NEW S, S \subseteq Requests
  PROVE  /\ IsFiniteSet(S) /\ Usage(rc, S) \in Nat
         /\ \A R \in SUBSET S : Usage(rc, R) <= Usage(rc, S)
<1> DEFINE f == [r \in Requests |-> rc[r].amount]
<1>1. IsFiniteSet(S)
  BY SubscriptionAssumption, FS_Subset
<1>2. \A r \in S : f[r] \in Nat
  BY DEF Records
<1> HIDE DEF f
<1>3. SumFunctionOnSet(f, S) \in Nat
  BY <1>1, <1>2, SumNat
<1>4. ASSUME NEW R \in SUBSET S
      PROVE  SumFunctionOnSet(f, R) <= SumFunctionOnSet(f, S)
  BY <1>1, <1>2, SumPart
<1>5. QED
  BY <1>1, <1>3, <1>4 DEF f, Usage

\* The usage of two sets that differ in request r only.
LEMMA UsageChange ==
  ASSUME NEW rc \in [Requests -> Records], NEW rd \in [Requests -> Records], NEW r \in Requests,
         NEW S, S \subseteq Requests, NEW R, R \subseteq Requests,
         \A q \in Requests \ {r} : q \in S <=> q \in R,
         \A q \in S : q # r => rc[q].amount = rd[q].amount
  PROVE  /\ Usage(rc, S) \in Nat /\ Usage(rd, R) \in Nat
         /\ Usage(rd, R) = (Usage(rc, S) - (IF r \in S THEN rc[r].amount ELSE 0))
                             + (IF r \in R THEN rd[r].amount ELSE 0)
<1> DEFINE f == [q \in Requests |-> rc[q].amount]
           g == [q \in Requests |-> rd[q].amount]
<1>1. IsFiniteSet(S) /\ IsFiniteSet(R) /\ Usage(rc, S) \in Nat /\ Usage(rd, R) \in Nat
  BY UsageType
<1>2. (\A q \in S : f[q] \in Int) /\ (\A q \in R : g[q] \in Int)
  BY DEF Records
<1>3. (\A q : q # r => (q \in S <=> q \in R)) /\ (\A q \in S : q # r => f[q] = g[q])
  OBVIOUS
<1>4. f[r] = rc[r].amount /\ g[r] = rd[r].amount
  OBVIOUS
<1> HIDE DEF f, g
<1>5. SumFunctionOnSet(g, R) = (SumFunctionOnSet(f, S) - (IF r \in S THEN f[r] ELSE 0))
                                  + (IF r \in R THEN g[r] ELSE 0)
  BY <1>1, <1>2, <1>3, SumOneChange
<1>6. QED
  BY <1>1, <1>4, <1>5 DEF f, g, Usage

LEMMA UsageSame ==
  ASSUME NEW rc \in [Requests -> Records], NEW rd \in [Requests -> Records],
         NEW S, S \subseteq Requests, \A q \in S : rc[q].amount = rd[q].amount
  PROVE  Usage(rc, S) = Usage(rd, S)
<1> DEFINE f == [q \in Requests |-> rc[q].amount]
           g == [q \in Requests |-> rd[q].amount]
<1>1. IsFiniteSet(S)
  BY UsageType
<1>2. \A q \in S : f[q] = g[q]
  OBVIOUS
<1> HIDE DEF f, g
<1>3. SumFunctionOnSet(f, S) = SumFunctionOnSet(g, S)
  BY <1>1, <1>2, SumSame
<1>4. QED
  BY <1>3 DEF f, g, Usage

\* A reset keeps the aggregate equal to the usage of its period.
LEMMA ResetLedger ==
  ASSUME NEW x \in Subs, NEW s \in Rows, NEW now \in Start .. MaxTime,
         NEW rc \in [Requests -> Records], \A r \in Requests : RecordInv(rc[r], now),
         LedgerInv(x, s, rc, now), NEW t, t = Reset(x, s, now)
  PROVE  LedgerInv(x, t, rc, now)
<1>0. now \in Nat /\ RowInv(x, t, now) /\ t.status = s.status
  BY ResetRow, SubscriptionAssumption DEF LedgerInv
<1>1. Base(s) \in Nat /\ Base(s) > 0 /\ s.last \in Nat
  BY BaseType
<1>2. CASE Kept(x, s, now, t)
  BY <1>2 DEF Kept
<1>3. \A r \in HeldBy(rc, x) : Start <= rc[r].created /\ rc[r].created \in Nat
  BY DEF HeldBy, RecordInv, Records
<1>4. CASE Resets(x) /\ Renewed(x, s, now, t)
  <2>1. t.used = 0 /\ t.last \in Nat /\ Bound(x, Base(s), t.last)
    BY <1>4 DEF Renewed
  <2>2. \A r \in HeldBy(rc, x) : rc[r].created < t.last
    BY <1>4, <2>1 DEF LedgerInv, NoneLater
  <2>3. Current(rc, x, t.last) = {}
    BY <1>3, <2>1, <2>2 DEF Current
  <2>4. Usage(rc, {}) = 0
    BY SumEmpty DEF Usage
  <2>5. NoneLater(x, t, rc)
    <3>1. Base(t) = t.last
      BY <1>1, <2>1 DEF Base, Bound
    <3>2. ASSUME NEW b \in Nat, Bound(x, t.last, b) PROVE Bound(x, Base(s), b)
      <4>1. t.last < b
        BY <3>2 DEF Bound
      <4>2. QED
        BY <1>1, <1>4, <2>1, <3>2, <4>1, BoundChain
    <3>3. QED
      BY <3>1, <3>2 DEF LedgerInv, NoneLater
  <2>6. QED
    BY <1>0, <2>1, <2>3, <2>4, <2>5 DEF LedgerInv, UsageInv
<1>5. CASE Resets(x) /\ Begun(x, s, now, t)
  <2>1. t.used = s.used /\ t.last = Base(s)
    BY <1>5 DEF Begun
  <2>2. Base(t) = Base(s)
    BY <1>1, <2>1 DEF Base
  <2>3. \A r \in HeldBy(rc, x) : rc[r].created >= Base(s) <=> rc[r].created >= s.last
    BY <1>1, <1>3, SubscriptionAssumption DEF Base
  <2>4. Current(rc, x, t.last) = Current(rc, x, s.last)
    BY <2>1, <2>3 DEF Current
  <2>5. QED
    BY <1>0, <2>1, <2>2, <2>4 DEF LedgerInv, UsageInv, NoneLater
<1>6. QED
  BY <1>0, <1>2, <1>4, <1>5, ResetIs


\* A request that is admitted now is in the period of the row that was reset for it.
LEMMA AdmitLedger ==
  ASSUME NEW x \in Subs, NEW s \in Rows, NEW now \in Start .. MaxTime,
         NEW rc \in [Requests -> Records], NEW rd \in [Requests -> Records],
         \A q \in Requests : RecordInv(rc[q], now), LedgerInv(x, s, rc, now),
         s.status = "active", now < s.end,
         NEW r \in Requests, rc[r].state = "none", \A q \in Requests \ {r} : rd[q] = rc[q],
         rd[r].state = "consumed", rd[r].sub = x, rd[r].created = now,
         NEW u, u = Charged(x, Reset(x, s, now), rd[r].amount)
  PROVE  LedgerInv(x, u, rd, now)
<1>0. PICK t : t = Reset(x, s, now)
  OBVIOUS
<1>1. t \in Rows /\ LedgerInv(x, t, rc, now) /\ t.status = s.status /\ now \in Nat
  BY <1>0, ResetType, ResetLedger, ResetRow, SubscriptionAssumption DEF LedgerInv
<1>2. u = IF policyTracksAggregate(x) THEN [t EXCEPT !.used = @ + rd[r].amount] ELSE t
  BY <1>0 DEF Charged
<1>3. /\ u.last = t.last /\ u.next = t.next /\ u.end = t.end /\ u.status = t.status
      /\ policyTracksAggregate(x) => u.used = t.used + rd[r].amount
  BY <1>1, <1>2 DEF Rows
<1>4. HeldBy(rd, x) = HeldBy(rc, x) \cup {r} /\ r \notin HeldBy(rc, x)
  BY DEF HeldBy
<1>5. RowInv(x, u, now)
  <2>1. Base(u) = Base(t)
    BY <1>3 DEF Base
  <2>2. QED
    BY <1>1, <1>3, <2>1 DEF LedgerInv, RowInv
<1>6. NoneLater(x, u, rd)
  <2>1. SUFFICES ASSUME Resets(x), NEW q \in HeldBy(rd, x), NEW b \in Nat, Bound(x, Base(t), b)
                 PROVE  rd[q].created < b
    BY <1>3 DEF NoneLater, Base
  <2>2. CASE q = r
    BY <1>0, <2>1, <2>2, ResetAhead DEF LedgerInv
  <2>3. CASE q # r
    BY <1>1, <1>4, <2>1, <2>3 DEF LedgerInv, NoneLater, HeldBy
  <2>4. QED
    BY <2>2, <2>3
<1>7. UsageInv(x, u, rd)
  <2>1. SUFFICES ASSUME policyTracksAggregate(x)
                 PROVE  t.used + rd[r].amount = Usage(rd, Current(rd, x, t.last))
    BY <1>3 DEF UsageInv
  <2> DEFINE S == Current(rc, x, t.last)
             R == Current(rd, x, t.last)
  <2>2. S \subseteq Requests /\ R \subseteq Requests /\ r \notin S /\ r \in R
    BY <1>1, <1>4 DEF Current, HeldBy, LedgerInv, RowInv
  <2>3. \A q \in Requests \ {r} : q \in S <=> q \in R
    BY DEF Current, HeldBy
  <2>4. t.used = Usage(rc, S)
    BY <1>1, <2>1 DEF LedgerInv, UsageInv
  <2>5. \A q \in S : q # r => rc[q].amount = rd[q].amount
    BY <2>2
  <2>6. rd[r].amount \in Nat
    BY DEF Records
  <2> HIDE DEF S, R
  <2>7. Usage(rd, R) = (Usage(rc, S) - 0) + rd[r].amount /\ Usage(rc, S) \in Nat
    BY <2>2, <2>3, <2>5, UsageChange
  <2>8. QED
    BY <2>4, <2>6, <2>7 DEF R
<1>8. QED
  BY <1>5, <1>6, <1>7 DEF LedgerInv

\* Nothing changes for a subscription whose requests keep what they hold.
LEMMA QuietLedger ==
  ASSUME NEW x \in Subs, NEW s, NEW now, NEW rc \in [Requests -> Records],
         NEW rd \in [Requests -> Records], LedgerInv(x, s, rc, now),
         HeldBy(rd, x) = HeldBy(rc, x),
         \A q \in HeldBy(rc, x) : rd[q].amount = rc[q].amount /\ rd[q].created = rc[q].created
  PROVE  LedgerInv(x, s, rd, now)
<1>1. Current(rd, x, s.last) = Current(rc, x, s.last)
  BY DEF Current
<1>2. Usage(rc, Current(rc, x, s.last)) = Usage(rd, Current(rc, x, s.last))
  <2> DEFINE S == Current(rc, x, s.last)
  <2>1. S \subseteq Requests /\ \A q \in S : rc[q].amount = rd[q].amount
    BY DEF Current, HeldBy
  <2> HIDE DEF S
  <2>2. Usage(rc, S) = Usage(rd, S)
    BY <2>1, UsageSame
  <2>3. QED
    BY <2>2 DEF S
<1>3. NoneLater(x, s, rd)
  BY DEF LedgerInv, NoneLater
<1>4. QED
  BY <1>1, <1>2, <1>3 DEF LedgerInv, UsageInv

\* The code's test of whether a request belongs to the current period.
LEMMA InPeriodIs ==
  ASSUME NEW x \in Subs, NEW t \in Rows, NEW now \in Start .. MaxTime,
         NEW rc \in [Requests -> Records], \A q \in Requests : RecordInv(rc[q], now),
         RowInv(x, t, now), NoneLater(x, t, rc), NEW r \in HeldBy(rc, x)
  PROVE  aggregateRecordInCurrentPeriod(x, t, rc[r].created, now)
           <=> policyTracksAggregate(x) /\ rc[r].created >= t.last
<1>1. /\ rc[r].created \in Nat /\ rc[r].created <= now /\ now \in Nat
      /\ t.last \in Nat /\ t.next \in Nat
  BY SubscriptionAssumption DEF HeldBy, Records, RecordInv, Rows
<1>2. CASE policy(x).period = 0
  <2>1. t.last = 0
    BY <1>2 DEF RowInv, Resets
  <2>2. QED
    BY <1>1, <1>2, <2>1 DEF aggregateRecordInCurrentPeriod
<1>3. CASE policy(x).period # 0 /\ policyTracksAggregate(x)
  <2>1. t.next > 0 => rc[r].created < t.next
    BY <1>1, <1>3 DEF RowInv, NoneLater, Resets
  <2>2. QED
    BY <1>1, <1>3, <2>1 DEF aggregateRecordInCurrentPeriod
<1>4. QED
  BY <1>2, <1>3 DEF aggregateRecordInCurrentPeriod

\* A settlement or a refund moves the aggregate by what the request holds less or
\* more, in the period of the request only.
LEMMA MoveLedger ==
  ASSUME NEW x \in Subs, NEW t \in Rows, NEW now \in Start .. MaxTime,
         NEW rc \in [Requests -> Records], NEW rd \in [Requests -> Records],
         \A q \in Requests : RecordInv(rc[q], now), LedgerInv(x, t, rc, now),
         NEW r \in HeldBy(rc, x), \A q \in Requests \ {r} : rd[q] = rc[q],
         rd[r].created = rc[r].created, rd[r].sub = x,
         rd[r].state = "consumed" \/ (rd[r].state # "consumed" /\ rd[r].amount = 0),
         NEW d \in Int, d = rd[r].amount - rc[r].amount,
         NEW u, u = IF aggregateRecordInCurrentPeriod(x, t, rc[r].created, now)
                      THEN [t EXCEPT !.used = Max2(0, @ + d)] ELSE t
  PROVE  LedgerInv(x, u, rd, now)
<1>1. u.last = t.last /\ u.next = t.next /\ u.end = t.end /\ u.status = t.status
  BY DEF Rows
<1>2. Base(u) = Base(t)
  BY <1>1 DEF Base
<1>3. RowInv(x, u, now)
  BY <1>1, <1>2 DEF LedgerInv, RowInv
<1>4. HeldBy(rd, x) \subseteq HeldBy(rc, x)
      /\ \A q \in HeldBy(rc, x) : rd[q].created = rc[q].created
  BY DEF HeldBy
<1>5. NoneLater(x, u, rd)
  BY <1>2, <1>4 DEF LedgerInv, NoneLater
<1>6. UsageInv(x, u, rd)
  <2>1. SUFFICES ASSUME policyTracksAggregate(x), t.status # "gone"
                 PROVE  u.used = Usage(rd, Current(rd, x, t.last))
    BY <1>1 DEF UsageInv
  <2> DEFINE S == Current(rc, x, t.last)
             R == Current(rd, x, t.last)
  <2>2. S \subseteq Requests /\ R \subseteq Requests
    BY DEF Current, HeldBy
  <2>3. \A q \in Requests \ {r} : q \in S <=> q \in R
    BY DEF Current, HeldBy
  <2>4. t.used = Usage(rc, S)
    BY <2>1 DEF LedgerInv, UsageInv
  <2>5. \A q \in S : q # r => rc[q].amount = rd[q].amount
    BY <2>2
  <2>6. rd[r].amount \in Nat /\ rc[r].amount \in Nat /\ r \in Requests
    BY DEF Records, HeldBy
  <2>7. (r \in S <=> rc[r].created >= t.last) /\ (r \in R => r \in S)
        /\ (r \in S /\ r \notin R => rd[r].amount = 0)
    BY DEF Current, HeldBy
  <2>8. aggregateRecordInCurrentPeriod(x, t, rc[r].created, now) <=> r \in S
    BY <2>1, <2>7, InPeriodIs DEF LedgerInv
  <2> HIDE DEF S, R
  <2>9. /\ Usage(rd, R) = (Usage(rc, S) - (IF r \in S THEN rc[r].amount ELSE 0))
                             + (IF r \in R THEN rd[r].amount ELSE 0)
        /\ Usage(rc, S) \in Nat /\ Usage(rd, R) \in Nat
    BY <2>2, <2>3, <2>5, <2>6, UsageChange
  <2>10. CASE r \in S
    <3>1. Usage(rd, R) = t.used + d
      BY <2>4, <2>6, <2>7, <2>9, <2>10
    <3>2. u = [t EXCEPT !.used = Max2(0, t.used + d)]
      BY <2>8, <2>10
    <3>3. u.used = Max2(0, t.used + d)
      BY <3>2 DEF Rows
    <3>4. QED
      BY <2>9, <3>1, <3>3 DEF Max2, R
  <2>11. CASE r \notin S
    BY <2>4, <2>7, <2>8, <2>9, <2>11 DEF R
  <2>12. QED
    BY <2>10, <2>11
<1>7. QED
  BY <1>3, <1>5, <1>6 DEF LedgerInv

\* Ending a subscription, in any of the three ways, leaves its aggregate.
LEMMA EndLedger ==
  ASSUME NEW x \in Subs, NEW s \in Rows, NEW now \in Nat, NEW rc,
         LedgerInv(x, s, rc, now), NEW u \in Rows,
         u.used = s.used, u.last = s.last, u.next = s.next, u.end \in {s.end, now},
         u.status # "active", u.status # "gone" => s.status # "gone"
  PROVE  LedgerInv(x, u, rc, now)
<1>1. Base(u) = Base(s)
  BY DEF Base
<1>2. s.last <= now /\ s.last \in Nat
  BY DEF LedgerInv, RowInv, Rows
<1>3. RowInv(x, u, now)
  BY <1>1, <1>2 DEF LedgerInv, RowInv
<1>4. QED
  BY <1>1, <1>3 DEF LedgerInv, NoneLater, UsageInv

LEMMA LaterLedger ==
  ASSUME NEW x \in Subs, NEW s \in Rows, NEW now \in Nat, NEW rc, LedgerInv(x, s, rc, now)
  PROVE  LedgerInv(x, s, rc, now + 1)
BY DEF LedgerInv, RowInv, Rows


LEMMA GoneLedger ==
  ASSUME NEW x \in Subs, NEW s \in Rows, NEW now, NEW rc, NEW rd, LedgerInv(x, s, rc, now),
         s.status = "gone", HeldBy(rd, x) \subseteq HeldBy(rc, x),
         \A q \in HeldBy(rd, x) : rd[q].created = rc[q].created
  PROVE  LedgerInv(x, s, rd, now)
BY DEF LedgerInv, NoneLater, UsageInv

(***************************************************************************)
(* The steps.                                                              *)
(***************************************************************************)
TypeInv ==
  /\ clock \in Start .. MaxTime /\ sub \in [Subs -> Rows] /\ rec \in [Requests -> Records]
  /\ \A r \in Requests : rec[r].state # "none" => rec[r].sub \in Subs

LEMMA ReadingTypes ==
  ASSUME clock \in Start .. MaxTime, NEW now \in Readings
  PROVE  now \in Start .. MaxTime /\ now <= clock
<1>1. now \in clock - MaxLag .. clock /\ now >= Start
  BY DEF Readings
<1>2. QED
  BY <1>1, SubscriptionAssumption

\* The record of an admission.
Admitted(x, n) == [state |-> "consumed", sub |-> x, amount |-> n,
                   created |-> clock, updated |-> clock, deleted |-> FALSE]

LEMMA AdmitStep ==
  ASSUME TypeInv, NEW r \in Requests, NEW n \in Amount, NEW allowed \in SUBSET Subs,
         NEW now \in Readings, PreConsumeUserSubscription(r, n, allowed, now)
  PROVE  /\ sub' \in [Subs -> Rows] /\ rec' \in [Requests -> Records] /\ clock' = clock
         /\ rec[r].state = "none"
         /\ \E x \in Subs :
              /\ Usable(x, now) /\ Room(x, Reset(x, sub[x], now), n, now)
              /\ sub'[x] = Charged(x, Reset(x, sub[x], now), n)
              /\ \A y \in Subs \ {x} : sub'[y] \in {sub[y], Reset(y, sub[y], now)}
              /\ rec' = [rec EXCEPT ![r] = Admitted(x, n)]
<1> DEFINE open == {x \in allowed : Usable(x, now)}
           fits == {x \in open : Room(x, Reset(x, sub[x], now), n, now)}
<1>1. fits # {} /\ fits \subseteq Subs /\ IsFiniteSet(fits) /\ fits \subseteq Int
  <2>1. fits \subseteq Subs /\ fits # {}
    BY DEF PreConsumeUserSubscription
  <2> HIDE DEF fits
  <2>2. IsFiniteSet(fits)
    BY <2>1, SubscriptionAssumption, FS_Subset
  <2>3. QED
    BY <2>1, <2>2, SubscriptionAssumption
<1>2. PICK x : x = Min(fits)
  OBVIOUS
<1>3. x \in fits
  <2> HIDE DEF fits
  <2> QED
    BY <1>1, <1>2, MinOfFinite
<1>4. x \in Subs /\ Usable(x, now) /\ Room(x, Reset(x, sub[x], now), n, now)
  BY <1>1, <1>3
<1>5. /\ rec[r].state = "none" /\ clock' = clock
      /\ sub' = [y \in Subs |->
                   CASE y = x -> Charged(y, Reset(y, sub[y], now), n)
                     [] y \in open /\ y < x -> Reset(y, sub[y], now)
                     [] OTHER -> sub[y]]
      /\ rec' = [rec EXCEPT ![r] = Admitted(x, n)]
  BY <1>2 DEF PreConsumeUserSubscription, Admitted
<1>6. now \in Start .. MaxTime
  BY ReadingTypes DEF TypeInv
<1>7. \A y \in Subs : sub[y] \in Rows /\ Reset(y, sub[y], now) \in Rows
  BY <1>6, ResetType DEF TypeInv
<1>8. n \in 0 .. MaxAmount /\ n \in Nat
  BY SubscriptionAssumption DEF Amount
<1>9. Charged(x, Reset(x, sub[x], now), n) \in Rows
  BY <1>4, <1>7, <1>8 DEF Charged, Rows
<1> HIDE DEF open, fits
<1>10. sub'[x] = Charged(x, Reset(x, sub[x], now), n)
  <2>1. sub'[x] = CASE x = x -> Charged(x, Reset(x, sub[x], now), n)
                    [] x \in open /\ x < x -> Reset(x, sub[x], now)
                    [] OTHER -> sub[x]
    BY <1>4, <1>5
  <2>2. ~(x < x)
    BY <1>4, SubscriptionAssumption
  <2>3. QED
    BY <2>1, <2>2
<1>11. \A y \in Subs \ {x} : sub'[y] \in {sub[y], Reset(y, sub[y], now)}
  <2>1. ASSUME NEW y \in Subs \ {x} PROVE sub'[y] \in {sub[y], Reset(y, sub[y], now)}
    <3>1. sub'[y] = CASE y = x -> Charged(y, Reset(y, sub[y], now), n)
                     [] y \in open /\ y < x -> Reset(y, sub[y], now)
                     [] OTHER -> sub[y]
      BY <1>5
    <3>2. CASE y \in open /\ y < x
      BY <3>1, <3>2
    <3>3. CASE ~(y \in open /\ y < x)
      BY <3>1, <3>3
    <3>4. QED
      BY <3>2, <3>3
  <2>2. QED
    BY <2>1
<1>12. \A y \in Subs : sub'[y] \in Rows
  BY <1>7, <1>9, <1>10, <1>11
<1>13. sub' \in [Subs -> Rows]
  BY <1>5, <1>12
<1>14. Admitted(x, n) \in Records
  BY <1>4, <1>8, SubscriptionAssumption DEF Admitted, Records, TypeInv
<1>15. rec' \in [Requests -> Records]
  BY <1>5, <1>14 DEF TypeInv
<1>16. QED
  BY <1>4, <1>5, <1>10, <1>11, <1>13, <1>15

LEMMA MovedType ==
  ASSUME NEW x \in Subs, NEW s \in Rows, NEW r, NEW d \in Int, NEW now
  PROVE  Moved(x, s, r, d, now) \in Rows
<1>1. Max2(0, s.used + d) \in Nat
  BY DEF Max2, Rows
<1>2. QED
  BY <1>1 DEF Moved, Rows

LEMMA SettleStep ==
  ASSUME TypeInv, NEW r \in Requests, NEW target \in 0 .. MaxAmount,
         NEW now \in ReadingsOf(r), settleSubscriptionPreConsume(r, target, now)
  PROVE  /\ sub' \in [Subs -> Rows] /\ rec' \in [Requests -> Records] /\ clock' = clock
         /\ now \in Readings /\ r \in HeldBy(rec, rec[r].sub) /\ rec[r].sub \in Subs
         /\ ~rec[r].deleted /\ InTime(r) /\ sub[rec[r].sub].status # "gone"
         /\ target - rec[r].amount > 0 =>
              MayGrow(rec[r].sub, Reset(rec[r].sub, sub[rec[r].sub], now), r, target, now)
         /\ sub' = [sub EXCEPT ![rec[r].sub] =
                      Moved(rec[r].sub, Reset(rec[r].sub, sub[rec[r].sub], now), r,
                            target - rec[r].amount, now)]
         /\ rec' = [rec EXCEPT ![r].amount = target, ![r].updated = clock]
<1>0. PICK x : x = rec[r].sub
  OBVIOUS
<1>1. /\ Found(r) /\ rec[r].state = "consumed" /\ InTime(r) /\ sub[x].status # "gone"
      /\ target - rec[r].amount > 0 => MayGrow(x, Reset(x, sub[x], now), r, target, now)
      /\ sub' = [sub EXCEPT ![x] = Moved(x, Reset(x, sub[x], now), r,
                                         target - rec[r].amount, now)]
      /\ rec' = [rec EXCEPT ![r].amount = target, ![r].updated = clock] /\ clock' = clock
  BY <1>0 DEF settleSubscriptionPreConsume
<1>2. x \in Subs /\ ~rec[r].deleted /\ now \in Readings /\ now \in Start .. MaxTime
  BY <1>0, <1>1, ReadingTypes DEF TypeInv, Found, ReadingsOf
<1>3. Reset(x, sub[x], now) \in Rows
  BY <1>2, ResetType DEF TypeInv
<1>4. target \in Int /\ rec[r].amount \in Int
  BY DEF TypeInv, Records
<1>5. Moved(x, Reset(x, sub[x], now), r, target - rec[r].amount, now) \in Rows
  BY <1>2, <1>3, <1>4, MovedType
<1>6. sub' \in [Subs -> Rows]
  BY <1>1, <1>2, <1>5 DEF TypeInv
<1>7. clock \in 0 .. MaxTime
  BY SubscriptionAssumption DEF TypeInv
<1>8. rec' \in [Requests -> Records]
  <2>1. rec[r] \in Records
    BY DEF TypeInv
  <2>2. [rec[r] EXCEPT !.amount = target, !.updated = clock] \in Records
    BY <1>7, <2>1 DEF Records
  <2>3. rec' = [rec EXCEPT ![r] = [rec[r] EXCEPT !.amount = target, !.updated = clock]]
    BY <1>1
  <2>4. QED
    BY <2>2, <2>3 DEF TypeInv
<1>9. QED
  BY <1>0, <1>1, <1>2, <1>6, <1>8 DEF HeldBy

LEMMA RefundStep ==
  ASSUME TypeInv, NEW r \in Requests, NEW now \in ReadingsOf(r),
         RefundSubscriptionPreConsume(r, now)
  PROVE  /\ sub' \in [Subs -> Rows] /\ rec' \in [Requests -> Records] /\ clock' = clock
         /\ now \in Readings /\ r \in HeldBy(rec, rec[r].sub) /\ rec[r].sub \in Subs
         /\ sub' = IF sub[rec[r].sub].status = "gone" THEN sub
                   ELSE [sub EXCEPT ![rec[r].sub] =
                           Moved(rec[r].sub, Reset(rec[r].sub, sub[rec[r].sub], now), r,
                                 -rec[r].amount, now)]
         /\ rec' = [rec EXCEPT ![r].state = "refunded", ![r].amount = 0, ![r].updated = clock]
<1>0. PICK x : x = rec[r].sub
  OBVIOUS
<1>1. /\ Found(r) /\ rec[r].state = "consumed" /\ clock' = clock
      /\ sub' = IF sub[x].status = "gone" THEN sub
                ELSE [sub EXCEPT ![x] = Moved(x, Reset(x, sub[x], now), r, -rec[r].amount, now)]
      /\ rec' = [rec EXCEPT ![r].state = "refunded", ![r].amount = 0, ![r].updated = clock]
  BY <1>0 DEF RefundSubscriptionPreConsume
<1>2. x \in Subs /\ now \in Readings /\ now \in Start .. MaxTime
  BY <1>0, <1>1, ReadingTypes DEF TypeInv, ReadingsOf
<1>3. Reset(x, sub[x], now) \in Rows
  BY <1>2, ResetType DEF TypeInv
<1>4. -rec[r].amount \in Int
  BY DEF TypeInv, Records
<1>5. Moved(x, Reset(x, sub[x], now), r, -rec[r].amount, now) \in Rows
  BY <1>2, <1>3, <1>4, MovedType
<1>6. sub' \in [Subs -> Rows]
  BY <1>1, <1>2, <1>5 DEF TypeInv
<1>7. clock \in 0 .. MaxTime /\ 0 \in 0 .. MaxAmount
  BY SubscriptionAssumption DEF TypeInv
<1>8. rec' \in [Requests -> Records]
  <2>1. rec[r] \in Records
    BY DEF TypeInv
  <2>2. [rec[r] EXCEPT !.state = "refunded", !.amount = 0, !.updated = clock] \in Records
    BY <1>7, <2>1 DEF Records
  <2>3. rec' = [rec EXCEPT ![r] =
                  [rec[r] EXCEPT !.state = "refunded", !.amount = 0, !.updated = clock]]
    BY <1>1
  <2>4. QED
    BY <2>2, <2>3 DEF TypeInv
<1>9. QED
  BY <1>0, <1>1, <1>2, <1>6, <1>8 DEF HeldBy


\* A clean-up only marks records, and only expendable ones.
LEMMA CleanupStep ==
  ASSUME TypeInv, NEW x \in Subs, CleanupSubscriptionPreConsumeRecords(x)
  PROVE  /\ sub' = sub /\ clock' = clock /\ rec' \in [Requests -> Records]
         /\ \A r \in Requests :
              /\ rec'[r].state = rec[r].state /\ rec'[r].sub = rec[r].sub
              /\ rec'[r].amount = rec[r].amount /\ rec'[r].created = rec[r].created
              /\ rec'[r].updated = rec[r].updated
              /\ rec'[r].deleted => rec[r].deleted \/ Expendable(r)
<1>1. \A r \in Requests : rec[r] \in Records /\ [rec[r] EXCEPT !.deleted = TRUE] \in Records
  BY DEF TypeInv, Records
<1>2. /\ sub' = sub /\ clock' = clock
      /\ rec' = [r \in Requests |-> IF rec[r].sub = x /\ Expendable(r)
                                      THEN [rec[r] EXCEPT !.deleted = TRUE] ELSE rec[r]]
  BY DEF CleanupSubscriptionPreConsumeRecords
<1>3. rec' \in [Requests -> Records]
  BY <1>1, <1>2
<1>4. ASSUME NEW r \in Requests
      PROVE  /\ rec'[r].state = rec[r].state /\ rec'[r].sub = rec[r].sub
             /\ rec'[r].amount = rec[r].amount /\ rec'[r].created = rec[r].created
             /\ rec'[r].updated = rec[r].updated
             /\ rec'[r].deleted => rec[r].deleted \/ Expendable(r)
  <2>1. CASE rec[r].sub = x /\ Expendable(r)
    <3>1. rec'[r] = [rec[r] EXCEPT !.deleted = TRUE]
      BY <1>2, <2>1
    <3>2. QED
      BY <1>1, <2>1, <3>1 DEF Records
  <2>2. CASE ~(rec[r].sub = x /\ Expendable(r))
    <3>1. rec'[r] = rec[r]
      BY <1>2, <2>2
    <3>2. QED
      BY <3>1
  <2>3. QED
    BY <2>1, <2>2
<1>5. QED
  BY <1>2, <1>3, <1>4

\* The end of subscription x: the row keeps its aggregate.
Ends(x, s, u) ==
  /\ u \in Rows /\ u.used = s.used /\ u.last = s.last /\ u.next = s.next
  /\ u.end \in {s.end, clock} /\ u.status # "active"
  /\ u.status # "gone" => s.status # "gone"

LEMMA ExpireStep ==
  ASSUME TypeInv, ExpireDueSubscriptions
  PROVE  /\ sub' \in [Subs -> Rows] /\ UNCHANGED <<clock, rec>>
         /\ \A x \in Subs : sub'[x] = sub[x] \/ Ends(x, sub[x], sub'[x])
<1>1. /\ UNCHANGED <<clock, rec>>
      /\ sub' = [x \in Subs |-> IF sub[x].status = "active" /\ sub[x].end <= clock
                                  THEN [sub[x] EXCEPT !.status = "expired"] ELSE sub[x]]
  BY DEF ExpireDueSubscriptions
<1>2. ASSUME NEW x \in Subs
      PROVE  sub'[x] \in Rows /\ (sub'[x] = sub[x] \/ Ends(x, sub[x], sub'[x]))
  <2>1. sub[x] \in Rows
    BY DEF TypeInv
  <2>2. CASE sub[x].status = "active" /\ sub[x].end <= clock
    <3>1. sub'[x] = [sub[x] EXCEPT !.status = "expired"]
      BY <1>1, <2>2
    <3>2. QED
      BY <2>1, <2>2, <3>1 DEF Rows, Ends
  <2>3. CASE ~(sub[x].status = "active" /\ sub[x].end <= clock)
    BY <1>1, <2>1, <2>3
  <2>4. QED
    BY <2>2, <2>3
<1>3. QED
  BY <1>1, <1>2

LEMMA AdminStep ==
  ASSUME TypeInv, NEW x \in Subs,
         AdminInvalidateUserSubscription(x) \/ AdminDeleteUserSubscription(x)
  PROVE  /\ sub' \in [Subs -> Rows] /\ UNCHANGED <<clock, rec>>
         /\ Ends(x, sub[x], sub'[x]) /\ \A y \in Subs \ {x} : sub'[y] = sub[y]
<1>1. sub[x] \in Rows /\ clock \in Nat
  BY SubscriptionAssumption DEF TypeInv
<1>2. CASE AdminInvalidateUserSubscription(x)
  <2>1. /\ sub' = [sub EXCEPT ![x] = [sub[x] EXCEPT !.status = "cancelled", !.end = clock]]
        /\ UNCHANGED <<clock, rec>> /\ sub[x].status # "gone"
    BY <1>2 DEF AdminInvalidateUserSubscription
  <2>2. Ends(x, sub[x], [sub[x] EXCEPT !.status = "cancelled", !.end = clock])
    BY <1>1, <2>1 DEF Rows, Ends
  <2>3. QED
    BY <2>1, <2>2 DEF TypeInv, Ends
<1>3. CASE AdminDeleteUserSubscription(x)
  <2>1. /\ sub' = [sub EXCEPT ![x] = [sub[x] EXCEPT !.status = "gone"]]
        /\ UNCHANGED <<clock, rec>>
    BY <1>3 DEF AdminDeleteUserSubscription
  <2>2. Ends(x, sub[x], [sub[x] EXCEPT !.status = "gone"])
    BY <1>1 DEF Rows, Ends
  <2>3. QED
    BY <2>1, <2>2 DEF TypeInv, Ends
<1>4. QED
  BY <1>2, <1>3

LEMMA DueStep ==
  ASSUME TypeInv, NEW x \in Subs, ResetDueSubscriptions(x)
  PROVE  /\ sub' \in [Subs -> Rows] /\ UNCHANGED <<clock, rec>>
         /\ sub'[x] = Reset(x, sub[x], clock) /\ \A y \in Subs \ {x} : sub'[y] = sub[y]
<1>1. Reset(x, sub[x], clock) \in Rows
  BY ResetType DEF TypeInv
<1>2. QED
  BY <1>1 DEF TypeInv, ResetDueSubscriptions

\* The two ways to settle.
LEMMA SettleTargets ==
  ASSUME TypeInv, NEW r \in Requests, NEW delta \in -MaxAmount .. MaxAmount,
         rec[r].amount + delta <= MaxAmount
  PROVE  Max2(0, rec[r].amount + delta) \in 0 .. MaxAmount
<1>1. rec[r].amount \in Int
  BY DEF TypeInv, Records
<1>2. QED
  BY <1>1, SubscriptionAssumption DEF Max2

\* Next, with the settlements brought together.
LEMMA NextCases ==
  ASSUME TypeInv, [Next]_vars
  PROVE  \/ \E r \in Requests, n \in Amount, allowed \in SUBSET Subs, now \in Readings :
              PreConsumeUserSubscription(r, n, allowed, now)
         \/ \E r \in Requests, target \in 0 .. MaxAmount : \E now \in ReadingsOf(r) :
              settleSubscriptionPreConsume(r, target, now)
         \/ \E r \in Requests : \E now \in ReadingsOf(r) : RefundSubscriptionPreConsume(r, now)
         \/ \E x \in Subs : ResetDueSubscriptions(x)
         \/ ExpireDueSubscriptions
         \/ \E x \in Subs : CleanupSubscriptionPreConsumeRecords(x)
         \/ \E x \in Subs : AdminInvalidateUserSubscription(x) \/ AdminDeleteUserSubscription(x)
         \/ Tick
         \/ UNCHANGED vars
<1>1. ASSUME NEW r \in Requests, RequestStep(r)
      PROVE  \/ \E n \in Amount, allowed \in SUBSET Subs, now \in Readings :
                  PreConsumeUserSubscription(r, n, allowed, now)
             \/ \E target \in 0 .. MaxAmount : \E now \in ReadingsOf(r) :
                  settleSubscriptionPreConsume(r, target, now)
             \/ \E now \in ReadingsOf(r) : RefundSubscriptionPreConsume(r, now)
  <2>1. ASSUME NEW delta \in -MaxAmount .. MaxAmount, NEW now \in ReadingsOf(r),
               rec[r].amount + delta <= MaxAmount, AdjustSubscriptionPreConsume(r, delta, now)
        PROVE  \E target \in 0 .. MaxAmount : settleSubscriptionPreConsume(r, target, now)
    BY <2>1, SettleTargets DEF AdjustSubscriptionPreConsume
  <2>2. QED
    BY <1>1, <2>1 DEF RequestStep, SettleSubscriptionPreConsume
<1>2. QED
  BY <1>1 DEF Next, Maintenance

LEMMA TypeStep ==
  ASSUME TypeInv, [Next]_vars
  PROVE  TypeInv'
<1> DEFINE Same == \A r \in Requests : rec'[r].state # "none" => rec'[r].sub \in Subs
<1>0. clock \in Start .. MaxTime /\ sub \in [Subs -> Rows] /\ rec \in [Requests -> Records]
      /\ \A r \in Requests : rec[r].state # "none" => rec[r].sub \in Subs
  BY DEF TypeInv
<1>1. ASSUME NEW r \in Requests, NEW n \in Amount, NEW allowed \in SUBSET Subs,
             NEW now \in Readings, PreConsumeUserSubscription(r, n, allowed, now)
      PROVE  TypeInv'
  <2>1. /\ sub' \in [Subs -> Rows] /\ rec' \in [Requests -> Records] /\ clock' = clock
        /\ \E x \in Subs : rec' = [rec EXCEPT ![r] = Admitted(x, n)]
    BY <1>1, AdmitStep
  <2>2. PICK x \in Subs : rec' = [rec EXCEPT ![r] = Admitted(x, n)]
    BY <2>1
  <2>3. Same
    BY <1>0, <2>2 DEF Admitted
  <2>4. QED
    BY <1>0, <2>1, <2>3 DEF TypeInv
<1>2. ASSUME NEW r \in Requests, NEW target \in 0 .. MaxAmount, NEW now \in ReadingsOf(r),
             settleSubscriptionPreConsume(r, target, now)
      PROVE  TypeInv'
  <2>1. /\ sub' \in [Subs -> Rows] /\ rec' \in [Requests -> Records] /\ clock' = clock
        /\ rec' = [rec EXCEPT ![r].amount = target, ![r].updated = clock]
    BY <1>2, SettleStep
  <2>2. Same
    BY <1>0, <2>1 DEF Records
  <2>3. QED
    BY <1>0, <2>1, <2>2 DEF TypeInv
<1>3. ASSUME NEW r \in Requests, NEW now \in ReadingsOf(r), RefundSubscriptionPreConsume(r, now)
      PROVE  TypeInv'
  <2>1. /\ sub' \in [Subs -> Rows] /\ rec' \in [Requests -> Records] /\ clock' = clock
        /\ rec[r].sub \in Subs
        /\ rec' = [rec EXCEPT ![r].state = "refunded", ![r].amount = 0, ![r].updated = clock]
    BY <1>3, RefundStep
  <2>2. Same
    BY <1>0, <2>1 DEF Records
  <2>3. QED
    BY <1>0, <2>1, <2>2 DEF TypeInv
<1>4. ASSUME NEW x \in Subs, ResetDueSubscriptions(x) PROVE TypeInv'
  BY <1>0, <1>4, DueStep DEF TypeInv
<1>5. CASE ExpireDueSubscriptions
  BY <1>0, <1>5, ExpireStep DEF TypeInv
<1>6. ASSUME NEW x \in Subs, CleanupSubscriptionPreConsumeRecords(x) PROVE TypeInv'
  BY <1>0, <1>6, CleanupStep DEF TypeInv
<1>7. ASSUME NEW x \in Subs, AdminInvalidateUserSubscription(x) \/ AdminDeleteUserSubscription(x)
      PROVE  TypeInv'
  BY <1>0, <1>7, AdminStep DEF TypeInv
<1>8. CASE Tick
  <2>1. clock' \in Start .. MaxTime /\ sub' = sub /\ rec' = rec
    BY <1>0, <1>8, SubscriptionAssumption DEF Tick
  <2>2. QED
    BY <1>0, <2>1 DEF TypeInv
<1>9. CASE UNCHANGED vars
  BY <1>0, <1>9 DEF TypeInv, vars
<1>10. QED
  BY <1>1, <1>2, <1>3, <1>4, <1>5, <1>6, <1>7, <1>8, <1>9, NextCases


LEMMA IssuedIs ==
  ASSUME NEW x \in Subs
  PROVE  Issued(x) \in Rows /\ Issued(x).used = 0 /\ RowInv(x, Issued(x), Start)
<1> DEFINE all == Boundaries(x, Start, End[x])
           n == IF policyTracksAggregate(x) THEN FirstOrZero(all) ELSE 0
<1>0. Start \in Nat \ {0} /\ Start \in 0 .. MaxTime /\ End[x] \in Nat
  BY PolicyTypes, SubscriptionAssumption
<1>1. Issued(x) = [used |-> 0, last |-> IF n > 0 THEN Start ELSE 0, next |-> n,
                   end |-> End[x], status |-> "active"]
  BY DEF Issued
<1>2. CASE ~Resets(x)
  <2>1. n = 0
    BY <1>2 DEF Resets, Boundaries, FirstOrZero
  <2>2. Issued(x) = [used |-> 0, last |-> 0, next |-> 0, end |-> End[x], status |-> "active"]
    BY <1>1, <2>1
  <2>3. QED
    BY <1>0, <1>2, <2>2, SubscriptionAssumption DEF Rows, RowInv
<1>3. CASE Resets(x)
  <2>1. n = FirstOrZero(all)
    BY <1>3 DEF Resets
  <2>2. all \subseteq Nat /\ IsFiniteSet(all)
        /\ \A b \in Nat : b \in all <=> Bound(x, Start, b) /\ b <= End[x]
    BY <1>0, <1>3, BoundariesAre
  <2> HIDE DEF all
  <2>3. n \in Nat /\ (n > 0 => n \in all /\ \A b \in all : n <= b)
    BY <2>1, <2>2, FirstOrZeroIs
  <2> HIDE DEF n
  <2>4. ASSUME n > 0
        PROVE  /\ Bound(x, Start, n) /\ Start <= End[x]
               /\ \A b \in Nat : Bound(x, Start, b) => n <= b
    <3>1. Bound(x, Start, n) /\ n <= End[x]
      BY <2>2, <2>3, <2>4
    <3>2. Start < n
      BY <3>1 DEF Bound
    <3>3. ASSUME NEW b \in Nat, Bound(x, Start, b) PROVE n <= b
      BY <1>0, <2>2, <2>3, <2>4, <3>1, <3>3
    <3>4. QED
      BY <1>0, <2>3, <3>1, <3>2, <3>3
  <2>5. Issued(x).used = 0 /\ Issued(x).next = n /\ Issued(x).end = End[x]
        /\ Issued(x).last = IF n > 0 THEN Start ELSE 0
    BY <1>1
  <2>6. Base(Issued(x)) = Start
    BY <1>0, <2>5 DEF Base
  <2>7. Issued(x) \in Rows
    <3>1. PICK l \in 0 .. MaxTime : l = IF n > 0 THEN Start ELSE 0
      BY <1>0, SubscriptionAssumption
    <3>2. Issued(x) = [used |-> 0, last |-> l, next |-> n, end |-> End[x], status |-> "active"]
      BY <1>1, <3>1
    <3>3. QED
      BY <1>0, <2>3, <3>2 DEF Rows
  <2>8. RowInv(x, Issued(x), Start)
    BY <1>0, <1>3, <2>3, <2>4, <2>5, <2>6 DEF RowInv
  <2>9. QED
    BY <2>5, <2>7, <2>8
<1>4. QED
  BY <1>2, <1>3

LEMMA TypeInit ==
  ASSUME Init
  PROVE  TypeInv
<1>1. clock \in Start .. MaxTime
  BY SubscriptionAssumption DEF Init
<1>2. sub \in [Subs -> Rows]
  BY IssuedIs DEF Init
<1>3. NoRecord \in Records
  BY SubscriptionAssumption DEF NoRecord, Records
<1>4. QED
  BY <1>1, <1>2, <1>3 DEF Init, TypeInv, NoRecord

\* Rows and records are of their types, whatever the constants are.
THEOREM SubscriptionTyped == Spec => []SubTypeOK
<1>1. TypeInv => SubTypeOK
  BY DEF TypeInv, SubTypeOK, Rows, Records
<1>2. QED
  BY <1>1, TypeInit, TypeStep, PTL DEF Spec

(***************************************************************************)
(* The aggregate is the usage of its period.                               *)
(***************************************************************************)
QuotaInv ==
  /\ TypeInv
  /\ \A r \in Requests : RecordInv(rec[r], clock)
  /\ \A x \in Subs : LedgerInv(x, sub[x], rec, clock)

LEMMA QuotaInit ==
  ASSUME Init
  PROVE  QuotaInv
<1>1. TypeInv
  BY TypeInit
<1>2. \A r \in Requests : RecordInv(rec[r], clock)
  BY DEF Init, NoRecord, RecordInv
<1>3. ASSUME NEW x \in Subs PROVE LedgerInv(x, sub[x], rec, clock)
  <2>1. RowInv(x, sub[x], clock) /\ sub[x].used = 0
    BY IssuedIs DEF Init
  <2>2. HeldBy(rec, x) = {}
    BY DEF Init, NoRecord, HeldBy
  <2>3. Current(rec, x, sub[x].last) = {} /\ Usage(rec, {}) = 0
    BY <2>2, SumEmpty DEF Current, Usage
  <2>4. QED
    BY <2>1, <2>2, <2>3 DEF LedgerInv, NoneLater, UsageInv
<1>4. QED
  BY <1>1, <1>2, <1>3 DEF QuotaInv

LEMMA QuotaStep ==
  ASSUME MaxLag = 0, QuotaInv, [Next]_vars
  PROVE  QuotaInv'
<1>0. TypeInv /\ TypeInv'
  BY TypeStep DEF QuotaInv
<1>1. /\ clock \in Start .. MaxTime /\ sub \in [Subs -> Rows] /\ rec \in [Requests -> Records]
      /\ sub' \in [Subs -> Rows] /\ rec' \in [Requests -> Records] /\ clock \in Nat
      /\ \A r \in Requests : RecordInv(rec[r], clock)
      /\ \A x \in Subs : LedgerInv(x, sub[x], rec, clock)
  BY <1>0, SubscriptionAssumption DEF QuotaInv, TypeInv
<1>2. \A now \in Readings : now = clock
  BY <1>1 DEF Readings
<1>3. SUFFICES /\ \A r \in Requests : RecordInv(rec'[r], clock')
               /\ \A x \in Subs : LedgerInv(x, sub'[x], rec', clock')
  BY <1>0 DEF QuotaInv
<1>4. \A y \in Subs : LedgerInv(y, Reset(y, sub[y], clock), rec, clock)
                      /\ Reset(y, sub[y], clock) \in Rows
  BY <1>1, ResetLedger, ResetType
<1>5. ASSUME NEW r \in Requests, NEW n \in Amount, NEW allowed \in SUBSET Subs,
             NEW now \in Readings, PreConsumeUserSubscription(r, n, allowed, now)
      PROVE  /\ \A q \in Requests : RecordInv(rec'[q], clock')
             /\ \A y \in Subs : LedgerInv(y, sub'[y], rec', clock')
  <2>0. now = clock /\ clock' = clock /\ rec[r].state = "none"
    BY <1>0, <1>2, <1>5, AdmitStep
  <2>1. PICK x \in Subs :
              /\ Usable(x, clock) /\ sub'[x] = Charged(x, Reset(x, sub[x], clock), n)
              /\ \A y \in Subs \ {x} : sub'[y] \in {sub[y], Reset(y, sub[y], clock)}
              /\ rec' = [rec EXCEPT ![r] = Admitted(x, n)]
    BY <1>0, <1>5, <2>0, AdmitStep
  <2>2. /\ rec'[r].state = "consumed" /\ rec'[r].sub = x /\ rec'[r].amount = n
        /\ rec'[r].created = clock /\ rec'[r].updated = clock /\ rec'[r].deleted = FALSE
        /\ \A q \in Requests \ {r} : rec'[q] = rec[q]
    BY <1>1, <2>1 DEF Admitted
  <2>3. sub[x].status = "active" /\ clock < sub[x].end /\ sub[x].end = End[x]
    BY <1>1, <2>1 DEF Usable, LedgerInv, RowInv
  <2>4. ASSUME NEW q \in Requests PROVE RecordInv(rec'[q], clock')
    <3>1. CASE q = r
      BY <1>1, <2>0, <2>2, <2>3, <3>1 DEF RecordInv
    <3>2. CASE q # r
      BY <1>1, <2>0, <2>2, <3>2
    <3>3. QED
      BY <3>1, <3>2
  <2>5. LedgerInv(x, sub'[x], rec', clock)
    BY <1>1, <2>0, <2>1, <2>2, <2>3, AdmitLedger
  <2>6. ASSUME NEW y \in Subs \ {x} PROVE LedgerInv(y, sub'[y], rec', clock)
    <3>1. LedgerInv(y, sub'[y], rec, clock)
      BY <1>1, <1>4, <2>1
    <3>2. HeldBy(rec', y) = HeldBy(rec, y)
          /\ \A q \in HeldBy(rec, y) : rec'[q] = rec[q]
      BY <2>0, <2>2 DEF HeldBy
    <3>3. QED
      BY <1>1, <3>1, <3>2, QuietLedger
  <2>7. QED
    BY <2>0, <2>4, <2>5, <2>6
<1>6. ASSUME NEW r \in Requests, NEW target \in 0 .. MaxAmount, NEW now \in ReadingsOf(r),
             settleSubscriptionPreConsume(r, target, now)
      PROVE  /\ \A q \in Requests : RecordInv(rec'[q], clock')
             /\ \A y \in Subs : LedgerInv(y, sub'[y], rec', clock')
  <2>0. PICK x : x = rec[r].sub
    OBVIOUS
  <2>1. /\ now = clock /\ clock' = clock /\ x \in Subs /\ r \in HeldBy(rec, x) /\ ~rec[r].deleted
        /\ sub' = [sub EXCEPT ![x] = Moved(x, Reset(x, sub[x], clock), r,
                                           target - rec[r].amount, clock)]
        /\ rec' = [rec EXCEPT ![r].amount = target, ![r].updated = clock]
    BY <1>0, <1>2, <1>6, <2>0, SettleStep
  <2>2. /\ rec'[r].state = "consumed" /\ rec'[r].sub = x /\ rec'[r].amount = target
        /\ rec'[r].created = rec[r].created /\ rec'[r].updated = clock
        /\ rec'[r].deleted = rec[r].deleted
        /\ \A q \in Requests \ {r} : rec'[q] = rec[q]
    BY <1>1, <2>1 DEF HeldBy, Records
  <2>3. ASSUME NEW q \in Requests PROVE RecordInv(rec'[q], clock')
    <3>1. CASE q = r
      <4>1. RecordInv(rec[r], clock) /\ rec[r].state = "consumed" /\ rec[r].sub = x
            /\ rec[r].created \in Nat /\ rec[r].updated \in Nat
        BY <1>1, <2>1 DEF HeldBy, Records
      <4>2. QED
        BY <1>1, <2>1, <2>2, <3>1, <4>1 DEF RecordInv
    <3>2. CASE q # r
      BY <1>1, <2>1, <2>2, <3>2
    <3>3. QED
      BY <3>1, <3>2
  <2>4. LedgerInv(x, sub'[x], rec', clock)
    <3>1. target - rec[r].amount \in Int
      BY <1>1 DEF Records
    <3>2. PICK t \in Rows : t = Reset(x, sub[x], clock) /\ LedgerInv(x, t, rec, clock)
      BY <1>4, <2>1
    <3>3. PICK u : u = sub'[x]
      OBVIOUS
    <3>4. u = IF aggregateRecordInCurrentPeriod(x, t, rec[r].created, clock)
                THEN [t EXCEPT !.used = Max2(0, @ + (target - rec[r].amount))] ELSE t
      BY <1>1, <2>1, <3>2, <3>3 DEF Moved
    <3>5. rec'[r].created = rec[r].created /\ rec'[r].sub = x /\ rec'[r].state = "consumed"
          /\ target - rec[r].amount = rec'[r].amount - rec[r].amount
          /\ x \in Subs /\ r \in HeldBy(rec, x) /\ \A q \in Requests \ {r} : rec'[q] = rec[q]
      BY <2>1, <2>2
    <3>6. LedgerInv(x, u, rec', clock)
      BY ONLY <1>1, <3>1, <3>2, <3>4, <3>5, MoveLedger
    <3>7. QED
      BY <3>3, <3>6
  <2>5. ASSUME NEW y \in Subs \ {x} PROVE LedgerInv(y, sub'[y], rec', clock)
    <3>1. sub'[y] = sub[y]
      BY <1>1, <2>1
    <3>2. HeldBy(rec', y) = HeldBy(rec, y)
          /\ \A q \in HeldBy(rec, y) : rec'[q] = rec[q]
      <4>1. r \notin HeldBy(rec', y) /\ r \notin HeldBy(rec, y)
        BY <2>1, <2>2 DEF HeldBy
      <4>2. \A q \in Requests \ {r} : rec'[q] = rec[q]
        BY <2>2
      <4>3. QED
        BY <4>1, <4>2 DEF HeldBy
    <3>3. QED
      BY <1>1, <3>1, <3>2, QuietLedger
  <2>6. QED
    BY <2>1, <2>3, <2>4, <2>5
<1>7. ASSUME NEW r \in Requests, NEW now \in ReadingsOf(r), RefundSubscriptionPreConsume(r, now)
      PROVE  /\ \A q \in Requests : RecordInv(rec'[q], clock')
             /\ \A y \in Subs : LedgerInv(y, sub'[y], rec', clock')
  <2>0. PICK x : x = rec[r].sub
    OBVIOUS
  <2>1. /\ now = clock /\ clock' = clock /\ x \in Subs /\ r \in HeldBy(rec, x)
        /\ sub' = IF sub[x].status = "gone" THEN sub
                  ELSE [sub EXCEPT ![x] = Moved(x, Reset(x, sub[x], clock), r,
                                                -rec[r].amount, clock)]
        /\ rec' = [rec EXCEPT ![r].state = "refunded", ![r].amount = 0, ![r].updated = clock]
        /\ Found(r)
    BY <1>0, <1>2, <1>7, <2>0, RefundStep DEF RefundSubscriptionPreConsume
  <2>2. /\ rec'[r].state = "refunded" /\ rec'[r].sub = x /\ rec'[r].amount = 0
        /\ rec'[r].created = rec[r].created /\ rec'[r].updated = clock
        /\ rec'[r].deleted = rec[r].deleted
        /\ \A q \in Requests \ {r} : rec'[q] = rec[q]
    BY <1>1, <2>1 DEF HeldBy, Records
  <2>3. ASSUME NEW q \in Requests PROVE RecordInv(rec'[q], clock')
    <3>1. CASE q = r
      <4>1. RecordInv(rec[r], clock) /\ rec[r].state = "consumed" /\ rec[r].sub = x
            /\ rec[r].created \in Nat /\ rec[r].updated \in Nat /\ ~rec[r].deleted
        BY <1>1, <2>1 DEF HeldBy, Records, Found
      <4>2. QED
        BY <1>1, <2>1, <2>2, <3>1, <4>1 DEF RecordInv
    <3>2. CASE q # r
      BY <1>1, <2>1, <2>2, <3>2
    <3>3. QED
      BY <3>1, <3>2
  <2>4. LedgerInv(x, sub'[x], rec', clock)
    <3>1. CASE sub[x].status = "gone"
      <4>1. HeldBy(rec', x) \subseteq HeldBy(rec, x)
            /\ \A q \in HeldBy(rec', x) : rec'[q].created = rec[q].created
        BY <2>1, <2>2 DEF HeldBy
      <4>2. x \in Subs /\ sub[x] \in Rows /\ LedgerInv(x, sub[x], rec, clock)
        BY <1>1, <2>1
      <4>3. LedgerInv(x, sub[x], rec', clock)
        BY ONLY <3>1, <4>1, <4>2, GoneLedger
      <4>4. QED
        BY <2>1, <3>1, <4>3
    <3>2. CASE sub[x].status # "gone"
      <4>1. -rec[r].amount \in Int /\ -rec[r].amount = rec'[r].amount - rec[r].amount
        BY <1>1, <2>2 DEF Records
      <4>2. PICK t \in Rows : t = Reset(x, sub[x], clock) /\ LedgerInv(x, t, rec, clock)
        BY <1>4, <2>1
      <4>3. PICK u : u = sub'[x]
        OBVIOUS
      <4>4. u = IF aggregateRecordInCurrentPeriod(x, t, rec[r].created, clock)
                  THEN [t EXCEPT !.used = Max2(0, @ + (-rec[r].amount))] ELSE t
        BY <1>1, <2>1, <3>2, <4>2, <4>3 DEF Moved
      <4>5. rec'[r].created = rec[r].created /\ rec'[r].sub = x
            /\ rec'[r].state # "consumed" /\ rec'[r].amount = 0
            /\ x \in Subs /\ r \in HeldBy(rec, x) /\ \A q \in Requests \ {r} : rec'[q] = rec[q]
        BY <2>1, <2>2
      <4>6. LedgerInv(x, u, rec', clock)
        BY ONLY <1>1, <4>1, <4>2, <4>4, <4>5, MoveLedger
      <4>7. QED
        BY <4>3, <4>6
    <3>3. QED
      BY <3>1, <3>2
  <2>5. ASSUME NEW y \in Subs \ {x} PROVE LedgerInv(y, sub'[y], rec', clock)
    <3>1. sub'[y] = sub[y]
      BY <1>1, <2>1
    <3>2. HeldBy(rec', y) = HeldBy(rec, y)
          /\ \A q \in HeldBy(rec, y) : rec'[q] = rec[q]
      <4>1. r \notin HeldBy(rec', y) /\ r \notin HeldBy(rec, y)
        BY <2>1, <2>2 DEF HeldBy
      <4>2. \A q \in Requests \ {r} : rec'[q] = rec[q]
        BY <2>2
      <4>3. QED
        BY <4>1, <4>2 DEF HeldBy
    <3>3. QED
      BY <1>1, <3>1, <3>2, QuietLedger
  <2>6. QED
    BY <2>1, <2>3, <2>4, <2>5
<1>8. ASSUME NEW x \in Subs, ResetDueSubscriptions(x)
      PROVE  /\ \A q \in Requests : RecordInv(rec'[q], clock')
             /\ \A y \in Subs : LedgerInv(y, sub'[y], rec', clock')
  BY <1>0, <1>1, <1>4, <1>8, DueStep
<1>9. ASSUME ExpireDueSubscriptions
      PROVE  /\ \A q \in Requests : RecordInv(rec'[q], clock')
             /\ \A y \in Subs : LedgerInv(y, sub'[y], rec', clock')
  <2>1. clock' = clock /\ rec' = rec
        /\ \A y \in Subs : sub'[y] = sub[y] \/ Ends(y, sub[y], sub'[y])
    BY <1>0, <1>9, ExpireStep
  <2>2. ASSUME NEW y \in Subs PROVE LedgerInv(y, sub'[y], rec, clock)
    BY <1>1, <2>1, EndLedger DEF Ends
  <2>3. QED
    BY <1>1, <2>1, <2>2
<1>10. ASSUME NEW x \in Subs, CleanupSubscriptionPreConsumeRecords(x)
       PROVE  /\ \A q \in Requests : RecordInv(rec'[q], clock')
              /\ \A y \in Subs : LedgerInv(y, sub'[y], rec', clock')
  <2>1. /\ sub' = sub /\ clock' = clock
        /\ \A r \in Requests :
              /\ rec'[r].state = rec[r].state /\ rec'[r].sub = rec[r].sub
              /\ rec'[r].amount = rec[r].amount /\ rec'[r].created = rec[r].created
              /\ rec'[r].updated = rec[r].updated
              /\ rec'[r].deleted => rec[r].deleted \/ Expendable(r)
    BY <1>0, <1>10, CleanupStep
  <2>2. ASSUME NEW q \in Requests PROVE RecordInv(rec'[q], clock')
    BY <1>1, <2>1 DEF RecordInv, Expendable
  <2>3. ASSUME NEW y \in Subs PROVE LedgerInv(y, sub'[y], rec', clock')
    <3>1. HeldBy(rec', y) = HeldBy(rec, y)
          /\ \A q \in HeldBy(rec, y) : rec'[q].amount = rec[q].amount
                                       /\ rec'[q].created = rec[q].created
      BY <2>1 DEF HeldBy
    <3>2. QED
      BY <1>1, <2>1, <3>1, QuietLedger
  <2>4. QED
    BY <2>2, <2>3
<1>11. ASSUME NEW x \in Subs,
              AdminInvalidateUserSubscription(x) \/ AdminDeleteUserSubscription(x)
       PROVE  /\ \A q \in Requests : RecordInv(rec'[q], clock')
              /\ \A y \in Subs : LedgerInv(y, sub'[y], rec', clock')
  <2>1. clock' = clock /\ rec' = rec /\ Ends(x, sub[x], sub'[x])
        /\ \A y \in Subs \ {x} : sub'[y] = sub[y]
    BY <1>0, <1>11, AdminStep
  <2>2. LedgerInv(x, sub'[x], rec, clock)
    BY <1>1, <2>1, EndLedger DEF Ends
  <2>3. QED
    BY <1>1, <2>1, <2>2
<1>12. ASSUME Tick
       PROVE  /\ \A q \in Requests : RecordInv(rec'[q], clock')
              /\ \A y \in Subs : LedgerInv(y, sub'[y], rec', clock')
  <2>1. clock' = clock + 1 /\ sub' = sub /\ rec' = rec
    BY <1>12 DEF Tick
  <2>2. ASSUME NEW q \in Requests PROVE RecordInv(rec[q], clock + 1)
    <3>1. rec[q].updated \in Nat /\ rec[q].created \in Nat
      BY <1>1 DEF Records
    <3>2. QED
      BY <1>1, <3>1, SubscriptionAssumption DEF RecordInv
  <2>3. \A y \in Subs : LedgerInv(y, sub[y], rec, clock + 1)
    BY <1>1, LaterLedger
  <2>4. QED
    BY <2>1, <2>2, <2>3
<1>13. CASE UNCHANGED vars
  BY <1>1, <1>13 DEF vars
<1>14. QED
  BY <1>0, <1>5, <1>6, <1>7, <1>8, <1>9, <1>10, <1>11, <1>12, <1>13, NextCases

\* AmountUsed is exactly what the requests of its period hold, for every policy and
\* any number of subscriptions and requests, when a transaction works with the time
\* at which it holds its locks.
THEOREM AggregateIsExact ==
  ASSUME MaxLag = 0
  PROVE  Spec => []AggregateIsUsage
<1>1. QuotaInv => AggregateIsUsage
  BY DEF QuotaInv, LedgerInv, UsageInv, AggregateIsUsage, Current, HeldBy, Held, Usage, Sum
<1>2. QED
  BY <1>1, QuotaInit, QuotaStep, PTL DEF Spec


(***************************************************************************)
(* No period is overspent.                                                 *)
(***************************************************************************)
\* The requests of x in the period of time c, whether or not their records were
\* cleaned up.
Together(rc, x, c) == {q \in HeldBy(rc, x) : SamePeriod(x, End[x], c, rc[q].created)}

PeriodInv(x, rc) ==
  policyWeeklyLimit(x) > 0 => \A c \in Nat : Usage(rc, Together(rc, x, c)) <= policyWeeklyLimit(x)

\* Records outlive the requests of their period: what was admitted at the beginning of
\* a period is still there when the last request of the period settles.
RetentionCoversPeriods ==
  \A x \in Subs : policyWeeklyLimit(x) > 0 => policy(x).period + MaxLife <= Retention + 1

LEMMA SamePeriodIs ==
  ASSUME NEW x \in Subs, Resets(x), NEW e \in Nat, NEW c \in Nat, NEW d \in Nat
  PROVE  SamePeriod(x, e, c, d)
           <=> \A b \in Nat : Bound(x, Start, b) /\ b <= e => (c < b <=> d < b)
<1>1. /\ Boundaries(x, Start, e) \subseteq Nat
      /\ \A b \in Nat : b \in Boundaries(x, Start, e) <=> Bound(x, Start, b) /\ b <= e
  BY BoundariesAre, SubscriptionAssumption
<1>2. \A b \in Nat : ((c < b) = (d < b)) <=> (c < b <=> d < b)
  OBVIOUS
<1>3. QED
  BY <1>1, <1>2 DEF SamePeriod

LEMMA HeldTypes ==
  ASSUME NEW rc \in [Requests -> Records], NEW now, NEW x \in Subs, NEW q \in HeldBy(rc, x),
         \A r \in Requests : RecordInv(rc[r], now)
  PROVE  /\ q \in Requests /\ rc[q].created \in Nat /\ rc[q].updated \in Nat /\ rc[q].amount \in Nat
         /\ Start <= rc[q].created /\ rc[q].created < End[x] /\ rc[q].created <= rc[q].updated
         /\ rc[q].updated <= now /\ (rc[q].deleted => rc[q].updated < now - Retention)
BY DEF HeldBy, Records, RecordInv

\* Two times in the same period are in the same period with any third one.
LEMMA SamePeriodChain ==
  ASSUME NEW x, NEW e, NEW c, NEW d, NEW f, SamePeriod(x, e, c, d)
  PROVE  SamePeriod(x, e, c, f) <=> SamePeriod(x, e, d, f)
BY DEF SamePeriod

\* The requests in the period of a time d that is in the period of row s are those that
\* the aggregate counts.
LEMMA TogetherCurrent ==
  ASSUME NEW x \in Subs, policyTracksAggregate(x), NEW s \in Rows, NEW now,
         NEW rc \in [Requests -> Records], \A r \in Requests : RecordInv(rc[r], now),
         RowInv(x, s, now), NEW c \in Nat, NEW d \in Nat, s.last <= d, d < End[x],
         SamePeriod(x, End[x], c, d)
  PROVE  Together(rc, x, c) \subseteq Current(rc, x, s.last)
<1>0. s.last \in Nat /\ End[x] \in Nat /\ Start \in Nat
  BY BaseType, PolicyTypes, SubscriptionAssumption
<1>1. SUFFICES ASSUME NEW q \in HeldBy(rc, x), SamePeriod(x, End[x], c, rc[q].created)
               PROVE  s.last <= rc[q].created
  BY <1>0, HeldTypes DEF Together, Current
<1>2. rc[q].created \in Nat /\ Start <= rc[q].created
  BY HeldTypes
<1>3. CASE s.last = 0 \/ s.last = Start
  BY <1>0, <1>2, <1>3
<1>4. CASE s.last # 0 /\ s.last # Start
  <2>1. Resets(x) /\ Bound(x, Start, s.last)
    BY <1>0, <1>4 DEF RowInv
  <2>2. SamePeriod(x, End[x], d, rc[q].created)
    BY <1>1, SamePeriodChain
  <2>3. d < s.last <=> rc[q].created < s.last
    BY <1>0, <1>2, <2>1, <2>2, SamePeriodIs
  <2>4. QED
    BY <1>0, <1>2, <2>3
<1>5. QED
  BY <1>3, <1>4

\* A request that settles after its period ended finds every other request of it.
LEMMA HistoryFound ==
  ASSUME NEW x \in Subs, Resets(x), policyWeeklyLimit(x) > 0, RetentionCoversPeriods,
         NEW now \in Nat, NEW rc \in [Requests -> Records],
         \A r \in Requests : RecordInv(rc[r], now),
         NEW s \in Rows, RowInv(x, s, now), NEW r \in HeldBy(rc, x), rc[r].created < s.last,
         now <= rc[r].created + MaxLife,
         NEW q \in HeldBy(rc, x), SamePeriod(x, End[x], rc[r].created, rc[q].created)
  PROVE  /\ ~rc[q].deleted /\ rc[q].created < s.end
         /\ SamePeriod(x, s.end, rc[r].created, rc[q].created)
<1> DEFINE c == rc[r].created
           d == rc[q].created
<1>0. s.last \in Nat /\ s.end \in Nat /\ End[x] \in Nat /\ Start \in Nat \ {0}
      /\ Retention \in Nat /\ MaxLife \in Nat /\ policy(x).period \in Nat
  BY BaseType, PolicyTypes, SubscriptionAssumption
<1>1. c \in Nat /\ Start <= c /\ c < End[x] /\ d \in Nat /\ Start <= d /\ d < End[x]
      /\ (rc[q].deleted => d < now - Retention)
  <2>1. c \in Nat /\ Start <= c /\ c < End[x]
    BY HeldTypes
  <2>2. d \in Nat /\ Start <= d /\ d < End[x] /\ d <= rc[q].updated /\ rc[q].updated \in Nat
        /\ (rc[q].deleted => rc[q].updated < now - Retention)
    BY HeldTypes
  <2>3. QED
    BY <1>0, <2>1, <2>2
<1>2. SamePeriod(x, End[x], c, d) /\ now <= c + MaxLife /\ c < s.last
  OBVIOUS
<1> HIDE DEF c, d
<1>3. s.last <= s.end /\ Bound(x, Start, s.last)
  BY <1>0, <1>1, <1>2 DEF RowInv
<1>4. \A b \in Nat : Bound(x, Start, b) /\ b <= End[x] => (c < b <=> d < b)
  BY <1>0, <1>1, <1>2, SamePeriodIs
<1>5. \A b \in Nat : Bound(x, Start, b) => (c < b <=> d < b)
  BY <1>0, <1>1, <1>4
<1>6. SamePeriod(x, s.end, c, d)
  BY <1>0, <1>1, <1>5, SamePeriodIs
<1>7. d < s.last
  BY <1>0, <1>2, <1>3, <1>5
<1>8. PICK b \in Nat : Bound(x, Start, b) /\ d < b /\ b <= d + policy(x).period
  BY <1>0, <1>1, BoundNear
<1>9. c < b
  BY <1>5, <1>8
<1>10. policy(x).period + MaxLife <= Retention + 1
  BY DEF RetentionCoversPeriods
<1>11. ~(d < now - Retention)
  BY <1>0, <1>1, <1>2, <1>8, <1>9, <1>10
<1>12. QED
  BY <1>0, <1>1, <1>3, <1>6, <1>7, <1>11 DEF c, d


\* Two sets that differ in request r only, which holds no more afterwards.
LEMMA UsageShrinks ==
  ASSUME NEW rc \in [Requests -> Records], NEW rd \in [Requests -> Records], NEW r \in Requests,
         NEW S, S \subseteq Requests, NEW R, R \subseteq Requests,
         \A q \in Requests \ {r} : q \in S <=> q \in R,
         \A q \in S : q # r => rc[q].amount = rd[q].amount,
         r \in R => r \in S /\ rd[r].amount <= rc[r].amount
  PROVE  Usage(rd, R) <= Usage(rc, S)
<1>1. /\ Usage(rc, S) \in Nat /\ Usage(rd, R) \in Nat
      /\ Usage(rd, R) = (Usage(rc, S) - (IF r \in S THEN rc[r].amount ELSE 0))
                             + (IF r \in R THEN rd[r].amount ELSE 0)
  BY UsageChange
<1>2. rc[r].amount \in Nat /\ rd[r].amount \in Nat
  BY DEF Records
<1>3. QED
  BY <1>1, <1>2

\* Where the other requests of S, and what r holds now, fit in a limit, S does.
LEMMA UsageFits ==
  ASSUME NEW rc \in [Requests -> Records], NEW rd \in [Requests -> Records], NEW r \in Requests,
         NEW S, S \subseteq Requests, NEW R, R \subseteq Requests, r \in R, r \notin S,
         \A q \in R : q # r => q \in S /\ rd[q].amount = rc[q].amount,
         NEW limit \in Nat, rd[r].amount + Usage(rc, S) <= limit
  PROVE  Usage(rd, R) <= limit
<1> DEFINE T == R \ {r}
<1>1. T \subseteq S /\ T \subseteq Requests /\ r \notin T
      /\ (\A q \in Requests \ {r} : q \in T <=> q \in R)
      /\ (\A q \in T : q # r => rc[q].amount = rd[q].amount)
  OBVIOUS
<1> HIDE DEF T
<1>2. /\ Usage(rc, T) \in Nat /\ Usage(rd, R) \in Nat
      /\ Usage(rd, R) = (Usage(rc, T) - 0) + rd[r].amount
  BY <1>1, UsageChange
<1>3. Usage(rc, T) <= Usage(rc, S) /\ Usage(rc, S) \in Nat
  BY <1>1, UsageType
<1>4. rd[r].amount \in Nat
  BY DEF Records
<1>5. QED
  BY <1>2, <1>3, <1>4

\* A request that is not of x, or one that holds no more than before.
LEMMA QuietPeriod ==
  ASSUME NEW x \in Subs, NEW rc \in [Requests -> Records], NEW rd \in [Requests -> Records],
         NEW r \in Requests, \A q \in Requests \ {r} : rd[q] = rc[q], PeriodInv(x, rc),
         r \in HeldBy(rd, x) => /\ r \in HeldBy(rc, x) /\ rd[r].created = rc[r].created
                                /\ rd[r].amount <= rc[r].amount
  PROVE  PeriodInv(x, rd)
<1> SUFFICES ASSUME policyWeeklyLimit(x) > 0, NEW c \in Nat
             PROVE  Usage(rd, Together(rd, x, c)) <= policyWeeklyLimit(x)
  BY DEF PeriodInv
<1> DEFINE S == Together(rc, x, c)
           R == Together(rd, x, c)
<1>1. S \subseteq Requests /\ R \subseteq Requests
  BY DEF Together, HeldBy
<1>2. (\A q \in Requests \ {r} : q \in S <=> q \in R)
      /\ (\A q \in S : q # r => rc[q].amount = rd[q].amount)
  BY <1>1 DEF Together, HeldBy
<1>3. r \in R => r \in S /\ rd[r].amount <= rc[r].amount
  BY DEF Together
<1>4. Usage(rc, S) <= policyWeeklyLimit(x)
  BY DEF PeriodInv
<1> HIDE DEF S, R
<1>5. Usage(rd, R) <= Usage(rc, S) /\ Usage(rc, S) \in Nat /\ Usage(rd, R) \in Nat
  BY <1>1, <1>2, <1>3, UsageShrinks, UsageType
<1>6. Usage(rd, R) <= policyWeeklyLimit(x)
  BY <1>4, <1>5, PolicyTypes
<1>7. QED
  BY <1>6 DEF R

\* An admission that fits in the aggregate of its row fits in its period.
LEMMA AdmitPeriod ==
  ASSUME NEW x \in Subs, NEW t \in Rows, NEW now \in Nat, NEW rc \in [Requests -> Records],
         NEW rd \in [Requests -> Records], \A q \in Requests : RecordInv(rc[q], now),
         LedgerInv(x, t, rc, now), t.status = "active", now < End[x], PeriodInv(x, rc),
         NEW r \in Requests, rc[r].state = "none", \A q \in Requests \ {r} : rd[q] = rc[q],
         rd[r].sub = x, rd[r].created = now,
         policyWeeklyLimit(x) > 0 => rd[r].amount <= policyWeeklyLimit(x) - t.used
  PROVE  PeriodInv(x, rd)
<1>1. SUFFICES ASSUME policyWeeklyLimit(x) > 0, NEW c \in Nat
               PROVE  Usage(rd, Together(rd, x, c)) <= policyWeeklyLimit(x)
  BY DEF PeriodInv
<1> DEFINE S == Together(rc, x, c)
           R == Together(rd, x, c)
           U == Current(rc, x, t.last)
<1>2. S \subseteq Requests /\ R \subseteq Requests /\ r \notin S /\ U \subseteq Requests
      /\ r \notin U
  BY DEF Together, HeldBy, Current
<1>3. (\A q \in Requests \ {r} : q \in S <=> q \in R)
      /\ (\A q \in S : q # r => rc[q].amount = rd[q].amount)
  BY <1>2 DEF Together, HeldBy
<1>4. r \in R => SamePeriod(x, End[x], c, now)
  BY DEF Together
<1>5. Usage(rc, S) <= policyWeeklyLimit(x)
  BY <1>1 DEF PeriodInv
<1>6. policyTracksAggregate(x)
  BY <1>1 DEF policyWeeklyLimit
<1>7. t.used = Usage(rc, U) /\ t.last <= now
  BY <1>6 DEF LedgerInv, UsageInv, RowInv
<1>8. r \in R => S \subseteq U
  BY <1>4, <1>6, <1>7, TogetherCurrent DEF LedgerInv
<1> HIDE DEF S, R, U
<1>9. rd[r].amount \in Nat /\ Usage(rc, U) \in Nat /\ Usage(rc, S) \in Nat
      /\ Usage(rd, R) \in Nat /\ policyWeeklyLimit(x) \in Nat
  BY <1>2, UsageType, PolicyTypes DEF Records
<1>10. CASE r \in R
  <2>1. rd[r].amount + Usage(rc, U) <= policyWeeklyLimit(x)
    BY <1>1, <1>7, <1>9
  <2>2. \A q \in R : q # r => q \in U /\ rd[q].amount = rc[q].amount
    BY <1>2, <1>3, <1>8, <1>10
  <2>3. Usage(rd, R) <= policyWeeklyLimit(x)
    BY <1>2, <1>9, <1>10, <2>1, <2>2, UsageFits
  <2>4. QED
    BY <2>3 DEF R
<1>11. CASE r \notin R
  <2>1. Usage(rd, R) <= Usage(rc, S)
    BY <1>2, <1>3, <1>11, UsageShrinks
  <2>2. Usage(rd, R) <= policyWeeklyLimit(x)
    BY <1>5, <1>9, <2>1
  <2>3. QED
    BY <2>2 DEF R
<1>12. QED
  BY <1>10, <1>11

\* A settlement above the reservation fits in the aggregate of the current period or,
\* when its own period is over, in what the code sums up for that one.
LEMMA GrowPeriod ==
  ASSUME NEW x \in Subs, RetentionCoversPeriods, NEW t \in Rows, clock \in Start .. MaxTime,
         rec \in [Requests -> Records],
         NEW rd \in [Requests -> Records], \A q \in Requests : RecordInv(rec[q], clock),
         LedgerInv(x, t, rec, clock), t.status # "gone", PeriodInv(x, rec),
         NEW r \in HeldBy(rec, x), \A q \in Requests \ {r} : rd[q] = rec[q],
         rd[r].created = rec[r].created, clock <= rec[r].created + MaxLife,
         MayGrow(x, t, r, rd[r].amount, clock)
  PROVE  PeriodInv(x, rd)
<1>1. SUFFICES ASSUME policyWeeklyLimit(x) > 0, NEW c \in Nat
               PROVE  Usage(rd, Together(rd, x, c)) <= policyWeeklyLimit(x)
  BY DEF PeriodInv
<1> DEFINE S == Together(rec, x, c)
           R == Together(rd, x, c)
<1>0. clock \in Nat
  BY SubscriptionAssumption
<1>2. S \subseteq Requests /\ R \subseteq Requests /\ r \in Requests
  BY DEF Together, HeldBy
<1>3. (\A q \in Requests \ {r} : q \in S <=> q \in R)
      /\ (\A q \in S : q # r => rec[q].amount = rd[q].amount)
  BY <1>2 DEF Together, HeldBy
<1>4. r \in R => r \in S /\ SamePeriod(x, End[x], c, rec[r].created)
  BY DEF Together
<1>5. Usage(rec, S) <= policyWeeklyLimit(x)
  BY <1>1 DEF PeriodInv
<1>6. policyTracksAggregate(x)
  BY <1>1 DEF policyWeeklyLimit
<1>7. /\ rec[r].created \in Nat /\ rec[r].created < End[x] /\ rec[r].amount \in Nat
      /\ rd[r].amount \in Nat /\ t.last \in Nat /\ policyWeeklyLimit(x) \in Nat
  <2>1. rec[r].created \in Nat /\ rec[r].created < End[x] /\ rec[r].amount \in Nat
    BY HeldTypes
  <2>2. rd[r].amount \in Nat
    BY <1>2 DEF Records
  <2>3. t.last \in Nat /\ policyWeeklyLimit(x) \in Nat
    BY PolicyTypes, BaseType
  <2>4. QED
    BY <2>1, <2>2, <2>3
<1>8. aggregateRecordInCurrentPeriod(x, t, rec[r].created, clock) <=> rec[r].created >= t.last
  BY <1>6, InPeriodIs DEF LedgerInv
<1>9. CASE r \notin R
  <2> HIDE DEF S, R
  <2>1. Usage(rd, R) <= Usage(rec, S) /\ Usage(rec, S) \in Nat /\ Usage(rd, R) \in Nat
    BY <1>2, <1>3, <1>9, UsageShrinks, UsageType
  <2>2. Usage(rd, R) <= policyWeeklyLimit(x)
    BY <1>5, <1>7, <2>1
  <2>3. QED
    BY <2>2 DEF R
<1>10. CASE r \in R /\ rec[r].created >= t.last
  <2> DEFINE U == Current(rec, x, t.last)
             V == U \ {r}
  <2>1. S \subseteq U /\ U \subseteq Requests /\ r \in U
    <3>1. S \subseteq U
      BY <1>4, <1>6, <1>7, <1>10, TogetherCurrent DEF LedgerInv
    <3>2. QED
      BY <1>10, <3>1 DEF Current, HeldBy
  <2>2. t.used = Usage(rec, U)
    BY <1>6 DEF LedgerInv, UsageInv
  <2>3. rd[r].amount - rec[r].amount <= policyWeeklyLimit(x) - t.used
    BY <1>1, <1>6, <1>8, <1>10 DEF MayGrow
  <2> HIDE DEF S, R, U
  <2>4. V \subseteq Requests /\ r \notin V
        /\ (\A q \in Requests \ {r} : q \in U <=> q \in V)
        /\ (\A q \in U : q # r => rec[q].amount = rec[q].amount)
    BY <2>1
  <2>5. \A q \in R : q # r => q \in V /\ rd[q].amount = rec[q].amount
    BY <1>2, <1>3, <2>1
  <2> HIDE DEF V
  <2>6. Usage(rec, V) = (Usage(rec, U) - rec[r].amount) + 0
        /\ Usage(rec, U) \in Nat /\ Usage(rec, V) \in Nat
    BY <1>2, <2>1, <2>4, UsageChange
  <2>7. rd[r].amount + Usage(rec, V) <= policyWeeklyLimit(x)
    BY <1>7, <2>2, <2>3, <2>6
  <2>8. Usage(rd, R) <= policyWeeklyLimit(x)
    BY <1>2, <1>7, <1>10, <2>4, <2>5, <2>7, UsageFits
  <2>9. QED
    BY <2>8 DEF R
<1>11. CASE r \in R /\ rec[r].created < t.last
  <2> DEFINE V == {q \in Counted(x, clock) \ {r} :
                     /\ Start <= rec[q].created /\ rec[q].created < t.end
                     /\ SamePeriod(x, t.end, rec[r].created, rec[q].created)}
  <2>1. Resets(x)
    BY <1>7, <1>11 DEF LedgerInv, RowInv
  <2>2. aggregateQuotaHistoricalTargetAllowed(x, t, r, rd[r].amount, clock)
    BY <1>6, <1>7, <1>8, <1>11 DEF MayGrow
  <2>3. rd[r].amount + Usage(rec, V) <= policyWeeklyLimit(x)
    BY <1>1, <2>2 DEF aggregateQuotaHistoricalTargetAllowed, Usage, Sum
  <2>4. ASSUME NEW q \in R, q # r PROVE q \in V /\ rd[q].amount = rec[q].amount
    <3>1. q \in HeldBy(rec, x) /\ SamePeriod(x, End[x], c, rec[q].created)
          /\ rd[q].amount = rec[q].amount
      BY <1>2, <1>3, <2>4 DEF Together, HeldBy
    <3>2. SamePeriod(x, End[x], rec[r].created, rec[q].created)
      BY <1>4, <1>11, <3>1, SamePeriodChain
    <3>3. ~rec[q].deleted /\ rec[q].created < t.end
          /\ SamePeriod(x, t.end, rec[r].created, rec[q].created)
      BY <1>0, <1>1, <1>11, <2>1, <3>1, <3>2, HistoryFound DEF LedgerInv
    <3>4. q \in Requests /\ Start <= rec[q].created /\ rec[q].created <= clock
      <4>1. q \in Requests /\ rec[q].created \in Nat /\ rec[q].updated \in Nat
            /\ Start <= rec[q].created /\ rec[q].created <= rec[q].updated
            /\ rec[q].updated <= clock
        BY <3>1, HeldTypes
      <4>2. QED
        BY <1>0, <4>1
    <3>5. QED
      BY <2>4, <3>1, <3>3, <3>4 DEF Counted, HeldBy
  <2>5. V \subseteq Requests /\ r \notin V
    BY DEF Counted
  <2> HIDE DEF V, R, S
  <2>6. Usage(rd, R) <= policyWeeklyLimit(x)
    BY <1>2, <1>7, <1>11, <2>3, <2>4, <2>5, UsageFits
  <2>7. QED
    BY <2>6 DEF R
<1>12. QED
  BY <1>7, <1>9, <1>10, <1>11


\* What a step does to the records: an admission, a settlement above the reservation,
\* something else to one request, or nothing that limits are about.
Admits(r, x, t) ==
  /\ rec[r].state = "none" /\ rec'[r].state = "consumed" /\ rec'[r].sub = x
  /\ rec'[r].created = clock /\ \A q \in Requests \ {r} : rec'[q] = rec[q]
  /\ LedgerInv(x, t, rec, clock) /\ t.status = "active" /\ clock < End[x]
  /\ Room(x, t, rec'[r].amount, clock)

Grows(r, x, t) ==
  /\ r \in HeldBy(rec, x) /\ r \in HeldBy(rec', x) /\ rec'[r].created = rec[r].created
  /\ \A q \in Requests \ {r} : rec'[q] = rec[q]
  /\ LedgerInv(x, t, rec, clock) /\ t.status # "gone" /\ clock <= rec[r].created + MaxLife
  /\ MayGrow(x, t, r, rec'[r].amount, clock)

Shrinks(r) ==
  /\ rec'[r].sub = rec[r].sub /\ rec'[r].created = rec[r].created
  /\ rec'[r].state = "consumed" => rec[r].state = "consumed"
  /\ rec'[r].amount <= rec[r].amount
  /\ \A q \in Requests \ {r} : rec'[q] = rec[q]

Quiet ==
  \A q \in Requests : /\ rec'[q].state = rec[q].state /\ rec'[q].sub = rec[q].sub
                      /\ rec'[q].amount = rec[q].amount /\ rec'[q].created = rec[q].created

LEMMA RecordCases ==
  ASSUME MaxLag = 0, QuotaInv, [Next]_vars
  PROVE  \/ \E r \in Requests, x \in Subs, t \in Rows : Admits(r, x, t)
         \/ \E r \in Requests, x \in Subs, t \in Rows : Grows(r, x, t)
         \/ \E r \in Requests : Shrinks(r)
         \/ Quiet
<1>0. TypeInv
  BY DEF QuotaInv
<1>1. /\ clock \in Start .. MaxTime /\ sub \in [Subs -> Rows] /\ rec \in [Requests -> Records]
      /\ clock \in Nat /\ \A r \in Requests : RecordInv(rec[r], clock)
      /\ \A x \in Subs : LedgerInv(x, sub[x], rec, clock)
  BY <1>0, SubscriptionAssumption DEF QuotaInv, TypeInv
<1>2. \A now \in Readings : now = clock
  BY <1>1 DEF Readings
<1>3. \A y \in Subs : /\ LedgerInv(y, Reset(y, sub[y], clock), rec, clock)
                      /\ Reset(y, sub[y], clock) \in Rows
                      /\ Reset(y, sub[y], clock).status = sub[y].status
  BY <1>1, ResetLedger, ResetType, ResetRow DEF LedgerInv
<1>4. ASSUME NEW r \in Requests, NEW n \in Amount, NEW allowed \in SUBSET Subs,
             NEW now \in Readings, PreConsumeUserSubscription(r, n, allowed, now)
      PROVE  \E x \in Subs, t \in Rows : Admits(r, x, t)
  <2>0. now = clock /\ rec[r].state = "none"
    BY <1>0, <1>2, <1>4, AdmitStep
  <2>1. PICK x \in Subs : /\ Usable(x, clock) /\ Room(x, Reset(x, sub[x], clock), n, clock)
                          /\ rec' = [rec EXCEPT ![r] = Admitted(x, n)]
    BY <1>0, <1>4, <2>0, AdmitStep
  <2>2. /\ rec'[r].state = "consumed" /\ rec'[r].sub = x /\ rec'[r].amount = n
        /\ rec'[r].created = clock /\ \A q \in Requests \ {r} : rec'[q] = rec[q]
    BY <1>1, <2>1 DEF Admitted
  <2>3. sub[x].status = "active" /\ clock < End[x]
    BY <1>1, <2>1 DEF Usable, LedgerInv, RowInv
  <2>4. QED
    BY <1>3, <2>0, <2>1, <2>2, <2>3 DEF Admits
<1>5. ASSUME NEW r \in Requests, NEW target \in 0 .. MaxAmount, NEW now \in ReadingsOf(r),
             settleSubscriptionPreConsume(r, target, now)
      PROVE  (\E x \in Subs, t \in Rows : Grows(r, x, t)) \/ Shrinks(r)
  <2>0. PICK x : x = rec[r].sub
    OBVIOUS
  <2>1. /\ now = clock /\ x \in Subs /\ r \in HeldBy(rec, x) /\ InTime(r)
        /\ sub[x].status # "gone"
        /\ target - rec[r].amount > 0 => MayGrow(x, Reset(x, sub[x], clock), r, target, clock)
        /\ rec' = [rec EXCEPT ![r].amount = target, ![r].updated = clock]
    BY <1>0, <1>2, <1>5, <2>0, SettleStep
  <2>2. /\ rec'[r].state = "consumed" /\ rec'[r].sub = x /\ rec'[r].amount = target
        /\ rec'[r].created = rec[r].created /\ rec[r].amount \in Nat /\ target \in Int
        /\ rec[r].state = "consumed" /\ \A q \in Requests \ {r} : rec'[q] = rec[q]
    BY <1>1, <2>1 DEF HeldBy, Records
  <2>3. CASE target - rec[r].amount > 0
    <3>1. MayGrow(x, Reset(x, sub[x], clock), r, rec'[r].amount, clock)
      BY <2>1, <2>2, <2>3
    <3>2. r \in HeldBy(rec', x)
      BY <2>2 DEF HeldBy
    <3>3. QED
      BY <1>3, <2>1, <2>2, <3>1, <3>2 DEF Grows, InTime
  <2>4. CASE ~(target - rec[r].amount > 0)
    <3>1. rec'[r].amount <= rec[r].amount
      BY <2>2, <2>4
    <3>2. QED
      BY <2>0, <2>2, <3>1 DEF Shrinks
  <2>5. QED
    BY <2>3, <2>4
<1>6. ASSUME NEW r \in Requests, NEW now \in ReadingsOf(r), RefundSubscriptionPreConsume(r, now)
      PROVE  Shrinks(r)
  <2>1. rec' = [rec EXCEPT ![r].state = "refunded", ![r].amount = 0, ![r].updated = clock]
    BY <1>0, <1>6, RefundStep
  <2>2. /\ rec'[r].state = "refunded" /\ rec'[r].sub = rec[r].sub /\ rec'[r].amount = 0
        /\ rec'[r].created = rec[r].created /\ rec[r].amount \in Nat
        /\ \A q \in Requests \ {r} : rec'[q] = rec[q]
    BY <1>1, <2>1 DEF Records
  <2>3. QED
    BY <2>2 DEF Shrinks
<1>7. ASSUME NEW x \in Subs, CleanupSubscriptionPreConsumeRecords(x) PROVE Quiet
  BY <1>0, <1>7, CleanupStep DEF Quiet
<1>8. ASSUME \/ \E x \in Subs : ResetDueSubscriptions(x)
             \/ ExpireDueSubscriptions
             \/ \E x \in Subs : AdminInvalidateUserSubscription(x)
                                \/ AdminDeleteUserSubscription(x)
             \/ Tick
             \/ UNCHANGED vars
      PROVE  Quiet
  <2>1. rec' = rec
    BY <1>8 DEF ResetDueSubscriptions, ExpireDueSubscriptions, AdminInvalidateUserSubscription,
                AdminDeleteUserSubscription, Tick, vars
  <2>2. QED
    BY <2>1 DEF Quiet
<1>9. QED
  BY <1>0, <1>4, <1>5, <1>6, <1>7, <1>8, NextCases

LEMMA PeriodStep ==
  ASSUME MaxLag = 0, RetentionCoversPeriods, QuotaInv, [Next]_vars,
         \A x \in Subs : PeriodInv(x, rec)
  PROVE  \A x \in Subs : PeriodInv(x, rec')
<1>1. /\ clock \in Start .. MaxTime /\ rec \in [Requests -> Records] /\ clock \in Nat
      /\ rec' \in [Requests -> Records] /\ \A r \in Requests : RecordInv(rec[r], clock)
  BY TypeStep, SubscriptionAssumption DEF QuotaInv, TypeInv
<1>2. SUFFICES ASSUME NEW y \in Subs PROVE PeriodInv(y, rec')
  OBVIOUS
<1>3. ASSUME NEW r \in Requests, NEW x \in Subs, NEW t \in Rows, Admits(r, x, t)
      PROVE  PeriodInv(y, rec')
  <2>1. CASE y = x
    <3>1. policyWeeklyLimit(x) > 0 => rec'[r].amount <= policyWeeklyLimit(x) - t.used
      BY <1>3 DEF Admits, Room
    <3>2. QED
      BY <1>1, <1>3, <2>1, <3>1, AdmitPeriod DEF Admits
  <2>2. CASE y # x
    <3>1. r \notin HeldBy(rec', y) /\ \A q \in Requests \ {r} : rec'[q] = rec[q]
      BY <1>3, <2>2 DEF Admits, HeldBy
    <3>2. QED
      BY <1>1, <3>1, QuietPeriod
  <2>3. QED
    BY <2>1, <2>2
<1>4. ASSUME NEW r \in Requests, NEW x \in Subs, NEW t \in Rows, Grows(r, x, t)
      PROVE  PeriodInv(y, rec')
  <2>1. CASE y = x
    BY <1>1, <1>4, <2>1, GrowPeriod DEF Grows
  <2>2. CASE y # x
    <3>1. r \notin HeldBy(rec', y) /\ \A q \in Requests \ {r} : rec'[q] = rec[q]
      BY <1>4, <2>2 DEF Grows, HeldBy
    <3>2. QED
      BY <1>1, <3>1, QuietPeriod
  <2>3. QED
    BY <2>1, <2>2
<1>5. ASSUME NEW r \in Requests, Shrinks(r) PROVE PeriodInv(y, rec')
  <2>1. /\ \A q \in Requests \ {r} : rec'[q] = rec[q]
        /\ r \in HeldBy(rec', y) => /\ r \in HeldBy(rec, y) /\ rec'[r].created = rec[r].created
                                    /\ rec'[r].amount <= rec[r].amount
    BY <1>5 DEF Shrinks, HeldBy
  <2>2. QED
    BY <1>1, <2>1, QuietPeriod
<1>6. ASSUME Quiet PROVE PeriodInv(y, rec')
  <2>1. HeldBy(rec', y) = HeldBy(rec, y)
    BY <1>6 DEF Quiet, HeldBy
  <2>2. ASSUME NEW c \in Nat PROVE Usage(rec', Together(rec', y, c)) = Usage(rec, Together(rec, y, c))
    <3>1. PICK S : S = Together(rec, y, c)
      OBVIOUS
    <3>2. Together(rec', y, c) = S /\ S \subseteq Requests
          /\ \A q \in S : rec[q].amount = rec'[q].amount
      BY <1>6, <2>1, <3>1 DEF Together, Quiet, HeldBy
    <3>3. Usage(rec, S) = Usage(rec', S)
      BY <1>1, <3>2, UsageSame
    <3>4. QED
      BY <3>1, <3>2, <3>3
  <2>3. QED
    BY <2>2 DEF PeriodInv
<1>7. QED
  BY <1>3, <1>4, <1>5, <1>6, RecordCases

\* No aggregate period is ever overspent, also by settlements that come after it ended,
\* when records outlive the requests of their period.
THEOREM PeriodsWithinLimit ==
  ASSUME MaxLag = 0, RetentionCoversPeriods
  PROVE  Spec => []PeriodWithinLimit
<1> DEFINE PInv == \A x \in Subs : PeriodInv(x, rec)
<1>1. Init => QuotaInv /\ PInv
  <2>1. ASSUME Init, NEW x \in Subs, NEW c \in Nat, policyWeeklyLimit(x) > 0
        PROVE  Usage(rec, Together(rec, x, c)) <= policyWeeklyLimit(x)
    <3>1. Together(rec, x, c) = {}
      BY <2>1 DEF Init, NoRecord, Together, HeldBy
    <3>2. Usage(rec, {}) = 0
      BY SumEmpty DEF Usage
    <3>3. QED
      BY <2>1, <3>1, <3>2, PolicyTypes
  <2>2. QED
    BY <2>1, QuotaInit DEF PeriodInv
<1>2. (QuotaInv /\ PInv) /\ [Next]_vars => (QuotaInv /\ PInv)'
  BY QuotaStep, PeriodStep
<1>3. QuotaInv /\ PInv => PeriodWithinLimit
  <2>1. ASSUME QuotaInv, PInv, NEW x \in Subs, policyWeeklyLimit(x) > 0, NEW r \in Held(x)
        PROVE  Sum({q \in Held(x) : SamePeriod(x, End[x], rec[r].created, rec[q].created)})
                 <= policyWeeklyLimit(x)
    <3>1. rec[r].created \in Nat
      BY <2>1 DEF QuotaInv, TypeInv, Records, Held
    <3>2. Usage(rec, Together(rec, x, rec[r].created)) <= policyWeeklyLimit(x)
      BY <2>1, <3>1 DEF PeriodInv
    <3>3. QED
      BY <3>2 DEF Usage, Together, HeldBy, Held, Sum
  <2>2. QED
    BY <2>1 DEF PeriodWithinLimit
<1>4. QED
  BY <1>1, <1>2, <1>3, PTL DEF Spec


(***************************************************************************)
(* No window is overspent.                                                 *)
(***************************************************************************)
\* The requests of x in the window of time t, whether or not their records were
\* cleaned up.
Within(rc, x, w, t) == {q \in HeldBy(rc, x) : InWindow(w, t, rc[q].created)}

WindowInv(x, rc) ==
  \A w \in quotaRecordBackedWindows(x), t \in Int : Usage(rc, Within(rc, x, w, t)) <= w.amount

\* Records outlive the requests that share a window with them.
RetentionCoversWindows ==
  \A x \in Subs : \A w \in quotaRecordBackedWindows(x) : w.len + MaxLife <= Retention + 1

LEMMA WindowTypes ==
  ASSUME NEW x \in Subs, NEW w \in quotaRecordBackedWindows(x)
  PROVE  /\ w.len \in Nat /\ w.amount \in Nat /\ w.anchor \in Int
         /\ w.mode = "rolling" \/ (w.mode = "calendar" /\ w.len \in Nat \ {0})
<1>1. policy(x) \in Policies
  BY PolicyTypes
<1>2. CASE policy(x).windows # {}
  <2>1. w \in Windows
    BY <1>1, <1>2 DEF quotaRecordBackedWindows, Policies
  <2>2. QED
    BY <2>1 DEF Windows
<1>3. CASE policy(x).windows = {}
  <2>1. w = FiveHourWindow(x)
    BY <1>3 DEF quotaRecordBackedWindows
  <2>2. policy(x).fiveHourSeconds \in Nat /\ policy(x).fiveHourAmount \in Nat
    BY <1>1 DEF Policies
  <2>3. QED
    BY <2>1, <2>2 DEF FiveHourWindow
<1>4. QED
  BY <1>2, <1>3

\* A window as its members see it: two of them are less than its length apart, and a
\* calendar window is the same for all of them.
LEMMA WindowIs ==
  ASSUME NEW x \in Subs, NEW w \in quotaRecordBackedWindows(x), NEW t \in Int,
         NEW c \in Int, InWindow(w, t, c)
  PROVE  /\ w.mode = "rolling" => t - w.len < c /\ c <= t
         /\ w.mode # "rolling" =>
              \A d \in Int : InWindow(w, c, d) <=> InWindow(w, t, d)
         /\ \A d \in Int : InWindow(w, t, d) => d < c + w.len /\ c < d + w.len
<1>1. w.len \in Nat /\ w.anchor \in Int
      /\ (w.mode = "rolling" \/ (w.mode = "calendar" /\ w.len \in Nat \ {0}))
  BY WindowTypes
<1>2. CASE w.mode = "rolling"
  BY <1>1, <1>2 DEF InWindow, WindowStart
<1>3. CASE w.mode = "calendar" /\ w.len \in Nat \ {0}
  <2> DEFINE a == t - w.anchor
             b == c - w.anchor
             p == w.len
             s == (a \div p) * p
  <2>1. a \in Int /\ b \in Int /\ p \in Nat \ {0}
    BY <1>1, <1>3
  <2>2. s \in Int
    BY <2>1
  <2>3. \A d \in Int : InWindow(w, t, d) <=> w.anchor + s <= d /\ d < (w.anchor + s) + p
    BY <1>3 DEF InWindow, WindowStart
  <2>4. \A d \in Int : InWindow(w, c, d) <=> w.anchor + ((b \div p) * p) <= d
                                             /\ d < (w.anchor + ((b \div p) * p)) + p
    BY <1>3 DEF InWindow, WindowStart
  <2>5. s <= b /\ b < s + p
    <3>1. w.anchor + s <= c /\ c < (w.anchor + s) + p
      BY <2>3
    <3> HIDE DEF s
    <3>2. QED
      BY <1>1, <2>1, <2>2, <3>1
  <2>6. (b \div p) * p = s
    <3> HIDE DEF a, b, p
    <3>1. QED
      BY <2>1, <2>5, BucketIs
  <2> HIDE DEF s, a, b
  <2>7. \A d \in Int : InWindow(w, c, d) <=> InWindow(w, t, d)
    BY <2>3, <2>4, <2>6
  <2>8. \A d \in Int : InWindow(w, t, d) => d < c + w.len /\ c < d + w.len
    BY <1>1, <2>1, <2>2, <2>3
  <2>9. QED
    BY <1>3, <2>7, <2>8
<1>4. QED
  BY <1>1, <1>2, <1>3

\* The times of a finite number of requests have a latest one.
LEMMA LatestOf ==
  ASSUME NEW rc \in [Requests -> Records], NEW S, S \subseteq Requests, S # {}
  PROVE  \E q \in S : \A p \in S : rc[p].created <= rc[q].created
<1> DEFINE T == {rc[q].created : q \in S}
           f == [q \in S |-> rc[q].created]
<1>1. IsFiniteSet(S) /\ \A q \in S : rc[q].created \in Int
  BY UsageType DEF Records
<1>2. f \in Surjection(S, T)
  BY DEF Surjection
<1>3. T \subseteq Int /\ T # {}
  BY <1>1
<1>4. \A p \in S : rc[p].created \in T
  OBVIOUS
<1>5. \A a \in T : \E q \in S : a = rc[q].created
  OBVIOUS
<1> HIDE DEF T, f
<1>6. IsFiniteSet(T)
  BY <1>1, <1>2, FS_Surjection
<1>7. Max(T) \in T /\ \A a \in T : Max(T) >= a
  BY <1>3, <1>6, MaxOfFinite
<1>8. PICK q \in S : Max(T) = rc[q].created
  BY <1>5, <1>7
<1>9. \A p \in S : rc[p].created <= rc[q].created
  BY <1>1, <1>4, <1>7, <1>8
<1>10. QED
  BY <1>9

LEMMA QuietWindow ==
  ASSUME NEW x \in Subs, NEW rc \in [Requests -> Records], NEW rd \in [Requests -> Records],
         NEW r \in Requests, \A q \in Requests \ {r} : rd[q] = rc[q],
         NEW w, NEW t, Usage(rc, Within(rc, x, w, t)) <= w.amount, w.amount \in Nat,
         r \in Within(rd, x, w, t) => r \in Within(rc, x, w, t) /\ rd[r].amount <= rc[r].amount
  PROVE  Usage(rd, Within(rd, x, w, t)) <= w.amount
<1> DEFINE S == Within(rc, x, w, t)
           R == Within(rd, x, w, t)
<1>1. S \subseteq Requests /\ R \subseteq Requests
  BY DEF Within, HeldBy
<1>2. (\A q \in Requests \ {r} : q \in S <=> q \in R)
      /\ (\A q \in S : q # r => rc[q].amount = rd[q].amount)
  BY <1>1 DEF Within, HeldBy
<1>3. (r \in R => r \in S /\ rd[r].amount <= rc[r].amount) /\ Usage(rc, S) <= w.amount
  OBVIOUS
<1> HIDE DEF S, R
<1>4. Usage(rd, R) <= Usage(rc, S) /\ Usage(rc, S) \in Nat /\ Usage(rd, R) \in Nat
  BY <1>1, <1>2, <1>3, UsageShrinks, UsageType
<1>5. Usage(rd, R) <= w.amount
  BY <1>3, <1>4
<1>6. QED
  BY <1>5 DEF R

\* A record that shares a window with a request that is admitted or still settles is
\* there to be counted.
LEMMA WindowFound ==
  ASSUME NEW x \in Subs, NEW w \in quotaRecordBackedWindows(x), RetentionCoversWindows,
         NEW now \in Nat, NEW rc \in [Requests -> Records],
         \A r \in Requests : RecordInv(rc[r], now), NEW q \in HeldBy(rc, x),
         NEW c \in Nat, now <= c + MaxLife, c < rc[q].created + w.len
  PROVE  ~rc[q].deleted /\ rc[q].created <= now
<1>1. /\ rc[q].created \in Nat /\ rc[q].updated \in Nat /\ rc[q].created <= rc[q].updated
      /\ rc[q].updated <= now /\ (rc[q].deleted => rc[q].updated < now - Retention)
  BY HeldTypes
<1>2. w.len \in Nat /\ w.len + MaxLife <= Retention + 1 /\ Retention \in Nat /\ MaxLife \in Nat
  BY WindowTypes, SubscriptionAssumption DEF RetentionCoversWindows
<1>3. ~(rc[q].updated < now - Retention)
  BY <1>1, <1>2
<1>4. QED
  BY <1>1, <1>3


\* An admission is in the windows that end now or later: what they hold is in the
\* window of now, which is what the code sums up.
LEMMA AdmitWindow ==
  ASSUME NEW x \in Subs, RetentionCoversWindows, clock \in Start .. MaxTime,
         rec \in [Requests -> Records], NEW rd \in [Requests -> Records],
         \A q \in Requests : RecordInv(rec[q], clock), WindowInv(x, rec),
         NEW r \in Requests, rec[r].state = "none", \A q \in Requests \ {r} : rd[q] = rec[q],
         rd[r].sub = x, rd[r].created = clock, NEW s, Room(x, s, rd[r].amount, clock)
  PROVE  WindowInv(x, rd)
<1>1. SUFFICES ASSUME NEW w \in quotaRecordBackedWindows(x), NEW t \in Int
               PROVE  Usage(rd, Within(rd, x, w, t)) <= w.amount
  BY DEF WindowInv
<1>2. w.amount \in Nat /\ w.len \in Nat /\ clock \in Nat /\ rd[r].amount \in Nat
      /\ MaxLife \in Nat
  BY WindowTypes, SubscriptionAssumption DEF Records
<1>3. Usage(rec, Within(rec, x, w, t)) <= w.amount
  BY DEF WindowInv
<1>4. CASE r \notin Within(rd, x, w, t)
  BY <1>2, <1>3, <1>4, QuietWindow
<1>5. CASE r \in Within(rd, x, w, t)
  <2> DEFINE R == Within(rd, x, w, t)
             V == {q \in Counted(x, clock) : InWindow(w, clock, rec[q].created)}
  <2>1. InWindow(w, t, clock)
    BY <1>5 DEF Within
  <2>2. ASSUME NEW q \in R, q # r PROVE q \in V /\ rd[q].amount = rec[q].amount
    <3>1. q \in HeldBy(rec, x) /\ InWindow(w, t, rec[q].created) /\ rd[q] = rec[q]
          /\ q \in Requests
      BY <2>2 DEF Within, HeldBy
    <3>2. rec[q].created \in Nat
      BY <3>1, HeldTypes
    <3>3. clock < rec[q].created + w.len
      BY <1>2, <2>1, <3>1, <3>2, WindowIs
    <3>4. ~rec[q].deleted /\ rec[q].created <= clock
      BY <1>2, <3>1, <3>3, WindowFound
    <3>5. InWindow(w, clock, rec[q].created)
      <4>1. CASE w.mode = "rolling"
        <5>1. t - w.len < clock /\ clock <= t /\ t - w.len < rec[q].created
          BY <1>2, <2>1, <3>1, <3>2, <4>1, WindowIs
        <5>2. QED
          BY <1>2, <3>2, <3>4, <4>1, <5>1 DEF InWindow, WindowStart
      <4>2. CASE w.mode # "rolling"
        BY <1>2, <2>1, <3>1, <3>2, <4>2, WindowIs
      <4>3. QED
        BY <4>1, <4>2
    <3>6. QED
      BY <3>1, <3>4, <3>5 DEF Counted, HeldBy
  <2>3. rd[r].amount + Usage(rec, V) <= w.amount
    <3>1. Usage(rec, V) + rd[r].amount <= w.amount
      BY DEF Room, recentSubscriptionWindowUsage, Usage, Sum
    <3>2. V \subseteq Requests
      BY DEF Counted
    <3> HIDE DEF V
    <3>3. Usage(rec, V) \in Nat
      BY <3>2, UsageType
    <3>4. QED
      BY <1>2, <3>1, <3>3
  <2>4. V \subseteq Requests /\ r \notin V /\ R \subseteq Requests /\ r \in R
    BY <1>5 DEF Counted, Within, HeldBy
  <2> HIDE DEF V, R
  <2>5. Usage(rd, R) <= w.amount
    BY <1>2, <2>2, <2>3, <2>4, UsageFits
  <2>6. QED
    BY <2>5 DEF R
<1>6. QED
  BY <1>4, <1>5

\* A settlement above the reservation: a window that holds the request holds no more
\* than the one that ends at the latest of its requests, and the code has summed up
\* that one.
LEMMA GrowWindow ==
  ASSUME NEW x \in Subs, RetentionCoversWindows, clock \in Start .. MaxTime,
         rec \in [Requests -> Records], NEW rd \in [Requests -> Records],
         \A q \in Requests : RecordInv(rec[q], clock), WindowInv(x, rec),
         NEW r \in HeldBy(rec, x), \A q \in Requests \ {r} : rd[q] = rec[q],
         rd[r].created = rec[r].created, clock <= rec[r].created + MaxLife,
         NEW s, MayGrow(x, s, r, rd[r].amount, clock)
  PROVE  WindowInv(x, rd)
<1>1. SUFFICES ASSUME NEW w \in quotaRecordBackedWindows(x), NEW t \in Int
               PROVE  Usage(rd, Within(rd, x, w, t)) <= w.amount
  BY DEF WindowInv
<1>0. r \in Requests /\ rec[r].created \in Nat
  BY HeldTypes
<1>2. w.amount \in Nat /\ w.len \in Nat /\ clock \in Nat /\ rd[r].amount \in Nat
  BY <1>0, WindowTypes, SubscriptionAssumption DEF Records
<1>3. Usage(rec, Within(rec, x, w, t)) <= w.amount
  BY DEF WindowInv
<1>4. CASE r \notin Within(rd, x, w, t)
  BY <1>0, <1>2, <1>3, <1>4, QuietWindow
<1>5. CASE r \in Within(rd, x, w, t)
  <2> DEFINE R == Within(rd, x, w, t)
             others == Counted(x, clock) \ {r}
             c == rec[r].created
             later == {rec[q].created : q \in others}
             ends == IF w.mode = "rolling"
                       THEN {c} \cup {e \in later : c <= e /\ e < c + w.len} ELSE {c}
             V(e) == {q \in others : InWindow(w, e, rec[q].created)}
  <2>1. InWindow(w, t, c)
    BY <1>5 DEF Within
  <2>2. \A e \in ends : rd[r].amount + Usage(rec, V(e)) <= w.amount
    BY DEF MayGrow, quotaWindowTargetAllowed, Usage, Sum
  <2>3. ASSUME NEW q \in R, q # r
        PROVE  q \in others /\ rd[q].amount = rec[q].amount /\ rec[q].created \in Nat
               /\ InWindow(w, t, rec[q].created)
    <3>1. q \in HeldBy(rec, x) /\ InWindow(w, t, rec[q].created) /\ rd[q] = rec[q]
          /\ q \in Requests
      BY <2>3 DEF Within, HeldBy
    <3>2. rec[q].created \in Nat
      BY <3>1, HeldTypes
    <3>3. c < rec[q].created + w.len
      BY <1>0, <1>2, <2>1, <3>1, <3>2, WindowIs
    <3>4. ~rec[q].deleted /\ rec[q].created <= clock
      BY <1>0, <1>2, <3>1, <3>3, WindowFound
    <3>5. QED
      BY <2>3, <3>1, <3>2, <3>4 DEF Counted, HeldBy
  <2>4. \E e \in ends : \A q \in R : q # r => InWindow(w, e, rec[q].created)
    <3>1. CASE w.mode # "rolling"
      BY <1>0, <2>1, <2>3, <3>1, WindowIs
    <3>2. CASE w.mode = "rolling"
      <4>1. R \subseteq Requests /\ R # {}
        BY <1>5 DEF Within, HeldBy
      <4>2. PICK z \in R : \A p \in R : rec[p].created <= rec[z].created
        <5> HIDE DEF R
        <5> QED
          BY <4>1, LatestOf
      <4>3. rec[z].created \in Nat /\ InWindow(w, t, rec[z].created) /\ c <= rec[z].created
        BY <1>0, <1>5, <2>1, <2>3, <4>2
      <4>4. rec[z].created <= t /\ t - w.len < c
        BY <1>0, <1>2, <2>1, <3>2, <4>3, WindowIs
      <4>5. rec[z].created < c + w.len
        BY <1>0, <1>2, <4>3, <4>4
      <4>6. rec[z].created \in ends
        <5>1. CASE z = r
          BY <3>2, <5>1
        <5>2. CASE z # r
          BY <2>3, <3>2, <4>2, <4>3, <4>5, <5>2
        <5>3. QED
          BY <5>1, <5>2
      <4>7. ASSUME NEW q \in R, q # r PROVE InWindow(w, rec[z].created, rec[q].created)
        <5>1. rec[q].created \in Nat /\ InWindow(w, t, rec[q].created)
              /\ rec[q].created <= rec[z].created
          BY <2>3, <4>2, <4>7
        <5>2. t - w.len < rec[q].created
          BY <3>2, <5>1, WindowIs
        <5>3. rec[z].created - w.len < rec[q].created
          BY <1>2, <4>3, <4>4, <5>1, <5>2
        <5>4. QED
          BY <3>2, <5>1, <5>3 DEF InWindow, WindowStart
      <4>8. QED
        BY <4>6, <4>7
    <3>3. QED
      BY <3>1, <3>2
  <2>5. PICK e \in ends : \A q \in R : q # r => InWindow(w, e, rec[q].created)
    BY <2>4
  <2>6. PICK S : S = V(e)
    OBVIOUS
  <2>7. S \subseteq Requests /\ r \notin S /\ R \subseteq Requests /\ r \in R
    BY <1>5, <2>6 DEF Counted, Within, HeldBy
  <2>8. \A q \in R : q # r => q \in S /\ rd[q].amount = rec[q].amount
    BY <2>3, <2>5, <2>6
  <2>9. rd[r].amount + Usage(rec, S) <= w.amount
    BY <2>2, <2>5, <2>6
  <2> HIDE DEF R
  <2>10. Usage(rd, R) <= w.amount
    BY <1>0, <1>2, <2>7, <2>8, <2>9, UsageFits
  <2>11. QED
    BY <2>10 DEF R
<1>6. QED
  BY <1>4, <1>5

LEMMA WindowStep ==
  ASSUME MaxLag = 0, RetentionCoversWindows, QuotaInv, [Next]_vars,
         \A x \in Subs : WindowInv(x, rec)
  PROVE  \A x \in Subs : WindowInv(x, rec')
<1>1. /\ clock \in Start .. MaxTime /\ rec \in [Requests -> Records]
      /\ rec' \in [Requests -> Records] /\ \A r \in Requests : RecordInv(rec[r], clock)
  BY TypeStep DEF QuotaInv, TypeInv
<1>2. SUFFICES ASSUME NEW y \in Subs PROVE WindowInv(y, rec')
  OBVIOUS
<1>3. ASSUME NEW r \in Requests, \A q \in Requests \ {r} : rec'[q] = rec[q],
             r \in HeldBy(rec', y) => /\ r \in HeldBy(rec, y) /\ rec'[r].created = rec[r].created
                                      /\ rec'[r].amount <= rec[r].amount
      PROVE  WindowInv(y, rec')
  <2>1. SUFFICES ASSUME NEW w \in quotaRecordBackedWindows(y), NEW t \in Int
                 PROVE  Usage(rec', Within(rec', y, w, t)) <= w.amount
    BY DEF WindowInv
  <2>2. Usage(rec, Within(rec, y, w, t)) <= w.amount /\ w.amount \in Nat
    BY WindowTypes DEF WindowInv
  <2>3. r \in Within(rec', y, w, t) =>
          r \in Within(rec, y, w, t) /\ rec'[r].amount <= rec[r].amount
    BY <1>3 DEF Within
  <2>4. QED
    BY <1>1, <1>3, <2>2, <2>3, QuietWindow
<1>4. ASSUME NEW r \in Requests, NEW x \in Subs, NEW t \in Rows, Admits(r, x, t)
      PROVE  WindowInv(y, rec')
  <2>1. CASE y = x
    BY <1>1, <1>4, <2>1, AdmitWindow DEF Admits
  <2>2. CASE y # x
    BY <1>3, <1>4, <2>2 DEF Admits, HeldBy
  <2>3. QED
    BY <2>1, <2>2
<1>5. ASSUME NEW r \in Requests, NEW x \in Subs, NEW t \in Rows, Grows(r, x, t)
      PROVE  WindowInv(y, rec')
  <2>1. CASE y = x
    BY <1>1, <1>5, <2>1, GrowWindow DEF Grows
  <2>2. CASE y # x
    BY <1>3, <1>5, <2>2 DEF Grows, HeldBy
  <2>3. QED
    BY <2>1, <2>2
<1>6. ASSUME NEW r \in Requests, Shrinks(r) PROVE WindowInv(y, rec')
  BY <1>3, <1>6 DEF Shrinks, HeldBy
<1>7. ASSUME Quiet PROVE WindowInv(y, rec')
  <2>1. HeldBy(rec', y) = HeldBy(rec, y)
    BY <1>7 DEF Quiet, HeldBy
  <2>2. ASSUME NEW w \in quotaRecordBackedWindows(y), NEW t \in Int
        PROVE  Usage(rec', Within(rec', y, w, t)) = Usage(rec, Within(rec, y, w, t))
    <3>1. PICK S : S = Within(rec, y, w, t)
      OBVIOUS
    <3>2. Within(rec', y, w, t) = S /\ S \subseteq Requests
          /\ \A q \in S : rec[q].amount = rec'[q].amount
      BY <1>7, <2>1, <3>1 DEF Within, Quiet, HeldBy
    <3>3. Usage(rec, S) = Usage(rec', S)
      BY <1>1, <3>2, UsageSame
    <3>4. QED
      BY <3>1, <3>2, <3>3
  <2>3. QED
    BY <2>2 DEF WindowInv
<1>8. QED
  BY <1>4, <1>5, <1>6, <1>7, RecordCases

\* No rolling or calendar window is ever overspent, by no sequence of admissions, late
\* settlements, refunds and clean-ups, when records outlive the requests that share a
\* window with them.
THEOREM WindowsWithinLimit ==
  ASSUME MaxLag = 0, RetentionCoversWindows
  PROVE  Spec => []WindowWithinLimit
<1> DEFINE WInv == \A x \in Subs : WindowInv(x, rec)
<1>1. Init => QuotaInv /\ WInv
  <2>1. ASSUME Init, NEW x \in Subs, NEW w \in quotaRecordBackedWindows(x), NEW t \in Int
        PROVE  Usage(rec, Within(rec, x, w, t)) <= w.amount
    <3>1. Within(rec, x, w, t) = {}
      BY <2>1 DEF Init, NoRecord, Within, HeldBy
    <3>2. Usage(rec, {}) = 0
      BY SumEmpty DEF Usage
    <3>3. QED
      BY <3>1, <3>2, WindowTypes
  <2>2. QED
    BY <2>1, QuotaInit DEF WindowInv
<1>2. (QuotaInv /\ WInv) /\ [Next]_vars => (QuotaInv /\ WInv)'
  BY QuotaStep, WindowStep
<1>3. QuotaInv /\ WInv => WindowWithinLimit
  <2>1. ASSUME QuotaInv, WInv, NEW x \in Subs, NEW w \in quotaRecordBackedWindows(x),
               NEW t \in Start .. clock
        PROVE  Sum({q \in Held(x) : InWindow(w, t, rec[q].created)}) <= w.amount
    <3>1. t \in Int
      OBVIOUS
    <3>2. Usage(rec, Within(rec, x, w, t)) <= w.amount
      BY <2>1, <3>1 DEF WindowInv
    <3>3. QED
      BY <3>2 DEF Usage, Within, HeldBy, Held, Sum
  <2>2. QED
    BY <2>1 DEF WindowWithinLimit
<1>4. QED
  BY <1>1, <1>2, <1>3, PTL DEF Spec
=============================================================================
