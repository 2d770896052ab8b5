--------------------------- MODULE RequestProofs ----------------------------
(***************************************************************************)
(* Proofs about what stands around a request: the limits that admit it and *)
(* the billing session that charges for it.                                *)
(***************************************************************************)
EXTENDS ModelRateLimit, BillingSession, FiniteSetTheorems, TLAPS

(***************************************************************************)
(* WindowRespected and RefusalJustified for any keys, limits, periods and  *)
(* any length of time.                                                     *)
(*                                                                         *)
(* A queue is the newest part of its key's history.  What is no longer in  *)
(* it either was pushed out by a full queue, or was swept; in the second   *)
(* case the queue may be short, and everything swept is older than the     *)
(* sweep's period and so than the key's.  The lemmas say this of one       *)
(* queue q with history g at time t, for a limit L and a period d.         *)
(*                                                                         *)
(* The handlers of model requests use the limiter and nothing else of it,  *)
(* so they implement it.  Their list in Redis is the newest part of the    *)
(* successes, up to those that are being recorded, and SuccessOvershoot    *)
(* follows from the room that requests in flight leave.                    *)
(***************************************************************************)
\* The queue holds the newest grants, at most the limit of them.
QueueIsNewest(q, g, L) ==
  /\ Len(q) <= L
  /\ Len(q) <= Len(g)
  /\ \A i \in 1 .. Len(q) : q[i] = g[Len(g) - Len(q) + i]

\* The history is in the order of time.
InOrder(g, t) ==
  /\ \A i \in 1 .. Len(g) : g[i] <= t
  /\ \A i, j \in 1 .. Len(g) : i <= j => g[i] <= g[j]

\* A queue with room has forgotten only grants that left the window.
ForgottenIsOld(q, g, t, L, d) ==
  Len(q) < L /\ Len(q) < Len(g) => t - g[Len(g) - Len(q)] >= d

WindowOf(g, L, d) ==
  \A i \in 1 .. Len(g) - L : g[i + L] - g[i] >= d

KeyOK(q, g, t, L, d) ==
  /\ QueueIsNewest(q, g, L)
  /\ InOrder(g, t)
  /\ ForgottenIsOld(q, g, t, L, d)
  /\ WindowOf(g, L, d)

KeyInv(k) == KeyOK(store[k], granted[k], now, maxRequestNum[k], duration[k])

LimiterInv == LimiterTypeOK /\ \A k \in Keys : KeyInv(k)

-----------------------------------------------------------------------------
\* What is a period older than the present is so for everything before it.
LEMMA OlderStill ==
  ASSUME NEW a \in Nat, NEW b \in Nat, NEW t \in Nat, NEW d \in Nat,
         a <= b, t - b >= d
  PROVE  t - a >= d
OBVIOUS

\* A window of a history with one more entry ends before that entry or at it.
LEMMA LastOrBefore ==
  ASSUME NEW n \in Nat, NEW L \in Nat, NEW i \in 1 .. (n + 1) - L
  PROVE  i + L <= n \/ i + L = n + 1
OBVIOUS

\* A history stays in order when the present is appended to it.
LEMMA GrantInOrder ==
  ASSUME NEW g \in Seq(Nat), NEW h \in Seq(Nat), NEW t \in Nat, InOrder(g, t),
         Len(h) = Len(g) + 1, h[Len(g) + 1] = t,
         \A i \in 1 .. Len(g) : h[i] = g[i]
  PROVE  InOrder(h, t)
<1>1. Len(g) \in Nat
  OBVIOUS
<1>2. ASSUME NEW i \in 1 .. Len(h) PROVE h[i] <= t
  <2>1. CASE i \in 1 .. Len(g)
    <3>1. h[i] = g[i] /\ g[i] <= t
      BY <2>1 DEF InOrder
    <3> QED BY <3>1
  <2>2. CASE i = Len(g) + 1
    BY <2>2
  <2> QED BY <1>1, <2>1, <2>2
<1>3. ASSUME NEW i \in 1 .. Len(h), NEW j \in 1 .. Len(h), i <= j
      PROVE  h[i] <= h[j]
  <2>1. CASE i \in 1 .. Len(g) /\ j \in 1 .. Len(g)
    <3>1. h[i] = g[i] /\ h[j] = g[j] /\ g[i] <= g[j]
      BY <1>3, <2>1 DEF InOrder
    <3> QED BY <3>1
  <2>2. CASE j = Len(g) + 1
    <3>1. h[j] = t /\ h[i] <= t
      BY <1>2, <2>2
    <3> QED BY <3>1
  <2>3. (i \in 1 .. Len(g) /\ j \in 1 .. Len(g)) \/ j = Len(g) + 1
    BY <1>1, <1>3
  <2> QED BY <2>1, <2>2, <2>3
<1> QED BY <1>2, <1>3 DEF InOrder

\* A grant to a queue with room keeps what the invariant says of the key:
\* what was forgotten is older than the period, so the window holds.
LEMMA GrantWithRoom ==
  ASSUME NEW q \in Seq(Nat), NEW g \in Seq(Nat), NEW t \in Nat,
         NEW L \in Nat \ {0}, NEW d \in Nat,
         KeyOK(q, g, t, L, d), Len(q) < L
  PROVE  KeyOK(Append(q, t), Append(g, t), t, L, d)
<1> DEFINE p == Append(q, t)
<1> DEFINE h == Append(g, t)
<1>1. /\ p \in Seq(Nat) /\ Len(p) = Len(q) + 1 /\ p[Len(q) + 1] = t
      /\ \A i \in 1 .. Len(q) : p[i] = q[i]
  OBVIOUS
<1>2. /\ h \in Seq(Nat) /\ Len(h) = Len(g) + 1 /\ h[Len(g) + 1] = t
      /\ \A i \in 1 .. Len(g) : h[i] = g[i] /\ g[i] \in Nat
  OBVIOUS
<1>3. Len(q) \in Nat /\ Len(g) \in Nat
  OBVIOUS
<1> HIDE DEF p, h
<1>0. Len(p) = Len(q) + 1 /\ Len(h) = Len(g) + 1 /\ Len(q) <= Len(g)
  BY <1>1, <1>2 DEF KeyOK, QueueIsNewest
<1>4. QueueIsNewest(p, h, L)
  <2> SUFFICES ASSUME NEW i \in 1 .. Len(p) PROVE p[i] = h[Len(h) - Len(p) + i]
    <3>1. Len(p) <= L /\ Len(p) <= Len(h)
      BY <1>0, <1>3
    <3> QED BY <3>1 DEF QueueIsNewest
  <2>1. CASE i = Len(q) + 1
    <3>1. Len(h) - Len(p) + i = Len(g) + 1
      BY <1>0, <1>3, <2>1
    <3> QED BY <1>1, <1>2, <2>1, <3>1
  <2>2. CASE i \in 1 .. Len(q)
    <3>1. Len(h) - Len(p) + i = Len(g) - Len(q) + i
      BY <1>0, <1>3
    <3>2. Len(g) - Len(q) + i \in 1 .. Len(g)
      BY <1>0, <1>3, <2>2
    <3>3. q[i] = g[Len(g) - Len(q) + i]
      BY <2>2 DEF KeyOK, QueueIsNewest
    <3> QED BY <1>1, <1>2, <2>2, <3>1, <3>2, <3>3
  <2> QED BY <1>0, <1>3, <2>1, <2>2
<1>5. InOrder(h, t)
  BY <1>2, GrantInOrder DEF KeyOK
<1>6. ForgottenIsOld(p, h, t, L, d)
  <2> SUFFICES ASSUME Len(p) < Len(h)
               PROVE  t - h[Len(h) - Len(p)] >= d
    BY DEF ForgottenIsOld
  <2>1. Len(h) - Len(p) = Len(g) - Len(q) /\ Len(g) - Len(q) \in 1 .. Len(g)
    BY <1>0, <1>3
  <2>2. t - g[Len(g) - Len(q)] >= d
    BY <1>0, <1>3, <2>1 DEF KeyOK, ForgottenIsOld
  <2> QED BY <1>2, <2>1, <2>2
<1>7. WindowOf(h, L, d)
  <2> SUFFICES ASSUME NEW i \in 1 .. Len(h) - L PROVE h[i + L] - h[i] >= d
    BY DEF WindowOf
  <2>1. CASE i + L <= Len(g)
    <3>1. i \in 1 .. Len(g) - L /\ i \in 1 .. Len(g) /\ i + L \in 1 .. Len(g)
      BY <1>3, <2>1
    <3>2. g[i + L] - g[i] >= d
      BY <3>1 DEF KeyOK, WindowOf
    <3> QED BY <1>2, <3>1, <3>2
  <2>2. CASE i + L = Len(g) + 1
    <3>1. /\ Len(g) - Len(q) \in 1 .. Len(g) /\ i \in 1 .. Len(g)
          /\ i <= Len(g) - Len(q) /\ Len(q) < Len(g)
      BY <1>3, <2>2 DEF KeyOK, QueueIsNewest
    <3>2. g[i] <= g[Len(g) - Len(q)]
      BY <3>1 DEF KeyOK, InOrder
    <3>3. t - g[Len(g) - Len(q)] >= d
      BY <3>1 DEF KeyOK, ForgottenIsOld
    <3>4. g[i] \in Nat /\ g[Len(g) - Len(q)] \in Nat /\ h[i] = g[i] /\ h[i + L] = t
      BY <1>2, <2>2, <3>1
    <3>5. t - g[i] >= d
      BY <3>2, <3>3, <3>4, OlderStill
    <3> QED BY <3>4, <3>5
  <2>3. i + L <= Len(g) \/ i + L = Len(g) + 1
    <3>1. i \in 1 .. (Len(g) + 1) - L
      BY <1>0
    <3> QED BY <3>1, <1>3, LastOrBefore
  <2> QED BY <2>1, <2>2, <2>3
<1>8. KeyOK(p, h, t, L, d)
  BY <1>4, <1>5, <1>6, <1>7 DEF KeyOK
<1> QED BY <1>8 DEF p, h

\* A grant to a full queue whose oldest entry has left the window keeps what
\* the invariant says of the key.
LEMMA GrantWhenFull ==
  ASSUME NEW q \in Seq(Nat), NEW g \in Seq(Nat), NEW t \in Nat,
         NEW L \in Nat \ {0}, NEW d \in Nat,
         KeyOK(q, g, t, L, d), Len(q) = L, t - Head(q) >= d
  PROVE  KeyOK(Append(Tail(q), t), Append(g, t), t, L, d)
<1> DEFINE p == Append(Tail(q), t)
<1> DEFINE h == Append(g, t)
<1>0. Len(q) \in Nat /\ Len(g) \in Nat /\ Len(q) <= Len(g) /\ Len(q) >= 1
  BY DEF KeyOK, QueueIsNewest
<1>1. /\ p \in Seq(Nat) /\ Len(p) = Len(q) /\ p[Len(q)] = t
      /\ \A i \in 1 .. Len(q) - 1 : p[i] = q[i + 1]
  <2>1. /\ Tail(q) \in Seq(Nat) /\ Len(Tail(q)) = Len(q) - 1
        /\ \A i \in 1 .. Len(q) - 1 : Tail(q)[i] = q[i + 1]
    BY <1>0
  <2> QED BY <1>0, <2>1
<1>2. /\ h \in Seq(Nat) /\ Len(h) = Len(g) + 1 /\ h[Len(g) + 1] = t
      /\ \A i \in 1 .. Len(g) : h[i] = g[i] /\ g[i] \in Nat
  OBVIOUS
<1>3. t - g[Len(g) - L + 1] >= d /\ Len(g) - L + 1 \in 1 .. Len(g)
  <2>1. Head(q) = q[1] /\ 1 \in 1 .. Len(q) /\ Len(g) - L + 1 \in 1 .. Len(g)
    BY <1>0
  <2>2. q[1] = g[Len(g) - Len(q) + 1]
    BY <2>1 DEF KeyOK, QueueIsNewest
  <2> QED BY <2>1, <2>2
<1> HIDE DEF p, h
<1>4. QueueIsNewest(p, h, L)
  <2> SUFFICES ASSUME NEW i \in 1 .. Len(p) PROVE p[i] = h[Len(h) - Len(p) + i]
    BY <1>0, <1>1, <1>2 DEF QueueIsNewest
  <2>1. CASE i = Len(q)
    BY <1>0, <1>1, <1>2, <2>1
  <2>2. CASE i < Len(q)
    <3>1. i + 1 \in 1 .. Len(q) /\ p[i] = q[i + 1]
      BY <1>0, <1>1, <2>2
    <3>2. q[i + 1] = g[Len(g) - Len(q) + (i + 1)]
      BY <3>1 DEF KeyOK, QueueIsNewest
    <3>3. /\ Len(h) - Len(p) + i = Len(g) - Len(q) + (i + 1)
          /\ Len(g) - Len(q) + (i + 1) \in 1 .. Len(g)
      BY <1>0, <1>1, <1>2, <2>2
    <3> QED BY <1>2, <3>1, <3>2, <3>3
  <2> QED BY <1>0, <1>1, <2>1, <2>2
<1>5. InOrder(h, t)
  BY <1>2, GrantInOrder DEF KeyOK
<1>6. ForgottenIsOld(p, h, t, L, d)
  BY <1>0, <1>1 DEF ForgottenIsOld
<1>7. WindowOf(h, L, d)
  <2> SUFFICES ASSUME NEW i \in 1 .. Len(h) - L PROVE h[i + L] - h[i] >= d
    BY DEF WindowOf
  <2>0. Len(h) = Len(g) + 1
    BY <1>2
  <2>1. CASE i + L <= Len(g)
    <3>1. i \in 1 .. Len(g) - L /\ i \in 1 .. Len(g) /\ i + L \in 1 .. Len(g)
      BY <1>0, <2>1
    <3>2. g[i + L] - g[i] >= d
      BY <3>1 DEF KeyOK, WindowOf
    <3> QED BY <1>2, <3>1, <3>2
  <2>2. CASE i + L = Len(g) + 1
    <3>1. i = Len(g) - L + 1
      BY <1>0, <2>2
    <3> QED BY <1>0, <1>2, <1>3, <2>2, <3>1
  <2>3. i + L <= Len(g) \/ i + L = Len(g) + 1
    <3>1. i \in 1 .. (Len(g) + 1) - L
      BY <2>0
    <3> QED BY <3>1, <1>0, LastOrBefore
  <2> QED BY <2>1, <2>2, <2>3
<1>8. KeyOK(p, h, t, L, d)
  BY <1>4, <1>5, <1>6, <1>7 DEF KeyOK
<1> QED BY <1>8 DEF p, h

\* A sweep that finds the newest entry older than the period forgets only
\* grants that left the window.
LEMMA SweepKeeps ==
  ASSUME NEW q \in Seq(Nat), NEW g \in Seq(Nat), NEW t \in Nat,
         NEW L \in Nat \ {0}, NEW d \in Nat,
         KeyOK(q, g, t, L, d), q # <<>>, t - q[Len(q)] >= d
  PROVE  KeyOK(<<>>, g, t, L, d)
<1>1. Len(q) \in Nat /\ Len(g) \in Nat /\ Len(q) <= Len(g) /\ Len(q) >= 1
  BY DEF KeyOK, QueueIsNewest
<1>2. q[Len(q)] = g[Len(g)]
  <2>1. Len(q) \in 1 .. Len(q) /\ Len(g) - Len(q) + Len(q) = Len(g)
    BY <1>1
  <2>2. q[Len(q)] = g[Len(g) - Len(q) + Len(q)]
    BY <2>1 DEF KeyOK, QueueIsNewest
  <2> QED BY <2>1, <2>2
<1>3. QueueIsNewest(<<>>, g, L)
  BY <1>1 DEF QueueIsNewest
<1>4. ForgottenIsOld(<<>>, g, t, L, d)
  <2>1. Len(<<>>) = 0 /\ Len(g) - 0 = Len(g)
    BY <1>1
  <2> QED BY <1>2, <2>1 DEF ForgottenIsOld
<1> QED BY <1>3, <1>4 DEF KeyOK

\* Time passing keeps what the invariant says of a key.
LEMMA TimeKeeps ==
  ASSUME NEW q \in Seq(Nat), NEW g \in Seq(Nat), NEW t \in Nat,
         NEW L \in Nat \ {0}, NEW d \in Nat, KeyOK(q, g, t, L, d)
  PROVE  KeyOK(q, g, t + 1, L, d)
<1>1. \A i \in 1 .. Len(g) : g[i] \in Nat
  OBVIOUS
<1>2. InOrder(g, t + 1)
  BY <1>1 DEF KeyOK, InOrder
<1>3. ForgottenIsOld(q, g, t + 1, L, d)
  <2> SUFFICES ASSUME Len(q) < L, Len(q) < Len(g)
               PROVE  t + 1 - g[Len(g) - Len(q)] >= d
    BY DEF ForgottenIsOld
  <2>1. Len(g) - Len(q) \in 1 .. Len(g)
    OBVIOUS
  <2>2. t - g[Len(g) - Len(q)] >= d
    BY DEF KeyOK, ForgottenIsOld
  <2>3. g[Len(g) - Len(q)] \in Nat
    BY <1>1, <2>1
  <2> QED BY <2>2, <2>3
<1> QED BY <1>2, <1>3 DEF KeyOK

\* What the assumption and the types say of one key.
LEMMA KeyTypes ==
  ASSUME LimiterTypeOK, NEW k \in Keys
  PROVE  /\ now \in Nat /\ store[k] \in Seq(Nat) /\ granted[k] \in Seq(Nat)
         /\ maxRequestNum[k] \in Nat \ {0} /\ duration[k] \in Nat
         /\ expirationDuration \in Nat /\ duration[k] <= expirationDuration
BY LimiterAssumption DEF LimiterTypeOK

-----------------------------------------------------------------------------
\* The inductive invariant of the limiter: types, and for each key a queue
\* that is the newest part of an ordered history with nothing recent missing.
THEOREM LimiterInvariant == LimiterSpec => []LimiterInv
<1>1. LimiterInit => LimiterInv
  <2> SUFFICES ASSUME LimiterInit PROVE LimiterInv
    OBVIOUS
  <2>1. LimiterTypeOK
    BY DEF LimiterInit, LimiterTypeOK
  <2>2. ASSUME NEW k \in Keys PROVE KeyInv(k)
    <3>1. store[k] = <<>> /\ granted[k] = <<>> /\ maxRequestNum[k] \in Nat
      BY LimiterAssumption DEF LimiterInit
    <3> QED
      BY <3>1
      DEF KeyInv, KeyOK, QueueIsNewest, InOrder, ForgottenIsOld, WindowOf
  <2> QED BY <2>1, <2>2 DEF LimiterInv
<1>2. LimiterInv /\ [LimiterNext]_limiterVars => LimiterInv'
  <2> SUFFICES ASSUME LimiterInv, [LimiterNext]_limiterVars PROVE LimiterInv'
    OBVIOUS
  <2>0. LimiterTypeOK /\ \A k \in Keys : KeyInv(k)
    BY DEF LimiterInv
  <2>1. ASSUME NEW k \in Keys, Allows(k), Grant(k) PROVE LimiterInv'
    <3>1. /\ store' = [store EXCEPT ![k] = Pushed(k)]
          /\ granted' = [granted EXCEPT ![k] = Append(granted[k], now)]
          /\ now' = now
      BY <2>1 DEF Grant
    <3>2. /\ Pushed(k) \in Seq(Nat) /\ Append(granted[k], now) \in Seq(Nat)
          /\ KeyOK(Pushed(k), Append(granted[k], now), now, maxRequestNum[k],
                   duration[k])
      <4>1. KeyOK(store[k], granted[k], now, maxRequestNum[k], duration[k])
        BY <2>0 DEF KeyInv
      <4>2. CASE Len(store[k]) < maxRequestNum[k]
        BY <2>0, <4>1, <4>2, KeyTypes, GrantWithRoom DEF Pushed
      <4>3. CASE ~(Len(store[k]) < maxRequestNum[k])
        <5>1. Len(store[k]) = maxRequestNum[k] /\ Tail(store[k]) \in Seq(Nat)
          BY <2>0, <4>1, <4>3, KeyTypes DEF KeyOK, QueueIsNewest
        <5>2. now - Head(store[k]) >= duration[k]
          BY <2>0, <2>1, <5>1, KeyTypes DEF Allows
        <5> QED BY <2>0, <4>1, <4>3, <5>1, <5>2, KeyTypes, GrantWhenFull DEF Pushed
      <4> QED BY <4>2, <4>3
    <3>3. LimiterTypeOK'
      BY <2>0, <3>1, <3>2 DEF LimiterTypeOK
    <3>4. KeyInv(k)'
      <4>1. store'[k] = Pushed(k) /\ granted'[k] = Append(granted[k], now)
        BY <2>0, <3>1 DEF LimiterTypeOK
      <4> QED BY <3>1, <3>2, <4>1 DEF KeyInv
    <3>5. ASSUME NEW j \in Keys, j # k PROVE KeyInv(j)'
      <4>1. store'[j] = store[j] /\ granted'[j] = granted[j]
        BY <2>0, <3>1, <3>5 DEF LimiterTypeOK
      <4> QED BY <2>0, <3>1, <4>1 DEF KeyInv
    <3> QED BY <3>3, <3>4, <3>5 DEF LimiterInv
  <2>2. CASE clearExpiredItems
    <3>1. LimiterTypeOK'
      BY <2>0, <2>2 DEF clearExpiredItems, LimiterTypeOK
    <3>2. ASSUME NEW k \in Keys PROVE KeyInv(k)'
      <4>1. now' = now /\ granted' = granted
        BY <2>2 DEF clearExpiredItems
      <4>2. CASE ~Stale(k)
        <5>1. store'[k] = store[k]
          BY <2>2, <4>2 DEF clearExpiredItems
        <5> QED BY <2>0, <4>1, <5>1 DEF KeyInv
      <4>3. CASE Stale(k)
        <5>1. store'[k] = <<>>
          BY <2>2, <4>3 DEF clearExpiredItems
        <5>2. now - store[k][Len(store[k])] >= duration[k]
          <6>1. store[k][Len(store[k])] \in Nat
            BY <2>0, <4>3, KeyTypes DEF Stale
          <6> QED BY <2>0, <4>3, <6>1, KeyTypes DEF Stale
        <5>3. KeyOK(<<>>, granted[k], now, maxRequestNum[k], duration[k])
          BY <2>0, <4>3, <5>2, KeyTypes, SweepKeeps DEF Stale, KeyInv
        <5> QED BY <4>1, <5>1, <5>3 DEF KeyInv
      <4> QED BY <4>2, <4>3
    <3> QED BY <3>1, <3>2 DEF LimiterInv
  <2>3. CASE Tick
    <3>1. now' = now + 1 /\ store' = store /\ granted' = granted
      BY <2>3 DEF Tick
    <3>2. LimiterTypeOK'
      BY <2>0, <3>1 DEF LimiterTypeOK
    <3>3. ASSUME NEW k \in Keys PROVE KeyInv(k)'
      BY <2>0, <3>1, KeyTypes, TimeKeeps DEF KeyInv
    <3> QED BY <3>2, <3>3 DEF LimiterInv
  <2>4. CASE UNCHANGED limiterVars
    BY <2>0, <2>4 DEF limiterVars, LimiterInv, LimiterTypeOK, KeyInv
  <2> QED BY <2>1, <2>2, <2>3, <2>4 DEF LimiterNext, Request
<1> QED BY <1>1, <1>2, PTL DEF LimiterSpec

\* For all keys, limits, periods not longer than the sweep's, and any
\* history: no period of a key sees more grants than its limit.
THEOREM WindowIsRespected == LimiterSpec => []WindowRespected
<1>1. LimiterInv => WindowRespected
  BY DEF LimiterInv, KeyInv, KeyOK, WindowOf, WindowRespected
<1> QED BY <1>1, LimiterInvariant, PTL

\* For all keys, limits and periods: Request refuses a key only while a full
\* limit of its grants is younger than its period.
THEOREM RefusalIsJustified == LimiterSpec => []RefusalJustified
<1>1. ASSUME NEW q \in Seq(Nat), NEW g \in Seq(Nat), NEW t \in Nat,
             NEW L \in Nat \ {0}, NEW d \in Nat,
             KeyOK(q, g, t, L, d), ~(Len(q) >= L => t - Head(q) >= d)
      PROVE  Len(g) >= L /\ t - g[Len(g) - L + 1] < d
  <2>1. Len(q) = L /\ 1 \in 1 .. Len(q) /\ Head(q) = q[1] /\ Len(g) >= L
    BY <1>1 DEF KeyOK, QueueIsNewest
  <2>2. q[1] = g[Len(g) - Len(q) + 1] /\ q[1] \in Nat
    BY <1>1, <2>1 DEF KeyOK, QueueIsNewest
  <2> QED BY <1>1, <2>1, <2>2
<1>2. LimiterInv => RefusalJustified
  <2> SUFFICES ASSUME LimiterInv, NEW k \in Keys, ~Allows(k)
               PROVE  /\ Len(granted[k]) >= maxRequestNum[k]
                      /\ now - granted[k][Len(granted[k]) - maxRequestNum[k] + 1]
                           < duration[k]
    BY DEF RefusalJustified
  <2> QED BY <1>1, KeyTypes DEF LimiterInv, KeyInv, Allows
<1> QED BY <1>2, LimiterInvariant, PTL

-----------------------------------------------------------------------------
(* The handlers of ModelRateLimit                                          *)

Steps == {"idle", "check", "running", "oldest", "renew", "bucket", "push",
          "trim", "expire"}

\* Which steps a handler takes depends on which of the two is installed.
HandlerTypeOK ==
  /\ at \in [Handlers -> Steps]
  /\ list \in Seq(Nat) /\ expiry \in Int /\ successes \in Seq(Nat)
  /\ RedisEnabled \in BOOLEAN
  /\ \A r \in Handlers : IF RedisEnabled THEN at[r] # "check"
                         ELSE at[r] \in {"idle", "check", "running"}

\* Handlers that passed the check of the success limit and have not recorded.
InFlight == {r \in Handlers : at[r] \in {"bucket", "running", "push"}}
\* Handlers whose record may still have to be trimmed off the list.
Trimming == {r \in Handlers : at[r] = "trim"}

NewestFirst(e, g) ==
  /\ Len(e) <= Len(g)
  /\ \A j \in 1 .. Len(e) : e[j] = g[Len(g) + 1 - j]

\* The list holds the newest successes, newest first; it is longer than the
\* limit only while a record waits for its LTRIM.
ListIsNewest ==
  /\ NewestFirst(Entries, successes)
  /\ Len(Entries) <= successMaxCount + Cardinality(Trimming)

\* A list with room has forgotten only successes that left the period.
ListForgetsOld ==
  Len(Entries) < successMaxCount =>
    \A i \in 1 .. Len(successes) - Len(Entries) : now - successes[i] >= period

\* Between records the key outlives the period of its newest success.
ExpiryIsLate ==
  Entries # <<>> /\ expiry # Forever
    /\ (\A r \in Handlers : at[r] \notin {"trim", "expire"}) =>
    \A i \in 1 .. Len(successes) : successes[i] + period <= expiry

\* The recent successes from any one on, with those still in flight.
RoomForFlight ==
  \A i \in 1 .. Len(successes) : now - successes[i] < period =>
    Len(successes) - i + 1 + Cardinality(InFlight)
      <= successMaxCount + Cardinality(Handlers) - 1

MostInPeriod ==
  LET most == successMaxCount + Cardinality(Handlers) - 1
  IN WindowOf(successes, most, period)

SuccessInv ==
  RedisEnabled =>
    /\ InOrder(successes, now)
    /\ ListIsNewest /\ ListForgetsOld /\ ExpiryIsLate /\ RoomForFlight
    /\ MostInPeriod

MemoryTotalInv == ~RedisEnabled => admitted = granted["total"]

-----------------------------------------------------------------------------
\* The limits of one user are natural numbers and his period is not zero.
LEMMA UserLimits ==
  /\ successMaxCount \in Nat \ {0} /\ totalMaxCount \in Nat \ {0}
  /\ period \in Nat \ {0}
  /\ IsFiniteSet(Handlers) /\ Cardinality(Handlers) \in Nat
  /\ "total" \in Keys /\ "check" \in Keys /\ "success" \in Keys
<1>1. "total" \in Keys /\ "check" \in Keys /\ "success" \in Keys
  BY ModelLimitAssumption
<1>2. maxRequestNum["success"] \in Nat \ {0} /\ maxRequestNum["total"] \in Nat \ {0}
  BY <1>1, LimiterAssumption
<1>3. duration["total"] \in Nat /\ duration["total"] > 0
  BY <1>1, LimiterAssumption, ModelLimitAssumption
<1>4. IsFiniteSet(Handlers)
  BY ModelLimitAssumption
<1> QED
  BY <1>1, <1>2, <1>3, <1>4, FS_CardinalityType
  DEF successMaxCount, totalMaxCount, period

\* Every step of the handlers is a step of the limiter or leaves it alone.
LEMMA HandlersUseLimiter == [HandlersNext]_handlersVars => [LimiterNext]_limiterVars
<1> SUFFICES ASSUME [HandlersNext]_handlersVars PROVE [LimiterNext]_limiterVars
  OBVIOUS
<1>1. ASSUME NEW k \in Keys, Request(k) PROVE LimiterNext
  BY <1>1 DEF LimiterNext
<1>2. ASSUME NEW r \in Handlers, MemoryTotal(r) \/ MemoryCheck(r) \/ MemoryFinish(r)
      PROVE  [LimiterNext]_limiterVars
  BY <1>1, <1>2, UserLimits DEF MemoryTotal, MemoryCheck, MemoryFinish
<1>3. ASSUME NEW r \in Handlers,
             \/ RedisLength(r) \/ RedisOldest(r) \/ RedisRefuse(r) \/ RedisTotal(r)
             \/ RedisFinish(r) \/ RedisPush(r) \/ RedisTrim(r) \/ RedisExpire(r)
      PROVE  UNCHANGED limiterVars
  BY <1>3 DEF RedisLength, RedisOldest, RedisRefuse, RedisTotal, RedisFinish,
              RedisPush, RedisTrim, RedisExpire
<1>4. Passes => LimiterNext
  BY DEF Passes, LimiterNext
<1>5. UNCHANGED handlersVars => UNCHANGED limiterVars
  BY DEF handlersVars
<1> QED BY <1>2, <1>3, <1>4, <1>5 DEF HandlersNext

\* The handlers together with the sweep and the clock implement the limiter.
THEOREM HandlersImplementLimiter == HandlersSpec => LimiterSpec
<1>1. HandlersInit => LimiterInit
  BY DEF HandlersInit
<1> QED BY <1>1, HandlersUseLimiter, PTL DEF HandlersSpec, LimiterSpec

\* For one user's requests to models, served by any number of handlers side by
\* side: no period sees more grants of a key than its limit.
THEOREM HandlersRespectWindow == HandlersSpec => []WindowRespected
BY HandlersImplementLimiter, WindowIsRespected, PTL

\* For the same requests, a refusal has a full limit of grants behind it.
THEOREM HandlersRefuseJustly == HandlersSpec => []RefusalJustified
BY HandlersImplementLimiter, RefusalIsJustified, PTL

-----------------------------------------------------------------------------
(* The two installations keep apart                                        *)

\* A handler's move changes its own step and no other.
LEMMA GoMoves ==
  ASSUME HandlerTypeOK, NEW r \in Handlers, NEW from, NEW to, NEW answer,
         Go(r, from, to, answer)
  PROVE  /\ at[r] = from /\ at'[r] = to
         /\ \A s \in Handlers : s # r => at'[s] = at[s]
         /\ to \in Steps => at' \in [Handlers -> Steps]
BY DEF Go, HandlerTypeOK

\* What the list holds are times, and reading it drops an expired key.
LEMMA EntriesType ==
  ASSUME HandlerTypeOK
  PROVE  Entries \in Seq(Nat)
BY DEF HandlerTypeOK, Entries

LEMMA HandlerTypes ==
  ASSUME HandlerTypeOK, LimiterTypeOK, [HandlersNext]_handlersVars
  PROVE  HandlerTypeOK'
<1>0. RedisEnabled' = RedisEnabled
  BY DEF HandlersNext, handlersVars
<1>1. now \in Nat /\ Entries \in Seq(Nat)
  BY EntriesType DEF LimiterTypeOK
<1>2. ASSUME list' \in Seq(Nat), expiry' \in Int, successes' \in Seq(Nat),
             NEW r \in Handlers, NEW from, NEW to \in Steps, NEW answer,
             Go(r, from, to, answer),
             IF RedisEnabled THEN to # "check" ELSE to \in {"idle", "check", "running"}
      PROVE  HandlerTypeOK'
  <2>1. /\ at' \in [Handlers -> Steps] /\ at'[r] = to
        /\ \A s \in Handlers : s # r => at'[s] = at[s]
    BY <1>2, GoMoves
  <2>2. ASSUME NEW s \in Handlers
        PROVE  IF RedisEnabled THEN at'[s] # "check"
               ELSE at'[s] \in {"idle", "check", "running"}
    BY <1>2, <2>1 DEF HandlerTypeOK
  <2> QED BY <1>0, <1>2, <2>1, <2>2 DEF HandlerTypeOK
<1>3. ASSUME UNCHANGED list PROVE list' \in Seq(Nat)
  BY <1>3 DEF HandlerTypeOK
<1>4. ASSUME UNCHANGED expiry PROVE expiry' \in Int
  BY <1>4 DEF HandlerTypeOK
<1>5. ASSUME UNCHANGED successes \/ successes' = Append(successes, now)
      PROVE  successes' \in Seq(Nat)
  <2>1. successes \in Seq(Nat)
    BY DEF HandlerTypeOK
  <2>2. Append(successes, now) \in Seq(Nat)
    BY <1>1, <2>1
  <2> QED BY <1>5, <2>1, <2>2
<1>6. ASSUME NEW t \in Int, Expire(t) PROVE expiry' \in Int
  BY <1>6 DEF Expire, HandlerTypeOK
<1>7. period \in Nat /\ successMaxCount \in Nat
  BY UserLimits
<1>8. ASSUME NEW r \in Handlers
      PROVE  /\ at[r] \in {"oldest", "renew", "bucket", "push", "trim", "expire"}
                => RedisEnabled
             /\ at[r] = "check" => ~RedisEnabled
  BY DEF HandlerTypeOK
<1> USE DEF Steps
<1>9. ASSUME NEW r \in Handlers, MemoryTotal(r) PROVE HandlerTypeOK'
  BY <1>2, <1>3, <1>4, <1>5, <1>9 DEF MemoryTotal, redisVars
<1>10. ASSUME NEW r \in Handlers, MemoryCheck(r) PROVE HandlerTypeOK'
  <2>1. ~RedisEnabled
    BY <1>8, <1>10 DEF MemoryCheck, Go
  <2> QED BY <2>1, <1>2, <1>3, <1>4, <1>5, <1>10 DEF MemoryCheck, redisVars
<1>11. ASSUME NEW r \in Handlers, MemoryFinish(r) PROVE HandlerTypeOK'
  BY <1>2, <1>3, <1>4, <1>5, <1>11 DEF MemoryFinish, redisVars
<1>12. ASSUME NEW r \in Handlers, RedisLength(r) PROVE HandlerTypeOK'
  BY <1>2, <1>3, <1>4, <1>5, <1>12 DEF RedisLength, redisVars
<1>13. ASSUME NEW r \in Handlers, RedisOldest(r) PROVE HandlerTypeOK'
  <2>1. RedisEnabled
    BY <1>8, <1>13 DEF RedisOldest, Go
  <2> QED BY <2>1, <1>2, <1>3, <1>4, <1>5, <1>13 DEF RedisOldest, redisVars
<1>14. ASSUME NEW r \in Handlers, RedisRefuse(r) PROVE HandlerTypeOK'
  <2>1. RedisEnabled
    BY <1>8, <1>14 DEF RedisRefuse, Go
  <2>2. expiry' \in Int
    BY <1>1, <1>6, <1>7, <1>14 DEF RedisRefuse
  <2> QED BY <2>1, <2>2, <1>2, <1>3, <1>5, <1>14 DEF RedisRefuse
<1>15. ASSUME NEW r \in Handlers, RedisTotal(r) PROVE HandlerTypeOK'
  <2>1. RedisEnabled
    BY <1>8, <1>15 DEF RedisTotal, Go
  <2> QED BY <2>1, <1>2, <1>3, <1>4, <1>5, <1>15 DEF RedisTotal
<1>16. ASSUME NEW r \in Handlers, RedisFinish(r) PROVE HandlerTypeOK'
  BY <1>2, <1>3, <1>4, <1>5, <1>16 DEF RedisFinish, redisVars
<1>17. ASSUME NEW r \in Handlers, RedisPush(r) PROVE HandlerTypeOK'
  <2>1. RedisEnabled
    BY <1>8, <1>17 DEF RedisPush, Go
  <2>2. list' \in Seq(Nat) /\ expiry' \in Int
    BY <1>1, <1>17 DEF RedisPush, Push, HandlerTypeOK, Forever
  <2> QED BY <2>1, <2>2, <1>2, <1>5, <1>17 DEF RedisPush
<1>18. ASSUME NEW r \in Handlers, RedisTrim(r) PROVE HandlerTypeOK'
  <2>1. RedisEnabled
    BY <1>8, <1>18 DEF RedisTrim, Go
  <2>2. list' \in Seq(Nat)
    BY <1>1, <1>7, <1>18 DEF RedisTrim, Trim
  <2> QED BY <2>1, <2>2, <1>2, <1>4, <1>5, <1>18 DEF RedisTrim, Trim
<1>19. ASSUME NEW r \in Handlers, RedisExpire(r) PROVE HandlerTypeOK'
  <2>1. RedisEnabled
    BY <1>8, <1>19 DEF RedisExpire, Go
  <2>2. expiry' \in Int
    BY <1>1, <1>6, <1>7, <1>19 DEF RedisExpire
  <2> QED BY <2>1, <2>2, <1>2, <1>3, <1>5, <1>19 DEF RedisExpire
<1>20. CASE UNCHANGED <<RedisEnabled, at, redisVars, successes>>
  BY <1>20 DEF HandlerTypeOK, redisVars
<1> QED
  BY <1>9, <1>10, <1>11, <1>12, <1>13, <1>14, <1>15, <1>16, <1>17, <1>18, <1>19,
     <1>20 DEF HandlersNext, Passes, handlersVars

\* Without Redis every request that passes the total limit is a grant of its
\* key, and there are no others.
LEMMA MemoryCounts ==
  ASSUME HandlerTypeOK, LimiterTypeOK, MemoryTotalInv, [HandlersNext]_handlersVars
  PROVE  MemoryTotalInv'
<1> SUFFICES ASSUME ~RedisEnabled
             PROVE  admitted' = granted'["total"]
  BY DEF MemoryTotalInv, HandlersNext, handlersVars
<1>0. /\ admitted = granted["total"] /\ "total" \in Keys
      /\ "check" \in Keys /\ "success" \in Keys /\ granted \in [Keys -> Seq(Nat)]
  BY UserLimits DEF MemoryTotalInv, LimiterTypeOK
<1>1. ASSUME NEW k \in Keys, k # "total", Request(k) PROVE granted'["total"] = granted["total"]
  BY <1>0, <1>1 DEF Request, Grant, limiterVars
<1>2. ASSUME NEW r \in Handlers, MemoryTotal(r) PROVE admitted' = granted'["total"]
  <2>1. CASE Allows("total")
    <3>1. Grant("total") /\ admitted' = Append(admitted, now)
      BY <1>2, <2>1 DEF MemoryTotal, Request
    <3> QED BY <3>1, <1>0 DEF Grant
  <2>2. CASE ~Allows("total")
    BY <1>0, <1>2, <2>2 DEF MemoryTotal, Request, limiterVars
  <2> QED BY <2>1, <2>2
<1>3. ASSUME NEW r \in Handlers, MemoryCheck(r) \/ MemoryFinish(r)
      PROVE  admitted' = granted'["total"]
  <2>1. admitted' = admitted
    BY <1>3 DEF MemoryCheck, MemoryFinish
  <2>2. Request("check") \/ Request("success") \/ UNCHANGED limiterVars
    BY <1>3 DEF MemoryCheck, MemoryFinish
  <2> QED BY <1>0, <1>1, <2>1, <2>2 DEF limiterVars
<1>4. ASSUME NEW r \in Handlers,
             \/ RedisLength(r) \/ RedisOldest(r) \/ RedisRefuse(r) \/ RedisTotal(r)
             \/ RedisFinish(r) \/ RedisPush(r) \/ RedisTrim(r) \/ RedisExpire(r)
      PROVE  admitted' = granted'["total"]
  <2>1. at[r] \in {"idle", "check", "running"}
    BY DEF HandlerTypeOK
  <2>2. ~RedisTotal(r)
    BY <2>1 DEF RedisTotal, Go
  <2> QED
    BY <1>0, <1>4, <2>2 DEF RedisLength, RedisOldest, RedisRefuse, RedisFinish,
       RedisPush, RedisTrim, RedisExpire, limiterVars
<1>5. Passes => admitted' = granted'["total"]
  BY <1>0 DEF Passes, Tick, clearExpiredItems
<1>6. UNCHANGED handlersVars => admitted' = granted'["total"]
  BY <1>0 DEF handlersVars, limiterVars
<1> QED BY <1>2, <1>3, <1>4, <1>5, <1>6 DEF HandlersNext

\* Types and the split of the two installations, for every specification run.
THEOREM HandlerInvariant == HandlersSpec => [](HandlerTypeOK /\ MemoryTotalInv /\ LimiterInv)
<1>1. HandlersInit => HandlerTypeOK /\ MemoryTotalInv
  <2> SUFFICES ASSUME HandlersInit PROVE HandlerTypeOK /\ MemoryTotalInv
    OBVIOUS
  <2>1. HandlerTypeOK
    <3>1. RedisEnabled \in BOOLEAN
      BY ModelLimitAssumption, Zenon DEF HandlersInit
    <3>2. /\ at = [r \in Handlers |-> "idle"] /\ expiry = Forever
          /\ list = <<>> /\ successes = <<>>
      BY Zenon DEF HandlersInit
    <3>3. /\ at \in [Handlers -> Steps] /\ expiry \in Int
          /\ list \in Seq(Nat) /\ successes \in Seq(Nat)
          /\ \A r \in Handlers : at[r] = "idle"
      BY <3>2 DEF Steps, Forever
    <3> QED BY <3>1, <3>3 DEF HandlerTypeOK
  <2>2. MemoryTotalInv
    BY UserLimits DEF HandlersInit, LimiterInit, MemoryTotalInv
  <2> QED BY <2>1, <2>2
<1>2. HandlerTypeOK /\ MemoryTotalInv /\ LimiterInv /\ [HandlersNext]_handlersVars
        => HandlerTypeOK' /\ MemoryTotalInv'
  BY HandlerTypes, MemoryCounts DEF LimiterInv
<1> QED BY <1>1, <1>2, HandlersImplementLimiter, LimiterInvariant, PTL DEF HandlersSpec

\* What the setting "requests per period, failures included" promises, where
\* there is no Redis: memoryRateLimitHandler lets no more than totalMaxCount
\* requests of a user pass in any period.
THEOREM MemoryTotalPerPeriod == HandlersSpec => [](~RedisEnabled => TotalPerPeriod)
<1>1. MemoryTotalInv /\ WindowRespected => (~RedisEnabled => TotalPerPeriod)
  BY UserLimits
  DEF MemoryTotalInv, WindowRespected, TotalPerPeriod, totalMaxCount, period
<1> QED BY <1>1, HandlerInvariant, HandlersRespectWindow, PTL

-----------------------------------------------------------------------------
(* The Redis list of successes                                             *)

\* LPUSH of the present keeps the list the newest part of the history.
LEMMA PushNewest ==
  ASSUME NEW e \in Seq(Nat), NEW g \in Seq(Nat), NEW t \in Nat, NewestFirst(e, g)
  PROVE  NewestFirst(<<t>> \o e, Append(g, t)) /\ Len(<<t>> \o e) = Len(e) + 1
<1> DEFINE f == <<t>> \o e
<1> DEFINE h == Append(g, t)
<1>1. /\ Len(f) = Len(e) + 1 /\ f[1] = t
      /\ \A j \in 2 .. Len(e) + 1 : f[j] = e[j - 1]
  OBVIOUS
<1>2. /\ Len(h) = Len(g) + 1 /\ h[Len(g) + 1] = t
      /\ \A i \in 1 .. Len(g) : h[i] = g[i]
  OBVIOUS
<1>3. Len(e) \in Nat /\ Len(g) \in Nat /\ Len(e) <= Len(g)
  BY DEF NewestFirst
<1> HIDE DEF f, h
<1>4. ASSUME NEW j \in 1 .. Len(f) PROVE f[j] = h[Len(h) + 1 - j]
  <2>1. CASE j = 1
    <3>1. Len(h) + 1 - j = Len(g) + 1
      BY <1>2, <1>3, <2>1
    <3> QED BY <1>1, <1>2, <2>1, <3>1
  <2>2. CASE j # 1
    <3>1. /\ j - 1 \in 1 .. Len(e) /\ j \in 2 .. Len(e) + 1
          /\ Len(h) + 1 - j = Len(g) + 1 - (j - 1)
          /\ Len(g) + 1 - (j - 1) \in 1 .. Len(g)
      BY <1>1, <1>2, <1>3, <2>2
    <3>2. e[j - 1] = g[Len(g) + 1 - (j - 1)]
      BY <3>1 DEF NewestFirst
    <3> QED BY <1>1, <1>2, <3>1, <3>2
  <2> QED BY <2>1, <2>2
<1>5. NewestFirst(f, h)
  BY <1>1, <1>2, <1>3, <1>4 DEF NewestFirst
<1> QED BY <1>1, <1>5 DEF f, h

\* So does cutting its old end off.
LEMMA CutNewest ==
  ASSUME NEW e \in Seq(Nat), NEW g \in Seq(Nat), NEW n \in 0 .. Len(e),
         NewestFirst(e, g)
  PROVE  NewestFirst(SubSeq(e, 1, n), g) /\ Len(SubSeq(e, 1, n)) = n
<1> DEFINE f == SubSeq(e, 1, n)
<1>1. Len(f) = n /\ \A j \in 1 .. n : f[j] = e[j]
  OBVIOUS
<1> HIDE DEF f
<1>2. n <= Len(g) /\ \A j \in 1 .. n : j \in 1 .. Len(e)
  BY DEF NewestFirst
<1>3. NewestFirst(f, g)
  BY <1>1, <1>2 DEF NewestFirst
<1> QED BY <1>1, <1>3 DEF f

\* Handlers at different steps are different handlers.
LEMMA Apart ==
  ASSUME NEW A \in SUBSET Handlers, NEW B \in SUBSET Handlers, A \cap B = {}
  PROVE  /\ IsFiniteSet(A) /\ Cardinality(A) \in Nat
         /\ IsFiniteSet(B) /\ Cardinality(B) \in Nat
         /\ Cardinality(A) + Cardinality(B) <= Cardinality(Handlers)
<1>1. IsFiniteSet(Handlers) /\ Cardinality(Handlers) \in Nat
  BY UserLimits
<1>2. IsFiniteSet(A) /\ IsFiniteSet(B)
  BY <1>1, FS_Subset
<1>3. Cardinality(A) \in Nat /\ Cardinality(B) \in Nat
  BY <1>2, FS_CardinalityType
<1>4. Cardinality(A \cup B) = Cardinality(A) + Cardinality(B)
  BY <1>2, <1>3, FS_Union, FS_EmptySet
<1>5. Cardinality(A \cup B) <= Cardinality(Handlers)
  <2>1. A \cup B \in SUBSET Handlers
    OBVIOUS
  <2> QED BY <1>1, <2>1, FS_Subset
<1> QED BY <1>2, <1>3, <1>4, <1>5

\* The number of handlers in flight and of those trimming, after one moves.
LEMMA Moved ==
  ASSUME HandlerTypeOK, NEW r \in Handlers, NEW from, NEW to, NEW answer,
         Go(r, from, to, answer)
  PROVE  /\ Cardinality(InFlight') =
              Cardinality(InFlight)
                + (IF to \in {"bucket", "running", "push"} THEN 1 ELSE 0)
                - (IF from \in {"bucket", "running", "push"} THEN 1 ELSE 0)
         /\ Cardinality(Trimming') =
              Cardinality(Trimming) + (IF to = "trim" THEN 1 ELSE 0)
                                    - (IF from = "trim" THEN 1 ELSE 0)
<1>1. /\ at[r] = from /\ at'[r] = to /\ \A s \in Handlers : s # r => at'[s] = at[s]
  BY GoMoves
<1>2. /\ InFlight \ {r} \in SUBSET Handlers /\ Trimming \ {r} \in SUBSET Handlers
      /\ (InFlight \ {r}) \cap (Trimming \ {r}) = {}
  BY DEF InFlight, Trimming
<1>3. /\ IsFiniteSet(InFlight \ {r}) /\ Cardinality(InFlight \ {r}) \in Nat
      /\ IsFiniteSet(Trimming \ {r}) /\ Cardinality(Trimming \ {r}) \in Nat
  BY <1>2, Apart
<1>4. ASSUME NEW A, NEW B, IsFiniteSet(A \ {r}), Cardinality(A \ {r}) \in Nat,
             B \ {r} = A \ {r}
      PROVE  /\ Cardinality(A) = Cardinality(A \ {r}) + (IF r \in A THEN 1 ELSE 0)
             /\ Cardinality(B) = Cardinality(A \ {r}) + (IF r \in B THEN 1 ELSE 0)
  <2>1. ASSUME NEW C, C \ {r} = A \ {r}
        PROVE  Cardinality(C) = Cardinality(A \ {r}) + (IF r \in C THEN 1 ELSE 0)
    <3>1. CASE r \in C
      <4>1. C = (A \ {r}) \cup {r} /\ r \notin A \ {r}
        BY <2>1, <3>1
      <4>2. Cardinality((A \ {r}) \cup {r}) = Cardinality(A \ {r}) + 1
        BY <1>4, <4>1, FS_AddElement
      <4> QED BY <3>1, <4>1, <4>2
    <3>2. CASE r \notin C
      <4>1. C = A \ {r}
        BY <2>1, <3>2
      <4> QED BY <1>4, <3>2, <4>1
    <3> QED BY <3>1, <3>2
  <2> QED BY <1>4, <2>1
<1>5. /\ InFlight' \ {r} = InFlight \ {r} /\ Trimming' \ {r} = Trimming \ {r}
      /\ r \in InFlight <=> from \in {"bucket", "running", "push"}
      /\ r \in InFlight' <=> to \in {"bucket", "running", "push"}
      /\ r \in Trimming <=> from = "trim"
      /\ r \in Trimming' <=> to = "trim"
  BY <1>1 DEF InFlight, Trimming
<1> HIDE DEF InFlight, Trimming
<1>6. /\ Cardinality(InFlight) =
           Cardinality(InFlight \ {r}) + (IF r \in InFlight THEN 1 ELSE 0)
      /\ Cardinality(InFlight') =
           Cardinality(InFlight \ {r}) + (IF r \in InFlight' THEN 1 ELSE 0)
  BY <1>3, <1>4, <1>5
<1>7. /\ Cardinality(Trimming) =
           Cardinality(Trimming \ {r}) + (IF r \in Trimming THEN 1 ELSE 0)
      /\ Cardinality(Trimming') =
           Cardinality(Trimming \ {r}) + (IF r \in Trimming' THEN 1 ELSE 0)
  BY <1>3, <1>4, <1>5
<1> QED BY <1>3, <1>5, <1>6, <1>7

-----------------------------------------------------------------------------
(* The success limit with Redis                                            *)

\* The arithmetic of the counts: a recent, b in flight, c trimming, of n.
LEMMA CountsFit ==
  ASSUME NEW a \in Int, NEW b \in Nat, NEW c \in Nat, NEW l \in Nat, NEW n \in Nat,
         b + c <= n
  PROVE  /\ a <= l - 1 + c => a + b <= l + n - 1
         /\ a <= l - 1 => a <= l - 1 + c
OBVIOUS

\* A handler that takes up one place gives up one.
LEMMA PlaceForPlace ==
  ASSUME NEW n \in Nat, NEW in \in BOOLEAN, NEW out \in BOOLEAN, in => out
  PROVE  n + (IF in THEN 1 ELSE 0) - (IF out THEN 1 ELSE 0) <= n
<1>1. CASE in /\ out
  BY <1>1
<1>2. CASE ~in /\ out
  BY <1>2
<1>3. CASE ~in /\ ~out
  BY <1>3
<1> QED BY <1>1, <1>2, <1>3

\* An entry that is not younger than the period is at least as old.
LEMMA OldEnough ==
  ASSUME NEW e \in Seq(Nat), e # <<>>, NEW t \in Nat, NEW d \in Nat
  PROVE  e[Len(e)] \in Nat /\ (~(t - e[Len(e)] < d) => t - e[Len(e)] >= d)
<1>1. Len(e) \in 1 .. Len(e)
  OBVIOUS
<1>2. e[Len(e)] \in Nat
  BY <1>1
<1> QED BY <1>2

\* What the proofs below use of a state.
LEMMA RedisFacts ==
  ASSUME HandlerTypeOK, LimiterTypeOK
  PROVE  /\ now \in Nat /\ Entries \in Seq(Nat) /\ Len(Entries) \in Nat
         /\ successes \in Seq(Nat) /\ Len(successes) \in Nat
         /\ \A i \in 1 .. Len(successes) : successes[i] \in Nat
         /\ Cardinality(InFlight) \in Nat /\ Cardinality(Trimming) \in Nat
         /\ Cardinality(InFlight) + Cardinality(Trimming) <= Cardinality(Handlers)
         /\ Cardinality(Handlers) \in Nat /\ period \in Nat \ {0}
         /\ successMaxCount \in Nat \ {0}
<1>1. /\ InFlight \in SUBSET Handlers /\ Trimming \in SUBSET Handlers
      /\ InFlight \cap Trimming = {}
  BY DEF InFlight, Trimming
<1>2. now \in Nat /\ Entries \in Seq(Nat) /\ successes \in Seq(Nat)
  BY EntriesType DEF HandlerTypeOK, LimiterTypeOK
<1>3. Len(Entries) \in Nat /\ Len(successes) \in Nat
  BY <1>2
<1>4. \A i \in 1 .. Len(successes) : successes[i] \in Nat
  BY <1>2
<1> QED BY <1>1, <1>2, <1>3, <1>4, Apart, UserLimits

\* The numbers among them.
LEMMA RedisNumbers ==
  ASSUME HandlerTypeOK, LimiterTypeOK
  PROVE  /\ now \in Nat /\ Len(Entries) \in Nat /\ Len(successes) \in Nat
         /\ Cardinality(InFlight) \in Nat /\ Cardinality(Trimming) \in Nat
         /\ Cardinality(InFlight) + Cardinality(Trimming) <= Cardinality(Handlers)
         /\ Cardinality(Handlers) \in Nat /\ period \in Nat \ {0}
         /\ successMaxCount \in Nat \ {0}
BY RedisFacts

\* A handler that finds room in the list finds fewer recent successes than
\* the limit.
LEMMA RoomFound ==
  ASSUME HandlerTypeOK, LimiterTypeOK, ListIsNewest, ListForgetsOld,
         Len(Entries) < successMaxCount,
         NEW i \in 1 .. Len(successes), now - successes[i] < period
  PROVE  Len(successes) - i + 1 <= successMaxCount - 1
<1>1. \A k \in 1 .. Len(successes) - Len(Entries) : now - successes[k] >= period
  BY DEF ListForgetsOld
<1>2. successes[i] \in Nat /\ now \in Nat /\ period \in Nat
  BY RedisFacts
<1>3. ~(now - successes[i] >= period)
  BY <1>2
<1>4. ~(i \in 1 .. Len(successes) - Len(Entries))
  BY <1>1, <1>3
<1> QED BY <1>4, RedisNumbers

\* A handler that finds the last entry old finds the list's other entries at
\* most, and those over the limit belong to handlers that have yet to trim.
LEMMA OldestFound ==
  ASSUME HandlerTypeOK, LimiterTypeOK, InOrder(successes, now), ListIsNewest,
         Entries # <<>>, now - Entries[Len(Entries)] >= period,
         NEW i \in 1 .. Len(successes), now - successes[i] < period
  PROVE  Len(successes) - i + 1 <= successMaxCount - 1 + Cardinality(Trimming)
<1> DEFINE n == Len(successes) + 1 - Len(Entries)
<1>1. Len(Entries) \in 1 .. Len(Entries) /\ n \in 1 .. Len(successes)
  BY RedisFacts DEF ListIsNewest, NewestFirst
<1>2. Entries[Len(Entries)] = successes[n]
  BY <1>1 DEF ListIsNewest, NewestFirst
<1> HIDE DEF n
<1>3. successes[i] \in Nat /\ successes[n] \in Nat /\ now \in Nat /\ period \in Nat
  BY <1>1, RedisFacts
<1>4. ~(i <= n)
  <2> SUFFICES ASSUME i <= n PROVE FALSE
    OBVIOUS
  <2>1. successes[i] <= successes[n]
    BY <1>1 DEF InOrder
  <2>2. now - successes[i] >= period
    BY <1>2, <1>3, <2>1, OlderStill
  <2> QED BY <1>3, <2>2
<1>5. Len(Entries) <= successMaxCount + Cardinality(Trimming)
  BY DEF ListIsNewest
<1>6. i \in Int /\ n = Len(successes) + 1 - Len(Entries)
  BY DEF n
<1>7. Len(successes) - i + 1 <= Len(Entries) - 1
  BY <1>4, <1>6, RedisNumbers
<1>8. /\ Len(successes) - i + 1 \in Int /\ Len(Entries) \in Nat
      /\ successMaxCount \in Nat /\ Cardinality(Trimming) \in Nat
  BY <1>6, RedisFacts
<1> QED BY <1>5, <1>7, <1>8

\* A step that leaves the clock, the list and the history alone keeps the
\* invariant if there is room for those it puts in flight.
LEMMA SuccessQuiet ==
  ASSUME HandlerTypeOK, LimiterTypeOK, SuccessInv, RedisEnabled,
         UNCHANGED <<now, list, expiry, successes>>,
         Cardinality(Trimming') = Cardinality(Trimming),
         (\A r \in Handlers : at'[r] \notin {"trim", "expire"})
           => \A r \in Handlers : at[r] \notin {"trim", "expire"},
         RoomForFlight'
  PROVE  SuccessInv'
<1>1. Entries' = Entries
  BY DEF Entries, Expired
<1>2. InOrder(successes, now)' /\ MostInPeriod'
  BY DEF SuccessInv, MostInPeriod
<1>3. ListIsNewest' /\ ListForgetsOld'
  BY <1>1 DEF SuccessInv, ListIsNewest, ListForgetsOld
<1>4. ExpiryIsLate'
  BY <1>1 DEF SuccessInv, ExpiryIsLate
<1> QED BY <1>2, <1>3, <1>4 DEF SuccessInv

\* Fewer in flight leave the same room.
LEMMA RoomKept ==
  ASSUME HandlerTypeOK, LimiterTypeOK, RoomForFlight,
         UNCHANGED <<now, successes>>,
         Cardinality(InFlight') \in Nat,
         Cardinality(InFlight') <= Cardinality(InFlight)
  PROVE  RoomForFlight'
<1> SUFFICES ASSUME NEW i \in 1 .. Len(successes), now - successes[i] < period
             PROVE  Len(successes) - i + 1 + Cardinality(InFlight')
                      <= successMaxCount + Cardinality(Handlers) - 1
  BY DEF RoomForFlight
<1>1. Len(successes) - i + 1 + Cardinality(InFlight)
        <= successMaxCount + Cardinality(Handlers) - 1
  BY DEF RoomForFlight
<1> QED BY <1>1, RedisNumbers

\* Any number of handlers in flight has room when a check passes.
LEMMA RoomMade ==
  ASSUME HandlerTypeOK, LimiterTypeOK, HandlerTypeOK', LimiterTypeOK',
         UNCHANGED <<now, successes>>,
         Cardinality(Trimming') = Cardinality(Trimming),
         \A i \in 1 .. Len(successes) : now - successes[i] < period =>
           Len(successes) - i + 1 <= successMaxCount - 1 + Cardinality(Trimming)
  PROVE  RoomForFlight'
<1> SUFFICES ASSUME NEW i \in 1 .. Len(successes), now - successes[i] < period
             PROVE  Len(successes) - i + 1 + Cardinality(InFlight')
                      <= successMaxCount + Cardinality(Handlers) - 1
  BY DEF RoomForFlight
<1>1. Len(successes) - i + 1 <= successMaxCount - 1 + Cardinality(Trimming)
  OBVIOUS
<1>2. /\ Cardinality(InFlight') \in Nat
      /\ Cardinality(InFlight') + Cardinality(Trimming) <= Cardinality(Handlers)
  <2>1. /\ InFlight' \in SUBSET Handlers /\ Trimming' \in SUBSET Handlers
        /\ InFlight' \cap Trimming' = {}
    BY DEF InFlight, Trimming
  <2> QED BY <2>1, Apart
<1>3. Len(successes) - i + 1 \in Int
  BY RedisNumbers
<1> QED BY <1>1, <1>2, <1>3, RedisNumbers, CountsFit

\* LLEN, LINDEX, the bucket and the end of a handler: the list stays, and
\* whoever goes into flight found room.
LEMMA SuccessOfChecks ==
  ASSUME HandlerTypeOK, LimiterTypeOK, HandlerTypeOK', LimiterTypeOK', SuccessInv,
         RedisEnabled, RedisEnabled', NEW r \in Handlers,
         RedisLength(r) \/ RedisOldest(r) \/ RedisTotal(r) \/ RedisFinish(r)
  PROVE  SuccessInv'
<1>0. /\ InOrder(successes, now) /\ ListIsNewest /\ ListForgetsOld /\ RoomForFlight
  BY DEF SuccessInv
<1>1. UNCHANGED <<now, list, expiry, successes>>
  BY DEF RedisLength, RedisOldest, RedisTotal, RedisFinish, limiterVars, redisVars
<1>9. /\ Cardinality(InFlight) \in Nat /\ Cardinality(Trimming) \in Nat
      /\ Cardinality(Trimming) + 0 - 0 = Cardinality(Trimming)
      /\ \A i \in 1 .. Len(successes) : Len(successes) - i + 1 \in Int
  BY RedisNumbers
<1>2. PICK from \in Steps, to \in Steps,
           answer \in {"", "error", "success", "total", "served", "failed"} :
        /\ Go(r, from, to, answer)
        /\ {from, to} \cap {"trim", "expire"} = {}
        /\ \/ to \in {"bucket", "running", "push"} => from \in {"bucket", "running", "push"}
           \/ from = "idle" /\ Len(Entries) < successMaxCount
           \/ /\ from = "oldest" /\ Entries # <<>>
              /\ ~(now - Entries[Len(Entries)] < period)
  <2> USE DEF Steps
  <2>1. CASE RedisLength(r)
    <3>1. CASE Len(Entries) < successMaxCount
      <4>1. Go(r, "idle", "bucket", "")
        BY <2>1, <3>1 DEF RedisLength
      <4> QED BY <3>1, <4>1
    <3>2. CASE ~(Len(Entries) < successMaxCount)
      <4>1. Go(r, "idle", "oldest", "")
        BY <2>1, <3>2 DEF RedisLength
      <4> QED BY <4>1
    <3> QED BY <3>1, <3>2
  <2>2. CASE RedisOldest(r)
    BY <2>2 DEF RedisOldest
  <2>3. CASE RedisTotal(r)
    BY <2>3 DEF RedisTotal
  <2>4. CASE RedisFinish(r)
    BY <2>4 DEF RedisFinish
  <2> QED BY <2>1, <2>2, <2>3, <2>4
<1>3. /\ at[r] = from /\ at'[r] = to /\ \A s \in Handlers : s # r => at'[s] = at[s]
  BY <1>2, GoMoves
<1>4. Cardinality(Trimming') = Cardinality(Trimming)
  <2>1. Cardinality(Trimming') =
          Cardinality(Trimming) + (IF to = "trim" THEN 1 ELSE 0)
                                - (IF from = "trim" THEN 1 ELSE 0)
    BY <1>2, Moved
  <2>2. to # "trim" /\ from # "trim"
    BY <1>2
  <2>3. Cardinality(Trimming') = Cardinality(Trimming) + 0 - 0
    BY <2>1, <2>2
  <2> QED BY <2>3, <1>9
<1>5. (\A s \in Handlers : at'[s] \notin {"trim", "expire"})
        => \A s \in Handlers : at[s] \notin {"trim", "expire"}
  BY <1>2, <1>3
<1>6. RoomForFlight'
  <2>1. CASE to \in {"bucket", "running", "push"} => from \in {"bucket", "running", "push"}
    <3>1. Cardinality(InFlight') =
            Cardinality(InFlight)
              + (IF to \in {"bucket", "running", "push"} THEN 1 ELSE 0)
              - (IF from \in {"bucket", "running", "push"} THEN 1 ELSE 0)
      BY <1>2, Moved
    <3>2. Cardinality(InFlight') \in Nat
      <4>1. InFlight' \in SUBSET Handlers
        BY DEF InFlight
      <4>2. {} \in SUBSET Handlers /\ InFlight' \cap {} = {}
        OBVIOUS
      <4> QED BY <4>1, <4>2, Apart
    <3>3. Cardinality(InFlight') <= Cardinality(InFlight)
      BY <2>1, <3>1, <1>9, PlaceForPlace
    <3> QED BY <1>0, <1>1, <3>2, <3>3, RoomKept
  <2>2. CASE Len(Entries) < successMaxCount
    <3>1. ASSUME NEW i \in 1 .. Len(successes), now - successes[i] < period
          PROVE  Len(successes) - i + 1 <= successMaxCount - 1 + Cardinality(Trimming)
      <4>1. Len(successes) - i + 1 <= successMaxCount - 1
        BY <1>0, <2>2, <3>1, RoomFound
      <4>2. Len(successes) - i + 1 \in Int
        BY <1>9
      <4> QED BY <4>1, <4>2, RedisNumbers, CountsFit
    <3> QED BY <1>1, <1>4, <3>1, RoomMade
  <2>3. CASE Entries # <<>> /\ ~(now - Entries[Len(Entries)] < period)
    <3>1. now - Entries[Len(Entries)] >= period
      BY <2>3, RedisFacts, OldEnough
    <3>2. \A i \in 1 .. Len(successes) : now - successes[i] < period =>
            Len(successes) - i + 1 <= successMaxCount - 1 + Cardinality(Trimming)
      BY <1>0, <2>3, <3>1, OldestFound
    <3> QED BY <1>1, <1>4, <3>2, RoomMade
  <2> QED BY <1>2, <2>1, <2>2, <2>3
<1> QED BY <1>1, <1>4, <1>5, <1>6, SuccessQuiet

\* EXPIRE, of a refusal or at the end of a record, leaves the list as it is
\* and gives its key a whole period more.
LEMMA SuccessOfExpire ==
  ASSUME HandlerTypeOK, LimiterTypeOK, HandlerTypeOK', LimiterTypeOK', SuccessInv,
         RedisEnabled, RedisEnabled', NEW r \in Handlers,
         RedisRefuse(r) \/ RedisExpire(r)
  PROVE  SuccessInv'
<1>0. /\ InOrder(successes, now) /\ ListIsNewest /\ ListForgetsOld /\ RoomForFlight
      /\ MostInPeriod /\ ExpiryIsLate
  BY DEF SuccessInv
<1>1. UNCHANGED <<now, list, successes>> /\ Expire(now + period)
  BY DEF RedisRefuse, RedisExpire, limiterVars
<1>2. Entries' = Entries
  BY <1>1, RedisFacts DEF Expire, Entries, Expired, Forever
<1>3. PICK from \in {"renew", "expire"} : Go(r, from, "idle", IF from = "renew" THEN "success" ELSE "served")
  BY DEF RedisRefuse, RedisExpire
<1>4. /\ Cardinality(InFlight') = Cardinality(InFlight)
      /\ Cardinality(Trimming') = Cardinality(Trimming)
  <2>1. /\ Cardinality(InFlight') = Cardinality(InFlight) + 0 - 0
        /\ Cardinality(Trimming') = Cardinality(Trimming) + 0 - 0
    BY <1>3, Moved
  <2> QED BY <2>1, RedisNumbers
<1>5. ListIsNewest' /\ ListForgetsOld' /\ InOrder(successes, now)' /\ MostInPeriod'
  BY <1>0, <1>1, <1>2, <1>4 DEF ListIsNewest, ListForgetsOld, MostInPeriod
<1>6. RoomForFlight'
  BY <1>0, <1>1, <1>4, RedisFacts, RoomKept
<1>7. ExpiryIsLate'
  <2> SUFFICES ASSUME Entries # <<>>, NEW i \in 1 .. Len(successes)
               PROVE  successes[i] + period <= expiry'
    BY <1>1, <1>2 DEF ExpiryIsLate
  <2>1. expiry' = now + period
    BY <1>1 DEF Expire
  <2>2. successes[i] <= now /\ successes[i] \in Nat
    BY <1>0, RedisFacts DEF InOrder
  <2> QED BY <2>1, <2>2, RedisNumbers
<1> QED BY <1>5, <1>6, <1>7 DEF SuccessInv

\* LPUSH: the one in flight becomes the newest success.
LEMMA SuccessOfPush ==
  ASSUME HandlerTypeOK, LimiterTypeOK, HandlerTypeOK', LimiterTypeOK', SuccessInv,
         RedisEnabled, RedisEnabled', NEW r \in Handlers, RedisPush(r)
  PROVE  SuccessInv'
<1> DEFINE n == Len(successes)
<1> DEFINE most == successMaxCount + Cardinality(Handlers) - 1
<1>0. /\ InOrder(successes, now) /\ ListIsNewest /\ ListForgetsOld /\ RoomForFlight
      /\ MostInPeriod
  BY DEF SuccessInv
<1>1. /\ now' = now /\ successes' = Append(successes, now) /\ Push(now)
      /\ Go(r, "push", "trim", "served")
  BY DEF RedisPush, limiterVars
<1>2. Entries' = <<now>> \o Entries
  <2>1. list' = <<now>> \o Entries /\ ~Expired'
    BY <1>1 DEF Push, Expired, Entries
  <2> QED BY <2>1 DEF Entries
<1>3. /\ Cardinality(InFlight') = Cardinality(InFlight) - 1
      /\ Cardinality(Trimming') = Cardinality(Trimming) + 1
  <2>1. /\ Cardinality(InFlight') = Cardinality(InFlight) + 0 - 1
        /\ Cardinality(Trimming') = Cardinality(Trimming) + 1 - 0
    BY <1>1, Moved
  <2> QED BY <2>1, RedisNumbers
<1>4. /\ successes' \in Seq(Nat) /\ Len(successes') = n + 1 /\ successes'[n + 1] = now
      /\ \A i \in 1 .. n : successes'[i] = successes[i]
  BY <1>1, RedisFacts
<1>5. InOrder(successes, now)'
  BY <1>0, <1>1, <1>4, RedisFacts, GrantInOrder
<1>6. NewestFirst(Entries', successes') /\ Len(Entries') = Len(Entries) + 1
  BY <1>0, <1>1, <1>2, RedisFacts, PushNewest DEF ListIsNewest
<1>7. ListIsNewest'
  <2>1. Len(Entries) <= successMaxCount + Cardinality(Trimming)
    BY <1>0 DEF ListIsNewest
  <2>2. Len(Entries') <= successMaxCount + Cardinality(Trimming')
    BY <1>3, <1>6, <2>1, RedisNumbers
  <2> QED BY <1>6, <2>2 DEF ListIsNewest
<1>8. ListForgetsOld'
  <2> SUFFICES ASSUME Len(Entries') < successMaxCount,
                      NEW i \in 1 .. Len(successes') - Len(Entries')
               PROVE  now - successes'[i] >= period
    BY <1>1 DEF ListForgetsOld
  <2>1. Len(successes') - Len(Entries') = n - Len(Entries)
    BY <1>4, <1>6, RedisNumbers
  <2>2. i \in 1 .. n - Len(Entries) /\ i \in 1 .. n
    BY <2>1, RedisNumbers
  <2>3. Len(Entries) < successMaxCount
    BY <1>6, RedisNumbers
  <2> QED BY <1>0, <1>4, <2>2, <2>3 DEF ListForgetsOld
<1>9. ExpiryIsLate'
  <2>1. at'[r] = "trim"
    BY <1>1, GoMoves
  <2> QED BY <2>1 DEF ExpiryIsLate
<1>10. ASSUME NEW i \in 1 .. n, now - successes[i] < period
       PROVE  (n + 1) - i + 1 + Cardinality(InFlight') <= most
  <2>1. n - i + 1 + Cardinality(InFlight) <= most
    BY <1>0, <1>10 DEF RoomForFlight
  <2> QED BY <1>3, <2>1, RedisNumbers
<1>11. Cardinality(InFlight') \in Nat /\ Cardinality(InFlight') <= Cardinality(Handlers) - 1
       /\ most \in Nat
  <2>1. InFlight' \in SUBSET Handlers /\ {r} \in SUBSET Handlers /\ InFlight' \cap {r} = {}
    BY <1>1, GoMoves DEF InFlight
  <2>2. Cardinality({r}) = 1
    BY FS_Singleton
  <2>3. /\ Cardinality(InFlight') \in Nat
        /\ Cardinality(InFlight') + 1 <= Cardinality(Handlers)
    BY <2>1, <2>2, Apart
  <2>4. Cardinality(Handlers) \in Nat /\ successMaxCount \in Nat \ {0}
    BY RedisFacts
  <2> QED BY <2>3, <2>4
<1> HIDE DEF most
<1>12. RoomForFlight'
  <2> SUFFICES ASSUME NEW i \in 1 .. n + 1, now - successes'[i] < period
               PROVE  (n + 1) - i + 1 + Cardinality(InFlight') <= most
    BY <1>1, <1>4 DEF RoomForFlight, most
  <2>1. CASE i \in 1 .. n
    BY <1>4, <1>10, <2>1
  <2>2. CASE i = n + 1
    BY <1>11, <2>2, RedisNumbers DEF most
  <2> QED BY <2>1, <2>2, RedisNumbers
<1>13. MostInPeriod'
  <2> SUFFICES ASSUME NEW i \in 1 .. Len(successes') - most
               PROVE  successes'[i + most] - successes'[i] >= period
    BY DEF MostInPeriod, WindowOf, most
  <2>1. CASE i + most <= n
    <3>1. /\ i \in 1 .. n - most /\ i \in 1 .. n /\ i + most \in 1 .. n
      BY <1>11, <2>1, RedisNumbers
    <3>2. successes[i + most] - successes[i] >= period
      BY <1>0, <3>1 DEF MostInPeriod, WindowOf, most
    <3> QED BY <1>4, <3>1, <3>2
  <2>2. CASE i + most = n + 1
    <3>1. CASE i = n + 1
      <4>1. most = 0
        BY <1>11, <2>2, <3>1, RedisNumbers
      <4>2. Cardinality(Handlers) >= 1
        BY <1>11, RedisFacts
      <4> QED BY <4>1, <4>2, RedisFacts DEF most
    <3>2. CASE i # n + 1
      <4>1. i \in 1 .. n
        BY <1>11, <2>2, <3>2, RedisNumbers
      <4>2. ~(now - successes[i] < period)
        <5>1. ~((n + 1) - i + 1 + Cardinality(InFlight') <= most)
          BY <1>11, <2>2, <4>1, RedisNumbers
        <5> QED BY <1>10, <4>1, <5>1
      <4>3. now - successes[i] >= period
        BY <4>1, <4>2, RedisFacts
      <4> QED BY <1>4, <2>2, <4>1, <4>3
    <3> QED BY <3>1, <3>2
  <2>3. i + most <= n \/ i + most = n + 1
    <3>1. i \in 1 .. (n + 1) - most
      BY <1>4
    <3> QED BY <3>1, <1>11, RedisNumbers, LastOrBefore
  <2> QED BY <2>1, <2>2, <2>3
<1> QED BY <1>5, <1>7, <1>8, <1>9, <1>12, <1>13 DEF SuccessInv

\* LTRIM: the list keeps a full limit of the newest.
LEMMA SuccessOfTrim ==
  ASSUME HandlerTypeOK, LimiterTypeOK, HandlerTypeOK', LimiterTypeOK', SuccessInv,
         RedisEnabled, RedisEnabled', NEW r \in Handlers, RedisTrim(r)
  PROVE  SuccessInv'
<1> DEFINE n == IF Len(Entries) < successMaxCount THEN Len(Entries) ELSE successMaxCount
<1>0. /\ InOrder(successes, now) /\ ListIsNewest /\ ListForgetsOld /\ RoomForFlight
      /\ MostInPeriod
  BY DEF SuccessInv
<1>1. /\ UNCHANGED <<now, expiry, successes>> /\ list' = SubSeq(Entries, 1, n)
      /\ Go(r, "trim", "expire", "served")
  BY DEF RedisTrim, Trim, limiterVars
<1>2. n \in 0 .. Len(Entries) /\ n <= successMaxCount
  BY RedisFacts
<1> HIDE DEF n
<1>3. NewestFirst(SubSeq(Entries, 1, n), successes) /\ Len(SubSeq(Entries, 1, n)) = n
  BY <1>0, <1>2, RedisFacts, CutNewest DEF ListIsNewest
<1>4. Entries' = SubSeq(Entries, 1, n)
  <2>1. Expired' <=> Expired
    BY <1>1 DEF Expired
  <2>2. CASE Expired
    <3>1. Entries = <<>> /\ Entries' = <<>>
      BY <2>1, <2>2 DEF Entries
    <3>2. n = 0
      BY <1>2, <3>1
    <3> QED BY <3>1, <3>2
  <2>3. CASE ~Expired
    BY <1>1, <2>1, <2>3 DEF Entries
  <2> QED BY <2>2, <2>3
<1>5. /\ Cardinality(InFlight') = Cardinality(InFlight)
      /\ Cardinality(Trimming') \in Nat
  <2>1. Cardinality(InFlight') = Cardinality(InFlight) + 0 - 0
    BY <1>1, Moved
  <2>2. Trimming' \in SUBSET Handlers /\ {} \in SUBSET Handlers /\ Trimming' \cap {} = {}
    BY DEF Trimming
  <2>3. Cardinality(InFlight') = Cardinality(InFlight)
    BY <2>1, RedisNumbers
  <2>4. Cardinality(Trimming') \in Nat
    BY <2>2, Apart
  <2> QED BY <2>3, <2>4
<1>6. ListIsNewest'
  <2>1. Len(Entries') <= successMaxCount + Cardinality(Trimming')
    BY <1>2, <1>3, <1>4, <1>5, RedisNumbers
  <2> QED BY <1>1, <1>3, <1>4, <2>1 DEF ListIsNewest
<1>7. ListForgetsOld'
  <2> SUFFICES ASSUME n < successMaxCount, NEW i \in 1 .. Len(successes) - n
               PROVE  now - successes[i] >= period
    BY <1>1, <1>3, <1>4 DEF ListForgetsOld
  <2>1. n = Len(Entries) /\ Len(Entries) < successMaxCount
    BY RedisFacts DEF n
  <2> QED BY <1>0, <2>1 DEF ListForgetsOld
<1>8. ExpiryIsLate'
  <2>1. at'[r] = "expire"
    BY <1>1, GoMoves
  <2> QED BY <2>1 DEF ExpiryIsLate
<1>9. RoomForFlight' /\ InOrder(successes, now)' /\ MostInPeriod'
  BY <1>0, <1>1, <1>5, RedisFacts, RoomKept DEF MostInPeriod
<1> QED BY <1>6, <1>7, <1>8, <1>9 DEF SuccessInv

\* A second passes, but not within a record: what expires is old.
LEMMA SuccessOfTick ==
  ASSUME HandlerTypeOK, LimiterTypeOK, HandlerTypeOK', LimiterTypeOK', SuccessInv,
         RedisEnabled, RedisEnabled', Tick, UNCHANGED <<at, redisVars, successes>>,
         \A r \in Handlers : at[r] \notin {"trim", "expire"}
  PROVE  SuccessInv'
<1>0. /\ InOrder(successes, now) /\ ListIsNewest /\ ListForgetsOld /\ RoomForFlight
      /\ MostInPeriod /\ ExpiryIsLate
  BY DEF SuccessInv
<1>1. /\ now' = now + 1 /\ UNCHANGED <<at, list, expiry, successes>>
      /\ InFlight' = InFlight /\ Trimming' = Trimming
  BY DEF Tick, redisVars, InFlight, Trimming
<1>2. \A i \in 1 .. Len(successes) : successes[i] \in Nat /\ successes[i] <= now
  BY <1>0, RedisFacts DEF InOrder
<1>3. InOrder(successes, now)' /\ MostInPeriod'
  <2>1. \A i \in 1 .. Len(successes) : successes[i] <= now + 1
    BY <1>2, RedisNumbers
  <2>2. InOrder(successes, now + 1)
    BY <1>0, <2>1 DEF InOrder
  <2> QED BY <1>0, <1>1, <2>2 DEF MostInPeriod
<1>4. RoomForFlight'
  <2> SUFFICES ASSUME NEW i \in 1 .. Len(successes), (now + 1) - successes[i] < period
               PROVE  Len(successes) - i + 1 + Cardinality(InFlight)
                        <= successMaxCount + Cardinality(Handlers) - 1
    BY <1>1 DEF RoomForFlight
  <2>1. successes[i] \in Nat /\ now \in Nat /\ period \in Nat
    BY RedisFacts
  <2>2. now - successes[i] < period
    BY <2>1
  <2> QED BY <1>0, <2>2 DEF RoomForFlight
<1>5. CASE Entries' = Entries
  <2>1. ListIsNewest'
    BY <1>0, <1>1, <1>5 DEF ListIsNewest
  <2>2. ListForgetsOld'
    <3> SUFFICES ASSUME Len(Entries) < successMaxCount,
                        NEW i \in 1 .. Len(successes) - Len(Entries)
                 PROVE  (now + 1) - successes[i] >= period
      BY <1>1, <1>5 DEF ListForgetsOld
    <3>1. now - successes[i] >= period
      BY <1>0 DEF ListForgetsOld
    <3>2. i \in 1 .. Len(successes)
      BY RedisFacts
    <3> QED BY <1>2, <3>1, <3>2, RedisFacts
  <2>3. ExpiryIsLate'
    BY <1>0, <1>1, <1>5 DEF ExpiryIsLate
  <2> QED BY <1>3, <1>4, <2>1, <2>2, <2>3 DEF SuccessInv
<1>6. CASE Entries' # Entries
  <2>1. Entries' = <<>> /\ Entries # <<>> /\ expiry # Forever /\ now + 1 >= expiry
    BY <1>1, <1>6, RedisFacts DEF Entries, Expired, HandlerTypeOK
  <2>2. \A i \in 1 .. Len(successes) : successes[i] + period <= expiry
    BY <1>0, <2>1 DEF ExpiryIsLate
  <2>3. ListIsNewest'
    BY <1>1, <2>1, RedisFacts DEF ListIsNewest, NewestFirst
  <2>4. ListForgetsOld'
    <3> SUFFICES ASSUME NEW i \in 1 .. Len(successes)
                 PROVE  (now + 1) - successes[i] >= period
      BY <1>1, <2>1 DEF ListForgetsOld
    <3>1. successes[i] + period <= expiry /\ successes[i] \in Nat /\ expiry \in Int
      BY <1>2, <2>2 DEF HandlerTypeOK
    <3>2. now \in Nat /\ period \in Nat
      BY RedisFacts
    <3> QED BY <2>1, <3>1, <3>2
  <2>5. ExpiryIsLate'
    BY <2>1 DEF ExpiryIsLate
  <2> QED BY <1>3, <1>4, <2>3, <2>4, <2>5 DEF SuccessInv
<1> QED BY <1>5, <1>6

\* The invariant of the success limit with Redis, where a record's commands
\* fall into one second (Prompt).
THEOREM SuccessInvariant == ASSUME Prompt PROVE HandlersSpec => []SuccessInv
<1>1. HandlersInit => SuccessInv
  <2> SUFFICES ASSUME HandlersInit PROVE SuccessInv
    OBVIOUS
  <2>1. now = 0 /\ list = <<>> /\ successes = <<>>
    BY Zenon DEF HandlersInit, LimiterInit
  <2>2. Entries = <<>>
    BY <2>1 DEF Entries
  <2>3. Trimming \in SUBSET Handlers /\ {} \in SUBSET Handlers /\ Trimming \cap {} = {}
    BY DEF Trimming
  <2>4. Cardinality(Trimming) \in Nat /\ successMaxCount \in Nat
    BY <2>3, Apart, UserLimits
  <2>5. ListIsNewest
    BY <2>1, <2>2, <2>4 DEF ListIsNewest, NewestFirst
  <2>6. InOrder(successes, now) /\ ListForgetsOld /\ ExpiryIsLate /\ RoomForFlight
    BY <2>1, <2>2 DEF InOrder, ListForgetsOld, ExpiryIsLate, RoomForFlight
  <2>7. MostInPeriod
    <3>1. successMaxCount + Cardinality(Handlers) - 1 \in Nat
      BY UserLimits
    <3>2. Len(successes) = 0
      BY <2>1
    <3>3. 1 .. Len(successes) - (successMaxCount + Cardinality(Handlers) - 1) = {}
      BY <3>1, <3>2
    <3> QED BY <3>3 DEF MostInPeriod, WindowOf
  <2> QED BY <2>5, <2>6, <2>7 DEF SuccessInv
<1>2. ASSUME SuccessInv, HandlerTypeOK, LimiterInv, HandlerTypeOK', LimiterInv',
             [HandlersNext]_handlersVars
      PROVE  SuccessInv'
  <2> SUFFICES ASSUME RedisEnabled, RedisEnabled' PROVE SuccessInv'
    BY <1>2 DEF HandlersNext, handlersVars, SuccessInv
  <2>0. LimiterTypeOK /\ LimiterTypeOK' /\ now \in Nat
    BY <1>2 DEF LimiterInv, LimiterTypeOK
  <2>1. ASSUME NEW r \in Handlers, MemoryTotal(r) \/ MemoryCheck(r) \/ MemoryFinish(r)
        PROVE  FALSE
    BY <1>2, <2>1 DEF MemoryTotal, MemoryCheck, MemoryFinish, Go, HandlerTypeOK
  <2>2. ASSUME NEW r \in Handlers,
               RedisLength(r) \/ RedisOldest(r) \/ RedisTotal(r) \/ RedisFinish(r)
        PROVE  SuccessInv'
    BY <1>2, <2>0, <2>2, SuccessOfChecks
  <2>3. ASSUME NEW r \in Handlers, RedisRefuse(r) \/ RedisExpire(r) PROVE SuccessInv'
    BY <1>2, <2>0, <2>3, SuccessOfExpire
  <2>4. ASSUME NEW r \in Handlers, RedisPush(r) PROVE SuccessInv'
    BY <1>2, <2>0, <2>4, SuccessOfPush
  <2>5. ASSUME NEW r \in Handlers, RedisTrim(r) PROVE SuccessInv'
    BY <1>2, <2>0, <2>5, SuccessOfTrim
  <2>6. ASSUME UNCHANGED <<at, now, redisVars, successes>> PROVE SuccessInv'
    <3>1. /\ UNCHANGED <<now, list, expiry, successes, at>>
          /\ InFlight' = InFlight /\ Trimming' = Trimming
      BY <2>6 DEF redisVars, InFlight, Trimming
    <3>2. RoomForFlight'
      BY <1>2, <3>1 DEF SuccessInv, RoomForFlight
    <3> QED BY <1>2, <2>0, <3>1, <3>2, SuccessQuiet
  <2>7. CASE Passes
    <3>1. CASE Tick /\ \A r \in Handlers : at[r] \notin {"trim", "expire"}
      BY <1>2, <2>0, <2>7, <3>1, SuccessOfTick DEF Passes
    <3>2. CASE clearExpiredItems
      BY <2>6, <2>7, <3>2 DEF Passes, clearExpiredItems
    <3> QED BY <2>7, <3>1, <3>2 DEF Passes
  <2>8. CASE UNCHANGED handlersVars
    BY <2>6, <2>8 DEF handlersVars, limiterVars
  <2> QED BY <1>2, <2>1, <2>2, <2>3, <2>4, <2>5, <2>7, <2>8 DEF HandlersNext
<1> QED BY <1>1, <1>2, HandlerInvariant, PTL DEF HandlersSpec

\* With Redis, any number of handlers and any limits: the successes of one
\* period exceed the limit by no more than the other handlers, whatever the
\* order of their LPUSH, LTRIM and EXPIRE, as long as the three commands of a
\* record fall into one second.
THEOREM OvershootIsBounded == ASSUME Prompt PROVE HandlersSpec => []SuccessOvershoot
<1>1. SuccessInv => SuccessOvershoot
  BY DEF SuccessInv, MostInPeriod, WindowOf, SuccessOvershoot
<1> QED BY <1>1, SuccessInvariant, PTL

(***************************************************************************)
(* Proofs about BillingSession, for all bounds.                            *)
(***************************************************************************)
\* Amounts are natural numbers, and 0 and 1 are amounts.
LEMMA AmountFacts ==
  /\ \A a \in Amount : a \in Nat
  /\ 0 \in Amount /\ 1 \in Amount
  BY BoundsAssumption DEF Amount

\* What a session settles to is an amount.
LEMMA SettleTargetType ==
  ASSUME TypeOK, NEW actual \in Amount
  PROVE  SettleTarget(actual) \in Amount
  BY DEF SettleTarget, TypeOK

\* Moving both sides to an amount keeps the types, whether it fails or not.
LEMMA TargetType ==
  ASSUME TypeOK, NEW target \in Amount,
         TargetFails(target) \/ TargetReached(target),
         UNCHANGED <<playground, funding>>
  PROVE  /\ fundingQuota' \in Amount /\ tokenQuota' \in Amount
         /\ tokenConsumed' \in Amount
         /\ consumed' \in Int /\ rewardConsumed' \in Int
         /\ paidConsumed' \in Int
         /\ fundingTaken' \in Int /\ rewardTaken' \in Int
         /\ tokenTaken' \in Int
         /\ failures' \in 0 .. MaxFailures
<1> USE BoundsAssumption, AmountFacts
<1>1. target \in Int /\ fundingQuota \in Int /\ tokenQuota \in Int
  BY DEF TypeOK
<1>2. ASSUME FundingMoves(target)
      PROVE  /\ fundingQuota' \in Amount
             /\ consumed' \in Int /\ rewardConsumed' \in Int
             /\ paidConsumed' \in Int
             /\ fundingTaken' \in Int /\ rewardTaken' \in Int
  <2>1. CASE UNCHANGED purseVars
    BY <1>2, <2>1 DEF FundingMoves, purseVars, TypeOK
  <2>2. CASE FundingSettle(target - fundingQuota)
    <3> DEFINE d == target - fundingQuota
    <3>1. CASE funding = "wallet" /\ WalletSettle(d)
      <4>1. CASE d > 0 /\ \E r \in RewardShares(d) : WalletDebit(d, r)
        BY <1>1, <1>2, <4>1 DEF FundingMoves, RewardShares, WalletDebit, TypeOK
      <4>2. CASE d < 0 /\ WalletCredit(-d)
        BY <1>1, <1>2, <4>2 DEF FundingMoves, WalletCredit, Min2, TypeOK
      <4>3. QED
        BY <3>1, <4>1, <4>2 DEF WalletSettle
    <3>2. CASE funding = "subscription" /\ SubscriptionSettle(d)
      BY <1>1, <1>2, <3>2 DEF FundingMoves, SubscriptionSettle, Max2, TypeOK
    <3>3. QED
      BY <2>2, <3>1, <3>2 DEF FundingSettle
  <2>3. QED
    BY <1>2, <2>1, <2>2 DEF FundingMoves
<1>3. CASE TargetFundingFails(target)
  BY <1>3 DEF TargetFundingFails, StoreFails, purseVars, tokenVars, TypeOK
<1>4. CASE TargetTokenFails(target)
  BY <1>2, <1>4 DEF TargetTokenFails, StoreFails, tokenVars, TypeOK
<1>5. CASE TargetReached(target)
  <2>1. tokenQuota' \in Amount /\ tokenConsumed' \in Amount
        /\ tokenTaken' \in Int
    BY <1>1, <1>5 DEF TargetReached, TokenMoves, TypeOK
  <2>2. QED
    BY <1>2, <1>5, <2>1 DEF TargetReached, StoreWorks, TypeOK
<1>6. QED
  BY <1>3, <1>4, <1>5 DEF TargetFails

-----------------------------------------------------------------------------
\* Opening a session keeps the types.
LEMMA OpenStepType == TypeOK /\ OpenStep => TypeOK'
<1> SUFFICES ASSUME TypeOK, OpenStep PROVE TypeOK'
  OBVIOUS
<1> USE BoundsAssumption, AmountFacts
        DEF opened, purseVars, progressVars, refundVars, rollbackVars,
            tokenVars, claimVars
<1>1. CASE WalletQuotaCheckFails
  BY <1>1 DEF WalletQuotaCheckFails, Unavailable, TypeOK, Source
<1>2. CASE PreConsumeToken
  <2>1. effective' \in Amount
    BY <1>2 DEF PreConsumeToken, Reservation, Max2, TypeOK
  <2>2. effective' \in Int
    BY <2>1
  <2>3. QED
    BY <1>2, <2>1, <2>2 DEF PreConsumeToken, TypeOK
<1>3. CASE PreConsumeFunding
  BY <1>3 DEF PreConsumeFunding, RewardShares, TypeOK
<1>4. CASE PreConsumeFundingFails
  BY <1>4 DEF PreConsumeFundingFails, Unavailable, TypeOK, Source
<1>5. CASE TokenRollbackWorks
  BY <1>5 DEF TokenRollbackWorks, TypeOK
<1>6. CASE TokenRollbackFails
  BY <1>6 DEF TokenRollbackFails, StoreFails, TypeOK
<1>7. QED
  BY <1>1, <1>2, <1>3, <1>4, <1>5, <1>6 DEF OpenStep

\* Settling keeps the types.
LEMMA SettleType ==
  ASSUME TypeOK, NEW actual \in Amount, SettleBilling(actual)
  PROVE  TypeOK'
<1> USE BoundsAssumption, AmountFacts
        DEF openVars, refundVars, rollbackVars, purseVars, tokenVars,
            claimVars
<1>0. SettleTarget(actual) \in Amount
  BY SettleTargetType
<1>1. ASSUME paidConsumed' \in Int, ClaimWalletConsumedForRebate
      PROVE  rebateApplied' \in BOOLEAN /\ rebatedPaid' \in Int
  <2>1. rebatedPaid \in Int /\ rebateApplied \in BOOLEAN
    BY DEF TypeOK
  <2>2. CASE UNCHANGED claimVars
    BY <2>1, <2>2 DEF claimVars
  <2>3. CASE rebateApplied' = TRUE /\ rebatedPaid' = rebatedPaid + paidConsumed'
    BY <1>1, <2>1, <2>3
  <2>4. QED
    BY <1>1, <2>2, <2>3 DEF ClaimWalletConsumedForRebate
<1>2. CASE SettleAgain
  <2>1. rebateApplied' \in BOOLEAN /\ rebatedPaid' \in Int
    BY <1>1, <1>2 DEF SettleAgain, TypeOK
  <2>2. QED
    BY <1>2, <2>1 DEF SettleBilling, SettleAgain, TypeOK
<1>3. CASE SettleFirst(actual)
  <2>1. TargetFails(SettleTarget(actual)) \/ TargetReached(SettleTarget(actual))
    BY <1>3 DEF SettleFirst
  <2>2. UNCHANGED <<playground, funding>>
    BY DEF SettleBilling
  <2>3. settled' \in BOOLEAN /\ rebateApplied' \in BOOLEAN /\ rebatedPaid' \in Int
    BY <1>0, <1>1, <1>3, <2>1, <2>2, TargetType DEF SettleFirst, TypeOK
  <2>4. progressPending' \in BOOLEAN /\ finalTried' \in BOOLEAN
    BY <1>3 DEF SettleFirst, SettleBilling
  <2>5. UNCHANGED <<openVars, pendingProgressDelta, pendingProgressTarget,
                    refundVars, rollbackVars, preConsumedQuota, streamed>>
    BY DEF SettleBilling
  <2> HIDE DEF SettleTarget
  <2>6. /\ fundingQuota' \in Amount /\ tokenQuota' \in Amount
        /\ tokenConsumed' \in Amount
        /\ consumed' \in Int /\ rewardConsumed' \in Int
        /\ paidConsumed' \in Int
        /\ fundingTaken' \in Int /\ rewardTaken' \in Int
        /\ tokenTaken' \in Int
        /\ failures' \in 0 .. MaxFailures
    BY <1>0, <2>1, <2>2, TargetType
  <2>7. QED
    BY <2>3, <2>4, <2>5, <2>6 DEF TypeOK
<1>4. QED
  BY <1>2, <1>3 DEF SettleBilling

\* A realtime increment keeps the types.
LEMMA ProgressType ==
  ASSUME TypeOK, NEW delta \in 1 .. MaxStreamed, NEW retry \in BOOLEAN,
         SettleProgress(delta, retry)
  PROVE  TypeOK'
<1> USE BoundsAssumption, AmountFacts
<1> DEFINE t == ProgressTarget(delta)
<1>1. t \in Amount
  BY DEF SettleProgress
<1>2. TargetFails(t) \/ TargetReached(t)
  BY DEF SettleProgress
<1>3. UNCHANGED <<playground, funding>>
  BY DEF SettleProgress, openVars
<1>4. streamed' \in 0 .. MaxStreamed
  BY DEF SettleProgress, TypeOK
<1>5. progressPending' \in BOOLEAN
  BY DEF SettleProgress
<1> HIDE DEF t
<1>6. QED
  BY <1>1, <1>2, <1>3, <1>4, <1>5, TargetType
     DEF t, SettleProgress, openVars, refundVars, rollbackVars, claimVars,
         TypeOK

\* Starting and running a refund keeps the types.
LEMMA RefundType == TypeOK /\ (Refund \/ RefundStep) => TypeOK'
<1> SUFFICES ASSUME TypeOK, Refund \/ RefundStep PROVE TypeOK'
  OBVIOUS
<1> USE BoundsAssumption, AmountFacts
        DEF sessionRest, openVars, purseVars, progressVars, rollbackVars,
            tokenVars, claimVars, At, TypeOK
<1>1. CASE Refund
  BY <1>1 DEF Refund
<1>2. CASE RefundFunding
  BY <1>2 DEF RefundFunding, FundingRefund, StoreFails, StoreWorks
<1>3. CASE RefundMarkFunding
  BY <1>3 DEF RefundMarkFunding
<1>4. CASE RefundToken
  BY <1>4 DEF RefundToken, StoreFails, StoreWorks
<1>5. CASE RefundMarkToken
  BY <1>5 DEF RefundMarkToken
<1>6. CASE RefundFinish
  BY <1>6 DEF RefundFinish
<1>7. QED
  BY <1>1, <1>2, <1>3, <1>4, <1>5, <1>6 DEF RefundStep

\* Starting and running a rollback keeps the types.
LEMMA RollbackType == TypeOK /\ (RollbackSettlement \/ RollbackStep) => TypeOK'
<1> SUFFICES ASSUME TypeOK, RollbackSettlement \/ RollbackStep PROVE TypeOK'
  OBVIOUS
<1> USE BoundsAssumption, AmountFacts
        DEF sessionRest, openVars, purseVars, progressVars, refundVars,
            tokenVars, claimVars, At, TypeOK
<1>1. CASE RollbackSettlement
  BY <1>1 DEF RollbackSettlement
<1>2. CASE RollbackFunding
  BY <1>2 DEF RollbackFunding, FundingRefund, StoreFails, StoreWorks
<1>3. CASE RollbackMarkFunding
  BY <1>3 DEF RollbackMarkFunding
<1>4. CASE RollbackToken
  BY <1>4 DEF RollbackToken, StoreFails, StoreWorks
<1>5. CASE RollbackMarkToken
  BY <1>5 DEF RollbackMarkToken
<1>6. CASE RollbackFinish
  BY <1>6 DEF RollbackFinish
<1>7. QED
  BY <1>1, <1>2, <1>3, <1>4, <1>5, <1>6 DEF RollbackStep

\* Every field and store of the session keeps its type, for all bounds.
THEOREM TypeCorrect == Spec => []TypeOK
<1>1. Init => TypeOK
  <2> SUFFICES ASSUME Init PROVE TypeOK
    OBVIOUS
  <2>1. /\ 0 \in 0 .. TokenRollbackAttempts /\ 0 \in 0 .. MaxStreamed
        /\ 0 \in 0 .. MaxFailures /\ 0 \in Int
    BY BoundsAssumption
  <2>2. fallback \in Source \cup {"none"}
    BY DEF Init
  <2>3. QED
    BY <2>1, <2>2, AmountFacts DEF Init, TypeOK, At
<1>2. TypeOK /\ [Next]_vars => TypeOK'
  <2> SUFFICES ASSUME TypeOK, [Next]_vars PROVE TypeOK'
    OBVIOUS
  <2>1. CASE UNCHANGED vars
    BY <2>1 DEF vars, openVars, purseVars, progressVars, refundVars,
                rollbackVars, tokenVars, claimVars, TypeOK
  <2>2. QED
    BY <2>1, OpenStepType, SettleType, ProgressType, RefundType, RollbackType
       DEF Next
<1>3. QED
  BY <1>1, <1>2, PTL DEF Spec
-----------------------------------------------------------------------------
(***************************************************************************)
(* The inductive invariant.  Accounting is IInv without the types.         *)
(***************************************************************************)
Accounting == PurseInv /\ FundingStoreInv /\ TokenStoreInv
                /\ LifecycleInv /\ ProgressInv /\ RebateClaimedOnce

\* Opening a session keeps the accounts.
LEMMA OpenStepAccounting ==
  ASSUME TypeOK, Accounting, OpenStep
  PROVE  Accounting'
<1> USE AmountFacts
        DEF Accounting, PurseInv, FundingStoreInv, TokenStoreInv, LifecycleInv,
            ProgressInv, RebateClaimedOnce, FundingReturned, TokenReturned,
            tokenQuotaRequired,
            openVars, purseVars, progressVars, refundVars, rollbackVars,
            tokenVars, claimVars, sessionRest, opened
<1>1. CASE WalletQuotaCheckFails
  BY <1>1 DEF WalletQuotaCheckFails, Unavailable, TypeOK
<1>2. CASE PreConsumeToken
  BY <1>2 DEF PreConsumeToken, Reservation, Max2, TypeOK
<1>3. CASE PreConsumeFunding
  BY <1>3 DEF PreConsumeFunding, RewardShares, TypeOK
<1>4. CASE PreConsumeFundingFails
  BY <1>4 DEF PreConsumeFundingFails, Unavailable, TypeOK
<1>5. CASE TokenRollbackWorks
  BY <1>5 DEF TokenRollbackWorks, TypeOK
<1>6. CASE TokenRollbackFails
  BY <1>6 DEF TokenRollbackFails, StoreFails, TypeOK
<1>7. QED
  BY <1>1, <1>2, <1>3, <1>4, <1>5, <1>6 DEF OpenStep, RefundStep, RollbackStep

\* A refund keeps the accounts.
LEMMA RefundAccounting ==
  ASSUME TypeOK, Accounting, Refund \/ RefundStep
  PROVE  Accounting'
<1> USE AmountFacts
        DEF Accounting, PurseInv, FundingStoreInv, TokenStoreInv, LifecycleInv,
            ProgressInv, RebateClaimedOnce, FundingReturned, TokenReturned,
            tokenQuotaRequired,
            openVars, purseVars, progressVars, refundVars, rollbackVars,
            tokenVars, claimVars, sessionRest, opened
<1>1. CASE Refund
  BY <1>1 DEF Refund, NothingOnToken, NeedsRefund, TypeOK
<1>2. CASE RefundFunding
  BY <1>2 DEF RefundFunding, FundingRefund, StoreFails, StoreWorks, RefundCallsStore, TypeOK
<1>3. CASE RefundMarkFunding
  BY <1>3 DEF RefundMarkFunding, TypeOK
<1>4. CASE RefundToken
  BY <1>4 DEF RefundToken, StoreFails, StoreWorks, TypeOK
<1>5. CASE RefundMarkToken
  BY <1>5 DEF RefundMarkToken, TypeOK
<1>6. CASE RefundFinish
  BY <1>6 DEF RefundFinish, TypeOK
<1>7. QED
  BY <1>1, <1>2, <1>3, <1>4, <1>5, <1>6 DEF OpenStep, RefundStep, RollbackStep

\* A rollback keeps the accounts.
LEMMA RollbackAccounting ==
  ASSUME TypeOK, Accounting, RollbackSettlement \/ RollbackStep
  PROVE  Accounting'
<1> USE AmountFacts
        DEF Accounting, PurseInv, FundingStoreInv, TokenStoreInv, LifecycleInv,
            ProgressInv, RebateClaimedOnce, FundingReturned, TokenReturned,
            tokenQuotaRequired,
            openVars, purseVars, progressVars, refundVars, rollbackVars,
            tokenVars, claimVars, sessionRest, opened
<1>1. CASE RollbackSettlement
  BY <1>1 DEF RollbackSettlement, TypeOK
<1>2. CASE RollbackFunding
  BY <1>2 DEF RollbackFunding, FundingRefund, StoreFails, StoreWorks, RefundCallsStore, TypeOK
<1>3. CASE RollbackMarkFunding
  BY <1>3 DEF RollbackMarkFunding, TypeOK
<1>4. CASE RollbackToken
  BY <1>4 DEF RollbackToken, StoreFails, StoreWorks, TypeOK
<1>5. CASE RollbackMarkToken
  BY <1>5 DEF RollbackMarkToken, TypeOK
<1>6. CASE RollbackFinish
  BY <1>6 DEF RollbackFinish, TypeOK
<1>7. QED
  BY <1>1, <1>2, <1>3, <1>4, <1>5, <1>6 DEF OpenStep, RefundStep, RollbackStep

\* In an open session that is neither settled nor being refunded, moving the
\* funding side leaves store and record equal, at the target.
LEMMA FundingMovesTo ==
  ASSUME TypeOK, Accounting, stage = "open", ~settled, ~refundStarted,
         NEW target \in Amount, FundingMoves(target)
  PROVE  /\ fundingQuota' = target /\ consumed' = target
         /\ fundingTaken' = target /\ rewardTaken' = rewardConsumed'
         /\ rewardConsumed' >= 0 /\ paidConsumed' >= 0
         /\ funding = "wallet" => rewardConsumed' + paidConsumed' = target
         /\ funding = "subscription" => rewardConsumed' = 0 /\ paidConsumed' = 0
         /\ target = 0 => rewardConsumed' = 0 /\ paidConsumed' = 0
<1> USE AmountFacts
<1>1. /\ consumed = fundingQuota /\ fundingTaken = consumed
      /\ rewardTaken = rewardConsumed
      /\ rewardConsumed >= 0 /\ paidConsumed >= 0
      /\ funding = "wallet" => rewardConsumed + paidConsumed = consumed
      /\ funding = "subscription" => rewardConsumed = 0 /\ paidConsumed = 0
  BY DEF Accounting, PurseInv, FundingStoreInv, LifecycleInv, FundingReturned
<1>2. /\ target \in Nat /\ fundingQuota \in Nat
      /\ rewardConsumed \in Int /\ paidConsumed \in Int
      /\ funding \in {"wallet", "subscription"}
  BY DEF TypeOK, Source
<1>3. CASE target = fundingQuota /\ UNCHANGED purseVars
  BY <1>1, <1>2, <1>3 DEF FundingMoves, purseVars
<1>4. CASE funding = "wallet" /\ WalletSettle(target - fundingQuota)
  BY <1>1, <1>2, <1>4
     DEF FundingMoves, WalletSettle, WalletDebit, WalletCredit, RewardShares,
         Min2
<1>5. CASE funding = "subscription" /\ SubscriptionSettle(target - fundingQuota)
  BY <1>1, <1>2, <1>5 DEF FundingMoves, SubscriptionSettle, Max2
<1>6. QED
  BY <1>3, <1>4, <1>5 DEF FundingMoves, FundingSettle

\* Moving both sides, completely or not, keeps the accounts of both stores.
LEMMA TargetAccounting ==
  ASSUME TypeOK, Accounting, stage = "open", ~settled, ~refundStarted,
         NEW target \in Amount, TargetFails(target) \/ TargetReached(target),
         UNCHANGED <<openVars, refundVars, rollbackVars>>
  PROVE  PurseInv' /\ FundingStoreInv' /\ TokenStoreInv'
<1> USE AmountFacts
        DEF Accounting, PurseInv, FundingStoreInv, TokenStoreInv,
            LifecycleInv, FundingReturned, TokenReturned, tokenQuotaRequired,
            openVars, refundVars, rollbackVars, tokenVars
<1>1. CASE TargetFundingFails(target)
  BY <1>1 DEF TargetFundingFails, purseVars, TypeOK
<1>2. CASE TargetTokenFails(target)
  <2>1. FundingMoves(target) /\ UNCHANGED tokenVars
    BY <1>2 DEF TargetTokenFails
  <2>2. PurseInv' /\ FundingStoreInv'
    BY <2>1, FundingMovesTo DEF TypeOK
  <2>3. TokenStoreInv'
    BY <2>1
  <2>4. QED
    BY <2>2, <2>3
<1>3. CASE TargetReached(target)
  <2>1. FundingMoves(target) /\ TokenMoves(target)
    BY <1>3 DEF TargetReached
  <2>2. PurseInv' /\ FundingStoreInv'
    BY <2>1, FundingMovesTo DEF TypeOK
  <2>3. TokenStoreInv'
    BY <2>1 DEF TokenMoves, TypeOK
  <2>4. QED
    BY <2>2, <2>3
<1>4. QED
  BY <1>1, <1>2, <1>3 DEF TargetFails

\* SettleBilling keeps the accounts.
LEMMA SettleAccounting ==
  ASSUME TypeOK, Accounting, NEW actual \in Amount, SettleBilling(actual)
  PROVE  Accounting'
<1> USE AmountFacts
<1> DEFINE t == SettleTarget(actual)
<1>1. t \in Amount
  BY SettleTargetType
<1>2. CASE SettleAgain
  BY <1>2
     DEF SettleBilling, SettleAgain, ClaimWalletConsumedForRebate,
         NotRefunding, Accounting, PurseInv, FundingStoreInv, TokenStoreInv,
         LifecycleInv, ProgressInv, RebateClaimedOnce, FundingReturned,
         TokenReturned, tokenQuotaRequired, openVars, purseVars, refundVars,
         rollbackVars, tokenVars, claimVars, TypeOK
<1>3. CASE SettleFirst(actual)
  <2>1. /\ stage = "open" /\ ~settled /\ ~refundStarted
        /\ TargetFails(t) \/ TargetReached(t)
        /\ UNCHANGED <<openVars, refundVars, rollbackVars, preConsumedQuota,
                       streamed>>
        /\ finalTried' /\ ~progressPending'
    BY <1>3 DEF SettleBilling, SettleFirst, NotRefunding
  <2> HIDE DEF t
  <2>2. PurseInv' /\ FundingStoreInv' /\ TokenStoreInv'
    BY <1>1, <2>1, TargetAccounting
  <2>3. CASE TargetFails(t) /\ UNCHANGED <<settled, claimVars>>
    <3>1. LifecycleInv' /\ ProgressInv'
      BY <2>1, <2>3
         DEF Accounting, LifecycleInv, ProgressInv, openVars, refundVars,
             rollbackVars, tokenQuotaRequired
    <3>2. ~rebateApplied /\ rebatedPaid = 0
      BY <2>1 DEF Accounting, RebateClaimedOnce
    <3>3. RebateClaimedOnce'
      BY <2>3, <3>2 DEF RebateClaimedOnce, claimVars
    <3>4. QED
      BY <2>2, <3>1, <3>3 DEF Accounting
  <2>4. CASE TargetReached(t) /\ settled' /\ ClaimWalletConsumedForRebate
    <3>1. fundingQuota' = t
      BY <2>4 DEF TargetReached, FundingMoves
    <3>2. tokenQuota' = IF tokenQuotaRequired THEN t ELSE 0
      BY <2>4 DEF TargetReached, TokenMoves
    <3>3. LifecycleInv'
      BY <2>1, <2>4, <3>1, <3>2
         DEF Accounting, LifecycleInv, openVars, refundVars, rollbackVars,
             tokenQuotaRequired
    <3>4. ProgressInv'
      BY <2>1 DEF ProgressInv
    <3>5. ~rebateApplied /\ rebatedPaid = 0
      BY <2>1 DEF Accounting, RebateClaimedOnce
    <3>6. paidConsumed' \in Int /\ (funding # "wallet" => paidConsumed' = 0)
      BY <1>1, <2>1, <2>4, FundingMovesTo, TargetType
         DEF TargetReached, TypeOK, Source, openVars
    <3>7. RebateClaimedOnce'
      BY <2>4, <3>5, <3>6
         DEF RebateClaimedOnce, ClaimWalletConsumedForRebate, claimVars
    <3>8. QED
      BY <2>2, <3>3, <3>4, <3>7 DEF Accounting
  <2>5. QED
    BY <1>3, <2>3, <2>4 DEF SettleFirst, t
<1>4. QED
  BY <1>2, <1>3 DEF SettleBilling

\* SettleProgress keeps the accounts, and never targets more than was
\* reserved and streamed.
LEMMA ProgressAccounting ==
  ASSUME TypeOK, Accounting, NEW delta \in 1 .. MaxStreamed,
         NEW retry \in BOOLEAN, SettleProgress(delta, retry)
  PROVE  Accounting'
<1> USE AmountFacts, BoundsAssumption
<1> DEFINE t == ProgressTarget(delta)
<1>1. /\ t \in Amount
      /\ stage = "open" /\ ~settled /\ ~refundStarted
      /\ TargetFails(t) \/ TargetReached(t)
      /\ UNCHANGED <<openVars, refundVars, rollbackVars, claimVars,
                     preConsumedQuota, settled, finalTried>>
  BY DEF SettleProgress, NotRefunding
<1>2. ~finalTried => t <= preConsumedQuota + streamed'
  BY DEF SettleProgress, ProgressTarget, Max2, Accounting, ProgressInv, TypeOK
<1>3. streamed' >= streamed /\ streamed \in Int /\ streamed' \in Int
  BY DEF SettleProgress, TypeOK
<1>4. pendingProgressTarget' = t
  BY DEF SettleProgress
<1> HIDE DEF t
<1>5. PurseInv' /\ FundingStoreInv' /\ TokenStoreInv'
  BY <1>1, TargetAccounting
<1>6. fundingQuota' = t \/ fundingQuota' = fundingQuota
  BY <1>1 DEF TargetFails, TargetFundingFails, TargetTokenFails,
              TargetReached, FundingMoves
<1>7. ProgressInv'
  BY <1>1, <1>2, <1>3, <1>4, <1>6 DEF Accounting, ProgressInv, openVars, TypeOK
<1>8. LifecycleInv'
  BY <1>1
     DEF Accounting, LifecycleInv, openVars, refundVars, rollbackVars,
         tokenQuotaRequired
<1>9. RebateClaimedOnce'
  BY <1>1 DEF Accounting, RebateClaimedOnce, claimVars
<1>10. QED
  BY <1>5, <1>7, <1>8, <1>9 DEF Accounting

-----------------------------------------------------------------------------
(***************************************************************************)
(* The invariant of the specification, and the properties that follow.     *)
(***************************************************************************)
\* The accounts of a session that was not opened yet are empty.
LEMMA InitAccounting == Init => Accounting
  BY AmountFacts
     DEF Init, Accounting, PurseInv, FundingStoreInv, TokenStoreInv,
         LifecycleInv, ProgressInv, RebateClaimedOnce, FundingReturned,
         TokenReturned, tokenQuotaRequired, Source

\* A stuttering step keeps the accounts.
LEMMA StutterAccounting ==
  ASSUME Accounting, UNCHANGED vars
  PROVE  Accounting'
  BY DEF vars, openVars, purseVars, progressVars, refundVars, rollbackVars,
         tokenVars, claimVars, Accounting, PurseInv, FundingStoreInv,
         TokenStoreInv, LifecycleInv, ProgressInv, RebateClaimedOnce,
         FundingReturned, TokenReturned, tokenQuotaRequired

\* The inductive invariant: in every reachable state, what the session
\* remembers is what its stores debited, until a side was given back.
THEOREM AccountsKept == Spec => []IInv
<1>1. TypeOK /\ Accounting /\ [Next]_vars => Accounting'
  BY StutterAccounting, OpenStepAccounting, SettleAccounting,
     ProgressAccounting, RefundAccounting, RollbackAccounting DEF Next
<1>2. IInv <=> TypeOK /\ Accounting
  BY DEF IInv, Accounting
<1>3. QED
  BY <1>1, <1>2, InitAccounting, TypeCorrect, PTL DEF Spec

\* A settled session has debited the same, exact amount on both sides.
THEOREM ChargeIsExact == Spec => []ChargedExactly
<1>1. IInv => ChargedExactly
  BY DEF IInv, ChargedExactly, PurseInv, FundingStoreInv, TokenStoreInv,
         LifecycleInv, FundingReturned, TokenReturned, tokenQuotaRequired
<1>2. QED
  BY <1>1, AccountsKept, PTL

\* A refunded session, and a refused request, hold nothing in any store.
THEOREM ReturnIsComplete ==
  Spec => [](RefundedHoldsNothing /\ RefusedHoldsNothing)
<1>1. IInv => RefundedHoldsNothing
  BY DEF IInv, RefundedHoldsNothing, FundingStoreInv, TokenStoreInv,
         LifecycleInv, FundingReturned, TokenReturned
<1>2. IInv => RefusedHoldsNothing
  BY DEF IInv, RefusedHoldsNothing, PurseInv, FundingStoreInv, TokenStoreInv,
         LifecycleInv, FundingReturned, TokenReturned
<1>3. QED
  BY <1>1, <1>2, AccountsKept, PTL

\* No store gets back more than it gave, and the reward share of a wallet
\* charge never exceeds the charge.
LEMMA HeldIsNatural ==
  ASSUME IInv
  PROVE  NeverOverRefunded
<1>1. /\ consumed \in Nat /\ tokenQuota \in Nat /\ tokenConsumed \in Nat
      /\ rewardConsumed <= consumed
  BY AmountFacts DEF IInv, TypeOK, PurseInv, Source
<1>2. 0 <= rewardTaken /\ rewardTaken <= fundingTaken
  BY <1>1 DEF IInv, TypeOK, PurseInv, FundingStoreInv
<1>3. tokenTaken \in {0, tokenQuota, tokenConsumed}
  BY DEF IInv, TypeOK, TokenStoreInv
<1>4. QED
  BY <1>1, <1>2, <1>3 DEF NeverOverRefunded

\* Refunds and rollbacks never give back more than was debited.
THEOREM RefundIsBounded == Spec => []NeverOverRefunded
  BY HeldIsNatural, AccountsKept, PTL

\* A partially failed refund can always be continued.
THEOREM RefundIsResumable == Spec => []RefundStaysPossible
<1>1. IInv => RefundStaysPossible
  BY DEF IInv, TypeOK, Source, RefundStaysPossible, NeedsRefund, PurseInv,
         FundingStoreInv, TokenStoreInv, LifecycleInv, FundingReturned,
         TokenReturned
<1>2. QED
  BY <1>1, AccountsKept, PTL

\* Realtime increments never charge more than was reserved and streamed.
THEOREM ProgressIsBounded == Spec => []ProgressNeverOvercharges
<1>1. ASSUME IInv PROVE ProgressNeverOvercharges
  <2>1. CASE fundingTaken = 0
    BY <1>1, <2>1, AmountFacts, BoundsAssumption
       DEF IInv, TypeOK, ProgressNeverOvercharges
  <2>2. CASE fundingTaken = consumed
    BY <1>1, <2>2 DEF IInv, PurseInv, ProgressInv, ProgressNeverOvercharges
  <2>3. QED
    BY <1>1, <2>1, <2>2 DEF IInv, FundingStoreInv
<1>2. QED
  BY <1>1, AccountsKept, PTL

\* The paid quota of a charge is claimed for the consume rebate at most once.
THEOREM RebateIsClaimedOnce == Spec => []RebateClaimedOnce
<1>1. IInv => RebateClaimedOnce
  BY DEF IInv
<1>2. QED
  BY <1>1, AccountsKept, PTL

\* After a refund began or a settlement committed, nothing is debited again.
THEOREM CloseIsFinal == Spec => NoDebitAfterClose
<1> USE DEF openVars, purseVars, progressVars, refundVars, rollbackVars,
            tokenVars, claimVars, sessionRest
<1>1. ASSUME IInv, [Next]_vars, refundStarted \/ settled
      PROVE  /\ fundingTaken' <= fundingTaken
             /\ rewardTaken' <= rewardTaken
             /\ tokenTaken' <= tokenTaken
  <2>1. /\ fundingTaken \in Int /\ rewardTaken \in Int /\ tokenTaken \in Int
        /\ 0 <= rewardTaken /\ rewardTaken <= fundingTaken /\ 0 <= tokenTaken
        /\ consumed \in Int /\ rewardConsumed \in Int
        /\ refundTokenAmount \in Nat /\ rollbackTokenAmount \in Nat
    BY <1>1, HeldIsNatural, AmountFacts DEF IInv, TypeOK, NeverOverRefunded
  <2>2. /\ 0 <= rewardConsumed /\ 0 <= consumed /\ stage = "open"
        /\ 0 <= refundTokenAmount /\ 0 <= rollbackTokenAmount
    BY <1>1, <2>1, AmountFacts DEF IInv, TypeOK, PurseInv, LifecycleInv
  <2> DEFINE Goal == /\ fundingTaken' <= fundingTaken
                     /\ rewardTaken' <= rewardTaken
                     /\ tokenTaken' <= tokenTaken
  <2>3. CASE UNCHANGED vars
    BY <2>1, <2>3 DEF vars
  <2>4. CASE OpenStep
    BY <2>2, <2>4
       DEF OpenStep, WalletQuotaCheckFails, PreConsumeToken,
           PreConsumeFunding, PreConsumeFundingFails, TokenRollbackWorks,
           TokenRollbackFails
  <2>5. ASSUME NEW actual \in Amount, SettleBilling(actual) PROVE Goal
    BY <1>1, <2>1, <2>5
       DEF SettleBilling, SettleFirst, SettleAgain, NotRefunding
  <2>6. ASSUME NEW delta \in 1 .. MaxStreamed, NEW retry \in BOOLEAN,
               SettleProgress(delta, retry)
        PROVE  Goal
    BY <1>1, <2>6 DEF SettleProgress, NotRefunding
  <2>7. CASE Refund \/ RollbackSettlement
    BY <2>1, <2>7 DEF Refund, RollbackSettlement
  <2>8. CASE RefundStep
    BY <2>1, <2>2, <2>8
       DEF RefundStep, RefundFunding, RefundMarkFunding, RefundToken,
           RefundMarkToken, RefundFinish, FundingRefund, IInv, TypeOK
  <2>9. CASE RollbackStep
    BY <2>1, <2>2, <2>9
       DEF RollbackStep, RollbackFunding, RollbackMarkFunding, RollbackToken,
           RollbackMarkToken, RollbackFinish, FundingRefund, IInv, TypeOK
  <2>10. QED
    BY <1>1, <2>3, <2>4, <2>5, <2>6, <2>7, <2>8, <2>9 DEF Next
<1>2. IInv /\ [Next]_vars =>
        [refundStarted \/ settled =>
           /\ fundingTaken' <= fundingTaken
           /\ rewardTaken' <= rewardTaken
           /\ tokenTaken' <= tokenTaken]_vars
  BY <1>1
<1>3. QED
  BY <1>2, AccountsKept, PTL DEF Spec, NoDebitAfterClose

-----------------------------------------------------------------------------
(***************************************************************************)
(* The session implements the abstract reservation.                        *)
(***************************************************************************)
\* What the stores hold for a session is a natural number.
LEMMA HeldTypes == IInv => fundingTaken \in Nat /\ tokenTaken \in Nat
  BY HeldIsNatural DEF IInv, TypeOK, NeverOverRefunded

\* The same in the next state.
LEMMA HeldTypesNext == IInv' => (fundingTaken \in Nat /\ tokenTaken \in Nat)'
  BY HeldTypes, PTL

\* A step of NewBillingSession reserves, refuses or opens.
LEMMA OpenStepRefines ==
  ASSUME IInv, IInv', OpenStep
  PROVE  Res!ResNext \/ UNCHANGED <<ReservationPhase, fundingTaken, tokenTaken>>
<1> USE DEF openVars, purseVars, progressVars, refundVars, rollbackVars,
            tokenVars, claimVars, opened, ReservationPhase, Res!ResNext
<1>1. /\ fundingTaken' \in Nat /\ tokenTaken' \in Nat
      /\ stage # "open" => /\ ~refunded /\ ~refundStarted /\ ~settled
                           /\ fundingTaken = 0
      /\ stage' # "open" => fundingTaken' = 0
      /\ stage' = "failed" => tokenTaken' = 0
  BY HeldTypes, HeldTypesNext
     DEF IInv, LifecycleInv, PurseInv, FundingStoreInv, FundingReturned,
         TokenStoreInv, TypeOK
<1>2. CASE stage' \in {"try", "funding", "rollback", "burnt"}
  <2>1. stage \in {"try", "funding", "rollback"}
    BY <1>2 DEF OpenStep, WalletQuotaCheckFails, PreConsumeToken,
      PreConsumeFunding, PreConsumeFundingFails, TokenRollbackWorks,
      TokenRollbackFails
  <2>2. QED
    BY <1>1, <1>2, <2>1 DEF Res!Reserve
<1>3. CASE stage' = "failed"
  <2>1. stage \in {"try", "funding", "rollback"}
    BY <1>3 DEF OpenStep, WalletQuotaCheckFails, PreConsumeToken,
      PreConsumeFunding, PreConsumeFundingFails, TokenRollbackWorks,
      TokenRollbackFails
  <2>2. QED
    BY <1>1, <1>3, <2>1 DEF Res!Refuse
<1>4. CASE stage' = "open"
  <2>1. stage = "funding" /\ PreConsumeFunding
    BY <1>4 DEF OpenStep, WalletQuotaCheckFails, PreConsumeToken, Unavailable,
      PreConsumeFunding, PreConsumeFundingFails, TokenRollbackWorks,
      TokenRollbackFails
  <2>2. QED
    BY <1>1, <1>4, <2>1 DEF Res!Open, PreConsumeFunding
<1>5. QED
  BY <1>2, <1>3, <1>4 DEF IInv, TypeOK

\* A settlement adjusts or charges; a second one changes no store.
LEMMA SettleRefines ==
  ASSUME IInv, IInv', NEW actual \in Amount, SettleBilling(actual)
  PROVE  Res!ResNext \/ UNCHANGED <<ReservationPhase, fundingTaken, tokenTaken>>
<1>1. /\ stage = "open" /\ stage' = "open" /\ ~refundStarted
      /\ ~refundStarted' /\ refunded' = refunded
      /\ rollbackStarted' = rollbackStarted
  BY DEF SettleBilling, NotRefunding, openVars, refundVars, rollbackVars
<1>2. CASE settled
  BY <1>1, <1>2
     DEF SettleBilling, SettleFirst, SettleAgain, purseVars, tokenVars,
         openVars, refundVars, ReservationPhase
<1>3. CASE ~settled
  <2>1. ~refunded /\ ~rollbackStarted
    BY <1>1, <1>3 DEF IInv, LifecycleInv
  <2>2. CASE ~settled'
    BY <1>1, <1>3, <2>1, <2>2, HeldTypesNext
       DEF ReservationPhase, Res!ResNext, Res!Adjust
  <2>3. CASE settled'
    <3>1. fundingTaken' = fundingQuota' /\ tokenTaken' \in {0, fundingQuota'}
      BY <1>1, <2>1, <2>3
         DEF IInv, PurseInv, FundingStoreInv, TokenStoreInv, LifecycleInv,
             FundingReturned, TokenReturned
    <3>2. QED
      BY <1>1, <1>3, <2>1, <2>3, <3>1, HeldTypesNext
         DEF ReservationPhase, Res!ResNext, Res!Charge
  <2>4. QED
    BY <2>2, <2>3
<1>4. QED
  BY <1>2, <1>3

\* A realtime increment adjusts.
LEMMA ProgressRefines ==
  ASSUME IInv, IInv', NEW delta \in 1 .. MaxStreamed, NEW retry \in BOOLEAN,
         SettleProgress(delta, retry)
  PROVE  Res!ResNext
<1>1. /\ stage = "open" /\ stage' = "open" /\ ~refundStarted
      /\ ~refundStarted' /\ refunded' = refunded /\ ~settled /\ ~settled'
  BY DEF SettleProgress, NotRefunding, openVars, refundVars
<1>2. ~refunded
  BY <1>1 DEF IInv, LifecycleInv
<1>3. QED
  BY <1>1, <1>2, HeldTypesNext DEF ReservationPhase, Res!ResNext, Res!Adjust

\* A refund gives a side back whole and closes when both are back.
LEMMA RefundRefines ==
  ASSUME IInv, IInv', Refund \/ RefundStep
  PROVE  Res!ResNext \/ UNCHANGED <<ReservationPhase, fundingTaken, tokenTaken>>
<1> USE DEF openVars, purseVars, progressVars, refundVars, rollbackVars,
            tokenVars, claimVars, sessionRest, ReservationPhase
<1>1. CASE Refund
  BY <1>1 DEF Refund, NeedsRefund, Res!ResNext, Res!BeginReturn
<1>2. CASE RefundStep
  <2>1. /\ stage = "open" /\ stage' = "open" /\ refundStarted
        /\ refundStarted' /\ ~settled /\ ~settled' /\ ~rollbackStarted
    BY <1>2 DEF RefundStep, RefundFunding, RefundMarkFunding, RefundToken,
                RefundMarkToken, RefundFinish, IInv, LifecycleInv, TypeOK
  <2>2. ASSUME refundAt # "finish" PROVE refunded' = refunded
    BY <1>2, <2>2 DEF RefundStep, RefundFunding, RefundMarkFunding,
                      RefundToken, RefundMarkToken, RefundFinish
  <2>3. refunded => fundingTaken = 0 /\ tokenTaken = 0
    BY DEF IInv, LifecycleInv, FundingStoreInv, TokenStoreInv,
           FundingReturned, TokenReturned
  <2>4. CASE RefundFunding
    <3>1. UNCHANGED fundingTaken \/ fundingTaken' = 0
      <4>1. ~refundFundingDone /\ refundAt = "funding"
              => fundingTaken = consumed \/ funding = "subscription"
        BY <2>1 DEF IInv, FundingStoreInv, FundingReturned, LifecycleInv,
                    TypeOK
      <4>2. QED
        BY <2>4, <4>1 DEF RefundFunding, FundingRefund, IInv, TypeOK
    <3>2. tokenTaken' = tokenTaken /\ refunded' = refunded
      BY <2>4 DEF RefundFunding
    <3>3. CASE refunded
      BY <2>1, <2>3, <3>1, <3>2, <3>3
    <3>4. CASE ~refunded
      BY <2>1, <3>1, <3>2, <3>4 DEF Res!ResNext, Res!ReturnFunding
    <3>5. QED
      BY <3>3, <3>4
  <2>5. CASE RefundToken
    <3>1. UNCHANGED tokenTaken \/ tokenTaken' = 0
      <4>1. ~refundTokenDone /\ refundAt = "token"
              => tokenTaken = refundTokenAmount
        BY <2>1 DEF IInv, TokenStoreInv, TokenReturned, LifecycleInv, TypeOK
      <4>2. QED
        BY <2>5, <4>1 DEF RefundToken, IInv, TypeOK
    <3>2. fundingTaken' = fundingTaken /\ refunded' = refunded
      BY <2>5 DEF RefundToken
    <3>3. CASE refunded
      BY <2>1, <2>3, <3>1, <3>2, <3>3
    <3>4. CASE ~refunded
      BY <2>1, <3>1, <3>2, <3>4 DEF Res!ResNext, Res!ReturnToken
    <3>5. QED
      BY <3>3, <3>4
  <2>6. CASE RefundMarkFunding \/ RefundMarkToken
    BY <2>6 DEF RefundMarkFunding, RefundMarkToken
  <2>7. CASE RefundFinish
    <3>1. UNCHANGED <<fundingTaken, tokenTaken>>
      BY <2>7 DEF RefundFinish
    <3>2. CASE (refunded /\ refunded') \/ (~refunded /\ ~refunded')
      BY <2>1, <3>1, <3>2
    <3>3. CASE ~refunded /\ refunded'
      <4>1. fundingTaken = 0 /\ tokenTaken = 0
        BY <2>7, <3>3 DEF RefundFinish, IInv, FundingStoreInv, TokenStoreInv,
                          FundingReturned, TokenReturned
      <4>2. QED
        BY <2>1, <3>1, <3>3, <4>1 DEF Res!ResNext, Res!Close
    <3>4. refunded => refunded'
      BY <2>7 DEF RefundFinish
    <3>5. refunded \in BOOLEAN /\ refunded' \in BOOLEAN
      BY DEF IInv, TypeOK
    <3>6. QED
      BY <3>2, <3>3, <3>4, <3>5
  <2>8. QED
    BY <1>2, <2>4, <2>5, <2>6, <2>7 DEF RefundStep
<1>3. QED
  BY <1>1, <1>2

\* So does a rollback of a settled charge.
LEMMA RollbackRefines ==
  ASSUME IInv, IInv', RollbackSettlement \/ RollbackStep
  PROVE  Res!ResNext \/ UNCHANGED <<ReservationPhase, fundingTaken, tokenTaken>>
<1> USE DEF openVars, purseVars, progressVars, refundVars, rollbackVars,
            tokenVars, claimVars, sessionRest, ReservationPhase
<1>1. CASE RollbackSettlement
  BY <1>1 DEF RollbackSettlement
<1>2. CASE RollbackStep
  <2>1. /\ stage = "open" /\ stage' = "open" /\ ~refundStarted
        /\ ~refundStarted' /\ settled /\ settled' /\ rollbackStarted
    BY <1>2 DEF RollbackStep, RollbackFunding, RollbackMarkFunding,
                RollbackToken, RollbackMarkToken, RollbackFinish, IInv,
                LifecycleInv, TypeOK
  <2>2. refunded => fundingTaken = 0 /\ tokenTaken = 0
    BY DEF IInv, LifecycleInv, FundingStoreInv, TokenStoreInv,
           FundingReturned, TokenReturned
  <2>3. CASE RollbackFunding
    <3>1. UNCHANGED fundingTaken \/ fundingTaken' = 0
      <4>1. ~rollbackFundingDone /\ rollbackAt = "funding"
              => fundingTaken = consumed \/ funding = "subscription"
        BY <2>1 DEF IInv, FundingStoreInv, FundingReturned, LifecycleInv,
                    TypeOK
      <4>2. QED
        BY <2>3, <4>1 DEF RollbackFunding, FundingRefund, IInv, TypeOK
    <3>2. tokenTaken' = tokenTaken /\ refunded' = refunded
      BY <2>3 DEF RollbackFunding
    <3>3. CASE refunded
      BY <2>1, <2>2, <3>1, <3>2, <3>3
    <3>4. CASE ~refunded
      BY <2>1, <3>1, <3>2, <3>4 DEF Res!ResNext, Res!ReturnFunding
    <3>5. QED
      BY <3>3, <3>4
  <2>4. CASE RollbackToken
    <3>1. UNCHANGED tokenTaken \/ tokenTaken' = 0
      <4>1. ~rollbackTokenDone /\ rollbackAt = "token"
              => tokenTaken = rollbackTokenAmount
        BY <2>1 DEF IInv, TokenStoreInv, TokenReturned, LifecycleInv, TypeOK
      <4>2. QED
        BY <2>4, <4>1 DEF RollbackToken, IInv, TypeOK
    <3>2. fundingTaken' = fundingTaken /\ refunded' = refunded
      BY <2>4 DEF RollbackToken
    <3>3. CASE refunded
      BY <2>1, <2>2, <3>1, <3>2, <3>3
    <3>4. CASE ~refunded
      BY <2>1, <3>1, <3>2, <3>4 DEF Res!ResNext, Res!ReturnToken
    <3>5. QED
      BY <3>3, <3>4
  <2>5. CASE RollbackMarkFunding \/ RollbackMarkToken
    BY <2>5 DEF RollbackMarkFunding, RollbackMarkToken
  <2>6. CASE RollbackFinish
    <3>1. UNCHANGED <<fundingTaken, tokenTaken>>
      BY <2>6 DEF RollbackFinish
    <3>2. CASE (refunded /\ refunded') \/ (~refunded /\ ~refunded')
      BY <2>1, <3>1, <3>2
    <3>3. CASE ~refunded /\ refunded'
      <4>1. fundingTaken = 0 /\ tokenTaken = 0
        BY <2>6, <3>3 DEF RollbackFinish, IInv, FundingStoreInv,
                          TokenStoreInv, FundingReturned, TokenReturned
      <4>2. QED
        BY <2>1, <3>1, <3>3, <4>1 DEF Res!ResNext, Res!Close
    <3>4. refunded => refunded'
      BY <2>6 DEF RollbackFinish
    <3>5. refunded \in BOOLEAN /\ refunded' \in BOOLEAN
      BY DEF IInv, TypeOK
    <3>6. QED
      BY <3>2, <3>3, <3>4, <3>5
  <2>7. QED
    BY <1>2, <2>3, <2>4, <2>5, <2>6 DEF RollbackStep
<1>3. QED
  BY <1>1, <1>2

\* Every behaviour of a session is a behaviour of the abstract reservation:
\* each step reserves, opens, adjusts, charges, returns a side whole, closes,
\* or changes nothing the reservation sees.
THEOREM SessionImplementsReservation == Spec => ImplementsReservation
<1>1. Init => Res!ResInit
  BY DEF Init, Res!ResInit, ReservationPhase
<1>2. IInv /\ IInv' /\ [Next]_vars => [Res!ResNext]_Res!resVars
  <2> SUFFICES ASSUME IInv, IInv', [Next]_vars
               PROVE  Res!ResNext \/ UNCHANGED <<ReservationPhase,
                                                fundingTaken, tokenTaken>>
    BY DEF Res!resVars
  <2>1. CASE UNCHANGED vars
    BY <2>1 DEF vars, openVars, purseVars, refundVars, tokenVars,
                ReservationPhase
  <2>2. QED
    BY <2>1, OpenStepRefines, SettleRefines, ProgressRefines, RefundRefines,
       RollbackRefines DEF Next
<1>3. QED
  BY <1>1, <1>2, AccountsKept, PTL DEF Spec, ImplementsReservation, Res!ResSpec
=============================================================================
