-------------------------- MODULE TokenQuotaProofs --------------------------
(***************************************************************************)
(* UsedIsCharged for any number of requests, goroutines, edits and faults, *)
(* with and without Redis and the batch updater.                           *)
(*                                                                         *)
(* What the equation needs beside itself is that the amounts in it are     *)
(* integers, among them the reservations sessions hold, and that an idle   *)
(* batch updater carries nothing: a process that ends drops the entry and  *)
(* what was being written, and both are counted in lost.                   *)
(*                                                                         *)
(* OverdraftBounded for any number of requests: what is left is weighed    *)
(* against all that the requests in flight are still going to take.        *)
(***************************************************************************)
EXTENDS TokenQuota, FiniteSetTheorems, TLAPS

Rows == [live : BOOLEAN, remain : Int, used : Int, status : Statuses]

\* The amounts of the equation are integers, and the equation holds.
UsedInv ==
  /\ row \in Rows
  /\ batch \in Int /\ charged \in Int /\ lost \in Int
  /\ draining \in [on : BOOLEAN, value : Int]
  /\ ~draining.on => draining.value = 0
  /\ held \in [Requests -> Int]
  /\ editor.remain \in Int /\ editor.status \in Statuses \cup {NoStatus}
  /\ editor.at = "write" => editor.status \in Statuses
  /\ UsedIsCharged

\* A relative update (increaseTokenQuota, decreaseTokenQuota) of a live row
\* moves used_quota by the opposite amount; a deleted row stays as it is.
LEMMA MovedRow ==
  ASSUME row \in Rows, NEW delta \in Int
  PROVE  /\ Moved(delta) \in Rows
         /\ Moved(delta).live = row.live
         /\ row.live => Moved(delta).used = row.used - delta
<1>1. CASE row.live
  <2>1. Moved(delta) = [live |-> row.live, remain |-> row.remain + delta,
                        used |-> row.used - delta, status |-> row.status]
    BY <1>1 DEF Moved, Rows
  <2> QED BY <1>1, <2>1 DEF Rows
<1>2. CASE ~row.live
  BY <1>2 DEF Moved
<1> QED BY <1>1, <1>2

\* A change of quota that is applied (IncreaseTokenQuota, DecreaseTokenQuota)
\* moves used_quota or the batch entry by what the caller is told.
LEMMA ChangeKeeps ==
  ASSUME UsedInv, NEW delta \in Int, ChangeTokenQuota(delta), UNCHANGED <<draining, lost, editor>>,
         held' \in [Requests -> Int]
  PROVE  UsedInv'
<1>1. CASE BatchUpdateEnabled
  BY <1>1 DEF UsedInv, UsedIsCharged, Rows, ChangeTokenQuota
<1>2. CASE ~BatchUpdateEnabled
  <2>1. row' \in Rows /\ row'.live = row.live /\ (row.live => row'.used = row.used - delta)
    BY <1>2, MovedRow DEF ChangeTokenQuota, UsedInv
  <2>2. charged' = charged - delta /\ UNCHANGED batch
    BY <1>2 DEF ChangeTokenQuota
  <2>3. UsedIsCharged'
    BY <2>1, <2>2 DEF UsedInv, UsedIsCharged, Rows
  <2> QED BY <2>1, <2>2, <2>3 DEF UsedInv
<1> QED BY <1>1, <1>2

\* A statement that fails changes neither the row nor what was charged.
LEMMA FailKeeps ==
  ASSUME UsedInv, NEW delta, ChangeFails(delta), UNCHANGED <<draining, lost, editor, held>>
  PROVE  UsedInv'
BY DEF UsedInv, UsedIsCharged, ChangeFails

\* Nothing the equation speaks of changes.
LEMMA QuietKeeps ==
  ASSUME UsedInv, UNCHANGED <<row, batch, draining, held, charged, lost, editor>>
  PROVE  UsedInv'
BY DEF UsedInv, UsedIsCharged

\* A step of a request: its reads and refusals leave the amounts alone, its
\* reservation and its settlement are changes of quota.
LEMMA RequestKeeps ==
  ASSUME UsedInv, NEW r \in Requests, RequestStep(r)
  PROVE  UsedInv'
<1>1. CASE Authenticate(r)
  BY <1>1, QuietKeeps DEF Authenticate, GetTokenByKey, untouchedByReads
<1>2. CASE Validate(r)
  BY <1>2 DEF Validate, untouchedByReads, UsedInv, UsedIsCharged, Rows, Statuses
<1>3. CASE ReadAgain(r)
  BY <1>3, QuietKeeps DEF ReadAgain, GetTokenByKey, untouchedByReads
<1>4. CASE PreConsumeTokenQuota(r)
  <2>1. CASE UNCHANGED <<row, batch, jobs, charged, held, faults>>
    BY <1>4, <2>1, QuietKeeps DEF PreConsumeTokenQuota, untouchedByChange
  <2>2. CASE ChangeTokenQuota(-Quota) /\ held' = [held EXCEPT ![r] = Quota]
    <3>1. held' \in [Requests -> Int] /\ -Quota \in Int
      BY <2>2, TokenAssumption DEF UsedInv
    <3> QED BY <1>4, <2>2, <3>1, ChangeKeeps DEF PreConsumeTokenQuota, untouchedByChange
  <2>3. CASE ChangeFails(-Quota) /\ UNCHANGED held
    BY <1>4, <2>3, FailKeeps DEF PreConsumeTokenQuota, untouchedByChange
  <2> QED BY <1>4, <2>1, <2>2, <2>3 DEF PreConsumeTokenQuota
<1>5. CASE Settle(r)
  <2>1. held' \in [Requests -> Int] /\ held[r] \in Int
    BY <1>5 DEF Settle, UsedInv
  <2>2. PICK actual \in 0 .. Quota + MaxExtra :
          IF actual = held[r] THEN UNCHANGED <<row, batch, jobs, charged>>
                              ELSE ChangeTokenQuota(held[r] - actual)
    BY <1>5 DEF Settle
  <2>3. CASE actual = held[r]
    BY <1>5, <2>1, <2>2, <2>3 DEF Settle, untouchedByChange, UsedInv, UsedIsCharged
  <2>4. CASE actual # held[r]
    <3>1. held[r] - actual \in Int
      BY <2>1, TokenAssumption
    <3> QED BY <1>5, <2>1, <2>2, <2>4, <3>1, ChangeKeeps DEF Settle, untouchedByChange
  <2> QED BY <2>3, <2>4
<1> QED BY <1>1, <1>2, <1>3, <1>4, <1>5 DEF RequestStep

\* UsedInv is inductive.
THEOREM UsedInvariant == Spec => []UsedInv
<1>1. Init => UsedInv
  BY TokenAssumption DEF Init, UsedInv, UsedIsCharged, Rows, Statuses, NotDraining, NoEdit
<1>2. UsedInv /\ [Next]_<<vars, settings>> => UsedInv'
  <2> SUFFICES ASSUME UsedInv, [Next]_<<vars, settings>> PROVE UsedInv'
    OBVIOUS
  <2>1. ASSUME NEW r \in Requests, RequestStep(r) PROVE UsedInv'
    BY <2>1, RequestKeeps
  <2>2. ASSUME NEW j \in Jobs, JobStep(j) PROVE UsedInv'
    BY <2>2, QuietKeeps
       DEF JobStep, RedisHSetObj, RedisDelKey, RedisTTL, RedisHIncrBy, untouchedByJobs
  <2>3. CASE BatchTake
    BY <2>3 DEF BatchTake, UsedInv, UsedIsCharged, Rows
  <2>4. CASE BatchWrite
    <3>1. draining' = NotDraining /\ UNCHANGED <<batch, charged, held, editor>>
      BY <2>4 DEF BatchWrite
    <3>2. CASE row' = Moved(draining.value) /\ UNCHANGED lost
      <4>1. /\ row' \in Rows /\ row'.live = row.live
            /\ row.live => row'.used = row.used - draining.value
        BY <3>2, MovedRow DEF UsedInv
      <4>2. UsedIsCharged'
        BY <3>1, <3>2, <4>1 DEF NotDraining, UsedInv, UsedIsCharged, Rows
      <4> QED BY <3>1, <3>2, <4>1, <4>2 DEF NotDraining, UsedInv
    <3>3. CASE lost' = lost + draining.value /\ UNCHANGED row
      BY <3>1, <3>3 DEF NotDraining, UsedInv, UsedIsCharged, Rows
    <3> QED BY <2>4, <3>2, <3>3 DEF BatchWrite
  <2>5. CASE Expire
    BY <2>5, QuietKeeps DEF Expire, untouchedByJobs
  <2>6. CASE EditRead
    BY <2>6, TokenAssumption DEF EditRead, untouchedByOwner, UsedInv, UsedIsCharged, Rows, Statuses
  <2>7. CASE Update
    <3>1. row' \in Rows /\ row'.live = row.live /\ row'.used = row.used
      <4>1. CASE row.live
        <5>1. row' = [live |-> row.live, remain |-> editor.remain,
                      used |-> row.used, status |-> editor.status]
          BY <2>7, <4>1 DEF Update, UsedInv, Rows
        <5> QED BY <2>7, <5>1 DEF Update, UsedInv, Rows
      <4>2. CASE ~row.live
        BY <2>7, <4>2 DEF Update, UsedInv
      <4> QED BY <4>1, <4>2
    <3> QED BY <2>7, <3>1 DEF Update, NoEdit, untouchedByOwner, UsedInv, UsedIsCharged
  <2>8. CASE Delete
    BY <2>8 DEF Delete, untouchedByOwner, UsedInv, UsedIsCharged, Rows
  <2>9. CASE ProcessEnds
    BY <2>9 DEF ProcessEnds, NotDraining, NoEdit, UsedInv, UsedIsCharged, Rows
  <2>10. CASE UNCHANGED <<vars, settings>>
    BY <2>10, QuietKeeps DEF vars
  <2> QED BY <2>1, <2>2, <2>3, <2>4, <2>5, <2>6, <2>7, <2>8, <2>9, <2>10 DEF Next
<1> QED BY <1>1, <1>2, PTL DEF Spec

\* The used quota of a token is what its requests were charged, up to what
\* the batch updater carries or has dropped.
THEOREM UsedQuotaIsCharged == Spec => []UsedIsCharged
<1>1. UsedInv => UsedIsCharged
  BY DEF UsedInv
<1> QED BY <1>1, UsedInvariant, PTL

-----------------------------------------------------------------------------
(* The overdraft                                                           *)

\* Requests that will decrease the quota whatever it is by then, and requests
\* whose settlement may still exceed the reservation.
Passed == {r \in Requests : at[r] = "check" /\ seen[r].remain >= Quota}
InFlight == {r \in Requests : at[r] = "running" \/ (at[r] = "check" /\ seen[r].remain >= Quota)}

\* The row alone, and nobody edited it.
Plain == ~RedisEnabled /\ ~BatchUpdateEnabled /\ edits = 0

Places == {"idle", "validate", "reserve", "check", "running"}
Seen == [remain : Int, status : Statuses \cup {NoStatus}]
Floor == - (Cardinality(Requests) - 1) * Quota - Cardinality(Requests) * MaxExtra

\* What is left stays above the bound after everything that requests in flight
\* are still going to take.
Reach(remain, passed, flying) ==
  remain >= Floor + Cardinality(passed) * Quota + Cardinality(flying) * MaxExtra

PlainInv ==
  /\ edits \in Nat /\ (editor.at = "write" => edits > 0)
  /\ Plain =>
       /\ at \in [Requests -> Places] /\ seen \in [Requests -> Seen]
       /\ batch = 0 /\ ~draining.on
       /\ \A r \in Requests : at[r] = "running" => held[r] = Quota
       /\ Reach(row.remain, Passed, InFlight)

\* The sets of requests are finite, and at most all of them.
LEMMA RequestsFinite ==
  ASSUME NEW S, S \subseteq Requests
  PROVE  /\ IsFiniteSet(S) /\ Cardinality(S) \in Nat /\ Cardinality(Requests) \in Nat
         /\ Cardinality(S) <= Cardinality(Requests) /\ Cardinality(Requests) > 0
         /\ \A r \in S : Cardinality(S \ {r}) = Cardinality(S) - 1
         /\ \A T \in SUBSET S : Cardinality(T) <= Cardinality(S) /\ Cardinality(T) \in Nat
<1>1. IsFiniteSet(Requests) /\ Requests # {}
  BY TokenAssumption
<1>2. IsFiniteSet(S) /\ Cardinality(S) \in Nat /\ Cardinality(S) <= Cardinality(Requests)
      /\ Cardinality(Requests) \in Nat
  BY <1>1, FS_Subset, FS_CardinalityType
<1>3. Cardinality(Requests) # 0
  BY <1>1, FS_EmptySet
<1>4. ASSUME NEW r \in S PROVE Cardinality(S \ {r}) = Cardinality(S) - 1
  BY <1>2, FS_RemoveElement
<1>5. ASSUME NEW T \in SUBSET S PROVE Cardinality(T) <= Cardinality(S) /\ Cardinality(T) \in Nat
  BY <1>2, FS_Subset, FS_CardinalityType
<1> QED BY <1>2, <1>3, <1>4, <1>5

\* Products of counts grow with the counts.
LEMMA Products ==
  /\ \A a, b, q \in Nat : a <= b => a * q <= b * q
  /\ \A a, q \in Int : (a - 1) * q = a * q - q
  /\ \A a, q \in Int : a * q \in Int
<1>1. \A k, q \in Nat : k * q >= 0
  OBVIOUS
<1>2. \A a, b, q \in Int : (b - a) * q = b * q - a * q
  OBVIOUS
<1>3. ASSUME NEW a \in Nat, NEW b \in Nat, NEW q \in Nat, a <= b PROVE a * q <= b * q
  <2>1. b - a \in Nat
    BY <1>3
  <2>2. (b - a) * q >= 0
    BY <1>1, <2>1
  <2>3. b * q - a * q >= 0
    BY <1>2, <2>2
  <2>4. b * q \in Int /\ a * q \in Int
    OBVIOUS
  <2> QED BY <2>3, <2>4
<1>4. \A a, q \in Int : (a - 1) * q = a * q - q
  OBVIOUS
<1>5. \A a, q \in Int : a * q \in Int
  OBVIOUS
<1> QED BY <1>3, <1>4, <1>5

\* The parts of the bound are integers.
LEMMA ReachTyped ==
  ASSUME NEW P \in SUBSET Requests, NEW F \in SUBSET Requests
  PROVE  /\ Cardinality(P) * Quota \in Int /\ Cardinality(F) * MaxExtra \in Int
         /\ Floor \in Int /\ Quota \in Nat /\ MaxExtra \in Nat
<1>1. Cardinality(P) \in Nat /\ Cardinality(F) \in Nat /\ Cardinality(Requests) \in Nat
  BY RequestsFinite
<1>2. Quota \in Nat /\ MaxExtra \in Nat
  BY TokenAssumption
<1> QED BY <1>1, <1>2 DEF Floor

\* More is left and fewer requests are in flight.
LEMMA ReachShrinks ==
  ASSUME NEW P \in SUBSET Requests, NEW F \in SUBSET Requests, NEW P2 \in SUBSET P,
         NEW F2 \in SUBSET F, NEW a \in Int, NEW b \in Int, a <= b, Reach(a, P, F)
  PROVE  Reach(b, P2, F2)
<1>1. /\ Cardinality(P2) <= Cardinality(P) /\ Cardinality(F2) <= Cardinality(F)
      /\ Cardinality(P2) \in Nat /\ Cardinality(F2) \in Nat
      /\ Cardinality(P) \in Nat /\ Cardinality(F) \in Nat
  BY RequestsFinite
<1>2. /\ Cardinality(P) * Quota \in Int /\ Cardinality(F) * MaxExtra \in Int
      /\ Cardinality(P2) * Quota \in Int /\ Cardinality(F2) * MaxExtra \in Int
      /\ Floor \in Int /\ Quota \in Nat /\ MaxExtra \in Nat
  BY ReachTyped
<1>3. /\ Cardinality(P2) * Quota <= Cardinality(P) * Quota
      /\ Cardinality(F2) * MaxExtra <= Cardinality(F) * MaxExtra
  BY <1>1, <1>2, Products
<1>4. \A x, y, u, v, f \in Int :
        (u <= x /\ v <= y /\ a >= f + x + y) => b >= f + u + v
  OBVIOUS
<1> QED BY <1>2, <1>3, <1>4 DEF Reach

\* A request that passed the check takes its reservation.
LEMMA ReachTakes ==
  ASSUME NEW P \in SUBSET Requests, NEW F \in SUBSET Requests, NEW r \in P,
         NEW a \in Int, Reach(a, P, F)
  PROVE  Reach(a - Quota, P \ {r}, F)
<1>1. Cardinality(P \ {r}) = Cardinality(P) - 1 /\ Cardinality(P) \in Nat
  BY RequestsFinite
<1>2. /\ Cardinality(P) * Quota \in Int /\ Cardinality(F) * MaxExtra \in Int
      /\ Floor \in Int /\ Quota \in Nat
  BY ReachTyped
<1>3. Cardinality(P \ {r}) * Quota = Cardinality(P) * Quota - Quota
  BY <1>1, <1>2, Products
<1>4. \A x, y, f, q \in Int : a >= f + x + y => a - q >= f + (x - q) + y
  OBVIOUS
<1> QED BY <1>2, <1>3, <1>4 DEF Reach

\* A settlement takes at most what it may exceed the reservation by.
LEMMA ReachSettles ==
  ASSUME NEW P \in SUBSET Requests, NEW F \in SUBSET Requests, NEW r \in F,
         NEW a \in Int, NEW b \in Int, b >= a - MaxExtra, Reach(a, P, F)
  PROVE  Reach(b, P, F \ {r})
<1>1. Cardinality(F \ {r}) = Cardinality(F) - 1 /\ Cardinality(F) \in Nat
  BY RequestsFinite
<1>2. /\ Cardinality(P) * Quota \in Int /\ Cardinality(F) * MaxExtra \in Int
      /\ Floor \in Int /\ MaxExtra \in Nat
  BY ReachTyped
<1>3. Cardinality(F \ {r}) * MaxExtra = Cardinality(F) * MaxExtra - MaxExtra
  BY <1>1, <1>2, Products
<1>4. \A x, y, f, e \in Int : (a >= f + x + y /\ b >= a - e) => b >= f + x + (y - e)
  OBVIOUS
<1> QED BY <1>2, <1>3, <1>4 DEF Reach

\* When a reservation is left, all requests together stay above the bound.
LEMMA ReachFresh ==
  ASSUME NEW P \in SUBSET Requests, NEW F \in SUBSET Requests, NEW a \in Int, a >= Quota
  PROVE  Reach(a, P, F)
<1> DEFINE n == Cardinality(Requests)
<1>1. /\ Cardinality(P) <= n /\ Cardinality(F) <= n /\ n \in Nat
      /\ Cardinality(P) \in Nat /\ Cardinality(F) \in Nat
  BY RequestsFinite
<1>2. /\ Cardinality(P) * Quota \in Int /\ Cardinality(F) * MaxExtra \in Int
      /\ Quota \in Nat /\ MaxExtra \in Nat
  BY ReachTyped
<1> HIDE DEF n
<1>3. /\ Cardinality(P) * Quota <= n * Quota /\ Cardinality(F) * MaxExtra <= n * MaxExtra
      /\ n * Quota \in Int /\ n * MaxExtra \in Int
  BY <1>1, <1>2, Products
<1>4. - (n - 1) * Quota = Quota - n * Quota
  BY <1>1, <1>2
<1>5. Floor = (Quota - n * Quota) - n * MaxExtra
  BY <1>4 DEF Floor, n
<1>6. \A x, y, u, v, q \in Int :
        (x <= u /\ y <= v /\ a >= q) => a >= (q - u) - v + x + y
  OBVIOUS
<1> QED BY <1>2, <1>3, <1>5, <1>6 DEF Reach

\* Initially nothing is in flight and the token is not overdrawn.
LEMMA PlainInit == Init => PlainInv
<1> SUFFICES ASSUME Init PROVE PlainInv
  OBVIOUS
<1>1. /\ at = [r \in Requests |-> "idle"] /\ seen = [r \in Requests |-> NothingSeen]
      /\ row.remain = InitialQuota /\ edits = 0 /\ editor.at = "idle"
      /\ batch = 0 /\ ~draining.on
  BY DEF Init, NotDraining, NoEdit
<1>2. /\ at \in [Requests -> Places] /\ seen \in [Requests -> Seen]
  BY <1>1 DEF Places, Seen, NothingSeen
<1>3. Passed = {} /\ InFlight = {}
  BY <1>1 DEF Passed, InFlight
<1>4. Cardinality({}) = 0 /\ InitialQuota \in Nat /\ Quota \in Nat /\ MaxExtra \in Nat
  BY FS_EmptySet, TokenAssumption
<1>5. Reach(row.remain, {}, {})
  <2>1. Cardinality(Requests) - 1 \in Nat /\ Cardinality(Requests) \in Nat
    BY RequestsFinite
  <2>2. \A n, m, q, e \in Nat : - n * q - m * e <= 0
    <3>1. \A k, q \in Nat : k * q \in Nat
      OBVIOUS
    <3>2. \A n, q \in Nat : - n * q = - (n * q)
      OBVIOUS
    <3>3. \A x, y \in Nat : - x - y <= 0
      OBVIOUS
    <3> QED BY <3>1, <3>2, <3>3
  <2>3. Floor <= 0
    BY <1>4, <2>1, <2>2 DEF Floor
  <2>4. Floor \in Int
    BY ReachTyped
  <2>5. 0 * Quota = 0 /\ 0 * MaxExtra = 0
    BY <1>4
  <2> QED BY <1>1, <1>4, <2>3, <2>4, <2>5 DEF Reach
<1> QED BY <1>1, <1>2, <1>3, <1>5 DEF PlainInv

\* Nobody reads, reserves or settles, or a request ends: what is in flight only
\* shrinks and the row keeps what is left.
LEMMA PlainShrinks ==
  ASSUME UsedInv, PlainInv, UNCHANGED settings, edits' = edits,
         editor' = editor \/ editor'.at = "idle",
         Plain => /\ row'.remain = row.remain /\ batch' = batch /\ draining' = draining
                  /\ at' \in [Requests -> Places] /\ seen' \in [Requests -> Seen]
                  /\ \A r \in Requests :
                       /\ at'[r] = "check" /\ seen'[r].remain >= Quota =>
                            at[r] = "check" /\ seen[r].remain >= Quota
                       /\ at'[r] = "running" => at[r] = "running" /\ held'[r] = held[r]
  PROVE  PlainInv'
<1>1. Plain' => Plain
  BY DEF Plain, settings
<1>2. edits' \in Nat /\ (editor'.at = "write" => edits' > 0)
  BY DEF PlainInv
<1>3. ASSUME Plain
      PROVE  /\ batch' = 0 /\ ~draining'.on
             /\ \A r \in Requests : at'[r] = "running" => held'[r] = Quota
  BY <1>3 DEF PlainInv
<1>4. ASSUME Plain PROVE Reach(row.remain, Passed, InFlight)'
  <2>1. Passed' \in SUBSET Passed /\ InFlight' \in SUBSET InFlight
    BY <1>4 DEF Passed, InFlight
  <2>2. Passed \in SUBSET Requests /\ InFlight \in SUBSET Requests /\ row.remain \in Int
    BY DEF Passed, InFlight, UsedInv, Rows
  <2>3. Reach(row.remain, Passed, InFlight)
    BY <1>4 DEF PlainInv
  <2>4. Reach(row.remain, Passed', InFlight')
    BY <2>1, <2>2, <2>3, ReachShrinks
  <2> QED BY <1>4, <2>4 DEF Reach, Floor
<1> QED BY <1>1, <1>2, <1>3, <1>4 DEF PlainInv

\* A request reads the row: what it may take is there, or it will be refused.
LEMMA ReadKeepsPlain ==
  ASSUME UsedInv, PlainInv, UNCHANGED settings, NEW r \in Requests, ReadAgain(r)
  PROVE  PlainInv'
<1>1. /\ UNCHANGED <<row, batch, draining, edits, editor, held>>
  BY DEF ReadAgain, GetTokenByKey, untouchedByReads
<1>2. row.remain \in Int /\ row.status \in Statuses
  BY DEF UsedInv, Rows
<1>3. ASSUME Plain
      PROVE  /\ at' \in [Requests -> Places] /\ seen' \in [Requests -> Seen]
             /\ \A g \in Requests : g # r => at'[g] = at[g] /\ seen'[g] = seen[g]
             /\ at'[r] \in {"check", "idle"}
             /\ at'[r] = "check" => seen'[r].remain = row.remain
  <2>1. /\ at \in [Requests -> Places] /\ seen \in [Requests -> Seen] /\ ~RedisEnabled
    BY <1>3 DEF PlainInv, Plain
  <2>2. /\ [remain |-> row.remain, status |-> row.status] \in Seen /\ NothingSeen \in Seen
    BY <1>2 DEF Seen, NothingSeen
  <2> QED BY <2>1, <2>2 DEF ReadAgain, GetTokenByKey, Goto, Places
<1>4. CASE Plain => row.remain < Quota \/ at'[r] = "idle"
  <2>1. Plain => \A g \in Requests :
          /\ at'[g] = "check" /\ seen'[g].remain >= Quota =>
               at[g] = "check" /\ seen[g].remain >= Quota
          /\ at'[g] = "running" => at[g] = "running" /\ held'[g] = held[g]
    <3> SUFFICES ASSUME Plain, NEW g \in Requests
                 PROVE  /\ at'[g] = "check" /\ seen'[g].remain >= Quota =>
                             at[g] = "check" /\ seen[g].remain >= Quota
                        /\ at'[g] = "running" => at[g] = "running" /\ held'[g] = held[g]
      OBVIOUS
    <3>1. CASE g # r
      BY <1>1, <1>3, <3>1
    <3>2. CASE g = r
      <4>1. Quota \in Int
        BY TokenAssumption
      <4> QED BY <1>2, <1>3, <1>4, <3>2, <4>1
    <3> QED BY <3>1, <3>2
  <2> QED BY <1>1, <1>3, <2>1, PlainShrinks
<1>5. CASE Plain /\ row.remain >= Quota
  <2>1. Passed' \in SUBSET Requests /\ InFlight' \in SUBSET Requests
    BY DEF Passed, InFlight
  <2>2. Reach(row.remain, Passed', InFlight')
    BY <1>2, <1>5, <2>1, ReachFresh
  <2>3. Reach(row.remain, Passed, InFlight)'
    BY <1>1, <2>2 DEF Reach, Floor
  <2>4. \A g \in Requests : at'[g] = "running" => held'[g] = Quota
    BY <1>1, <1>3, <1>5 DEF PlainInv
  <2> QED BY <1>1, <1>3, <1>5, <2>3, <2>4 DEF PlainInv
<1> QED
  <2>1. Quota \in Int
    BY TokenAssumption
  <2> QED BY <1>2, <1>4, <1>5, <2>1

\* The reservation of a request that passed the check.
LEMMA ReserveKeepsPlain ==
  ASSUME UsedInv, PlainInv, UNCHANGED settings, NEW r \in Requests, PreConsumeTokenQuota(r)
  PROVE  PlainInv'
<1>1. UNCHANGED <<draining, editor, edits>> /\ at[r] = "check"
  BY DEF PreConsumeTokenQuota, untouchedByChange
<1>2. CASE UNCHANGED <<row, batch, held>> /\ Goto(r, "idle")
  <2>1. Plain => /\ at' \in [Requests -> Places] /\ seen' \in [Requests -> Seen]
                 /\ at'[r] = "idle"
                 /\ \A g \in Requests : g # r => at'[g] = at[g] /\ seen'[g] = seen[g]
    BY <1>2 DEF Goto, PlainInv, Places, Seen, NothingSeen
  <2> QED BY <1>1, <1>2, <2>1, PlainShrinks
<1>3. CASE /\ seen[r].remain >= Quota /\ ChangeTokenQuota(-Quota) /\ Goto(r, "running")
           /\ held' = [held EXCEPT ![r] = Quota]
  <2>1. edits' \in Nat /\ (editor'.at = "write" => edits' > 0) /\ (Plain' => Plain)
    BY <1>1 DEF PlainInv, Plain, settings
  <2> SUFFICES ASSUME Plain
               PROVE  /\ at' \in [Requests -> Places] /\ seen' \in [Requests -> Seen]
                      /\ batch' = 0 /\ ~draining'.on
                      /\ \A g \in Requests : at'[g] = "running" => held'[g] = Quota
                      /\ Reach(row.remain, Passed, InFlight)'
    BY <2>1 DEF PlainInv
  <2>2. /\ at \in [Requests -> Places] /\ seen \in [Requests -> Seen]
        /\ batch = 0 /\ ~draining.on /\ ~BatchUpdateEnabled
        /\ \A g \in Requests : at[g] = "running" => held[g] = Quota
        /\ Reach(row.remain, Passed, InFlight)
    BY DEF PlainInv, Plain
  <2>3. /\ at' \in [Requests -> Places] /\ seen' \in [Requests -> Seen]
        /\ at'[r] = "running"
        /\ \A g \in Requests : g # r => at'[g] = at[g] /\ seen'[g] = seen[g]
    BY <1>3, <2>2 DEF Goto, Places, Seen, NothingSeen
  <2>4. \A g \in Requests : at'[g] = "running" => held'[g] = Quota
    BY <1>3, <2>2, <2>3 DEF UsedInv
  <2>5. row' = Moved(-Quota) /\ batch' = batch
    BY <1>3, <2>2 DEF ChangeTokenQuota
  <2>6. r \in Passed /\ Passed' = Passed \ {r} /\ InFlight' = InFlight
    BY <1>1, <1>3, <2>3 DEF Passed, InFlight
  <2>7. Passed \in SUBSET Requests /\ InFlight \in SUBSET Requests /\ row.remain \in Int
        /\ Quota \in Nat
    BY TokenAssumption DEF Passed, InFlight, UsedInv, Rows
  <2>8. row'.remain \in Int /\ row'.remain >= row.remain - Quota
    <3>1. CASE row.live
      <4>1. Moved(-Quota).remain = row.remain + (-Quota)
        BY <3>1 DEF Moved, UsedInv, Rows
      <4> QED BY <2>5, <2>7, <4>1
    <3>2. CASE ~row.live
      BY <2>5, <2>7, <3>2 DEF Moved
    <3> QED BY <3>1, <3>2
  <2>9. Reach(row.remain - Quota, Passed', InFlight')
    BY <2>2, <2>6, <2>7, ReachTakes
  <2>10. Passed' \in SUBSET Requests /\ InFlight' \in SUBSET Requests
    BY <2>6, <2>7
  <2>11. Reach(row'.remain, Passed', InFlight')
    BY <2>7, <2>8, <2>9, <2>10, ReachShrinks
  <2>12. Reach(row.remain, Passed, InFlight)'
    BY <2>11 DEF Reach, Floor
  <2> QED BY <1>1, <2>2, <2>3, <2>4, <2>5, <2>12
<1> QED BY <1>2, <1>3 DEF PreConsumeTokenQuota, ChangeFails

\* The settlement of a request.
LEMMA SettleKeepsPlain ==
  ASSUME UsedInv, PlainInv, UNCHANGED settings, NEW r \in Requests, Settle(r)
  PROVE  PlainInv'
<1>1. /\ UNCHANGED <<draining, editor, edits>> /\ at[r] = "running" /\ Goto(r, "idle")
      /\ held' = [held EXCEPT ![r] = 0]
  BY DEF Settle, untouchedByChange
<1>2. edits' \in Nat /\ (editor'.at = "write" => edits' > 0) /\ (Plain' => Plain)
  BY <1>1 DEF PlainInv, Plain, settings
<1> SUFFICES ASSUME Plain
             PROVE  /\ at' \in [Requests -> Places] /\ seen' \in [Requests -> Seen]
                    /\ batch' = 0 /\ ~draining'.on
                    /\ \A g \in Requests : at'[g] = "running" => held'[g] = Quota
                    /\ Reach(row.remain, Passed, InFlight)'
  BY <1>2 DEF PlainInv
<1>3. /\ at \in [Requests -> Places] /\ seen \in [Requests -> Seen]
      /\ batch = 0 /\ ~draining.on /\ ~BatchUpdateEnabled
      /\ \A g \in Requests : at[g] = "running" => held[g] = Quota
      /\ Reach(row.remain, Passed, InFlight)
  BY DEF PlainInv, Plain
<1>4. /\ at' \in [Requests -> Places] /\ seen' \in [Requests -> Seen] /\ at'[r] = "idle"
      /\ \A g \in Requests : g # r => at'[g] = at[g] /\ seen'[g] = seen[g]
  BY <1>1, <1>3 DEF Goto, Places, Seen, NothingSeen
<1>5. \A g \in Requests : at'[g] = "running" => held'[g] = Quota
  BY <1>1, <1>3, <1>4 DEF UsedInv
<1>6. /\ r \in InFlight /\ InFlight' = InFlight \ {r} /\ Passed' = Passed
  BY <1>1, <1>4 DEF Passed, InFlight
<1>7. Passed \in SUBSET Requests /\ InFlight \in SUBSET Requests /\ row.remain \in Int
      /\ Quota \in Nat /\ MaxExtra \in Nat /\ held[r] = Quota
  BY <1>1, <1>3, TokenAssumption DEF Passed, InFlight, UsedInv, Rows
<1>8. PICK actual \in 0 .. Quota + MaxExtra :
        IF actual = held[r] THEN UNCHANGED <<row, batch, jobs, charged>>
                            ELSE ChangeTokenQuota(held[r] - actual)
  BY DEF Settle
<1>9. batch' = batch /\ row'.remain \in Int /\ row'.remain >= row.remain - MaxExtra
  <2>1. CASE UNCHANGED <<row, batch>>
    BY <1>7, <2>1
  <2>2. CASE ChangeTokenQuota(Quota - actual)
    <3>1. row' = Moved(Quota - actual) /\ batch' = batch
      BY <1>3, <2>2 DEF ChangeTokenQuota
    <3>2. CASE row.live
      <4>1. Moved(Quota - actual).remain = row.remain + (Quota - actual)
        BY <3>2 DEF Moved, UsedInv, Rows
      <4> QED BY <1>7, <3>1, <4>1
    <3>3. CASE ~row.live
      BY <1>7, <3>1, <3>3 DEF Moved
    <3> QED BY <3>1, <3>2, <3>3
  <2> QED BY <1>7, <1>8, <2>1, <2>2
<1>10. Reach(row'.remain, Passed', InFlight')
  BY <1>3, <1>6, <1>7, <1>9, ReachSettles
<1>11. Reach(row.remain, Passed, InFlight)'
  BY <1>10 DEF Reach, Floor
<1> QED BY <1>1, <1>3, <1>4, <1>5, <1>9, <1>11

\* Every step keeps the room for what is in flight.
LEMMA PlainNext ==
  ASSUME UsedInv, PlainInv, [Next]_<<vars, settings>>
  PROVE  PlainInv'
<1>1. UNCHANGED settings
  BY DEF Next
<1>2. ASSUME UNCHANGED <<row, batch, draining, at, seen, held, editor, edits>> PROVE PlainInv'
  BY <1>1, <1>2, PlainShrinks DEF PlainInv
<1>3. ASSUME edits' = edits + 1 PROVE PlainInv'
  <2>1. edits' \in Nat /\ edits' > 0
    BY <1>3 DEF PlainInv
  <2> QED BY <2>1 DEF PlainInv, Plain
<1>4. ASSUME NEW r \in Requests, Authenticate(r) PROVE PlainInv'
  <2>1. UNCHANGED <<row, batch, draining, edits, editor, held>> /\ at[r] = "idle"
    BY <1>4 DEF Authenticate, GetTokenByKey, untouchedByReads
  <2>2. Plain => /\ at' \in [Requests -> Places] /\ seen' \in [Requests -> Seen]
                 /\ at'[r] \in {"idle", "validate"}
                 /\ \A g \in Requests : g # r => at'[g] = at[g] /\ seen'[g] = seen[g]
    <3> SUFFICES ASSUME Plain
                 PROVE  /\ at' \in [Requests -> Places] /\ seen' \in [Requests -> Seen]
                        /\ at'[r] \in {"idle", "validate"}
                        /\ \A g \in Requests : g # r => at'[g] = at[g] /\ seen'[g] = seen[g]
      OBVIOUS
    <3>1. /\ at \in [Requests -> Places] /\ seen \in [Requests -> Seen] /\ ~RedisEnabled
      BY DEF PlainInv, Plain
    <3>2. /\ [remain |-> row.remain, status |-> row.status] \in Seen /\ NothingSeen \in Seen
      BY DEF Seen, NothingSeen, UsedInv, Rows
    <3> QED BY <1>4, <3>1, <3>2 DEF Authenticate, GetTokenByKey, Goto, Places
  <2> QED BY <1>1, <2>1, <2>2, PlainShrinks
<1>5. ASSUME NEW r \in Requests, Validate(r) PROVE PlainInv'
  <2>1. /\ UNCHANGED <<batch, draining, edits, editor, held>> /\ at[r] = "validate"
        /\ row'.remain = row.remain
    BY <1>5 DEF Validate, untouchedByReads, UsedInv, Rows
  <2>2. Plain => /\ at' \in [Requests -> Places] /\ seen' \in [Requests -> Seen]
                 /\ at'[r] \in {"idle", "reserve"}
                 /\ \A g \in Requests : g # r => at'[g] = at[g] /\ seen'[g] = seen[g]
    BY <1>5 DEF Validate, Goto, PlainInv, Places, Seen, NothingSeen
  <2> QED BY <1>1, <2>1, <2>2, PlainShrinks
<1>6. ASSUME NEW r \in Requests, RequestStep(r) PROVE PlainInv'
  BY <1>1, <1>4, <1>5, <1>6, ReadKeepsPlain, ReserveKeepsPlain, SettleKeepsPlain DEF RequestStep
<1>7. ASSUME NEW j \in Jobs, JobStep(j) PROVE PlainInv'
  BY <1>2, <1>7 DEF JobStep, RedisHSetObj, RedisDelKey, RedisTTL, RedisHIncrBy,
     untouchedByJobs, counters
<1>8. CASE Expire
  BY <1>2, <1>8 DEF Expire, untouchedByJobs, counters
<1>9. CASE BatchTake \/ BatchWrite
  <2>1. UNCHANGED <<at, seen, held, editor, edits>> /\ ~Plain
    BY <1>9 DEF BatchTake, BatchWrite, counters, PlainInv
  <2> QED BY <1>1, <2>1, PlainShrinks
<1>10. CASE EditRead \/ Delete
  BY <1>3, <1>10 DEF EditRead, Delete
<1>11. CASE Update
  <2>1. edits' = edits /\ ~Plain /\ editor'.at = "idle"
    BY <1>11 DEF Update, NoEdit, PlainInv, Plain
  <2> QED BY <1>1, <2>1, PlainShrinks
<1>12. CASE ProcessEnds
  <2>1. /\ UNCHANGED <<row, edits>> /\ editor'.at = "idle" /\ batch' = 0 /\ draining' = NotDraining
        /\ at' = [r \in Requests |-> "idle"] /\ seen' = [r \in Requests |-> NothingSeen]
    BY <1>12 DEF ProcessEnds, NoEdit
  <2>2. at' \in [Requests -> Places] /\ seen' \in [Requests -> Seen]
    BY <2>1 DEF Places, Seen, NothingSeen
  <2>3. Plain => draining' = draining /\ batch' = batch
    BY <2>1 DEF PlainInv, UsedInv, NotDraining
  <2> QED BY <1>1, <2>1, <2>2, <2>3, PlainShrinks
<1>13. CASE UNCHANGED <<vars, settings>>
  BY <1>2, <1>13 DEF vars, counters
<1> QED BY <1>6, <1>7, <1>8, <1>9, <1>10, <1>11, <1>12, <1>13 DEF Next

\* Requests that read the same row overdraw a limited token by no more than all
\* but one reservation and what settlements add (PreConsumeTokenQuota), however
\* many there are.
THEOREM OverdraftIsBounded == Spec => []OverdraftBounded
<1>1. UsedInv /\ PlainInv /\ [Next]_<<vars, settings>> => PlainInv'
  BY PlainNext
<1>2. UsedInv /\ PlainInv => OverdraftBounded
  <2> SUFFICES ASSUME UsedInv, PlainInv, Plain PROVE row.remain >= Floor
    BY DEF OverdraftBounded, Plain, Floor
  <2>1. Reach(row.remain, Passed, InFlight) /\ row.remain \in Int
        /\ Passed \in SUBSET Requests /\ InFlight \in SUBSET Requests
    BY DEF PlainInv, UsedInv, Rows, Passed, InFlight
  <2>2. Reach(row.remain, {}, {})
    BY <2>1, ReachShrinks
  <2>3. Cardinality({}) = 0 /\ 0 * Quota = 0 /\ 0 * MaxExtra = 0 /\ Floor \in Int
    <3>1. Floor \in Int /\ Quota \in Nat /\ MaxExtra \in Nat
      BY ReachTyped
    <3> QED BY <3>1, FS_EmptySet
  <2> QED BY <2>2, <2>3 DEF Reach
<1> QED BY PlainInit, UsedInvariant, <1>1, <1>2, PTL DEF Spec
=============================================================================
