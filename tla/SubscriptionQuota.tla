------------------------- MODULE SubscriptionQuota -------------------------
(***************************************************************************)
(* The quota ledger of one user's subscriptions (model/subscription.go):   *)
(* a request reserves an amount in the first subscription that has room,   *)
(* settles it to what was really used, or gives it back.                   *)
(*                                                                         *)
(* A subscription limits usage in two ways.  The aggregate (AmountUsed) is *)
(* a counter that is reset at period boundaries.  Windows, rolling or      *)
(* calendar, are not counted but summed from the request records.  A       *)
(* request may settle long after its admission: then its own period or     *)
(* window is over, and only that one may be charged.                       *)
(*                                                                         *)
(* Every operation is one transaction that locks the rows it changes       *)
(* (clause.Locking), so it is one action.  It works with a time, now, that *)
(* was read from the database before the transaction began: MaxLag is how  *)
(* far behind the clock that reading may be when the locks are held.       *)
(***************************************************************************)
EXTENDS Integers, FiniteSets, FiniteSetsExt, Functions

CONSTANTS
  Requests,   \* request ids
  Subs,       \* subscription ids; their order is that of end_time, id
  Snapshot,   \* the policy snapshot of each subscription
  Start,      \* start_time of the subscriptions
  End,        \* end_time of each subscription
  Retention,  \* idempotency period of request records
  MaxLag,     \* see above (bound)
  MaxLife,    \* how long after its admission a request is settled (bound)
  MaxAmount,  \* largest amount of a request (bound)
  MaxTime     \* end of the modelled time (bound)

Windows == [mode : {"rolling", "calendar"}, len : Nat \ {0}, amount : Nat, anchor : Int]
Policies == [mode : {"legacy", "weekly", "dual", "five_hour", "generic"}, limit : Nat,
             period : Nat, aligned : BOOLEAN, fiveHourAmount : Nat, fiveHourSeconds : Nat,
             windows : SUBSET Windows]

ASSUME SubscriptionAssumption ==
  /\ IsFiniteSet(Requests) /\ IsFiniteSet(Subs)
  /\ Subs \subseteq Nat /\ Start \in Nat \ {0}
  /\ Snapshot \in [Subs -> Policies] /\ End \in [Subs -> Nat]
  /\ Retention \in Nat /\ MaxLag \in Nat /\ MaxLife \in Nat
  /\ MaxAmount \in Nat \ {0} /\ MaxTime \in Nat /\ Start <= MaxTime

Amount == 1 .. MaxAmount

VARIABLES
  clock,
  \* amount_used, last_reset_time, next_reset_time, end_time and status.
  sub,
  \* SubscriptionPreConsumeRecord by request id; a record that was cleaned up
  \* is kept, with deleted set, as history.
  rec

vars == <<clock, sub, rec>>

(***************************************************************************)
(* The policy: mode, the limits, the reset period (0: never), whether its  *)
(* boundaries are calendar dates, and the generic windows.                 *)
(***************************************************************************)
\* quotaPolicyForSubscription: the snapshot taken at issuance wins over the
\* plan, so editing or deleting the plan changes nothing for x.
policy(x) == Snapshot[x]

policyTracksAggregate(x) == policy(x).mode \in {"legacy", "weekly", "dual"}

policyHasFiveHour(x) ==
  policy(x).mode \in {"five_hour", "dual"} /\ policy(x).fiveHourAmount > 0

\* 0 is no limit.
policyWeeklyLimit(x) ==
  IF policyTracksAggregate(x) THEN policy(x).limit ELSE 0

FiveHourWindow(x) ==
  [mode |-> "rolling", len |-> policy(x).fiveHourSeconds,
   amount |-> policy(x).fiveHourAmount, anchor |-> 0]

quotaRecordBackedWindows(x) ==
  IF policy(x).windows # {} THEN policy(x).windows
  ELSE IF policyHasFiveHour(x) THEN {FiveHourWindow(x)} ELSE {}

\* The boundaries at which the aggregate period that began at base, and those
\* after it, end.  There is none after the end of the subscription.
Boundaries(x, base, end) ==
  IF policy(x).period = 0 THEN {}
  ELSE {b \in base + 1 .. end :
          IF policy(x).aligned THEN b % policy(x).period = 0
                               ELSE (b - base) % policy(x).period = 0}

FirstOrZero(S) == IF S = {} THEN 0 ELSE Min(S)

(***************************************************************************)
(* Records and windows.                                                    *)
(***************************************************************************)
NoRecord == [state |-> "none", sub |-> 0, amount |-> 0, created |-> 0,
             updated |-> 0, deleted |-> FALSE]

Sum(S) == SumFunctionOnSet([r \in Requests |-> rec[r].amount], S)

\* The rows that a query for a subscription's usage finds.
Counted(x, now) ==
  {r \in Requests : /\ rec[r].state = "consumed" /\ ~rec[r].deleted
                    /\ rec[r].sub = x /\ rec[r].created <= now}

\* quotaWindowBounds: the start of the window that is current at t.
WindowStart(w, t) ==
  IF w.mode = "rolling" THEN t - w.len
  ELSE w.anchor + ((t - w.anchor) \div w.len) * w.len

\* A record created at c counts in the window of t.
InWindow(w, t, c) ==
  IF w.mode = "rolling" THEN WindowStart(w, t) < c /\ c <= t
  ELSE WindowStart(w, t) <= c /\ c < WindowStart(w, t) + w.len

recentSubscriptionWindowUsage(x, w, now) ==
  Sum({r \in Counted(x, now) : InWindow(w, now, rec[r].created)})

\* Slip: a settlement is checked against the window of the settlement time.
TargetAllowedNow(x, w, r, target, now) ==
  target + Sum({q \in Counted(x, now) \ {r} :
                  InWindow(w, now, rec[q].created)}) <= w.amount

\* The target fits in every window that the request belongs to: its calendar
\* bucket, or the rolling windows that end at its own or a later admission.
quotaWindowTargetAllowed(x, w, r, target, now) ==
  LET c == rec[r].created
      others == Counted(x, now) \ {r}
      later == {rec[q].created : q \in others}
      ends == IF w.mode = "rolling"
                THEN {c} \cup {t \in later : c <= t /\ t < c + w.len} ELSE {c}
  IN  \A t \in ends :
        target + Sum({q \in others :
                        InWindow(w, t, rec[q].created)})
          <= w.amount

(***************************************************************************)
(* The aggregate.                                                          *)
(***************************************************************************)
\* maybeResetUserSubscriptionWithPlanTx: row s of subscription x, brought to
\* the period of now.  Policies without an aggregate are never due.
Reset(x, s, now) ==
  LET base == IF s.last > 0 THEN s.last ELSE Start
      all == Boundaries(x, base, s.end)
      due == {b \in all : b <= now}
      ahead == FirstOrZero(all \ due)
  IN  IF ~policyTracksAggregate(x) \/ policy(x).period = 0 \/ s.next > now
        THEN s
      ELSE IF due # {}
        THEN [s EXCEPT !.used = 0, !.last = Max(due), !.next = ahead]
      ELSE IF s.next = 0 /\ ahead > 0
        THEN [s EXCEPT !.last = base, !.next = ahead]
      ELSE s

\* Slip: a late settlement is always charged to the current period.
InCurrentPeriodAlways(x, s, c, now) == policyTracksAggregate(x)

aggregateRecordInCurrentPeriod(x, s, c, now) ==
  /\ policyTracksAggregate(x)
  /\ \/ policy(x).period = 0
     \/ /\ ~(s.last > 0 /\ c < s.last)
        /\ ~(s.next > 0 /\ c >= s.next /\ s.next <= now)
        /\ c <= now

\* aggregateQuotaPeriodBounds: c and d are in the same period of x.
SamePeriod(x, end, c, d) ==
  \A b \in Boundaries(x, Start, end) : (c < b) = (d < b)

aggregateQuotaHistoricalTargetAllowed(x, s, r, target, now) ==
  LET c == rec[r].created
      inPeriod == {q \in Counted(x, now) \ {r} :
                     /\ Start <= rec[q].created /\ rec[q].created < s.end
                     /\ SamePeriod(x, s.end, c, rec[q].created)}
  IN  policyWeeklyLimit(x) > 0 =>
        /\ c < s.end
        /\ target + Sum(inPeriod) <= policyWeeklyLimit(x)

(***************************************************************************)
(* The times a transaction may work with.                                  *)
(***************************************************************************)
Readings == {t \in clock - MaxLag .. clock : t >= Start}

\* An operation of a request begins after the one before it has ended.
ReadingsOf(r) == {t \in Readings : t >= rec[r].updated}

(***************************************************************************)
(* Issuance.                                                               *)
(***************************************************************************)
Issued(x) ==
  LET next == IF policyTracksAggregate(x)
                THEN FirstOrZero(Boundaries(x, Start, End[x])) ELSE 0
  IN  [used |-> 0, last |-> IF next > 0 THEN Start ELSE 0, next |-> next,
       end |-> End[x], status |-> "active"]

Init ==
  /\ clock = Start
  /\ sub = [x \in Subs |-> Issued(x)]
  /\ rec = [r \in Requests |-> NoRecord]

(***************************************************************************)
(* PreConsumeUserSubscription.                                             *)
(***************************************************************************)
Usable(x, now) == sub[x].status = "active" /\ Start <= now /\ now < sub[x].end

\* Slip: the aggregate is compared before the request is added to it.
RoomOffByRequest(x, s, n, now) ==
  /\ policyWeeklyLimit(x) > 0 => s.used < policyWeeklyLimit(x)
  /\ \A w \in quotaRecordBackedWindows(x) :
       recentSubscriptionWindowUsage(x, w, now) + n <= w.amount

\* The request fits in the aggregate of row s and in every window.
Room(x, s, n, now) ==
  /\ policyWeeklyLimit(x) > 0 => n <= policyWeeklyLimit(x) - s.used
  /\ \A w \in quotaRecordBackedWindows(x) :
       recentSubscriptionWindowUsage(x, w, now) + n <= w.amount

Charged(x, s, n) ==
  IF policyTracksAggregate(x) THEN [s EXCEPT !.used = @ + n] ELSE s

\* The first subscription in order that allows the model and has room takes
\* the request.  The resets of the ones passed over commit with it.  The row
\* is stamped (BeforeCreate) by a reading of the clock under the locks, not
\* the one it was admitted by.  A retry of an existing record changes nothing.
PreConsumeUserSubscription(r, n, allowed, now) ==
  LET open == {x \in allowed : Usable(x, now)}
      fits == {x \in open : Room(x, Reset(x, sub[x], now), n, now)}
      x == Min(fits)
  IN  /\ rec[r].state = "none"
      /\ fits # {}
      /\ sub' = [y \in Subs |->
                   CASE y = x -> Charged(y, Reset(y, sub[y], now), n)
                     [] y \in open /\ y < x -> Reset(y, sub[y], now)
                     [] OTHER -> sub[y]]
      /\ rec' = [rec EXCEPT ![r] =
                   [state |-> "consumed", sub |-> x, amount |-> n,
                    created |-> clock, updated |-> clock, deleted |-> FALSE]]
      /\ UNCHANGED clock

(***************************************************************************)
(* Settlement and refund.                                                  *)
(***************************************************************************)
Found(r) == rec[r].state # "none" /\ ~rec[r].deleted

InTime(r) == clock <= rec[r].created + MaxLife

Max2(a, b) == IF a >= b THEN a ELSE b

MayGrow(x, s, r, target, now) ==
  LET delta == target - rec[r].amount
  IN  /\ policyTracksAggregate(x) =>
           IF aggregateRecordInCurrentPeriod(x, s, rec[r].created, now)
             THEN policyWeeklyLimit(x) > 0 =>
                    delta <= policyWeeklyLimit(x) - s.used
             ELSE aggregateQuotaHistoricalTargetAllowed(x, s, r, target, now)
      /\ \A w \in quotaRecordBackedWindows(x) :
           quotaWindowTargetAllowed(x, w, r, target, now)

\* The row of x after amount more (or less) of request r.
Moved(x, s, r, amount, now) ==
  IF aggregateRecordInCurrentPeriod(x, s, rec[r].created, now)
    THEN [s EXCEPT !.used = Max2(0, @ + amount)] ELSE s

settleSubscriptionPreConsume(r, target, now) ==
  LET x == rec[r].sub
      s == Reset(x, sub[x], now)
      delta == target - rec[r].amount
  IN  /\ Found(r) /\ rec[r].state = "consumed" /\ InTime(r)
      /\ delta # 0
      /\ sub[x].status # "gone"
      /\ delta > 0 => MayGrow(x, s, r, target, now)
      /\ sub' = [sub EXCEPT ![x] = Moved(x, s, r, delta, now)]
      /\ rec' = [rec EXCEPT ![r].amount = target, ![r].updated = clock]
      /\ UNCHANGED clock

SettleSubscriptionPreConsume(r, target, now) ==
  settleSubscriptionPreConsume(r, target, now)

AdjustSubscriptionPreConsume(r, delta, now) ==
  settleSubscriptionPreConsume(r, Max2(0, rec[r].amount + delta), now)

\* refundSubscriptionPreConsumeTx; a subscription that an administrator has
\* deleted has no row to give the amount back to.
RefundSubscriptionPreConsume(r, now) ==
  LET x == rec[r].sub
      s == Reset(x, sub[x], now)
  IN  /\ Found(r) /\ rec[r].state = "consumed" /\ InTime(r)
      /\ sub' = IF sub[x].status = "gone" THEN sub
                ELSE [sub EXCEPT ![x] = Moved(x, s, r, -rec[r].amount, now)]
      /\ rec' = [rec EXCEPT ![r].state = "refunded", ![r].amount = 0,
                            ![r].updated = clock]
      /\ UNCHANGED clock

(***************************************************************************)
(* The maintenance task and the administrator.                             *)
(***************************************************************************)
Due(x, now) ==
  sub[x].status = "active" /\ sub[x].next > 0 /\ sub[x].next <= now

ResetDueSubscriptions(x) ==
  /\ Due(x, clock)
  /\ sub' = [sub EXCEPT ![x] = Reset(x, sub[x], clock)]
  /\ UNCHANGED <<clock, rec>>

\* One statement for all subscriptions of the user that have ended.
ExpireDueSubscriptions ==
  LET due == {x \in Subs : sub[x].status = "active" /\ sub[x].end <= clock}
  IN  /\ due # {}
      /\ sub' = [x \in Subs |-> IF x \in due THEN [sub[x] EXCEPT !.status = "expired"]
                                              ELSE sub[x]]
      /\ UNCHANGED <<clock, rec>>

\* The earliest record that can still count in a window of x.
subscriptionRecordSafeBefore(x) ==
  IF sub[x].status # "active" \/ sub[x].end <= clock THEN clock
  ELSE Min({clock} \cup {WindowStart(w, clock) : w \in quotaRecordBackedWindows(x)})

Expendable(r) ==
  /\ Found(r)
  /\ rec[r].updated < clock - Retention
  /\ \/ sub[rec[r].sub].status = "gone"
     \/ rec[r].created < subscriptionRecordSafeBefore(rec[r].sub)

\* One DELETE per subscription, each of its own; requests come in between.
CleanupSubscriptionPreConsumeRecords(x) ==
  LET old == {r \in Requests : rec[r].sub = x /\ Expendable(r)}
  IN  /\ old # {}
      /\ rec' = [r \in Requests |->
                   IF r \in old THEN [rec[r] EXCEPT !.deleted = TRUE] ELSE rec[r]]
      /\ UNCHANGED <<clock, sub>>

\* Ends the subscription now, whatever its status.
AdminInvalidateUserSubscription(x) ==
  /\ sub[x].status # "gone"
  /\ sub' = [sub EXCEPT ![x].status = "cancelled", ![x].end = clock]
  /\ UNCHANGED <<clock, rec>>

AdminDeleteUserSubscription(x) ==
  /\ sub[x].status # "gone"
  /\ sub' = [sub EXCEPT ![x].status = "gone"]
  /\ UNCHANGED <<clock, rec>>

Tick == clock < MaxTime /\ clock' = clock + 1 /\ UNCHANGED <<sub, rec>>

(***************************************************************************)
(* The specification.                                                      *)
(***************************************************************************)
RequestStep(r) ==
  \/ \E n \in Amount, allowed \in SUBSET Subs, now \in Readings :
       PreConsumeUserSubscription(r, n, allowed, now)
  \/ \E target \in 0 .. MaxAmount, now \in ReadingsOf(r) :
       SettleSubscriptionPreConsume(r, target, now)
  \/ \E delta \in -MaxAmount .. MaxAmount, now \in ReadingsOf(r) :
       /\ rec[r].amount + delta <= MaxAmount
       /\ AdjustSubscriptionPreConsume(r, delta, now)
  \/ \E now \in ReadingsOf(r) : RefundSubscriptionPreConsume(r, now)

Maintenance ==
  \/ \E x \in Subs : ResetDueSubscriptions(x)
  \/ ExpireDueSubscriptions
  \/ \E x \in Subs : CleanupSubscriptionPreConsumeRecords(x)

Next ==
  \/ \E r \in Requests : RequestStep(r)
  \/ Maintenance
  \/ \E x \in Subs : AdminInvalidateUserSubscription(x)
  \/ \E x \in Subs : AdminDeleteUserSubscription(x)
  \/ Tick

Spec == Init /\ [][Next]_vars

(***************************************************************************)
(* Properties.                                                             *)
(***************************************************************************)
\* Rows and records are of their types; amounts and times stay in range.
SubTypeOK ==
  /\ clock \in Start .. MaxTime
  /\ sub \in [Subs -> [used : Nat, last : 0 .. MaxTime, next : Nat, end : Nat,
                       status : {"active", "expired", "cancelled", "gone"}]]
  /\ rec \in [Requests -> [state : {"none", "consumed", "refunded"},
                           sub : Subs \cup {0}, amount : 0 .. MaxAmount,
                           created : 0 .. MaxTime, updated : 0 .. MaxTime,
                           deleted : BOOLEAN]]

\* What requests hold in x, whether or not their records were cleaned up.
Held(x) == {r \in Requests : rec[r].state = "consumed" /\ rec[r].sub = x}

\* AmountUsed is exactly what the requests of its period hold: settlements and
\* refunds that come after a reset are not taken out of the new period, and
\* no reset forgets a request of the period it begins.
AggregateIsUsage ==
  \A x \in Subs : policyTracksAggregate(x) /\ sub[x].status # "gone" =>
    sub[x].used = Sum({r \in Held(x) : rec[r].created >= sub[x].last})

\* No aggregate period is ever overspent, also when a request of a period that
\* is over settles above its reservation.
PeriodWithinLimit ==
  \A x \in Subs : policyWeeklyLimit(x) > 0 =>
    \A r \in Held(x) :
      Sum({q \in Held(x) : SamePeriod(x, End[x], rec[r].created, rec[q].created)})
        <= policyWeeklyLimit(x)

\* No window is ever overspent, at no time and by no sequence of admissions,
\* late settlements, refunds and clean-ups.
WindowWithinLimit ==
  \A x \in Subs : \A w \in quotaRecordBackedWindows(x), t \in Start .. clock :
    Sum({r \in Held(x) : InWindow(w, t, rec[r].created)})
      <= w.amount
=============================================================================
