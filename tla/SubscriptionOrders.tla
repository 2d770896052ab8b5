-------------------------- MODULE SubscriptionOrders --------------------------
(***************************************************************************)
(* Subscription plans and their orders (model/subscription.go,             *)
(* model/subscription_purchase_group.go and the subscription controllers). *)
(*                                                                         *)
(* A plan counts what was issued of it and what unpaid orders reserve;     *)
(* plans of one purchase group share the strictest of their limits.  An    *)
(* order reserves one unit when it is created, turns it into an issued     *)
(* subscription when its payment is reported and gives it back when it     *)
(* expires.  A subscription may put its user into an upgrade group.        *)
(*                                                                         *)
(* A transaction that holds its row locks (clause.Locking, which gorm v2   *)
(* honours) is one step.  What a transaction reads before it holds them is *)
(* a step of its own: the group in Quote, the plan and its pending orders  *)
(* in EditBegin, the user's subscriptions in AirdropBegin.                 *)
(***************************************************************************)
EXTENDS Integers, FiniteSets, FiniteSetsExt, Functions

CONSTANTS
  Users, Plans, Orders,
  MaxSubs,        \* rows of user_subscriptions (bound)
  Groups,         \* purchase_limit_group values besides the empty one
  Nothing,        \* the empty string, and no order or plan
  Limits,         \* total_purchase_limit and max_purchase_per_user values; 0: none
  Start,          \* the plans as they are configured at first
  Upgrade,        \* plan -> upgrade_group, or Nothing
  BaseGroup,      \* the user group of an account without subscriptions
  AirdropPlan,    \* the plan of the airdrop configuration
  Reservation,    \* DefaultSubscriptionStockReservationSeconds
  Checkout,       \* DefaultSubscriptionCheckoutSeconds
  Duration,       \* of a subscription
  SnapshotReads,  \* plain reads see the state of the transaction's first one
                  \*   (MySQL, REPEATABLE READ)
  Undisturbed,    \* no time passes and nothing is issued while users expire
  Edits,          \* the settings administrators ask for (bound)
  MaxTime,        \* bound
  MaxEvents       \* resumes, faults and administrators' acts, together (bound)

\* What an administrator configures; open stands for enabled.
Settings == [group : Groups \cup {Nothing}, limit : Limits, perUser : Limits,
             open : BOOLEAN]

ASSUME SubOrderAssumption ==
  /\ IsFiniteSet(Plans) /\ IsFiniteSet(Orders) /\ IsFiniteSet(Users)
  /\ Nothing \notin Groups \cup Orders \cup Plans \cup Users
  /\ Limits \subseteq Nat
  /\ MaxSubs \in Nat /\ MaxTime \in Nat
  /\ MaxEvents \in Nat /\ Edits \subseteq Settings
  /\ {Reservation, Checkout, Duration} \subseteq Nat \ {0}
  /\ Checkout < Reservation
  /\ {SnapshotReads, Undisturbed} \subseteq BOOLEAN
  /\ AirdropPlan \in Plans
  /\ Start \in [Plans -> Settings]

VARIABLES
  plan,       \* subscription_plans
  order,      \* subscription_orders, and the transaction that creates one
  sub,        \* user_subscriptions by id
  income,     \* how often an order was credited to the provider's owner
  group,      \* users.group
  session,    \* the ends of the order's checkout sessions that are open
  paid,       \* orders paid at their gateway
  sweep,      \* the pass of runSubscriptionQuotaResetOnce
  edit,       \* AdminUpdateSubscriptionPlan in progress
  gift,       \* GrantAirdropSubscription in progress
  now,
  spent       \* resumes, faults and administrators' acts so far (for the bound)

gateway == <<session, paid>>
books == <<sub, income, group>>
requests == <<edit, gift>>
vars == <<plan, order, books, gateway, sweep, requests, now, spent>>

Slots == 1 .. MaxSubs

NoOrder == [user |-> Nothing, plan |-> Nothing, status |-> "none", snap |-> Nothing,
            made |-> 0, linked |-> FALSE]
NoSub == [user |-> Nothing, plan |-> Nothing, status |-> "none", start |-> 0,
          end |-> 0, upgrade |-> Nothing, prev |-> Nothing, from |-> Nothing]
NoEdit == [plan |-> Nothing]
NoGift == [user |-> Nothing, count |-> 0]
Resting == [pass |-> "idle", todo |-> {}, at |-> 0, user |-> Nothing, to |-> Nothing]

Init ==
  /\ plan = [p \in Plans |-> [group |-> Start[p].group, limit |-> Start[p].limit,
                              perUser |-> Start[p].perUser, open |-> Start[p].open,
                              issued |-> 0, reserved |-> 0]]
  /\ order = [o \in Orders |-> NoOrder]
  /\ sub = [s \in Slots |-> NoSub]
  /\ income = [o \in Orders |-> 0]
  /\ group = [u \in Users |-> BaseGroup]
  /\ session = [o \in Orders |-> {}]
  /\ paid = {}
  /\ sweep = Resting
  /\ edit = NoEdit /\ gift = NoGift
  /\ now = 0
  /\ spent = 0

Spend == spent < MaxEvents /\ spent' = spent + 1

(***************************************************************************)
(* Purchase scopes.                                                        *)
(***************************************************************************)
\* The plans whose limits and stock count together with those of p.
Scope(p) == IF plan[p].group = Nothing THEN {p}
            ELSE {q \in Plans : plan[q].group = plan[p].group}

\* The strictest positive limit; 0 when there is none.
minPositive(S) == LET positive == S \ {0} IN
                  IF positive = {} THEN 0 ELSE Min(positive)

Stock(q) == plan[q].issued + plan[q].reserved
Allocated(P) == SumFunctionOnSet([q \in Plans |-> Stock(q)], P)

\* incrementSubscriptionPurchaseScopeStockTx refuses.
SoldOut(p) ==
  LET limit == minPositive({plan[q].limit : q \in Scope(p)})
  IN  limit > 0 /\ Allocated(Scope(p)) >= limit

Rows == {s \in Slots : sub[s].status \notin {"none", "deleted"}}
SubsOf(u, P) == {s \in Rows : sub[s].user = u /\ sub[s].plan \in P}
PendingOf(u, P) ==
  {o \in Orders : order[o].status = "pending" /\ order[o].user = u /\ order[o].plan \in P}
UserLimit(p) == minPositive({plan[q].perUser : q \in Scope(p)})

\* checkUserSubscriptionPurchaseScopeLimitTx refuses; count is what it reads as
\* the user's subscriptions and pending orders.
AtUserLimit(p, count) == UserLimit(p) > 0 /\ count >= UserLimit(p)

Count(u, p) == Cardinality(SubsOf(u, Scope(p))) + Cardinality(PendingOf(u, Scope(p)))

(***************************************************************************)
(* Issuing.                                                                *)
(***************************************************************************)
\* Creating an order holds the lock of the user's row from Quote on.
UserFree(u) == \A o \in Orders : order[o].status = "opening" => order[o].user # u

Calm == Undisturbed => sweep.pass # "subs"

\* createUserSubscriptionFromPlanTxWithSnapshot, after the stock was taken: the
\* next row, and the user's move to the plan's upgrade group.
Issue(u, p, o) ==
  \E s \in Slots :
    /\ sub[s].status = "none" /\ \A r \in Slots : r < s => sub[r].status # "none"
    /\ LET moves == Upgrade[p] # Nothing /\ group[u] # Upgrade[p] IN
       /\ sub' = [sub EXCEPT ![s] =
            [user |-> u, plan |-> p, status |-> "active", start |-> now,
             end |-> now + Duration, upgrade |-> Upgrade[p],
             prev |-> IF moves THEN group[u] ELSE Nothing, from |-> o]]
       /\ group' = IF moves THEN [group EXCEPT ![u] = Upgrade[p]] ELSE group

IssueStock(p) == plan' = [plan EXCEPT ![p].issued = @ + 1]

(***************************************************************************)
(* Orders.                                                                 *)
(***************************************************************************)
\* CreateSubscriptionOrderTx locks the user's row and reads the plan's group ...
Quote(o, u, p) ==
  /\ order[o].status = "none" /\ UserFree(u)
  /\ order' = [order EXCEPT ![o] =
       [user |-> u, plan |-> p, status |-> "opening", snap |-> plan[p].group,
        made |-> now, linked |-> FALSE]]
  /\ UNCHANGED <<plan, books, gateway, sweep, requests, now, spent>>

\* ... and, with the plans of that group locked, checks and reserves.
Orderable(o) ==
  LET p == order[o].plan IN
  /\ plan[p].group = order[o].snap
  /\ plan[p].open
  /\ ~AtUserLimit(p, Count(order[o].user, p))
  /\ ~SoldOut(p)

CreateSubscriptionOrder(o) ==
  /\ order[o].status = "opening" /\ Orderable(o)
  /\ plan' = [plan EXCEPT ![order[o].plan].reserved = @ + 1]
  /\ order' = [order EXCEPT ![o].status = "pending"]
  /\ UNCHANGED <<books, gateway, sweep, requests, now, spent>>

CreateRefused(o) ==
  /\ order[o].status = "opening" /\ ~Orderable(o)
  /\ order' = [order EXCEPT ![o] = NoOrder]
  /\ UNCHANGED <<plan, books, gateway, sweep, requests, now, spent>>

Deadline(o) == order[o].made + Reservation

\* expireSubscriptionOrderTx.  Slip: the stock is given back whatever the
\* order's state.
ExpireAnyOrder(o) ==
  /\ order' = [order EXCEPT ![o].status =
       IF order[o].status = "pending" THEN "expired" ELSE order[o].status]
  /\ plan' = IF plan[order[o].plan].reserved > 0
             THEN [plan EXCEPT ![order[o].plan].reserved = @ - 1] ELSE plan
ExpireOrder(o) ==
  IF order[o].status = "pending"
  THEN /\ plan[order[o].plan].reserved > 0
       /\ plan' = [plan EXCEPT ![order[o].plan].reserved = @ - 1]
       /\ order' = [order EXCEPT ![o].status = "expired"]
  ELSE UNCHANGED <<plan, order>>

\* The gateway answers with a session (Stripe, Waffo Pancake) ...
OpenCheckout(o) ==
  /\ order[o].status = "pending" /\ ~order[o].linked
  /\ order' = [order EXCEPT ![o].linked = TRUE]
  /\ session' = [session EXCEPT ![o] = {now + Checkout}]
  /\ UNCHANGED <<plan, books, paid, sweep, requests, now, spent>>

\* ... or refuses, and the order is given up.
CheckoutFails(o) ==
  /\ order[o].status = "pending" /\ ~order[o].linked
  /\ ExpireOrder(o)
  /\ UNCHANGED <<books, gateway, sweep, requests, now, spent>>

\* The request ends between the two: the order stays, without a session.
CheckoutLost(o) ==
  /\ order[o].status = "pending" /\ ~order[o].linked
  /\ Spend
  /\ order' = [order EXCEPT ![o].linked = TRUE]
  /\ UNCHANGED <<plan, books, gateway, sweep, requests, now>>

\* External: the user pays in an open session.
Pay(o) ==
  /\ \E e \in session[o] : now < e /\ session' = [session EXCEPT ![o] = @ \ {e}]
  /\ paid' = paid \cup {o}
  /\ UNCHANGED <<plan, order, books, sweep, requests, now, spent>>

\* sessionExpired: an event of a session that has ended.
SessionExpired(o) ==
  /\ \E e \in session[o] : e <= now /\ session' = [session EXCEPT ![o] = @ \ {e}]
  /\ ExpireOrder(o)
  /\ UNCHANGED <<books, paid, sweep, requests, now, spent>>

\* ResumeSubscriptionOrder: the order's age is checked, and a new session opened.
ResumeSubscriptionOrder(o) ==
  /\ order[o].status = "pending" /\ order[o].linked
  /\ Spend
  /\ IF Deadline(o) <= now
     THEN ExpireOrder(o) /\ UNCHANGED session
     ELSE /\ session' = [session EXCEPT ![o] = @ \cup {now + Checkout}]
          /\ UNCHANGED <<plan, order>>
  /\ UNCHANGED <<books, paid, sweep, requests, now>>

\* applyProviderSubscriptionIncomeTx looks for its trade number.  Slip: it does
\* not.
IncomeAlways(o) == TRUE
IncomeDue(o) == income[o] = 0
CreditIncome(o) ==
  income' = IF IncomeDue(o) THEN [income EXCEPT ![o] = @ + 1] ELSE income

\* completeSubscriptionOrderTx turns the reservation into a subscription ...
Completable(o) ==
  LET p == order[o].plan IN
  /\ order[o].status = "pending"
  /\ now < Deadline(o)
  /\ plan[p].group = order[o].snap
  /\ plan[p].reserved > 0

CompleteSubscriptionOrder(o) ==
  /\ o \in paid /\ Completable(o) /\ UserFree(order[o].user) /\ Calm
  /\ plan' = [plan EXCEPT ![order[o].plan].reserved = @ - 1,
                          ![order[o].plan].issued = @ + 1]
  /\ Issue(order[o].user, order[o].plan, o)
  /\ order' = [order EXCEPT ![o].status = "success"]
  /\ CreditIncome(o)
  /\ UNCHANGED <<gateway, sweep, requests, now, spent>>

\* ... and a repeated report makes up for a missing income.
CompleteAgain(o) ==
  /\ o \in paid /\ order[o].status = "success"
  /\ CreditIncome(o)
  /\ UNCHANGED <<plan, order, sub, group, gateway, sweep, requests, now, spent>>

(***************************************************************************)
(* Subscriptions without payment, and their end by hand.                   *)
(***************************************************************************)
AdminBindSubscription(u, p) ==
  /\ UserFree(u) /\ Calm /\ Spend
  /\ ~AtUserLimit(p, Count(u, p)) /\ ~SoldOut(p)
  /\ IssueStock(p)
  /\ Issue(u, p, Nothing)
  /\ UNCHANGED <<order, income, gateway, sweep, requests, now>>

\* GrantAirdropSubscription reads the user's provider and the configured plan
\* before it locks the user's row ...
AirdropBegin(u) ==
  /\ gift = NoGift /\ plan[AirdropPlan].open /\ Spend
  /\ gift' = [user |-> u, count |-> IF SnapshotReads THEN Count(u, AirdropPlan) ELSE 0]
  /\ UNCHANGED <<plan, order, books, gateway, sweep, edit, now>>

\* ... and counts the user's subscriptions afterwards, in that snapshot or not.
AirdropCount(u) == IF SnapshotReads THEN gift.count ELSE Count(u, AirdropPlan)
Grantable(u) == ~AtUserLimit(AirdropPlan, AirdropCount(u)) /\ ~SoldOut(AirdropPlan)

GrantAirdropSubscription(u) ==
  /\ gift.user = u /\ UserFree(u) /\ Calm
  /\ Grantable(u)
  /\ IssueStock(AirdropPlan)
  /\ Issue(u, AirdropPlan, Nothing)
  /\ gift' = NoGift
  /\ UNCHANGED <<order, income, gateway, sweep, edit, now, spent>>

AirdropRefused(u) ==
  /\ gift.user = u /\ ~Grantable(u)
  /\ gift' = NoGift
  /\ UNCHANGED <<plan, order, books, gateway, sweep, edit, now, spent>>

\* Another subscription with an upgrade group is usable at time t.
Upgraded(u, t, others) ==
  \E r \in others : /\ sub[r].user = u /\ sub[r].status = "active"
                    /\ sub[r].start <= t /\ t < sub[r].end
                    /\ sub[r].upgrade # Nothing

\* downgradeUserGroupForSubscriptionTx.
Downgrade(s) ==
  LET u == sub[s].user IN
  group' = IF /\ sub[s].upgrade # Nothing /\ group[u] = sub[s].upgrade
              /\ ~Upgraded(u, now, Slots \ {s})
              /\ sub[s].prev \notin {Nothing, group[u]}
           THEN [group EXCEPT ![u] = sub[s].prev] ELSE group

AdminInvalidateUserSubscription(s) ==
  /\ s \in Rows /\ Spend
  /\ sub' = [sub EXCEPT ![s].status = "cancelled", ![s].end = now]
  /\ Downgrade(s)
  /\ UNCHANGED <<plan, order, income, gateway, sweep, requests, now>>

AdminDeleteUserSubscription(s) ==
  /\ s \in Rows /\ Spend
  /\ sub' = [sub EXCEPT ![s].status = "deleted"]
  /\ Downgrade(s)
  /\ UNCHANGED <<plan, order, income, gateway, sweep, requests, now>>

(***************************************************************************)
(* Plans.                                                                  *)
(***************************************************************************)
PendingOrders(p) == {o \in Orders : order[o].status = "pending" /\ order[o].plan = p}

\* ValidateSubscriptionPlanPurchaseLimitsTx first reads the plan without a lock.
EditBegin(p, asked) ==
  /\ edit = NoEdit /\ Spend
  /\ edit' = [plan |-> p, group |-> asked.group, limit |-> asked.limit,
              perUser |-> asked.perUser, open |-> asked.open,
              was |-> plan[p].group,
              free |-> SnapshotReads /\ PendingOrders(p) = {}]
  /\ UNCHANGED <<plan, order, books, gateway, sweep, gift, now>>

\* A plan moves to another group only when it has no pending orders.  Slip:
\* that is not checked.
MayMoveAlways(e) == TRUE
MayMove(e) == \/ e.group = plan[e.plan].group
              \/ IF SnapshotReads THEN e.free ELSE PendingOrders(e.plan) = {}

\* The stock fits the limits of the group the plan moves to.  Slip: only the
\* plan's own stock is compared.
FitsAlone(e) == e.limit = 0 \/ Stock(e.plan) <= e.limit
Fits(e) ==
  LET members == IF e.group = Nothing THEN {}
                 ELSE {q \in Plans \ {e.plan} : plan[q].group = e.group}
      limit == minPositive({e.limit} \cup {plan[q].limit : q \in members})
  IN  limit = 0 \/ Stock(e.plan) + Allocated(members) <= limit

\* With the plans of both groups locked.
Editable(e) == plan[e.plan].group = e.was /\ MayMove(e) /\ Fits(e)

AdminUpdateSubscriptionPlan ==
  /\ edit # NoEdit /\ Editable(edit)
  /\ plan' = [plan EXCEPT ![edit.plan].group = edit.group, ![edit.plan].limit = edit.limit,
                          ![edit.plan].perUser = edit.perUser,
                          ![edit.plan].open = edit.open]
  /\ edit' = NoEdit
  /\ UNCHANGED <<order, books, gateway, sweep, gift, now, spent>>

EditRefused ==
  /\ edit # NoEdit /\ ~Editable(edit)
  /\ edit' = NoEdit
  /\ UNCHANGED <<plan, order, books, gateway, sweep, gift, now, spent>>

AdminUpdateSubscriptionPlanStatus(p) ==
  /\ Spend
  /\ plan' = [plan EXCEPT ![p].open = ~@]
  /\ UNCHANGED <<order, books, gateway, sweep, requests, now>>

(***************************************************************************)
(* The maintenance pass.                                                   *)
(***************************************************************************)
Ended(s, t) == sub[s].status = "active" /\ sub[s].end <= t

Overdue == {o \in Orders : order[o].status = "pending" /\ Deadline(o) <= now}

\* The pass of a tick that finds nothing to do changes nothing and is left out.
ExpireReservedSubscriptionOrders ==
  /\ sweep.pass = "idle"
  /\ Overdue # {} \/ \E s \in Slots : Ended(s, now)
  /\ sweep' = [Resting EXCEPT !.pass = "orders", !.todo = Overdue]
  /\ UNCHANGED <<plan, order, books, gateway, requests, now, spent>>

ExpireSubscriptionOrder(o) ==
  /\ sweep.pass = "orders" /\ o \in sweep.todo
  /\ ExpireOrder(o)
  /\ sweep' = [sweep EXCEPT !.todo = @ \ {o}]
  /\ UNCHANGED <<books, gateway, requests, now, spent>>

ExpireDueSubscriptions ==
  /\ sweep.pass = "orders" /\ sweep.todo = {}
  /\ sweep' = [Resting EXCEPT !.pass = "subs", !.at = now,
                              !.todo = {sub[s].user : s \in {r \in Slots : Ended(r, now)}}]
  /\ UNCHANGED <<plan, order, books, gateway, requests, now, spent>>

\* One user's transaction: the rows are marked, and what is left decides whether
\* the user goes back to the group before the last of them.
After(s, r) == sub[s].end > sub[r].end \/ (sub[s].end = sub[r].end /\ s > r)

\* Slip: subscriptions that go on are not looked for.
ReturnsUnasked(u, lapsed) ==
  {s \in lapsed : /\ \A r \in lapsed \ {s} : After(s, r)
                  /\ group[u] = sub[s].upgrade
                  /\ sub[s].prev \notin {Nothing, group[u]}}
Returns(u, lapsed) ==
  {s \in lapsed : /\ ~Upgraded(u, sweep.at, Slots)
                  /\ \A r \in lapsed \ {s} : After(s, r)
                  /\ group[u] = sub[s].upgrade
                  /\ sub[s].prev \notin {Nothing, group[u]}}

ExpireUser(u) ==
  /\ sweep.pass = "subs" /\ u \in sweep.todo /\ sweep.user = Nothing
  /\ LET due == {s \in Slots : sub[s].user = u /\ Ended(s, sweep.at)}
         lapsed == {s \in Slots : /\ sub[s].user = u /\ sub[s].upgrade # Nothing
                                  /\ s \in due \/ sub[s].status = "expired"}
         back == Returns(u, lapsed)
     IN  /\ sub' = [s \in Slots |-> IF s \in due THEN [sub[s] EXCEPT !.status = "expired"]
                                    ELSE sub[s]]
         /\ sweep' = [sweep EXCEPT !.todo = @ \ {u},
                        !.user = IF back = {} THEN Nothing ELSE u,
                        !.to = IF back = {} THEN Nothing
                               ELSE sub[CHOOSE s \in back : TRUE].prev]
  /\ UNCHANGED <<plan, order, income, group, gateway, requests, now, spent>>

\* The user's row, which no lock protected since, is written.
ReturnUser ==
  /\ sweep.user # Nothing
  /\ group' = [group EXCEPT ![sweep.user] = sweep.to]
  /\ sweep' = [sweep EXCEPT !.user = Nothing, !.to = Nothing]
  /\ UNCHANGED <<plan, order, sub, income, gateway, requests, now, spent>>

SweepDone ==
  /\ sweep.pass = "subs" /\ sweep.todo = {} /\ sweep.user = Nothing
  /\ sweep' = Resting
  /\ UNCHANGED <<plan, order, books, gateway, requests, now, spent>>

\* A failing transaction ends the pass; the next tick starts another.
SweepFails ==
  /\ sweep.pass # "idle" /\ Spend
  /\ sweep' = Resting
  /\ UNCHANGED <<plan, order, books, gateway, requests, now>>

\* A request does not take longer than the grace that Reservation leaves.
Tick ==
  /\ now < MaxTime /\ Calm
  /\ \A o \in Orders :
       /\ order[o].status # "opening"
       /\ order[o].status = "pending" /\ ~order[o].linked =>
            now < order[o].made + (Reservation - Checkout)
  /\ now' = now + 1
  /\ UNCHANGED <<plan, order, books, gateway, sweep, requests, spent>>

(***************************************************************************)
(* Specification.                                                          *)
(***************************************************************************)
OrderStep(o) ==
  \/ \E u \in Users, p \in Plans : Quote(o, u, p)
  \/ CreateSubscriptionOrder(o) \/ CreateRefused(o)
  \/ OpenCheckout(o) \/ CheckoutFails(o) \/ CheckoutLost(o)
  \/ Pay(o) \/ SessionExpired(o) \/ ResumeSubscriptionOrder(o)
  \/ CompleteSubscriptionOrder(o) \/ CompleteAgain(o)

AdminStep ==
  \/ \E u \in Users, p \in Plans : AdminBindSubscription(u, p)
  \/ \E u \in Users : AirdropBegin(u) \/ GrantAirdropSubscription(u) \/ AirdropRefused(u)
  \/ \E s \in Slots : AdminInvalidateUserSubscription(s) \/ AdminDeleteUserSubscription(s)
  \/ \E p \in Plans, asked \in Edits : EditBegin(p, asked)
  \/ AdminUpdateSubscriptionPlan \/ EditRefused
  \/ \E p \in Plans : AdminUpdateSubscriptionPlanStatus(p)

SweepStep ==
  \/ ExpireReservedSubscriptionOrders
  \/ \E o \in Orders : ExpireSubscriptionOrder(o)
  \/ ExpireDueSubscriptions
  \/ \E u \in Users : ExpireUser(u)
  \/ ReturnUser \/ SweepDone

Next == (\E o \in Orders : OrderStep(o)) \/ AdminStep \/ SweepStep \/ SweepFails \/ Tick

Spec == Init /\ [][Next]_vars

(***************************************************************************)
(* Properties.                                                             *)
(***************************************************************************)
PlanRows == [group : Groups \cup {Nothing}, limit : Limits, perUser : Limits,
             open : BOOLEAN, issued : Nat, reserved : Nat]
OrderRows == [user : Users \cup {Nothing}, plan : Plans \cup {Nothing},
              status : {"none", "opening", "pending", "success", "expired"},
              snap : Groups \cup {Nothing}, made : Nat, linked : BOOLEAN]
SubStates == {"none", "active", "expired", "cancelled", "deleted"}

SubOrderTypeOK ==
  /\ plan \in [Plans -> PlanRows]
  /\ order \in [Orders -> OrderRows]
  /\ DOMAIN sub = Slots /\ \A s \in Slots : sub[s].status \in SubStates
  /\ income \in [Orders -> Nat]
  /\ paid \subseteq Orders
  /\ now \in Nat

IssuedOf(p) == {s \in Slots : sub[s].status # "none" /\ sub[s].plan = p}

\* Through creation, payment, expiry by three parties and administration, a
\* plan's counters are what its orders and subscriptions say: no reservation is
\* stranded, released twice or issued twice (reserve, commit and
\* releaseReservedSubscriptionPlanStockTx).
StockMatchesOrders ==
  \A p \in Plans : /\ plan[p].reserved = Cardinality(PendingOrders(p))
                   /\ plan[p].issued = Cardinality(IssuedOf(p))

\* However plans move between purchase groups and limits change, what is issued
\* and reserved in a group stays within the strictest limit of its plans.
NeverOversold ==
  \A p \in Plans : LET limit == minPositive({plan[q].limit : q \in Scope(p)})
                   IN  limit > 0 => Allocated(Scope(p)) <= limit

\* A successful order has exactly one subscription and one income of the
\* provider's owner, any other order none, however often it is reported.
IssuedOnce ==
  \A o \in Orders : LET n == IF order[o].status = "success" THEN 1 ELSE 0 IN
    /\ Cardinality({s \in Slots : sub[s].from = o}) = n
    /\ income[o] = n

\* A pending order can be completed as far as its plan is concerned: the plan
\* is in the group of the order's snapshot and still holds the reservation.
PendingCompletable ==
  \A o \in Orders : order[o].status = "pending" =>
    /\ plan[order[o].plan].group = order[o].snap
    /\ plan[order[o].plan].reserved > 0

\* A user's subscriptions and pending orders in a purchase group never grow
\* beyond the group's limit per user (creation, binding and airdrop count them
\* under the lock of the user's row).
PurchaseWithinUserLimit ==
  [][\A u \in Users, p \in Plans :
       (\A q \in Plans : plan'[q].group = plan[q].group) /\ Count(u, p)' > Count(u, p)
         => ~AtUserLimit(p, Count(u, p))]_vars

\* Whoever has a running subscription with an upgrade group is not in the group
\* of accounts without one, whatever else ends, is cancelled or deleted.
EntitledKeepsGroup ==
  \A s \in Slots :
    sub[s].status = "active" /\ sub[s].upgrade # Nothing /\ now < sub[s].end
      => group[sub[s].user] # BaseGroup

\* A user cannot pay for an order that lost its reservation: an open checkout
\* session ends by the deadline of its order, which is not expired meanwhile.
SessionBacked ==
  \A o \in Orders : \A e \in session[o] :
    now < e => order[o].status # "expired" /\ e <= Deadline(o)

==============================================================================
