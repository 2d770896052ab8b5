----------------------------- MODULE RelayRetry -----------------------------
(***************************************************************************)
(* One relayed request: the channel Distribute selects, the retry loop of  *)
(* controller/relay.go (Relay), and the selection of a channel by          *)
(* CacheGetRandomSatisfiedChannel over the groups of an "auto" token       *)
(* (service/channel_select.go) from the channel cache                      *)
(* (model/channel_cache.go).                                               *)
(*                                                                         *)
(* Meanwhile channels leave the cache, because a failed attempt of this    *)
(* request had its channel disabled by a goroutine or because others did,  *)
(* and come back with the next synchronisation.                            *)
(*                                                                         *)
(* The model is fixed for the request, so a channel stands for its ability *)
(* to serve that model.  What the session does is BillingSession's         *)
(* subject; here the request holds a charge until it settles or refunds.   *)
(***************************************************************************)
EXTENDS Integers, Sequences, FiniteSets

CONSTANTS
  Channels,
  AutoGroups,       \* the groups an auto token may use in order, else its one group
  AutoToken,        \* the token's group is "auto"
  CrossGroupRetry,  \* the token's cross_group_retry
  RetryTimes,       \* common.RetryTimes
  GroupsOf,         \* GroupsOf[c]: the groups channel c serves
  Priority, Weight, \* per channel
  MaxChanges        \* changes of the cache by others (bound)

ASSUME RetryAssumption ==
  /\ IsFiniteSet(Channels)
  /\ AutoToken \in BOOLEAN /\ CrossGroupRetry \in BOOLEAN
  /\ RetryTimes \in Nat /\ MaxChanges \in Nat
  /\ AutoGroups \in Seq(UNION {GroupsOf[c] : c \in Channels}) /\ AutoGroups # <<>>
  /\ \A i, j \in DOMAIN AutoGroups : AutoGroups[i] = AutoGroups[j] => i = j
  /\ ~AutoToken => Len(AutoGroups) = 1
  /\ Priority \in [Channels -> Nat] /\ Weight \in [Channels -> Nat]

\* Why an attempt failed: a channel error, an error marked not to be retried,
\* an upstream account without balance, a status code that is retried, one
\* that is not, and an error before the upstream is called.
Errors == {"channel", "skip", "balance", "retryable", "final", "local", "no channel"}
None == "none"

VARIABLES
  listed,     \* the channels in group2model2channels
  changes,    \* counts the changes by others
  bans,       \* DisableChannel goroutines of this request
  phase,      \* distribute, scan, charge, loop, call, finish, done
  retry, reset,   \* RetryParam.Retry and resetNextTry
  index,      \* ContextKeyAutoGroupIndex
  i, start,   \* the loop over AutoGroups in CacheGetRandomSatisfiedChannel
  chosen,     \* the channel in the context, its group and the cache it came from
  priced,     \* the group whose ratio is in PriceData.GroupRatioInfo
  pinned, affinity, skipAfterAffinity,  \* how Distribute chose, and the rule's SkipRetry
  tried,      \* the attempts, in order (use_channel)
  err,        \* newAPIError
  billing     \* none, free, held, settled, refunded

param == <<retry, reset>>
search == <<index, i, start>>
choice == <<pinned, affinity, skipAfterAffinity>>
retryVars == <<listed, changes, bans, phase, param, search, chosen, priced, choice,
               tried, err, billing>>

-----------------------------------------------------------------------------
(* The cache                                                               *)

InGroup(g) == {c \in listed : g \in GroupsOf[c]}
Priorities(S) == {Priority[c] : c \in S}

\* Slip: the priorities are sorted upwards.
LevelUpwards(P, n) ==
  CHOOSE p \in P :
    LET below == Cardinality({q \in P : q < p})
    IN  below = IF n >= Cardinality(P) THEN Cardinality(P) - 1 ELSE n

\* The n-th highest of a finite set of priorities (n from 0); beyond the
\* lowest it stays the lowest.
Level(P, n) ==
  CHOOSE p \in P :
    LET above == Cardinality({q \in P : q > p})
    IN  above = IF n >= Cardinality(P) THEN Cardinality(P) - 1 ELSE n

\* Weighted choice: a channel of weight 0 is chosen only when all are.
Eligible(S) ==
  IF \A c \in S : Weight[c] = 0 THEN S ELSE {c \in S : Weight[c] > 0}

\* GetRandomSatisfiedChannel: the channels it may return, none for nil.
GetRandomSatisfiedChannel(g, n) ==
  LET S == InGroup(g)
  IN  IF Cardinality(S) <= 1 THEN S
      ELSE Eligible({c \in S : Priority[c] = Level(Priorities(S), n)})

\* CacheUpdateChannelStatus, reached from this request's DisableChannel.  A
\* multi-key channel that has enabled keys left stays listed.
DisableChannel ==
  \E c \in bans :
    /\ bans' = bans \ {c}
    /\ listed' \in {listed, listed \ {c}}
    /\ UNCHANGED <<changes, phase, param, search, chosen, priced, choice, tried, err, billing>>

\* Others disable a channel, or a synchronisation lists it again.
CacheChanges ==
  /\ changes < MaxChanges /\ phase # "done"
  /\ changes' = changes + 1
  /\ \E c \in Channels : listed' = IF c \in listed THEN listed \ {c} ELSE listed \cup {c}
  /\ UNCHANGED <<bans, phase, param, search, chosen, priced, choice, tried, err, billing>>

-----------------------------------------------------------------------------
(* CacheGetRandomSatisfiedChannel                                          *)

\* Its caller is Distribute as long as nothing is charged.
byDistribute == billing = None

ContextOf(c, g) == [channel |-> c, group |-> g, from |-> listed]

\* HandleGroupRatio; the slip takes the ratio once, with the price.
HandleGroupRatioOnce(g) == priced' = IF priced = None THEN g ELSE priced
HandleGroupRatio(g) == priced' = g

\* It starts at the group the context names, or at the first.
BeginScan ==
  /\ phase' = "scan"
  /\ start' = index /\ i' = index
  /\ UNCHANGED index

\* What the caller does without a channel: both report an error; Relay goes
\* on to refund.
NoChannel ==
  /\ err' = "no channel"
  /\ phase' = IF byDistribute THEN "done" ELSE "finish"

\* No channel in this group: an auto token moves on, and starts over there.
ScanMiss ==
  /\ phase = "scan" /\ i <= Len(AutoGroups) /\ InGroup(AutoGroups[i]) = {}
  /\ IF AutoToken
     THEN /\ index' = i + 1 /\ i' = i + 1
          /\ retry' = 0
          /\ UNCHANGED <<phase, err>>
     ELSE NoChannel /\ UNCHANGED <<index, i, retry>>
  /\ UNCHANGED <<listed, changes, bans, reset, start, chosen, priced, choice, tried, billing>>

\* All groups were tried.  Relay has taken the ratio of the last group by
\* then, which is the one it holds.
ScanEnd ==
  /\ phase = "scan" /\ i > Len(AutoGroups)
  /\ NoChannel
  /\ UNCHANGED <<listed, changes, bans, param, search, chosen, priced, choice, tried, billing>>

\* Slip: the group is kept when its retries are used up.
LeavesGroupNever(level) ==
  /\ index' = i
  /\ IF CrossGroupRetry /\ level >= RetryTimes
     THEN retry' = 0 /\ reset' = TRUE
     ELSE UNCHANGED param

\* What is prepared for the next retry: with cross-group retry the group is
\* left after RetryTimes retries, and the count starts over.
PrepareNext(level) ==
  IF CrossGroupRetry /\ level >= RetryTimes
  THEN index' = i + 1 /\ retry' = 0 /\ reset' = TRUE
  ELSE index' = i /\ UNCHANGED param

\* A channel is found.  Distribute's RetryParam ends with it; Relay takes the
\* ratio of the group (HandleGroupRatio) and makes an attempt, unless the
\* channel has no enabled key (SetupContextForSelectedChannel, whose error
\* Distribute does not look at).
ScanHit ==
  /\ phase = "scan" /\ i <= Len(AutoGroups)
  /\ LET g == AutoGroups[i]
         level == IF i > start THEN 0 ELSE retry
     IN  \E c \in GetRandomSatisfiedChannel(g, level) :
           /\ chosen' = ContextOf(c, g)
           /\ IF ~AutoToken THEN UNCHANGED <<index, param>>
              ELSE IF byDistribute
              THEN /\ index' = IF CrossGroupRetry /\ level >= RetryTimes THEN i + 1 ELSE i
                   /\ UNCHANGED param
              ELSE PrepareNext(level)
           /\ IF byDistribute
              THEN phase' = "charge" /\ UNCHANGED <<priced, tried, err>>
              ELSE /\ HandleGroupRatio(g)
                   /\ \/ /\ phase' = "call" /\ tried' = Append(tried, chosen')
                         /\ UNCHANGED err
                      \/ phase' = "finish" /\ err' = "channel" /\ UNCHANGED tried
  /\ UNCHANGED <<listed, changes, bans, i, start, choice, billing>>

-----------------------------------------------------------------------------
(* Distribute                                                              *)

untouchedByDistribute == <<listed, changes, bans, param, priced, tried, err, billing>>

\* A request that is malformed, names a model or group it may not use, or
\* whose remembered channel is disabled under a rule that forbids others.
DistributeRefuses ==
  /\ phase = "distribute"
  /\ phase' = "done" /\ err' = "final"
  /\ UNCHANGED <<listed, changes, bans, param, search, chosen, priced, choice, tried, billing>>

\* An administrator's key names the channel: its row must be enabled, the
\* cache is not asked, and no group of an auto token is chosen.
DistributePinned ==
  /\ phase = "distribute"
  /\ \E c \in Channels : chosen' = ContextOf(c, IF AutoToken THEN None ELSE AutoGroups[1])
  /\ pinned' = TRUE
  /\ phase' = "charge"
  /\ UNCHANGED <<search, affinity, skipAfterAffinity, untouchedByDistribute>>

\* A channel the affinity cache remembers, in the first group that lists it;
\* the group index is not set.
DistributeAffinity ==
  /\ phase = "distribute"
  /\ \E c \in listed, k \in DOMAIN AutoGroups :
       /\ AutoGroups[k] \in GroupsOf[c]
       /\ \A l \in 1 .. k - 1 : AutoGroups[l] \notin GroupsOf[c]
       /\ chosen' = ContextOf(c, AutoGroups[k])
  /\ affinity' = TRUE
  /\ skipAfterAffinity' \in BOOLEAN
  /\ phase' = "charge"
  /\ UNCHANGED <<search, pinned, untouchedByDistribute>>

\* No channel is remembered, or it is of no use; a rule may have matched.
DistributeSelect ==
  /\ phase = "distribute"
  /\ skipAfterAffinity' \in BOOLEAN
  /\ BeginScan
  /\ UNCHANGED <<chosen, pinned, affinity, untouchedByDistribute>>

-----------------------------------------------------------------------------
(* Relay                                                                   *)

untouchedByRelay == <<listed, changes, search, choice>>

\* ModelPriceHelper and PreConsumeBilling: the request is free, holds a
\* charge, or is refused.
PreConsume ==
  /\ phase = "charge"
  /\ HandleGroupRatio(chosen.group)
  /\ \/ billing' \in {"free", "held"} /\ phase' = "loop" /\ UNCHANGED err
     \/ err' = "final" /\ phase' = "done" /\ UNCHANGED billing
  /\ UNCHANGED <<untouchedByRelay, bans, param, chosen, tried>>

\* The head of the loop, and getChannel: the first attempt takes the channel
\* Distribute put into the context.
LoopTop ==
  /\ phase = "loop"
  /\ \/ /\ retry <= RetryTimes /\ tried = <<>>
        /\ phase' = "call" /\ tried' = Append(tried, chosen)
        /\ UNCHANGED search
     \/ /\ retry <= RetryTimes /\ tried # <<>>
        /\ BeginScan
        /\ UNCHANGED tried
     \/ /\ retry > RetryTimes
        /\ phase' = "finish"
        /\ UNCHANGED <<search, tried>>
  /\ UNCHANGED <<listed, changes, choice, bans, param, chosen, priced, err, billing>>

Succeed ==
  /\ phase = "call"
  /\ phase' = "done" /\ err' = None
  /\ billing' = IF billing = "held" THEN "settled" ELSE billing
  /\ UNCHANGED <<untouchedByRelay, bans, param, chosen, priced, tried>>

\* shouldRetry, with what is left of the retries.
ShouldRetry(e, left) ==
  /\ e = "balance" \/ ~skipAfterAffinity
  /\ \/ e = "channel"
     \/ e \in {"balance", "retryable"} /\ left > 0 /\ ~pinned

\* RetryParam.IncreaseRetry
IncreaseRetry ==
  IF reset THEN reset' = FALSE /\ UNCHANGED retry ELSE retry' = retry + 1 /\ UNCHANGED reset

\* The attempt fails.  processChannelError may have the channel disabled;
\* an error marked not to be retried is not the channel's.
Fail(e) ==
  /\ phase = "call"
  /\ err' = e
  /\ bans' \in {bans} \cup (IF e \in {"skip", "local"} THEN {} ELSE {bans \cup {chosen.channel}})
  /\ \/ ShouldRetry(e, RetryTimes - retry) /\ IncreaseRetry /\ phase' = "loop"
     \/ ~ShouldRetry(e, RetryTimes - retry) /\ phase' = "finish" /\ UNCHANGED param
  /\ UNCHANGED <<untouchedByRelay, chosen, priced, tried, billing>>

\* The deferred function: an error returns what the session holds.
Finish ==
  /\ phase = "finish"
  /\ phase' = "done"
  /\ billing' = IF err # None /\ billing = "held" THEN "refunded" ELSE billing
  /\ UNCHANGED <<untouchedByRelay, bans, param, chosen, priced, tried, err>>

-----------------------------------------------------------------------------
NoContext == [channel |-> None, group |-> None, from |-> {}]

RetryInit ==
  /\ listed = Channels /\ changes = 0 /\ bans = {}
  /\ phase = "distribute"
  /\ retry = 0 /\ reset = FALSE
  /\ index = 1 /\ i = 1 /\ start = 1
  /\ chosen = NoContext /\ priced = None
  /\ pinned = FALSE /\ affinity = FALSE /\ skipAfterAffinity = FALSE
  /\ tried = <<>> /\ err = None /\ billing = None

RelayStep ==
  \/ DistributeRefuses \/ DistributePinned \/ DistributeAffinity \/ DistributeSelect
  \/ ScanMiss \/ ScanEnd \/ ScanHit
  \/ PreConsume \/ LoopTop \/ Succeed \/ Finish
  \/ \E e \in Errors \ {"no channel"} : Fail(e)

RetryNext == RelayStep \/ DisableChannel \/ CacheChanges

RetrySpec == RetryInit /\ [][RetryNext]_retryVars

-----------------------------------------------------------------------------
(* Properties                                                              *)

\* However groups empty and fill while the request runs, and whichever
\* errors reset or bypass the count of retries, no request makes more than
\* RetryTimes + 1 attempts for each group it may use.
AttemptsBounded == Len(tried) <= (RetryTimes + 1) * Len(AutoGroups)

\* While a group keeps its channels a retry goes to the next lower priority,
\* and stays at the lowest.
RetriesDescend ==
  \A k \in 1 .. Len(tried) - 1 :
    LET a == tried[k]
        b == tried[k + 1]
        P == {Priority[c] : c \in {d \in a.from : a.group \in GroupsOf[d]}}
    IN  /\ a.group = b.group /\ a.from = b.from
        /\ ~(k = 1 /\ (affinity \/ pinned))
        => \/ \A p \in P : Priority[b.channel] <= p
           \/ /\ Priority[b.channel] < Priority[a.channel]
              /\ ~\E p \in P : Priority[b.channel] < p /\ p < Priority[a.channel]

\* When the request is over it was served and settled, at the ratio of the
\* group that served it, or it failed and holds no charge.
EndsAccounted ==
  phase = "done" =>
    /\ billing # "held"
    /\ err = None => /\ billing \in {"free", "settled"} /\ tried # <<>>
                     /\ priced = tried[Len(tried)].group
    /\ err # None => billing \in {None, "free", "refunded"}

\* The comment of CacheGetRandomSatisfiedChannel: with cross-group retry each
\* group uses up its priorities, one attempt at each, and then the next group
\* begins with its highest.
ExhaustsThenMoves ==
  (AutoToken /\ CrossGroupRetry /\ ~affinity /\ ~pinned /\ listed = Channels) =>
    \A k \in 1 .. Len(tried) - 1 :
      LET a == tried[k]
          b == tried[k + 1]
          P(g) == {Priority[c] : c \in {d \in Channels : g \in GroupsOf[d]}}
      IN  a.from = Channels /\ b.from = Channels =>
            \/ a.group = b.group /\ Priority[b.channel] < Priority[a.channel]
            \/ /\ a.group # b.group
               /\ \A p \in P(a.group) : Priority[a.channel] <= p
               /\ \A p \in P(b.group) : Priority[b.channel] >= p

=============================================================================
