---------------------------- MODULE RelayProofs -----------------------------
(***************************************************************************)
(* Proofs about what a request does upstream: the retries of one that is   *)
(* answered at once, and the Midjourney task that outlives its request.    *)
(***************************************************************************)
EXTENDS RelayRetry, Midjourney, FiniteSetTheorems, TLAPS

(***************************************************************************)
(* AttemptsBounded, RetriesDescend and EndsAccounted for any channels,     *)
(* groups, priorities, weights and number of retries.                      *)
(*                                                                         *)
(* None is inductive.  The number of attempts is bounded through the index *)
(* of the group and the count of retries, which the two resets of the      *)
(* count must not outrun; the order of priorities through the level of the *)
(* last attempt, which the count of retries remembers; and the charge      *)
(* through what each phase may hold.                                       *)
(***************************************************************************)
Groups == UNION {GroupsOf[c] : c \in Channels}
Contexts == [channel : Channels \cup {None}, group : Groups \cup {None},
             from : SUBSET Channels]
Phases == {"distribute", "scan", "charge", "loop", "call", "finish", "done"}
Billings == {None, "free", "held", "settled", "refunded"}

RelayTypeOK ==
  /\ listed \in SUBSET Channels /\ changes \in Nat /\ bans \in SUBSET (Channels \cup {None})
  /\ phase \in Phases
  /\ retry \in Nat /\ reset \in BOOLEAN
  /\ index \in Nat \ {0} /\ i \in Nat \ {0} /\ start \in Nat \ {0}
  /\ chosen \in Contexts /\ priced \in Groups \cup {None}
  /\ pinned \in BOOLEAN /\ affinity \in BOOLEAN /\ skipAfterAffinity \in BOOLEAN
  /\ tried \in Seq(Contexts)
  /\ err \in Errors \cup {None} /\ billing \in Billings

-----------------------------------------------------------------------------
(* The inductive invariant                                                 *)

\* What a request may hold in each phase, and when it has failed before.
AccountInv ==
  /\ phase \in {"distribute", "charge"} => billing = None /\ tried = <<>>
  /\ phase = "scan" => \/ billing = None /\ tried = <<>>
                       \/ billing \in {"free", "held"} /\ tried # <<>> /\ err # None
  /\ phase = "loop" => /\ billing \in {"free", "held"}
                       /\ tried = <<>> => retry = 0 /\ priced = chosen.group
                       /\ tried # <<>> => err # None
  /\ phase = "call" => /\ billing \in {"free", "held"} /\ tried # <<>>
                       /\ priced = tried[Len(tried)].group
  /\ phase = "finish" => billing \in {"free", "held"} /\ err # None
  /\ EndsAccounted

\* The attempts that the groups before the k-th allow.
Before(k) == (k - 1) * (RetryTimes + 1)

\* Where the scan is, and which of the two resets of the count are pending.
SearchInv ==
  /\ index <= Len(AutoGroups) + 1
  /\ ~AutoToken => index = 1
  /\ phase \in {"distribute", "charge"} => retry = 0
  /\ phase \in {"distribute", "scan", "charge", "loop"} => ~reset
  /\ phase = "scan" => /\ i = index /\ start <= i /\ retry <= RetryTimes
                       /\ i > start => retry = 0
                       /\ billing = None => retry = 0
  /\ phase = "call" /\ reset => retry = 0

BudgetInv ==
  /\ phase \in {"scan", "loop"} => Len(tried) <= Before(index) + retry
  /\ phase = "call" => Len(tried) <= Before(index) + retry + (IF reset THEN 0 ELSE 1)
  /\ AttemptsBounded

\* The channels of a past listing that served a group.
Members(S, g) == {c \in S : g \in GroupsOf[c]}

\* The attempt a took a channel of the n-th highest priority of its group.
ByLevel(a, n) ==
  /\ a.channel \in Members(a.from, a.group)
  /\ Priority[a.channel] = Level(Priorities(Members(a.from, a.group)), n)

\* The attempt a was made in a group not after the x-th; in the x-th one at
\* the level n.
PlacedAt(a, n, x) ==
  \E k \in DOMAIN AutoGroups :
    /\ k <= x /\ a.group = AutoGroups[k]
    /\ k = x => n \in Nat /\ ByLevel(a, n)

Placed(a, n) == PlacedAt(a, n, index)

\* Distribute did not go by the cache's priorities.
Bypassed == affinity \/ pinned

\* The channel Distribute selected has the highest priority of its group.
ChosenPlaced ==
  phase \in {"charge", "loop"} /\ tried = <<>> /\ ~Bypassed => Placed(chosen, 0)

\* The last attempt, unless it is one that Distribute did not select, was at
\* the level of the present count of retries, or of the count before it.
LastPlaced ==
  tried # <<>> /\ ~(Len(tried) = 1 /\ Bypassed) =>
    LET last == tried[Len(tried)]
    IN  /\ phase \in {"loop", "scan"} => Placed(last, retry - 1)
        /\ phase = "call" => Placed(last, IF reset THEN -1 ELSE retry)

LevelInv == ChosenPlaced /\ LastPlaced /\ RetriesDescend

RelayInv == RelayTypeOK /\ AccountInv /\ SearchInv /\ BudgetInv /\ LevelInv

-----------------------------------------------------------------------------
(* Types                                                                   *)

\* A channel that may be returned serves the group now.
LEMMA PickedServes ==
  ASSUME NEW g, NEW n, NEW c \in GetRandomSatisfiedChannel(g, n)
  PROVE  c \in InGroup(g)
BY DEF GetRandomSatisfiedChannel, Eligible

\* The groups of the token are groups of channels.
LEMMA GroupsTyped ==
  /\ AutoGroups \in Seq(Groups) /\ Len(AutoGroups) \in Nat /\ Len(AutoGroups) >= 1
  /\ \A k \in 1 .. Len(AutoGroups) : AutoGroups[k] \in Groups
  /\ DOMAIN AutoGroups = 1 .. Len(AutoGroups)
<1>1. AutoGroups \in Seq(Groups) /\ AutoGroups # <<>>
  BY RetryAssumption DEF Groups
<1> HIDE DEF Groups
<1> QED BY <1>1

\* What is put into the context.
LEMMA ContextTyped ==
  ASSUME RelayTypeOK, NEW c \in Channels, NEW g \in Groups \cup {None}
  PROVE  /\ ContextOf(c, g) \in Contexts
         /\ ContextOf(c, g).channel = c /\ ContextOf(c, g).group = g
         /\ ContextOf(c, g).from = listed
BY DEF ContextOf, Contexts, RelayTypeOK

LEMMA TypeInit == RetryInit => RelayTypeOK
<1> SUFFICES ASSUME RetryInit PROVE RelayTypeOK
  OBVIOUS
<1>1. chosen \in Contexts /\ tried \in Seq(Contexts)
  BY DEF RetryInit, NoContext, Contexts
<1>2. /\ reset \in BOOLEAN /\ pinned \in BOOLEAN /\ affinity \in BOOLEAN
      /\ skipAfterAffinity \in BOOLEAN
  BY DEF RetryInit
<1>3. /\ listed \in SUBSET Channels /\ changes \in Nat /\ bans \in SUBSET (Channels \cup {None})
      /\ phase \in Phases /\ retry \in Nat
      /\ index \in Nat \ {0} /\ i \in Nat \ {0} /\ start \in Nat \ {0} /\ priced \in Groups \cup {None}
      /\ err \in Errors \cup {None} /\ billing \in Billings
  BY DEF RetryInit, Phases, Billings, Errors
<1> QED BY <1>1, <1>2, <1>3 DEF RelayTypeOK

\* The level CacheGetRandomSatisfiedChannel asks for.
HitLevel == IF i > start THEN 0 ELSE retry

\* A hit by its outcomes: what it leaves alone, the channel, what becomes of
\* the group index and the count, and where the caller goes on.
LEMMA HitFacts ==
  ASSUME RelayTypeOK, ScanHit
  PROVE  /\ phase = "scan" /\ i \in 1 .. Len(AutoGroups)
         /\ UNCHANGED <<listed, changes, bans, i, start, pinned, affinity,
                        skipAfterAffinity, billing>>
         /\ \E c \in GetRandomSatisfiedChannel(AutoGroups[i], HitLevel) :
              c \in Channels /\ chosen' = ContextOf(c, AutoGroups[i])
         /\ \/ /\ UNCHANGED <<retry, reset>>
               /\ index' = IF AutoToken THEN i ELSE index
            \/ /\ UNCHANGED <<retry, reset>> /\ byDistribute /\ AutoToken
               /\ index' = i + 1
            \/ /\ ~byDistribute /\ AutoToken /\ HitLevel >= RetryTimes
               /\ index' = i + 1 /\ retry' = 0 /\ reset' = TRUE
         /\ \/ byDistribute /\ phase' = "charge" /\ UNCHANGED <<priced, tried, err>>
            \/ /\ ~byDistribute /\ priced' = AutoGroups[i]
               /\ \/ /\ phase' = "call" /\ tried' = Append(tried, chosen')
                     /\ UNCHANGED err
                  \/ phase' = "finish" /\ err' = "channel" /\ UNCHANGED tried
<1> USE DEF param, search, choice
<1>1. phase = "scan" /\ i \in 1 .. Len(AutoGroups)
  BY GroupsTyped DEF ScanHit, RelayTypeOK
<1>2. UNCHANGED <<listed, changes, bans, i, start, pinned, affinity,
                  skipAfterAffinity, billing>>
  BY DEF ScanHit
<1>3. PICK c \in GetRandomSatisfiedChannel(AutoGroups[i], HitLevel) :
        /\ chosen' = ContextOf(c, AutoGroups[i])
        /\ IF ~AutoToken THEN UNCHANGED <<index, param>>
           ELSE IF byDistribute
           THEN /\ index' = IF CrossGroupRetry /\ HitLevel >= RetryTimes THEN i + 1 ELSE i
                /\ UNCHANGED param
           ELSE PrepareNext(HitLevel)
        /\ IF byDistribute
           THEN phase' = "charge" /\ UNCHANGED <<priced, tried, err>>
           ELSE /\ HandleGroupRatio(AutoGroups[i])
                /\ \/ /\ phase' = "call" /\ tried' = Append(tried, chosen')
                      /\ UNCHANGED err
                   \/ phase' = "finish" /\ err' = "channel" /\ UNCHANGED tried
  BY DEF ScanHit, HitLevel
<1>4. c \in Channels
  BY <1>3, PickedServes DEF InGroup, RelayTypeOK
<1>5. \/ /\ UNCHANGED <<retry, reset>>
         /\ index' = IF AutoToken THEN i ELSE index
      \/ /\ UNCHANGED <<retry, reset>> /\ byDistribute /\ AutoToken
         /\ index' = i + 1
      \/ /\ ~byDistribute /\ AutoToken /\ HitLevel >= RetryTimes
         /\ index' = i + 1 /\ retry' = 0 /\ reset' = TRUE
  BY <1>3 DEF PrepareNext
<1>6. \/ byDistribute /\ phase' = "charge" /\ UNCHANGED <<priced, tried, err>>
      \/ /\ ~byDistribute /\ priced' = AutoGroups[i]
         /\ \/ /\ phase' = "call" /\ tried' = Append(tried, chosen')
               /\ UNCHANGED err
            \/ phase' = "finish" /\ err' = "channel" /\ UNCHANGED tried
  BY <1>3 DEF HandleGroupRatio
<1> QED BY <1>1, <1>2, <1>3, <1>4, <1>5, <1>6

LEMMA TypeNext ==
  ASSUME RelayTypeOK, [RetryNext]_retryVars
  PROVE  RelayTypeOK'
<1> USE DEF param, search, choice
<1>0. retry \in Nat /\ retry + 1 \in Nat
  BY DEF RelayTypeOK
<1>1. CASE DisableChannel
  <2>1. bans' \subseteq bans /\ listed' \subseteq listed
    BY <1>1 DEF DisableChannel
  <2>2. bans' \in SUBSET (Channels \cup {None}) /\ listed' \in SUBSET Channels
    BY <2>1 DEF RelayTypeOK
  <2>3. UNCHANGED <<changes, phase, retry, reset, index, i, start, chosen, priced,
                    pinned, affinity, skipAfterAffinity, tried, err, billing>>
    BY <1>1 DEF DisableChannel
  <2> QED BY <2>2, <2>3 DEF RelayTypeOK
<1>2. CASE CacheChanges
  <2>1. PICK c \in Channels :
          listed' = IF c \in listed THEN listed \ {c} ELSE listed \cup {c}
    BY <1>2 DEF CacheChanges
  <2>2. listed' \in SUBSET Channels
    BY <2>1 DEF RelayTypeOK
  <2>3. changes' \in Nat
    BY <1>2 DEF CacheChanges, RelayTypeOK
  <2>4. UNCHANGED <<bans, phase, retry, reset, index, i, start, chosen, priced,
                    pinned, affinity, skipAfterAffinity, tried, err, billing>>
    BY <1>2 DEF CacheChanges
  <2> QED BY <2>2, <2>3, <2>4 DEF RelayTypeOK
<1>3. CASE ScanMiss
  <2>1. err' \in Errors \cup {None} /\ phase' \in Phases
    BY <1>3 DEF ScanMiss, NoChannel, RelayTypeOK, Errors, Phases
  <2>2. /\ index' = index \/ index' = i + 1
        /\ i' = i \/ i' = i + 1
        /\ retry' = retry \/ retry' = 0
    BY <1>3 DEF ScanMiss
  <2>3. index' \in Nat \ {0} /\ i' \in Nat \ {0} /\ retry' \in Nat
    BY <2>2 DEF RelayTypeOK
  <2> QED BY <1>3, <2>1, <2>3 DEF ScanMiss, RelayTypeOK
<1>4. CASE ScanEnd
  <2>1. err' \in Errors \cup {None} /\ phase' \in Phases
    BY <1>4 DEF ScanEnd, NoChannel, Errors, Phases
  <2> QED BY <1>4, <2>1 DEF ScanEnd, RelayTypeOK
<1>5. CASE ScanHit
  <2>1. /\ UNCHANGED <<listed, changes, bans, i, start, pinned, affinity,
                       skipAfterAffinity, billing>>
        /\ i \in 1 .. Len(AutoGroups)
    BY <1>5, HitFacts
  <2>2. chosen' \in Contexts
    BY <1>5, <2>1, HitFacts, ContextTyped, GroupsTyped
  <2>3. retry' \in Nat /\ index' \in Nat \ {0}
    <3>1. /\ retry' = retry \/ retry' = 0
          /\ index' = index \/ index' = i \/ index' = i + 1
      BY <1>5, HitFacts
    <3> QED BY <3>1 DEF RelayTypeOK
  <2>4. reset' \in BOOLEAN
    BY <1>5, HitFacts DEF RelayTypeOK
  <2>5. /\ phase' \in Phases /\ priced' \in Groups \cup {None}
        /\ err' \in Errors \cup {None}
    BY <1>5, <2>1, HitFacts, GroupsTyped DEF RelayTypeOK, Errors, Phases
  <2>6. tried' \in Seq(Contexts)
    <3>1. tried' = tried \/ tried' = Append(tried, chosen')
      BY <1>5, HitFacts
    <3>2. tried \in Seq(Contexts)
      BY DEF RelayTypeOK
    <3>3. Append(tried, chosen') \in Seq(Contexts)
      BY <2>2, <3>2
    <3> QED BY <3>1, <3>2, <3>3
  <2> QED BY <2>1, <2>2, <2>3, <2>4, <2>5, <2>6 DEF RelayTypeOK
<1>6. CASE DistributeRefuses
  BY <1>6 DEF DistributeRefuses, RelayTypeOK, Errors, Phases
<1>7. CASE DistributePinned \/ DistributeAffinity
  <2>1. chosen' \in Contexts
    <3>1. CASE DistributePinned
      <4>1. (IF AutoToken THEN None ELSE AutoGroups[1]) \in Groups \cup {None}
        BY GroupsTyped
      <4> QED BY <3>1, <4>1, ContextTyped DEF DistributePinned
    <3>2. CASE DistributeAffinity
      <4>1. PICK c \in listed, k \in DOMAIN AutoGroups : chosen' = ContextOf(c, AutoGroups[k])
        BY <3>2 DEF DistributeAffinity
      <4>2. c \in Channels /\ AutoGroups[k] \in Groups
        BY <4>1, GroupsTyped DEF RelayTypeOK
      <4> QED BY <4>1, <4>2, ContextTyped
    <3> QED BY <1>7, <3>1, <3>2
  <2>2. pinned' \in BOOLEAN /\ affinity' \in BOOLEAN /\ skipAfterAffinity' \in BOOLEAN
    BY <1>7 DEF DistributePinned, DistributeAffinity, RelayTypeOK
  <2>3. phase' \in Phases
        /\ UNCHANGED <<index, i, start, listed, changes, bans, retry, reset, priced,
                       tried, err, billing>>
    BY <1>7 DEF DistributePinned, DistributeAffinity, untouchedByDistribute, Phases
  <2> QED BY <2>1, <2>2, <2>3 DEF RelayTypeOK
<1>8. CASE DistributeSelect
  <2>1. skipAfterAffinity' \in BOOLEAN
    BY <1>8 DEF DistributeSelect
  <2>2. /\ phase' = "scan" /\ start' = index /\ i' = index /\ index' = index
        /\ UNCHANGED <<chosen, pinned, affinity, listed, changes, bans, retry, reset,
                       priced, tried, err, billing>>
    BY <1>8 DEF DistributeSelect, BeginScan, untouchedByDistribute
  <2> QED BY <2>1, <2>2 DEF RelayTypeOK, Phases
<1>9. CASE PreConsume
  <2>1. priced' \in Groups \cup {None}
    BY <1>9 DEF PreConsume, HandleGroupRatio, RelayTypeOK, Contexts
  <2>2. billing' \in Billings /\ phase' \in Phases /\ err' \in Errors \cup {None}
    BY <1>9 DEF PreConsume, RelayTypeOK, Billings, Phases, Errors
  <2> QED BY <1>9, <2>1, <2>2 DEF PreConsume, untouchedByRelay, RelayTypeOK
<1>10. CASE LoopTop
  <2>1. tried' \in Seq(Contexts)
    <3>1. tried' = tried \/ tried' = Append(tried, chosen)
      BY <1>10 DEF LoopTop
    <3>2. tried \in Seq(Contexts) /\ chosen \in Contexts
      BY DEF RelayTypeOK
    <3>3. Append(tried, chosen) \in Seq(Contexts)
      BY <3>2
    <3> QED BY <3>1, <3>2, <3>3
  <2>2. /\ phase' \in Phases
        /\ index' = index /\ (i' = i \/ i' = index) /\ (start' = start \/ start' = index)
    BY <1>10 DEF LoopTop, BeginScan, Phases
  <2>3. UNCHANGED <<listed, changes, pinned, affinity, skipAfterAffinity, bans, retry,
                    reset, chosen, priced, err, billing>>
    BY <1>10 DEF LoopTop
  <2> QED BY <2>1, <2>2, <2>3 DEF RelayTypeOK
<1>11. CASE Succeed
  BY <1>11 DEF Succeed, untouchedByRelay, RelayTypeOK, Phases, Billings
<1>12. CASE Finish
  BY <1>12 DEF Finish, untouchedByRelay, RelayTypeOK, Phases, Billings
<1>13. ASSUME NEW e \in Errors \ {"no channel"}, Fail(e) PROVE RelayTypeOK'
  <2>1. bans' \in SUBSET (Channels \cup {None})
    <3>1. chosen.channel \in Channels \cup {None}
      BY DEF RelayTypeOK, Contexts
    <3>2. bans' = bans \/ bans' = bans \cup {chosen.channel}
      BY <1>13 DEF Fail
    <3> QED BY <3>1, <3>2 DEF RelayTypeOK
  <2>2. retry' \in Nat /\ phase' \in Phases
    <3>1. /\ phase' \in {"loop", "finish"}
          /\ retry' = retry \/ retry' = retry + 1
      BY <1>13 DEF Fail, IncreaseRetry
    <3>4. retry' \in Nat
      BY <3>1, <1>0
    <3> QED BY <3>1, <3>4 DEF Phases
  <2>3. reset' \in BOOLEAN
    BY <1>13 DEF Fail, IncreaseRetry, RelayTypeOK
  <2>4. /\ err' = e
        /\ UNCHANGED <<listed, changes, index, i, start, pinned, affinity,
                       skipAfterAffinity, chosen, priced, tried, billing>>
    BY <1>13 DEF Fail, untouchedByRelay
  <2> QED BY <1>13, <2>1, <2>2, <2>3, <2>4 DEF RelayTypeOK
<1>14. CASE UNCHANGED retryVars
  BY <1>14 DEF retryVars, RelayTypeOK
<1> QED
  BY <1>1, <1>2, <1>3, <1>4, <1>5, <1>6, <1>7, <1>8, <1>9, <1>10, <1>11, <1>12,
     <1>13, <1>14 DEF RetryNext, RelayStep

-----------------------------------------------------------------------------
(* The charge                                                              *)

\* Every step keeps what each phase may hold, and ends the request only when
\* it is accounted for.
LEMMA AccountNext ==
  ASSUME RelayTypeOK, SearchInv, AccountInv, [RetryNext]_retryVars
  PROVE  AccountInv'
<1> USE DEF param, search, choice
<1>0. RetryTimes \in Nat /\ None \notin {"free", "held", "settled", "refunded"}
      /\ retry \in Nat
  BY RetryAssumption DEF None, RelayTypeOK
<1>1. ASSUME UNCHANGED <<phase, billing, tried, err, retry, priced, chosen>>
      PROVE  AccountInv'
  BY <1>1 DEF AccountInv, EndsAccounted
<1>2. CASE DisableChannel
  BY <1>1, <1>2 DEF DisableChannel
<1>3. CASE CacheChanges
  BY <1>1, <1>3 DEF CacheChanges
<1>4. CASE ScanMiss
  <2>1. CASE AutoToken
    <3>1. UNCHANGED <<phase, billing, tried, err, priced, chosen>> /\ phase = "scan"
      BY <1>4, <2>1 DEF ScanMiss
    <3> QED BY <3>1 DEF AccountInv, EndsAccounted
  <2>2. CASE ~AutoToken
    <3>1. NoChannel /\ phase = "scan" /\ UNCHANGED <<billing, tried>>
      BY <1>4, <2>2 DEF ScanMiss
    <3> QED BY <1>0, <3>1 DEF NoChannel, byDistribute, AccountInv, EndsAccounted, None
  <2> QED BY <2>1, <2>2
<1>5. CASE ScanEnd
  BY <1>0, <1>5 DEF ScanEnd, NoChannel, byDistribute, AccountInv, EndsAccounted, None
<1>6. CASE ScanHit
  <2>1. phase = "scan" /\ UNCHANGED billing /\ i \in 1 .. Len(AutoGroups)
    BY <1>6, HitFacts
  <2>2. CASE byDistribute
    <3>1. phase' = "charge" /\ UNCHANGED tried
      BY <1>6, <2>2, HitFacts
    <3> QED BY <1>0, <2>1, <2>2, <3>1 DEF byDistribute, AccountInv, EndsAccounted
  <2>3. CASE ~byDistribute
    <3>1. billing \in {"free", "held"} /\ tried # <<>>
      BY <2>1, <2>3 DEF AccountInv, byDistribute
    <3>2. priced' = AutoGroups[i] /\ chosen'.group = AutoGroups[i] /\ chosen' \in Contexts
      BY <1>6, <2>1, <2>3, HitFacts, GroupsTyped, ContextTyped
    <3>3. CASE phase' = "call" /\ tried' = Append(tried, chosen')
      <4>1. tried' # <<>> /\ tried'[Len(tried')] = chosen'
        BY <3>2, <3>3 DEF RelayTypeOK
      <4> QED BY <2>1, <3>1, <3>2, <3>3, <4>1 DEF AccountInv, EndsAccounted
    <3>4. CASE phase' = "finish" /\ err' = "channel"
      BY <2>1, <3>1, <3>4 DEF AccountInv, EndsAccounted, None
    <3> QED BY <1>6, <2>3, <3>3, <3>4, HitFacts
  <2> QED BY <2>2, <2>3
<1>7. CASE DistributeRefuses
  BY <1>7 DEF DistributeRefuses, AccountInv, EndsAccounted, None
<1>8. CASE DistributePinned \/ DistributeAffinity
  BY <1>8 DEF DistributePinned, DistributeAffinity, untouchedByDistribute, AccountInv,
              EndsAccounted
<1>9. CASE DistributeSelect
  BY <1>9 DEF DistributeSelect, BeginScan, untouchedByDistribute, AccountInv, EndsAccounted
<1>10. CASE PreConsume
  <2>1. billing = None /\ tried = <<>> /\ retry = 0
    BY <1>10 DEF PreConsume, AccountInv, SearchInv
  <2>2. /\ priced' = chosen.group /\ UNCHANGED <<retry, chosen, tried>>
        /\ \/ billing' \in {"free", "held"} /\ phase' = "loop" /\ UNCHANGED err
           \/ err' = "final" /\ phase' = "done" /\ UNCHANGED billing
    BY <1>10 DEF PreConsume, HandleGroupRatio
  <2> QED BY <2>1, <2>2 DEF AccountInv, EndsAccounted, None
<1>11. CASE LoopTop
  <2>1. /\ billing \in {"free", "held"}
        /\ tried = <<>> => retry = 0 /\ priced = chosen.group
        /\ tried # <<>> => err # None
    BY <1>11 DEF LoopTop, AccountInv
  <2>2. UNCHANGED <<billing, err, priced, chosen, retry>>
    BY <1>11 DEF LoopTop
  <2>3. CASE retry <= RetryTimes /\ tried = <<>>
    <3>1. phase' = "call" /\ tried' = Append(tried, chosen)
      BY <1>0, <1>11, <2>3 DEF LoopTop
    <3>2. tried' # <<>> /\ tried'[Len(tried')] = chosen
      BY <2>3, <3>1 DEF RelayTypeOK
    <3> QED BY <2>1, <2>2, <2>3, <3>1, <3>2 DEF AccountInv, EndsAccounted
  <2>4. CASE retry <= RetryTimes /\ tried # <<>>
    <3>1. phase' = "scan" /\ tried' = tried
      BY <1>0, <1>11, <2>4 DEF LoopTop, BeginScan
    <3> QED BY <2>1, <2>2, <2>4, <3>1 DEF AccountInv, EndsAccounted
  <2>5. CASE ~(retry <= RetryTimes)
    <3>1. phase' = "finish" /\ tried # <<>>
      BY <1>0, <1>11, <2>1, <2>5 DEF LoopTop
    <3> QED BY <2>1, <2>2, <3>1 DEF AccountInv, EndsAccounted
  <2> QED BY <2>3, <2>4, <2>5
<1>12. CASE Succeed
  <2>1. /\ billing \in {"free", "held"} /\ tried # <<>> /\ priced = tried[Len(tried)].group
        /\ phase' = "done" /\ err' = None /\ UNCHANGED <<priced, tried>>
        /\ billing' = IF billing = "held" THEN "settled" ELSE billing
    BY <1>12 DEF Succeed, AccountInv
  <2> QED BY <2>1 DEF AccountInv, EndsAccounted
<1>13. CASE Finish
  <2>1. /\ billing \in {"free", "held"} /\ err # None
        /\ phase' = "done" /\ err' = err
        /\ billing' = IF billing = "held" THEN "refunded" ELSE billing
    BY <1>13 DEF Finish, AccountInv
  <2> QED BY <2>1 DEF AccountInv, EndsAccounted
<1>14. ASSUME NEW e \in Errors \ {"no channel"}, Fail(e) PROVE AccountInv'
  <2>1. /\ billing \in {"free", "held"} /\ tried # <<>>
        /\ phase' \in {"loop", "finish"} /\ err' = e /\ UNCHANGED <<billing, tried>>
    BY <1>14 DEF Fail, AccountInv
  <2>2. e # None
    BY DEF Errors, None
  <2> QED BY <2>1, <2>2 DEF AccountInv, EndsAccounted
<1>15. CASE UNCHANGED retryVars
  BY <1>1, <1>15 DEF retryVars
<1> QED
  BY <1>2, <1>3, <1>4, <1>5, <1>6, <1>7, <1>8, <1>9, <1>10, <1>11, <1>12, <1>13,
     <1>14, <1>15 DEF RetryNext, RelayStep

-----------------------------------------------------------------------------
(* The number of attempts                                                  *)

\* What the groups before one allow, from group to group.
LEMMA BeforeGrows ==
  ASSUME NEW k \in Nat \ {0}
  PROVE  /\ Before(k) \in Nat /\ Before(k + 1) = Before(k) + RetryTimes + 1
         /\ \A n \in Nat : k <= n => Before(k) + RetryTimes + 1 <= (RetryTimes + 1) * n
<1>1. RetryTimes \in Nat
  BY RetryAssumption
<1>2. Before(k) \in Nat
  BY <1>1 DEF Before
<1>3. Before(k + 1) = Before(k) + RetryTimes + 1
  BY <1>1 DEF Before
<1>4. ASSUME NEW n \in Nat, k <= n
      PROVE  Before(k) + RetryTimes + 1 <= (RetryTimes + 1) * n
  <2>1. Before(k) + RetryTimes + 1 = k * (RetryTimes + 1)
    BY <1>1 DEF Before
  <2>2. k * (RetryTimes + 1) <= n * (RetryTimes + 1)
    BY <1>1, <1>4
  <2>3. n * (RetryTimes + 1) = (RetryTimes + 1) * n
    BY <1>1
  <2> QED BY <2>1, <2>2, <2>3
<1> QED BY <1>2, <1>3, <1>4

\* A request begins before all groups.
LEMMA BeforeFirst == Before(1) = 0 /\ (RetryTimes + 1) * Len(AutoGroups) >= 1
<1>1. RetryTimes \in Nat /\ Len(AutoGroups) \in Nat /\ Len(AutoGroups) >= 1
  BY RetryAssumption, GroupsTyped
<1>2. Before(1) = 0
  BY <1>1 DEF Before
<1>3. Before(1) + RetryTimes + 1 <= (RetryTimes + 1) * Len(AutoGroups)
  <2>1. 1 \in Nat \ {0} /\ 1 <= Len(AutoGroups)
    BY <1>1
  <2> QED BY <1>1, <2>1, BeforeGrows
<1>4. (RetryTimes + 1) * Len(AutoGroups) \in Nat
  BY <1>1
<1> QED BY <1>1, <1>2, <1>3, <1>4

\* Every step keeps the scan within the groups, and a pending reset means the
\* count is at its start.
LEMMA SearchNext ==
  ASSUME RelayTypeOK, AccountInv, SearchInv, [RetryNext]_retryVars
  PROVE  SearchInv'
<1> USE DEF param, search, choice
<1>0. /\ RetryTimes \in Nat /\ retry \in Nat /\ index \in Nat \ {0} /\ i \in Nat \ {0}
      /\ start \in Nat \ {0} /\ Len(AutoGroups) \in Nat /\ reset \in BOOLEAN
      /\ index <= Len(AutoGroups) + 1 /\ (~AutoToken => index = 1)
  BY RetryAssumption, GroupsTyped DEF RelayTypeOK, SearchInv
<1>1. ASSUME UNCHANGED <<phase, billing, retry, reset, index, i, start>>
      PROVE  SearchInv'
  BY <1>1 DEF SearchInv
<1>2. ASSUME phase' \in {"finish", "done"}, index' = index
      PROVE  SearchInv'
  BY <1>0, <1>2 DEF SearchInv
<1>3. CASE DisableChannel \/ CacheChanges \/ UNCHANGED retryVars
  BY <1>1, <1>3 DEF DisableChannel, CacheChanges, retryVars
<1>4. CASE ScanMiss
  <2>1. CASE AutoToken
    <3>1. /\ phase = "scan" /\ phase' = "scan" /\ index' = i + 1 /\ i' = i + 1
          /\ retry' = 0 /\ UNCHANGED <<reset, start, billing>> /\ i <= Len(AutoGroups)
      BY <1>4, <2>1 DEF ScanMiss
    <3>2. ~reset /\ start <= i
      BY <3>1 DEF SearchInv
    <3>3. /\ index' <= Len(AutoGroups) + 1 /\ start' <= i' /\ retry' <= RetryTimes
          /\ retry' = 0 /\ i' = index' /\ ~reset'
      BY <1>0, <3>1, <3>2
    <3> QED BY <2>1, <3>1, <3>3 DEF SearchInv
  <2>2. CASE ~AutoToken
    <3>1. phase' \in {"finish", "done"} /\ index' = index
      BY <1>4, <2>2 DEF ScanMiss, NoChannel
    <3> QED BY <1>2, <3>1
  <2> QED BY <2>1, <2>2
<1>5. CASE ScanEnd
  BY <1>2, <1>5 DEF ScanEnd, NoChannel
<1>6. CASE ScanHit
  <2>1. /\ phase = "scan" /\ i \in 1 .. Len(AutoGroups) /\ i = index /\ ~reset
        /\ billing = None => retry = 0
    BY <1>6, HitFacts DEF SearchInv
  <2>2. index' <= Len(AutoGroups) + 1 /\ (~AutoToken => index' = 1)
    <3>1. index' = index \/ (AutoToken /\ (index' = i \/ index' = i + 1))
      BY <1>6, HitFacts
    <3> QED BY <1>0, <2>1, <3>1
  <2>3. \/ phase' = "charge" /\ byDistribute
        \/ phase' \in {"call", "finish"} /\ ~byDistribute
    BY <1>6, HitFacts
  <2>4. \/ UNCHANGED <<retry, reset>>
        \/ ~byDistribute /\ retry' = 0
    BY <1>6, HitFacts
  <2>5. phase' = "charge" => retry' = 0 /\ ~reset'
    BY <2>1, <2>3, <2>4 DEF byDistribute
  <2>6. phase' = "call" /\ reset' => retry' = 0
    BY <2>1, <2>4
  <2> QED BY <2>2, <2>3, <2>5, <2>6 DEF SearchInv
<1>7. CASE DistributeRefuses
  BY <1>2, <1>7 DEF DistributeRefuses
<1>8. CASE DistributePinned \/ DistributeAffinity
  BY <1>8 DEF DistributePinned, DistributeAffinity, untouchedByDistribute, SearchInv
<1>9. CASE DistributeSelect
  <2>1. /\ phase = "distribute" /\ phase' = "scan" /\ start' = index /\ i' = index
        /\ UNCHANGED <<index, retry, reset>>
    BY <1>9 DEF DistributeSelect, BeginScan, untouchedByDistribute
  <2>2. retry = 0 /\ ~reset
    BY <2>1 DEF SearchInv
  <2>3. start' <= i' /\ retry' <= RetryTimes
    BY <1>0, <2>1, <2>2
  <2> QED BY <1>0, <2>1, <2>2, <2>3 DEF SearchInv
<1>10. CASE PreConsume
  BY <1>10 DEF PreConsume, untouchedByRelay, SearchInv
<1>11. CASE LoopTop
  <2>1. /\ phase = "loop" /\ UNCHANGED <<index, retry, reset, billing>>
        /\ \/ phase' \in {"call", "finish"}
           \/ phase' = "scan" /\ start' = index /\ i' = index /\ retry <= RetryTimes
    BY <1>11 DEF LoopTop, BeginScan
  <2>2. ~reset /\ billing # None
    BY <2>1 DEF SearchInv, AccountInv, None
  <2>3. index <= index
    BY <1>0
  <2> QED BY <1>0, <2>1, <2>2, <2>3 DEF SearchInv
<1>12. CASE Succeed \/ Finish
  BY <1>2, <1>12 DEF Succeed, Finish, untouchedByRelay
<1>13. CASE \E e \in Errors \ {"no channel"} : Fail(e)
  <2>1. /\ phase = "call" /\ UNCHANGED index
        /\ phase' = "finish" \/ (phase' = "loop" /\ ~reset')
    BY <1>13 DEF Fail, IncreaseRetry, untouchedByRelay
  <2> QED BY <1>0, <2>1 DEF SearchInv
<1> QED
  BY <1>3, <1>4, <1>5, <1>6, <1>7, <1>8, <1>9, <1>10, <1>11, <1>12, <1>13
  DEF RetryNext, RelayStep

\* Every step keeps the attempts within what the groups so far and the count
\* of retries allow.
LEMMA BudgetNext ==
  ASSUME RelayTypeOK, AccountInv, SearchInv, BudgetInv, [RetryNext]_retryVars
  PROVE  BudgetInv'
<1> USE DEF param, search, choice
<1> DEFINE T == Len(tried)
           M == (RetryTimes + 1) * Len(AutoGroups)
<1>0. /\ RetryTimes \in Nat /\ retry \in Nat /\ index \in Nat \ {0} /\ i \in Nat \ {0}
      /\ Len(AutoGroups) \in Nat /\ T \in Nat /\ T <= M /\ M \in Nat /\ M >= 1
  <2>1. /\ RetryTimes \in Nat /\ retry \in Nat /\ index \in Nat \ {0} /\ i \in Nat \ {0}
        /\ Len(AutoGroups) \in Nat /\ tried \in Seq(Contexts)
    BY RetryAssumption, GroupsTyped DEF RelayTypeOK
  <2>2. T <= M /\ M >= 1
    BY BeforeFirst DEF BudgetInv, AttemptsBounded
  <2> QED BY <2>1, <2>2
<1>01. /\ Before(index) \in Nat /\ Before(index + 1) = Before(index) + RetryTimes + 1
       /\ index <= Len(AutoGroups) => Before(index) + RetryTimes + 1 <= M
  BY <1>0, BeforeGrows
<1> HIDE DEF M
<1>1. ASSUME UNCHANGED <<phase, tried, retry, reset, index>> PROVE BudgetInv'
  BY <1>1 DEF BudgetInv, AttemptsBounded
<1>2. ASSUME phase' \notin {"scan", "loop", "call"}, UNCHANGED tried PROVE BudgetInv'
  BY <1>0, <1>2 DEF BudgetInv, AttemptsBounded, M
<1>3. CASE DisableChannel \/ CacheChanges \/ UNCHANGED retryVars
  BY <1>1, <1>3 DEF DisableChannel, CacheChanges, retryVars
<1>4. CASE ScanMiss
  <2>1. CASE AutoToken
    <3>1. /\ phase = "scan" /\ phase' = "scan" /\ index' = i + 1 /\ retry' = 0
          /\ UNCHANGED tried
      BY <1>4, <2>1 DEF ScanMiss
    <3>2. i = index /\ retry <= RetryTimes /\ T <= Before(index) + retry
      BY <3>1 DEF SearchInv, BudgetInv
    <3>3. T <= Before(index + 1) + 0
      BY <1>0, <1>01, <3>2
    <3> QED BY <1>0, <3>1, <3>2, <3>3 DEF BudgetInv, AttemptsBounded, M
  <2>2. CASE ~AutoToken
    BY <1>2, <1>4, <2>2 DEF ScanMiss, NoChannel
  <2> QED BY <2>1, <2>2
<1>5. CASE ScanEnd
  BY <1>2, <1>5 DEF ScanEnd, NoChannel
<1>6. CASE ScanHit
  <2>1. /\ phase = "scan" /\ i \in 1 .. Len(AutoGroups) /\ i = index /\ ~reset
        /\ retry <= RetryTimes /\ T <= Before(index) + retry
        /\ i > start => retry = 0
    BY <1>6, HitFacts DEF SearchInv, BudgetInv
  <2>2. CASE phase' # "call"
    BY <1>2, <1>6, <2>2, HitFacts
  <2>3. CASE phase' = "call"
    <3>1. /\ tried' = Append(tried, chosen') /\ ~byDistribute
          /\ \/ UNCHANGED <<retry, reset>> /\ index' = index
             \/ HitLevel >= RetryTimes /\ index' = index + 1 /\ retry' = 0 /\ reset' = TRUE
      BY <1>6, <2>1, <2>3, HitFacts
    <3>2. Len(tried') = T + 1
      BY <3>1 DEF RelayTypeOK
    <3>3. T + 1 <= M
      BY <1>0, <1>01, <2>1
    <3>4. CASE UNCHANGED <<retry, reset>> /\ index' = index
      <4>1. T + 1 <= Before(index) + retry + 1
        BY <1>0, <1>01, <2>1
      <4> QED BY <2>1, <2>3, <3>2, <3>3, <3>4, <4>1 DEF BudgetInv, AttemptsBounded, M
    <3>5. CASE HitLevel >= RetryTimes /\ index' = index + 1 /\ retry' = 0 /\ reset' = TRUE
      <4>1. T + 1 <= Before(index + 1) + 0 + 0
        BY <1>0, <1>01, <2>1
      <4> QED BY <2>3, <3>2, <3>3, <3>5, <4>1 DEF BudgetInv, AttemptsBounded, M
    <3> QED BY <3>1, <3>4, <3>5
  <2> QED BY <2>2, <2>3
<1>7. CASE DistributeRefuses \/ DistributePinned \/ DistributeAffinity
  BY <1>2, <1>7
  DEF DistributeRefuses, DistributePinned, DistributeAffinity, untouchedByDistribute
<1>8. CASE DistributeSelect
  <2>1. /\ phase = "distribute" /\ phase' = "scan" /\ UNCHANGED <<tried, index, retry>>
    BY <1>8 DEF DistributeSelect, BeginScan, untouchedByDistribute
  <2>2. tried = <<>> /\ T = 0
    BY <2>1 DEF AccountInv
  <2>3. T <= Before(index) + retry
    BY <1>0, <1>01, <2>2
  <2> QED BY <1>0, <2>1, <2>3 DEF BudgetInv, AttemptsBounded, M
<1>9. CASE PreConsume
  <2>1. /\ phase = "charge" /\ phase' \in {"loop", "done"}
        /\ UNCHANGED <<tried, index, retry>>
    BY <1>9 DEF PreConsume, untouchedByRelay
  <2>2. tried = <<>> /\ T = 0
    BY <2>1 DEF AccountInv
  <2>3. T <= Before(index) + retry
    BY <1>0, <1>01, <2>2
  <2> QED BY <1>0, <2>1, <2>3 DEF BudgetInv, AttemptsBounded, M
<1>10. CASE LoopTop
  <2>1. phase = "loop" /\ T <= Before(index) + retry /\ ~reset
        /\ UNCHANGED <<index, retry, reset>>
    BY <1>10 DEF LoopTop, BeginScan, BudgetInv, SearchInv
  <2>2. CASE phase' = "call" /\ tried' = Append(tried, chosen) /\ tried = <<>>
    <3>1. T = 0 /\ Len(tried') = 1
      BY <2>2 DEF RelayTypeOK
    <3>2. 1 <= Before(index) + retry + 1 /\ 1 <= M
      BY <1>0, <1>01
    <3> QED BY <2>1, <2>2, <3>1, <3>2 DEF BudgetInv, AttemptsBounded, M
  <2>3. CASE phase' \in {"scan", "finish"} /\ tried' = tried
    BY <1>0, <2>1, <2>3 DEF BudgetInv, AttemptsBounded, M
  <2> QED BY <1>10, <2>2, <2>3 DEF LoopTop, BeginScan
<1>11. CASE Succeed \/ Finish
  BY <1>2, <1>11 DEF Succeed, Finish
<1>12. CASE \E e \in Errors \ {"no channel"} : Fail(e)
  <2>1. /\ phase = "call" /\ UNCHANGED <<tried, index>>
        /\ \/ phase' = "finish"
           \/ /\ phase' = "loop"
              /\ retry' = IF reset THEN retry ELSE retry + 1
    BY <1>12 DEF Fail, IncreaseRetry, untouchedByRelay
  <2>2. T <= Before(index) + retry + (IF reset THEN 0 ELSE 1)
    BY <2>1 DEF BudgetInv
  <2>3. T <= Before(index) + (IF reset THEN retry ELSE retry + 1)
    BY <1>0, <1>01, <2>2
  <2> QED BY <1>0, <2>1, <2>3 DEF BudgetInv, AttemptsBounded, M
<1> QED
  BY <1>3, <1>4, <1>5, <1>6, <1>7, <1>8, <1>9, <1>10, <1>11, <1>12
  DEF RetryNext, RelayStep

-----------------------------------------------------------------------------
(* Levels of priority                                                      *)

Above(P, p) == {q \in P : q > p}

\* How many priorities lie above each is a number below their count, and
\* fewer for the higher ones.
LEMMA AboveCount ==
  ASSUME NEW P \in SUBSET Nat, IsFiniteSet(P), NEW p \in P
  PROVE  /\ Cardinality(P) \in Nat
         /\ IsFiniteSet(Above(P, p)) /\ Cardinality(Above(P, p)) \in 0 .. Cardinality(P) - 1
         /\ Cardinality(Above(P, p)) = Cardinality(P) - 1 => \A q \in P : p <= q
<1>1. IsFiniteSet(P \ {p}) /\ Cardinality(P \ {p}) = Cardinality(P) - 1
  BY FS_RemoveElement
<1>2. Above(P, p) \in SUBSET (P \ {p})
  BY DEF Above
<1>3. /\ IsFiniteSet(Above(P, p)) /\ Cardinality(Above(P, p)) <= Cardinality(P \ {p})
      /\ Cardinality(P \ {p}) = Cardinality(Above(P, p)) => P \ {p} = Above(P, p)
  BY <1>1, <1>2, FS_Subset
<1>4. Cardinality(P) \in Nat /\ Cardinality(Above(P, p)) \in Nat
  BY <1>3, FS_CardinalityType
<1>5. Cardinality(Above(P, p)) \in 0 .. Cardinality(P) - 1
  BY <1>1, <1>3, <1>4
<1>6. ASSUME Cardinality(Above(P, p)) = Cardinality(P) - 1, NEW q \in P PROVE p <= q
  <2>1. P \ {p} = Above(P, p)
    BY <1>1, <1>3, <1>6
  <2>2. q = p \/ q \in Above(P, p)
    BY <2>1
  <2> QED BY <2>2 DEF Above
<1> QED BY <1>3, <1>4, <1>5, <1>6

\* Of two priorities the lower has more above it.
LEMMA AboveOrder ==
  ASSUME NEW P \in SUBSET Nat, IsFiniteSet(P), NEW p \in P, NEW q \in P, p < q
  PROVE  Cardinality(Above(P, q)) + 1 <= Cardinality(Above(P, p))
<1>1. /\ IsFiniteSet(Above(P, q)) /\ Cardinality(Above(P, q)) \in Nat
      /\ IsFiniteSet(Above(P, p)) /\ Cardinality(Above(P, p)) \in Nat
  BY AboveCount
<1>2. q \notin Above(P, q) /\ Above(P, q) \cup {q} \in SUBSET Above(P, p)
  <2>1. ASSUME NEW r \in P, r > q PROVE r > p
    <3>1. r \in Nat /\ q \in Nat /\ p \in Nat
      OBVIOUS
    <3> QED BY <2>1, <3>1
  <2>2. q \in Nat /\ ~(q > q)
    OBVIOUS
  <2>3. q > p
    OBVIOUS
  <2> QED BY <2>1, <2>2, <2>3 DEF Above
<1>3. Cardinality(Above(P, q) \cup {q}) = Cardinality(Above(P, q)) + 1
  BY <1>1, <1>2, FS_AddElement
<1>4. Cardinality(Above(P, q) \cup {q}) <= Cardinality(Above(P, p))
  BY <1>1, <1>2, FS_Subset
<1> QED BY <1>1, <1>3, <1>4

\* Every number of priorities below the count lies above some priority.
LEMMA RankTaken ==
  ASSUME NEW P \in SUBSET Nat, IsFiniteSet(P), NEW m \in 0 .. Cardinality(P) - 1
  PROVE  \E p \in P : Cardinality(Above(P, p)) = m
<1> DEFINE R == 0 .. Cardinality(P) - 1
           f == [p \in P |-> Cardinality(Above(P, p))]
<1>1. Cardinality(P) \in Nat
  BY FS_CardinalityType
<1>2. IsFiniteSet(R) /\ Cardinality(R) = Cardinality(P)
  <2>1. 0 \in Int /\ Cardinality(P) - 1 \in Int
    BY <1>1
  <2>2. /\ IsFiniteSet(R)
        /\ Cardinality(R) = IF 0 > Cardinality(P) - 1 THEN 0 ELSE Cardinality(P) - 1 - 0 + 1
    BY <2>1, FS_Interval
  <2> QED BY <1>1, <2>2
<1>3. f \in [P -> R]
  BY AboveCount
<1>4. ASSUME NEW p \in P, NEW q \in P, f[p] = f[q] PROVE p = q
  <2>1. /\ Cardinality(Above(P, p)) = Cardinality(Above(P, q))
        /\ Cardinality(Above(P, p)) \in Nat
    BY <1>4, AboveCount
  <2>2. ~(p < q) /\ ~(q < p)
    BY <2>1, AboveOrder
  <2>3. p \in Nat /\ q \in Nat
    OBVIOUS
  <2> QED BY <2>2, <2>3
<1>5. f \in Injection(P, R)
  BY <1>3, <1>4 DEF Injection, IsInjective
<1>6. f \in Surjection(P, R)
  BY <1>2, <1>5, FS_Injection
<1> QED BY <1>6 DEF Surjection

\* What the CHOOSE of Level finds.
LEMMA LevelFound ==
  ASSUME NEW P \in SUBSET Nat, IsFiniteSet(P), P # {}, NEW n \in Nat
  PROVE  /\ Level(P, n) \in P
         /\ Cardinality(Above(P, Level(P, n))) =
              IF n >= Cardinality(P) THEN Cardinality(P) - 1 ELSE n
<1> DEFINE m == IF n >= Cardinality(P) THEN Cardinality(P) - 1 ELSE n
<1>1. Cardinality(P) \in Nat /\ Cardinality(P) # 0
  BY FS_CardinalityType, FS_EmptySet
<1>2. m \in 0 .. Cardinality(P) - 1
  BY <1>1
<1>3. \E p \in P : Cardinality(Above(P, p)) = m
  BY <1>2, RankTaken
<1>4. Level(P, n) = CHOOSE p \in P : Cardinality(Above(P, p)) = m
  BY DEF Level, Above
<1> QED BY <1>3, <1>4

\* One level on is the next lower priority, or the lowest.
LEMMA LevelDescends ==
  ASSUME NEW P \in SUBSET Nat, IsFiniteSet(P), P # {}, NEW n \in Nat
  PROVE  \/ \A p \in P : Level(P, n + 1) <= p
         \/ /\ Level(P, n + 1) < Level(P, n)
            /\ ~\E p \in P : Level(P, n + 1) < p /\ p < Level(P, n)
<1> DEFINE a == Level(P, n)
           b == Level(P, n + 1)
           N == Cardinality(P)
<1>1. /\ a \in P /\ Cardinality(Above(P, a)) = IF n >= N THEN N - 1 ELSE n
      /\ b \in P /\ Cardinality(Above(P, b)) = IF n + 1 >= N THEN N - 1 ELSE n + 1
  BY LevelFound
<1>2. N \in Nat
  BY FS_CardinalityType
<1> HIDE DEF a, b
<1>3. CASE n + 1 >= N
  <2>1. Cardinality(Above(P, b)) = N - 1
    BY <1>1, <1>3
  <2>2. \A p \in P : b <= p
    BY <1>1, <2>1, AboveCount
  <2> QED BY <2>2 DEF b
<1>4. CASE ~(n + 1 >= N)
  <2>1. Cardinality(Above(P, a)) = n /\ Cardinality(Above(P, b)) = n + 1
    BY <1>1, <1>2, <1>4
  <2>2. a \in Nat /\ b \in Nat
    BY <1>1
  <2>3. ~(a < b) /\ a # b
    BY <1>1, <2>1, AboveOrder
  <2>4. ASSUME NEW p \in P, b < p, p < a PROVE FALSE
    <3>1. Cardinality(Above(P, a)) + 1 <= Cardinality(Above(P, p))
      BY <1>1, <2>4, AboveOrder
    <3>2. Cardinality(Above(P, p)) + 1 <= Cardinality(Above(P, b))
      BY <1>1, <2>4, AboveOrder
    <3>3. Cardinality(Above(P, p)) \in Nat
      BY AboveCount
    <3> QED BY <2>1, <3>1, <3>2, <3>3
  <2>5. b < a
    BY <2>2, <2>3
  <2> QED BY <2>4, <2>5 DEF a, b
<1> QED BY <1>2, <1>3, <1>4

-----------------------------------------------------------------------------
(* The order of priorities                                                 *)

\* The priorities of a set of channels.
LEMMA PrioritiesFinite ==
  ASSUME NEW S \in SUBSET Channels
  PROVE  Priorities(S) \in SUBSET Nat /\ IsFiniteSet(Priorities(S)) /\ IsFiniteSet(S)
<1> DEFINE f == [c \in S |-> Priority[c]]
<1>1. IsFiniteSet(Channels) /\ Priority \in [Channels -> Nat]
  BY RetryAssumption
<1>2. IsFiniteSet(S)
  BY <1>1, FS_Subset
<1>3. f \in Surjection(S, Priorities(S))
  BY DEF Surjection, Priorities
<1>4. IsFiniteSet(Priorities(S))
  BY <1>2, <1>3, FS_Surjection
<1>5. Priorities(S) \in SUBSET Nat
  BY <1>1 DEF Priorities
<1> QED BY <1>2, <1>4, <1>5

\* A channel that may be returned has the priority of the level asked for.
LEMMA PickedLevel ==
  ASSUME RelayTypeOK, NEW g, NEW n \in Nat, NEW c \in GetRandomSatisfiedChannel(g, n)
  PROVE  c \in InGroup(g) /\ Priority[c] = Level(Priorities(InGroup(g)), n)
<1>1. c \in InGroup(g) /\ InGroup(g) \in SUBSET Channels
  BY PickedServes DEF InGroup, RelayTypeOK
<1>2. CASE Cardinality(InGroup(g)) <= 1
  <2>1. IsFiniteSet(InGroup(g)) /\ IsFiniteSet({c}) /\ Cardinality({c}) = 1
    BY <1>1, PrioritiesFinite, FS_Singleton
  <2>2. InGroup(g) = {c}
    <3>1. {c} \in SUBSET InGroup(g)
      BY <1>1
    <3>2. /\ Cardinality({c}) <= Cardinality(InGroup(g))
          /\ Cardinality(InGroup(g)) = Cardinality({c}) => InGroup(g) = {c}
      BY <2>1, <3>1, FS_Subset
    <3>3. Cardinality(InGroup(g)) \in Nat
      BY <2>1, FS_CardinalityType
    <3> QED BY <1>2, <2>1, <3>2, <3>3
  <2>3. Priorities(InGroup(g)) = {Priority[c]}
    BY <2>2 DEF Priorities
  <2>4. Level(Priorities(InGroup(g)), n) \in Priorities(InGroup(g))
    BY <1>1, <2>3, PrioritiesFinite, LevelFound
  <2> QED BY <1>1, <2>3, <2>4
<1>3. CASE ~(Cardinality(InGroup(g)) <= 1)
  BY <1>1, <1>3 DEF GetRandomSatisfiedChannel, Eligible
<1> QED BY <1>2, <1>3

\* What RetriesDescend says of two attempts that follow each other.
Descend(a, b) ==
  LET P == {Priority[c] : c \in {d \in a.from : a.group \in GroupsOf[d]}}
  IN  a.group = b.group /\ a.from = b.from =>
        \/ \A p \in P : Priority[b.channel] <= p
        \/ /\ Priority[b.channel] < Priority[a.channel]
           /\ ~\E p \in P : Priority[b.channel] < p /\ p < Priority[a.channel]

\* Two attempts in one group at levels that follow each other descend.
LEMMA LevelsDescend ==
  ASSUME NEW a \in Contexts, NEW b \in Contexts, NEW n \in Nat,
         ByLevel(a, n), ByLevel(b, n + 1)
  PROVE  Descend(a, b)
<1> SUFFICES ASSUME a.group = b.group, a.from = b.from PROVE Descend(a, b)
  BY DEF Descend
<1> DEFINE P == Priorities(Members(a.from, a.group))
<1>1. Members(a.from, a.group) \in SUBSET Channels
  BY DEF Members, Contexts
<1>2. P \in SUBSET Nat /\ IsFiniteSet(P)
  BY <1>1, PrioritiesFinite
<1>3. P # {}
  BY DEF ByLevel, Priorities
<1>4. Priority[a.channel] = Level(P, n) /\ Priority[b.channel] = Level(P, n + 1)
  BY DEF ByLevel
<1>5. \/ \A p \in P : Priority[b.channel] <= p
      \/ /\ Priority[b.channel] < Priority[a.channel]
         /\ ~\E p \in P : Priority[b.channel] < p /\ p < Priority[a.channel]
  BY <1>2, <1>3, <1>4, LevelDescends
<1>6. P = {Priority[c] : c \in {d \in a.from : a.group \in GroupsOf[d]}}
  BY DEF Priorities, Members
<1> HIDE DEF P
<1> QED BY <1>5, <1>6 DEF Descend

\* RetriesDescend pair by pair.
LEMMA DescendPairs ==
  RetriesDescend <=>
    \A k \in 1 .. Len(tried) - 1 :
      (k = 1 /\ Bypassed) \/ Descend(tried[k], tried[k + 1])
BY DEF RetriesDescend, Descend, Bypassed

\* A placed attempt keeps its place when the group index moves on.
LEMMA PlacedLater ==
  ASSUME NEW a, NEW n, NEW m, NEW x \in Nat, PlacedAt(a, n, x)
  PROVE  PlacedAt(a, m, x + 1)
<1>1. PICK k \in DOMAIN AutoGroups : k <= x /\ a.group = AutoGroups[k]
  BY DEF PlacedAt
<1>2. k \in Nat
  BY GroupsTyped
<1>3. k <= x + 1 /\ k # x + 1
  BY <1>1, <1>2
<1> QED BY <1>1, <1>3 DEF PlacedAt

\* One more attempt keeps the order when it descends from the last one.
LEMMA DescendAppend ==
  ASSUME RelayTypeOK, RetriesDescend, NEW b \in Contexts, tried' = Append(tried, b),
         UNCHANGED <<affinity, pinned>>,
         tried # <<>> => \/ Len(tried) = 1 /\ Bypassed
                         \/ Descend(tried[Len(tried)], b)
  PROVE  RetriesDescend'
<1> DEFINE T == Len(tried)
<1>0. tried \in Seq(Contexts) /\ T \in Nat /\ Len(tried') = T + 1
  BY DEF RelayTypeOK
<1>1. \A k \in 1 .. T : tried'[k] = tried[k]
  BY <1>0
<1>2. tried'[T + 1] = b
  BY <1>0
<1>3. ASSUME NEW k \in 1 .. T PROVE (k = 1 /\ Bypassed) \/ Descend(tried'[k], tried'[k + 1])
  <2>1. CASE k = T
    <3>1. tried # <<>>
      BY <1>0
    <3>2. tried'[k] = tried[T] /\ tried'[k + 1] = b
      BY <1>1, <1>2, <2>1
    <3> QED BY <2>1, <3>1, <3>2
  <2>2. CASE k # T
    <3>1. k \in 1 .. T - 1 /\ k + 1 \in 1 .. T
      BY <1>0, <2>2
    <3>2. tried'[k] = tried[k] /\ tried'[k + 1] = tried[k + 1]
      BY <1>1, <3>1
    <3> QED BY <3>1, <3>2, DescendPairs
  <2> QED BY <2>1, <2>2
<1>4. \A k \in 1 .. Len(tried') - 1 :
        (k = 1 /\ Bypassed') \/ Descend(tried'[k], tried'[k + 1])
  <2>1. 1 .. Len(tried') - 1 = 1 .. T
    BY <1>0
  <2>2. Bypassed' = Bypassed
    BY DEF Bypassed
  <2> QED BY <1>3, <2>1, <2>2
<1> QED BY <1>4 DEF RetriesDescend, Descend, Bypassed

\* What a hit puts into the context is at the level of the count of retries.
LEMMA HitPlaced ==
  ASSUME RelayTypeOK, SearchInv, ScanHit
  PROVE  /\ chosen' \in Contexts /\ chosen'.group = AutoGroups[i]
         /\ ByLevel(chosen', retry) /\ i = index /\ i \in DOMAIN AutoGroups /\ ~reset
<1>1. /\ phase = "scan" /\ i \in 1 .. Len(AutoGroups) /\ i = index /\ ~reset
      /\ i > start => retry = 0
  BY HitFacts DEF SearchInv
<1>2. HitLevel = retry /\ retry \in Nat
  BY <1>1 DEF HitLevel, RelayTypeOK
<1>3. AutoGroups[i] \in Groups /\ i \in DOMAIN AutoGroups
  BY <1>1, GroupsTyped
<1>4. PICK c \in GetRandomSatisfiedChannel(AutoGroups[i], retry) :
        c \in Channels /\ chosen' = ContextOf(c, AutoGroups[i])
  BY <1>2, HitFacts
<1>5. /\ chosen' \in Contexts /\ chosen'.channel = c
      /\ chosen'.group = AutoGroups[i] /\ chosen'.from = listed
  BY <1>3, <1>4, ContextTyped
<1>6. c \in InGroup(AutoGroups[i]) /\ Priority[c] = Level(Priorities(InGroup(AutoGroups[i])), retry)
  BY <1>2, <1>4, PickedLevel
<1>7. InGroup(AutoGroups[i]) = Members(listed, AutoGroups[i])
  BY DEF InGroup, Members
<1> QED BY <1>1, <1>3, <1>5, <1>6, <1>7 DEF ByLevel

\* An attempt after a placed one, in the present group and at the next level,
\* descends from it.
LEMMA PlacedDescend ==
  ASSUME RelayTypeOK, NEW a \in Contexts, NEW b \in Contexts, index \in DOMAIN AutoGroups,
         Placed(a, retry - 1), ByLevel(b, retry), b.group = AutoGroups[index]
  PROVE  Descend(a, b)
<1> SUFFICES ASSUME a.group = b.group PROVE Descend(a, b)
  BY DEF Descend
<1>1. retry - 1 \in Nat /\ ByLevel(a, retry - 1)
  <2>1. PICK k \in DOMAIN AutoGroups :
          /\ k <= index /\ a.group = AutoGroups[k]
          /\ k = index => retry - 1 \in Nat /\ ByLevel(a, retry - 1)
    BY DEF Placed, PlacedAt
  <2>2. k = index
    BY <2>1, RetryAssumption
  <2> QED BY <2>1, <2>2
<1>2. (retry - 1) + 1 = retry
  BY DEF RelayTypeOK
<1> QED BY <1>1, <1>2, LevelsDescend

LEMMA LevelNext ==
  ASSUME RelayTypeOK, AccountInv, SearchInv, LevelInv, [RetryNext]_retryVars
  PROVE  LevelInv'
<1> USE DEF param, search, choice
<1>0. ChosenPlaced /\ LastPlaced /\ RetriesDescend
  BY DEF LevelInv
<1>1. ASSUME UNCHANGED <<phase, tried, chosen, index, retry, reset, affinity, pinned>>
      PROVE  LevelInv'
  BY <1>0, <1>1 DEF LevelInv, ChosenPlaced, LastPlaced, RetriesDescend, Placed, Bypassed
<1>2. ASSUME UNCHANGED <<tried, affinity, pinned>> PROVE RetriesDescend'
  BY <1>0, <1>2 DEF RetriesDescend
<1>3. ASSUME phase' \in {"finish", "done"}, UNCHANGED <<tried, affinity, pinned>>
      PROVE  LevelInv'
  BY <1>2, <1>3 DEF LevelInv, ChosenPlaced, LastPlaced
<1>4. ASSUME tried' = <<>>, Bypassed' PROVE LevelInv'
  <2>1. Len(tried') = 0
    BY <1>4
  <2>2. RetriesDescend'
    BY <2>1 DEF RetriesDescend
  <2> QED BY <1>4, <2>2 DEF LevelInv, ChosenPlaced, LastPlaced
<1>5. CASE DisableChannel \/ CacheChanges \/ UNCHANGED retryVars
  BY <1>1, <1>5 DEF DisableChannel, CacheChanges, retryVars
<1>6. CASE ScanMiss
  <2>1. CASE AutoToken
    <3>1. /\ phase = "scan" /\ phase' = "scan" /\ index' = index + 1
          /\ UNCHANGED <<tried, affinity, pinned>>
      BY <1>6, <2>1 DEF ScanMiss, SearchInv
    <3>2. LastPlaced'
      <4> SUFFICES ASSUME tried # <<>>, ~(Len(tried) = 1 /\ Bypassed)
                   PROVE  PlacedAt(tried[Len(tried)], retry' - 1, index + 1)
        BY <3>1 DEF LastPlaced, Bypassed, Placed
      <4>1. PlacedAt(tried[Len(tried)], retry - 1, index) /\ index \in Nat
        BY <1>0, <3>1 DEF LastPlaced, Placed, RelayTypeOK
      <4> QED BY <4>1, PlacedLater
    <3> QED BY <1>2, <3>1, <3>2 DEF LevelInv, ChosenPlaced
  <2>2. CASE ~AutoToken
    BY <1>3, <1>6, <2>2 DEF ScanMiss, NoChannel
  <2> QED BY <2>1, <2>2
<1>7. CASE ScanEnd
  BY <1>3, <1>7 DEF ScanEnd, NoChannel
<1>8. CASE ScanHit
  <2>1. /\ chosen' \in Contexts /\ chosen'.group = AutoGroups[i]
        /\ ByLevel(chosen', retry) /\ i = index /\ i \in DOMAIN AutoGroups /\ ~reset
    BY <1>8, HitPlaced
  <2>2. /\ UNCHANGED <<affinity, pinned>> /\ phase = "scan"
        /\ \/ UNCHANGED <<retry, reset>> /\ index' = i
           \/ index' = i + 1
    BY <1>8, <2>1, HitFacts
  <2>3. i \in Nat /\ i <= i + 1 /\ i # i + 1 /\ i <= i /\ retry \in Nat
    BY DEF RelayTypeOK
  <2>4. ASSUME NEW n, index' = i => n = retry PROVE PlacedAt(chosen', n, index')
    <3>1. i <= index' /\ (i = index' => n \in Nat /\ ByLevel(chosen', n))
      BY <2>1, <2>2, <2>3, <2>4
    <3> QED BY <2>1, <3>1 DEF PlacedAt
  <2>5. CASE phase' = "charge"
    <3>1. byDistribute /\ UNCHANGED tried
      BY <1>8, <2>5, HitFacts
    <3>2. tried = <<>> /\ retry = 0
      BY <2>2, <3>1 DEF AccountInv, SearchInv, byDistribute, None
    <3>3. PlacedAt(chosen', 0, index')
      BY <2>4, <3>2
    <3> QED BY <1>2, <2>2, <2>5, <3>1, <3>2, <3>3
           DEF LevelInv, ChosenPlaced, LastPlaced, Placed
  <2>6. CASE phase' = "call"
    <3>1. ~byDistribute /\ tried' = Append(tried, chosen')
      BY <1>8, <2>6, HitFacts
    <3>2. tried # <<>>
      BY <2>2, <3>1 DEF AccountInv, byDistribute
    <3>3. tried \in Seq(Contexts) /\ Len(tried) \in Nat \ {0}
      BY <3>2 DEF RelayTypeOK
    <3>4. tried[Len(tried)] \in Contexts
      BY <3>3
    <3>5. tried' # <<>> /\ tried'[Len(tried')] = chosen'
      BY <2>1, <3>1, <3>3
    <3>6. (Len(tried) = 1 /\ Bypassed) \/ Descend(tried[Len(tried)], chosen')
      <4> SUFFICES ASSUME ~(Len(tried) = 1 /\ Bypassed)
                   PROVE  Descend(tried[Len(tried)], chosen')
        OBVIOUS
      <4>1. Placed(tried[Len(tried)], retry - 1)
        BY <1>0, <2>2, <3>2 DEF LastPlaced
      <4> QED BY <2>1, <3>4, <4>1, PlacedDescend
    <3>7. RetriesDescend'
      BY <1>0, <2>1, <2>2, <3>1, <3>6, DescendAppend
    <3>8. PlacedAt(chosen', IF reset' THEN -1 ELSE retry', index')
      <4>1. index' = i => (IF reset' THEN -1 ELSE retry') = retry
        BY <2>1, <2>2, <2>3
      <4> QED BY <2>4, <4>1
    <3>9. LastPlaced'
      BY <2>6, <3>5, <3>8 DEF LastPlaced, Placed
    <3> QED BY <2>6, <3>7, <3>9 DEF LevelInv, ChosenPlaced
  <2>7. CASE phase' = "finish"
    BY <1>3, <1>8, <2>2, <2>7, HitFacts
  <2> QED BY <1>8, <2>5, <2>6, <2>7, HitFacts
<1>9. CASE DistributeRefuses
  BY <1>3, <1>9 DEF DistributeRefuses
<1>10. CASE DistributePinned \/ DistributeAffinity
  <2>1. phase = "distribute" /\ tried' = tried
    BY <1>10 DEF DistributePinned, DistributeAffinity, untouchedByDistribute
  <2>2. Bypassed'
    BY <1>10 DEF DistributePinned, DistributeAffinity, Bypassed
  <2> QED BY <1>4, <2>1, <2>2 DEF AccountInv
<1>11. CASE DistributeSelect
  <2>1. /\ phase = "distribute" /\ phase' = "scan"
        /\ UNCHANGED <<tried, affinity, pinned>>
    BY <1>11 DEF DistributeSelect, BeginScan, untouchedByDistribute
  <2>2. tried = <<>>
    BY <2>1 DEF AccountInv
  <2> QED BY <1>2, <2>1, <2>2 DEF LevelInv, ChosenPlaced, LastPlaced
<1>12. CASE PreConsume
  <2>1. /\ phase = "charge" /\ phase' \in {"loop", "done"}
        /\ UNCHANGED <<tried, chosen, index, affinity, pinned>>
    BY <1>12 DEF PreConsume, untouchedByRelay
  <2>2. tried = <<>>
    BY <2>1 DEF AccountInv
  <2>3. ~Bypassed => Placed(chosen, 0)
    BY <1>0, <2>1, <2>2 DEF ChosenPlaced
  <2>4. ChosenPlaced'
    BY <2>1, <2>3 DEF ChosenPlaced, Placed, Bypassed
  <2> QED BY <1>2, <2>1, <2>2, <2>4 DEF LevelInv, LastPlaced
<1>13. CASE LoopTop
  <2>1. /\ phase = "loop" /\ ~reset
        /\ UNCHANGED <<index, retry, reset, affinity, pinned, chosen>>
    BY <1>13 DEF LoopTop, BeginScan, SearchInv
  <2>2. CASE phase' = "call" /\ tried' = Append(tried, chosen) /\ tried = <<>>
    <3>1. retry = 0 /\ chosen \in Contexts
      BY <2>1, <2>2 DEF AccountInv, RelayTypeOK
    <3>2. Len(tried') = 1 /\ tried'[Len(tried')] = chosen
      BY <2>2, <3>1
    <3>3. RetriesDescend'
      BY <1>0, <2>1, <2>2, <3>1, DescendAppend
    <3>4. ~Bypassed => Placed(chosen, 0)
      BY <1>0, <2>1, <2>2 DEF ChosenPlaced
    <3>5. ~Bypassed' => Placed(chosen, 0)'
      BY <2>1, <3>4 DEF Placed, Bypassed
    <3>6. LastPlaced'
      BY <2>1, <2>2, <3>1, <3>2, <3>5 DEF LastPlaced
    <3> QED BY <2>2, <3>3, <3>6 DEF LevelInv, ChosenPlaced
  <2>3. CASE phase' = "scan" /\ tried' = tried /\ tried # <<>>
    <3>1. LastPlaced'
      BY <1>0, <2>1, <2>3 DEF LastPlaced, Placed, Bypassed
    <3> QED BY <1>2, <2>1, <2>3, <3>1 DEF LevelInv, ChosenPlaced
  <2>4. CASE phase' = "finish" /\ tried' = tried
    BY <1>3, <2>1, <2>4
  <2> QED BY <1>13, <2>2, <2>3, <2>4 DEF LoopTop, BeginScan
<1>14. CASE Succeed \/ Finish
  BY <1>3, <1>14 DEF Succeed, Finish, untouchedByRelay
<1>15. CASE \E e \in Errors \ {"no channel"} : Fail(e)
  <2>1. /\ phase = "call" /\ UNCHANGED <<tried, index, affinity, pinned>>
        /\ \/ phase' = "finish"
           \/ /\ phase' = "loop"
              /\ retry' = IF reset THEN retry ELSE retry + 1
    BY <1>15 DEF Fail, IncreaseRetry, untouchedByRelay
  <2>2. tried # <<>> /\ (reset => retry = 0) /\ retry \in Nat
    BY <2>1 DEF AccountInv, SearchInv, RelayTypeOK
  <2>3. CASE phase' = "loop"
    <3>1. retry' - 1 = IF reset THEN -1 ELSE retry
      BY <2>1, <2>2, <2>3
    <3>2. ~(Len(tried) = 1 /\ Bypassed) => Placed(tried[Len(tried)], retry' - 1)
      BY <1>0, <2>1, <2>2, <3>1 DEF LastPlaced
    <3>3. LastPlaced'
      BY <2>1, <2>3, <3>2 DEF LastPlaced, Placed, Bypassed
    <3> QED BY <1>2, <2>1, <2>2, <2>3, <3>3 DEF LevelInv, ChosenPlaced
  <2> QED BY <1>3, <2>1, <2>3
<1> QED
  BY <1>5, <1>6, <1>7, <1>8, <1>9, <1>10, <1>11, <1>12, <1>13, <1>14, <1>15
  DEF RetryNext, RelayStep

-----------------------------------------------------------------------------
(* The theorems                                                            *)

LEMMA RelayInit == RetryInit => RelayInv
<1> SUFFICES ASSUME RetryInit PROVE RelayInv
  OBVIOUS
<1>1. /\ phase = "distribute" /\ retry = 0 /\ reset = FALSE
      /\ index = 1 /\ tried = <<>> /\ billing = None
  BY DEF RetryInit
<1>2. RelayTypeOK
  BY TypeInit
<1>3. AccountInv
  BY <1>1 DEF AccountInv, EndsAccounted
<1>4. SearchInv
  BY <1>1, GroupsTyped DEF SearchInv
<1>5. BudgetInv
  <2>1. Len(tried) = 0 /\ 0 <= (RetryTimes + 1) * Len(AutoGroups)
    BY <1>1, RetryAssumption, GroupsTyped, BeforeFirst
  <2> QED BY <1>1, <2>1 DEF BudgetInv, AttemptsBounded
<1>6. LevelInv
  BY <1>1 DEF LevelInv, ChosenPlaced, LastPlaced, RetriesDescend
<1> QED BY <1>2, <1>3, <1>4, <1>5, <1>6 DEF RelayInv

\* The inductive invariant of a relayed request: Distribute, Relay's loop and
\* CacheGetRandomSatisfiedChannel keep it, whatever happens to the cache.
THEOREM RelayInvariant == RetrySpec => []RelayInv
<1>1. RelayInv /\ [RetryNext]_retryVars => RelayInv'
  BY TypeNext, AccountNext, SearchNext, BudgetNext, LevelNext DEF RelayInv
<1> QED BY RelayInit, <1>1, PTL DEF RetrySpec

\* Relay makes at most RetryTimes + 1 attempts for each group the token may
\* use, whatever the two resets of RetryParam and the errors that bypass the
\* count do.
THEOREM AttemptsAreBounded == RetrySpec => []AttemptsBounded
<1>1. RelayInv => AttemptsBounded
  BY DEF RelayInv, BudgetInv
<1> QED BY RelayInvariant, <1>1, PTL

\* While its group keeps its channels, a retry of Relay goes to the next
\* lower priority or stays at the lowest.
THEOREM RetriesDoDescend == RetrySpec => []RetriesDescend
<1>1. RelayInv => RetriesDescend
  BY DEF RelayInv, LevelInv
<1> QED BY RelayInvariant, <1>1, PTL

\* A request that is over was served and settled at the ratio of the group
\* that served it, or failed and holds no charge.
THEOREM RequestsEndAccounted == RetrySpec => []EndsAccounted
<1>1. RelayInv => EndsAccounted
  BY DEF RelayInv, AccountInv
<1> QED BY RelayInvariant, <1>1, PTL

(***************************************************************************)
(* RefundExact for any price and any number of polling loops, faults and   *)
(* notices, where the writers of the row take turns (~Overlap).            *)
(*                                                                         *)
(* Every writer but the refund writes columns from a copy, so the heart of *)
(* the invariant is what each copy knows of the row (CopiesInv): a loop    *)
(* that may still replace the row has its present billing columns, and a   *)
(* loop that refunds or rebates does so alone, because the compare-and-    *)
(* swap let only one of them end the task.  What the row says is then tied *)
(* to what the stores hold (StoresInv).                                    *)
(***************************************************************************)
\* What a submission takes when its reservation is granted.
Taken ==
  CASE funding = "wallet" ->
         [wallet |-> Price, reward |-> split, token |-> Price, subscription |-> 0]
    [] funding = "subscription" ->
         [wallet |-> 0, reward |-> 0, token |-> 0, subscription |-> Price]
    [] OTHER -> Nothing

Final == {"SUCCESS", "FAILURE"}

\* Two copies of the task differ at most in status and progress.
SameBill(c, d) ==
  /\ c.source = d.source /\ c.refunded = d.refunded /\ c.recorded = d.recorded
  /\ c.reward = d.reward /\ c.paid = d.paid /\ c.rebateDone = d.rebateDone

Stores == [wallet : Int, reward : Int, token : Int, subscription : Int]

\* Every variable has its type; a billed task has somebody who paid.
MidjourneyRows ==
  /\ MidjourneyTypeOK
  /\ kind \in {"submit", "swap"} /\ funding \in {"wallet", "subscription", "free"}
  /\ split \in 0 .. Price
  /\ noticeAt \in {"idle", "save"}
  /\ rebated \in Nat /\ returned \in Nat \cup {NotYet}
  /\ submit = "record" \/ (submit = "insert" /\ mine.billed) => funding # "free"

\* Progress is 100% in the final states and only there.
ProgressInv ==
  /\ row.full <=> row.status \in Final
  /\ mine.full <=> mine.status \in Final
  /\ noticeCopy.full <=> noticeCopy.status \in Final

\* Who may be at work: the submission, or one notice, or loops, of which one at
\* most is past the compare-and-swap that ended the task.
TurnsInv ==
  /\ submit # "done" => noticeAt = "idle" /\ \A p \in Pollers : at[p] = "idle"
  /\ noticeAt = "save" => \A p \in Pollers : at[p] = "idle"
  /\ \A p, q \in Pollers :
       at[p] \in {"refund", "final"} /\ at[q] \in {"refund", "final"} => p = q

\* What the copies know of the row.
CopiesInv ==
  /\ noticeAt = "save" => SameBill(noticeCopy, row)
  /\ \A p \in Pollers :
       /\ at[p] = "asked" =>
            /\ copy[p].status \notin Final
            /\ ~row.full => SameBill(copy[p], row)
       /\ at[p] \in {"refund", "final"} => row.full /\ SameBill(copy[p], row)

\* The task in the submission's memory.
SubmissionInv ==
  /\ submit # "done" => ~row.refunded
  /\ submit \in {"start", "asked"} => held = Taken
  /\ submit \in {"start", "asked", "insert", "record"} => stored = "nothing"
  /\ submit \in {"insert", "record"} =>
       /\ ~mine.refunded /\ ~mine.recorded
       /\ mine.billed => funding # "free" /\ held = Taken
  /\ submit = "record" => mine.billed
  /\ submit \in {"split", "again", "final"} =>
       /\ stored # "nothing"
       /\ mine.source = funding /\ ~mine.refunded
       /\ mine.recorded => /\ funding = "wallet" /\ mine.reward = split
                           /\ mine.paid = Price - split
  /\ submit \in {"again", "final"} /\ funding = "wallet" => mine.recorded

\* What the row says of the stores.
StoresInv ==
  /\ row.recorded => /\ stored # "nothing" /\ funding = "wallet" /\ ~row.refunded
                     /\ row.reward = split /\ row.paid = Price - split
  /\ stored # "nothing" =>
       /\ row.source = funding /\ funding # "free"
       /\ ~row.refunded => held = Taken
       /\ row.refunded => held.wallet = 0 /\ held.token = 0 /\ held.subscription = 0
  /\ stored = "split" =>
       /\ funding = "wallet" /\ (row.recorded \/ row.refunded)
       /\ row.refunded => held.reward = 0
  /\ returned # NotYet <=> row.refunded
  /\ returned # NotYet => rebated = returned

MidjourneyInv ==
  ProgressInv /\ TurnsInv /\ CopiesInv /\ SubmissionInv /\ StoresInv

(***************************************************************************)
(* Types.                                                                  *)
(***************************************************************************)
\* The billing columns of a task over the row are a task.
LEMMA PersistTypes ==
  ASSUME row \in Tasks, NEW c \in Tasks
  PROVE  persistMidjourneyBillingState(c) \in Tasks
BY DEF persistMidjourneyBillingState, Tasks

\* A report over a task is a task.
LEMMA ReportedTypes ==
  ASSUME NEW c \in Tasks, NEW s \in Statuses
  PROVE  /\ Reported(c, s) \in Tasks /\ SameBill(Reported(c, s), c)
         /\ Reported(c, s).status = s
         /\ Reported(c, s).full <=> s \in Final
<1> DEFINE b == s \in {"SUCCESS", "FAILURE"}
<1>1. b \in BOOLEAN
  OBVIOUS
<1>2. Reported(c, s) = [c EXCEPT !.status = s, !.full = b]
  BY DEF Reported
<1> HIDE DEF b
<1>3. /\ Reported(c, s) \in Tasks
      /\ Reported(c, s).status = s /\ Reported(c, s).full = b
  BY <1>1, <1>2 DEF Tasks
<1>4. SameBill(Reported(c, s), c)
  BY <1>2 DEF Tasks, SameBill
<1> QED BY <1>3, <1>4 DEF Final, b

\* The rebate (FinalizeMidjourneyConsumeRebate) keeps the tables.
LEMMA RebateTypes ==
  ASSUME MidjourneyRows, NEW c \in Tasks, FinalizeMidjourneyConsumeRebate(c)
  PROVE  row' \in Tasks /\ rebated' \in Nat
<1>0. 0 .. Price \subseteq Nat
  BY MidjourneyAssumption
<1>1. [c EXCEPT !.rebateDone = TRUE] \in Tasks /\ c.paid \in Nat
  BY <1>0 DEF Tasks
<1>2. row \in Tasks /\ rebated \in Nat
  BY DEF MidjourneyRows, MidjourneyTypeOK
<1> QED BY <1>1, <1>2, PersistTypes DEF FinalizeMidjourneyConsumeRebate

\* A loop that forgets its copy stays what it is.
LEMMA IdleTypes ==
  ASSUME MidjourneyRows, NEW p \in Pollers, Idle(p)
  PROVE  /\ at' \in [Pollers -> {"idle", "asked", "refund", "final"}]
         /\ copy' \in [Pollers -> Tasks]
         /\ at'[p] = "idle" /\ \A q \in Pollers \ {p} : at'[q] = at[q] /\ copy'[q] = copy[q]
<1>1. NoTask \in Tasks
  BY MidjourneyAssumption DEF NoTask, Tasks, Statuses
<1> QED BY <1>1 DEF Idle, MidjourneyRows, MidjourneyTypeOK

\* The submission's steps keep the tables.
LEMMA SubmitTypes ==
  ASSUME MidjourneyRows, SubmitNext \/ SubmitStops
  PROVE  MidjourneyRows'
<1> USE DEF MidjourneyRows, MidjourneyTypeOK
<1>0. /\ NoTask \in Tasks /\ 0 .. Price \subseteq Nat /\ 0 \in 0 .. Price
      /\ Nothing \in Stores
  <2>1. 0 .. Price \subseteq Nat /\ 0 \in 0 .. Price
    BY MidjourneyAssumption
  <2>2. NoTask \in Tasks
    BY <2>1 DEF NoTask, Tasks, Statuses
  <2>3. Nothing \in Stores
    BY DEF Nothing, Stores
  <2> QED BY <2>1, <2>2, <2>3
<1>1. ASSUME NEW k \in {"submit", "swap"}, NEW f \in {"wallet", "subscription", "free"},
             NEW r \in 0 .. Price, Reserve(k, f, r)
      PROVE  MidjourneyRows'
  <2>1. held' \in Stores
    <3>1. r \in Int /\ Price \in Int
      BY <1>0, MidjourneyAssumption
    <3>2. CASE f = "wallet"
      <4>1. held' = [wallet |-> Price, reward |-> r, token |-> Price, subscription |-> 0]
        BY <1>1, <3>2 DEF Reserve, Nothing
      <4> QED BY <3>1, <4>1 DEF Stores
    <3>3. CASE f = "subscription"
      <4>1. held' = [wallet |-> 0, reward |-> 0, token |-> 0, subscription |-> Price]
        BY <1>1, <3>3 DEF Reserve, Nothing
      <4> QED BY <3>1, <4>1 DEF Stores
    <3>4. CASE f = "free"
      BY <1>0, <1>1, <3>4 DEF Reserve
    <3> QED BY <3>2, <3>3, <3>4
  <2> QED BY <1>1, <2>1 DEF Reserve, Stores, pollVars, noticeVars
<1>2. CASE RequestFails
  BY <1>0, <1>2 DEF RequestFails, Stores, pollVars, noticeVars
<1>3. ASSUME NEW accepted \in BOOLEAN, NEW id \in BOOLEAN,
             NEW s \in {"", "IN_PROGRESS", "SUCCESS"}, RequestAnswered(accepted, id, s)
      PROVE  MidjourneyRows'
  <2> DEFINE full == s = "SUCCESS"
             billed == accepted /\ funding # "free"
  <2>1. full \in BOOLEAN /\ billed \in BOOLEAN
    OBVIOUS
  <2>2. mine' = [NoTask EXCEPT !.status = s, !.full = full, !.id = id, !.billed = billed]
    BY <1>3 DEF RequestAnswered
  <2> HIDE DEF full, billed
  <2>3. mine' \in Tasks
    <3>1. mine' = [status |-> s, full |-> full, id |-> id, billed |-> billed, source |-> "",
                   refunded |-> FALSE, reward |-> 0, paid |-> 0, recorded |-> FALSE,
                   rebateDone |-> FALSE]
      BY <2>2 DEF NoTask
    <3> QED BY <2>1, <3>1, <1>0 DEF Tasks, Statuses
  <2>4. held' \in Stores
    BY <1>0, <1>3 DEF RequestAnswered, Stores
  <2>5. mine'.billed => funding # "free"
    <3>1. mine'.billed = billed
      BY <2>2 DEF NoTask
    <3> QED BY <3>1 DEF billed
  <2> QED BY <1>3, <2>3, <2>4, <2>5 DEF RequestAnswered, Stores, pollVars, noticeVars
<1>4. CASE Insert
  BY <1>0, <1>4 DEF Insert, Stores, pollVars, noticeVars
<1>5. CASE RecordMidjourneyBilling
  <2>1. [mine EXCEPT !.source = funding] \in Tasks
    <3>1. funding \in {"wallet", "subscription"}
      BY <1>5 DEF RecordMidjourneyBilling
    <3> QED BY <3>1 DEF Tasks
  <2> QED BY <1>0, <1>5, <2>1, PersistTypes
          DEF RecordMidjourneyBilling, Stores, pollVars, noticeVars
<1>6. CASE RecordMidjourneyWalletFunding
  <2>1. Price - split \in 0 .. Price /\ 0 .. Price \subseteq Int
    BY MidjourneyAssumption
  <2>2. [mine EXCEPT !.reward = split, !.paid = Price - split, !.recorded = TRUE] \in Tasks
    <3> DEFINE v == Price - split
    <3>1. v \in 0 .. Price
      BY <2>1
    <3> HIDE DEF v
    <3>2. [mine EXCEPT !.reward = split, !.paid = v, !.recorded = TRUE] \in Tasks
      BY <3>1 DEF Tasks
    <3> QED BY <3>2 DEF v
  <2> QED BY <1>6, <2>2, PersistTypes
          DEF RecordMidjourneyWalletFunding, StoreSplit, pollVars, noticeVars, storeVars
<1>7. CASE RecordAgain
  BY <1>7, PersistTypes DEF RecordAgain, StoreSplit, pollVars, noticeVars, storeVars
<1>8. CASE SubmitFinal
  <2>1. row' \in Tasks /\ rebated' \in Nat
    BY <1>8, RebateTypes DEF SubmitFinal
  <2> QED BY <1>8, <2>1 DEF SubmitFinal, pollVars, noticeVars
<1>9. CASE SubmitStops
  BY <1>9 DEF SubmitStops, pollVars, noticeVars, storeVars
<1> QED BY <1>1, <1>2, <1>3, <1>4, <1>5, <1>6, <1>7, <1>8, <1>9
        DEF SubmitNext, Reserves, Answers

\* The loops' steps keep the tables.
LEMMA PollTypes ==
  ASSUME MidjourneyRows, NEW p \in Pollers, PollNext(p)
  PROVE  MidjourneyRows'
<1> USE DEF MidjourneyRows, MidjourneyTypeOK
<1>1. CASE Load(p)
  BY <1>1 DEF Load, submitVars, noticeVars, storeVars
<1>2. CASE FailWithoutChannel(p)
  <2>1. row' \in Tasks
    BY <1>2 DEF FailWithoutChannel, Tasks, Statuses
  <2> QED BY <1>2, <2>1, IdleTypes DEF FailWithoutChannel, submitVars, noticeVars, storeVars
<1>3. CASE NoAnswer(p) \/ PollerStops(p)
  BY <1>3, IdleTypes DEF NoAnswer, PollerStops, submitVars, noticeVars, storeVars
<1>4. ASSUME NEW s \in Reports, UpdateWithStatus(p, s)  PROVE MidjourneyRows'
  <2>1. Verdict(s) \in Statuses /\ copy[p] \in Tasks
    BY DEF Verdict, Reports, Statuses
  <2>2. Reported(copy[p], Verdict(s)) \in Tasks
    BY <2>1, ReportedTypes
  <2>3. row' \in Tasks
    BY <1>4, <2>2 DEF UpdateWithStatus
  <2>4. /\ at' \in [Pollers -> {"idle", "asked", "refund", "final"}]
        /\ copy' \in [Pollers -> Tasks]
    BY <1>4, <2>3, IdleTypes DEF UpdateWithStatus
  <2> QED BY <1>4, <2>3, <2>4 DEF UpdateWithStatus, submitVars, noticeVars, storeVars
<1>5. CASE RefundMidjourneyQuota(p)
  <2>1. 0 \in 0 .. Price /\ Price \in Int /\ \A v \in 0 .. Price : v \in Int
    BY MidjourneyAssumption
  <2>2. Marked \in Tasks
    BY <2>1 DEF Marked, Tasks
  <2>3. Returned \in Stores
    <3>1. row.reward \in Int /\ held \in Stores
      BY <2>1 DEF Tasks, Stores
    <3> DEFINE wallet == held.wallet - Price
               reward == held.reward - (IF row.recorded THEN row.reward ELSE 0)
               token == IF row.source = "wallet" THEN held.token - Price ELSE held.token
               back == [held EXCEPT !.wallet = wallet, !.reward = reward, !.token = token]
    <3>2. wallet \in Int /\ reward \in Int /\ token \in Int
      BY <2>1, <3>1 DEF Stores
    <3>3. back \in Stores
      <4> HIDE DEF wallet, reward, token
      <4> QED BY <3>1, <3>2 DEF Stores
    <3>4. [held EXCEPT !.subscription = 0] \in Stores
      BY <3>1 DEF Stores
    <3>5. Returned \in {held, [held EXCEPT !.subscription = 0], back}
      BY DEF Returned
    <3> HIDE DEF back
    <3> QED BY <3>1, <3>3, <3>4, <3>5
  <2>4. row' \in Tasks /\ held' \in Stores /\ returned' \in Nat \cup {NotYet}
    BY <1>5, <2>2, <2>3 DEF RefundMidjourneyQuota, RefundMidjourneyBilling, NoteReturn, Stores
  <2> QED BY <1>5, <2>4, IdleTypes DEF RefundMidjourneyQuota, Stores, submitVars, noticeVars
<1>6. CASE PollFinal(p)
  <2>1. row' \in Tasks /\ rebated' \in Nat
    BY <1>6, RebateTypes DEF PollFinal
  <2> QED BY <1>6, <2>1, IdleTypes DEF PollFinal, submitVars, noticeVars
<1> QED BY <1>1, <1>2, <1>3, <1>4, <1>5, <1>6 DEF PollNext

\* MidjourneyTypeOK for any price, loops, faults and notices, also where the
\* writers of the row overlap.
THEOREM MidjourneyTyped == Spec => []MidjourneyRows
<1>1. Init => MidjourneyRows
  <2>1. 0 \in 0 .. Price
    BY MidjourneyAssumption
  <2>2. NoTask \in Tasks
    BY <2>1 DEF NoTask, Tasks, Statuses
  <2> SUFFICES ASSUME Init  PROVE MidjourneyRows
    OBVIOUS
  <2>3. held \in [wallet : Int, reward : Int, token : Int, subscription : Int]
    BY DEF Init, Nothing
  <2>4. /\ copy \in [Pollers -> Tasks]
        /\ at \in [Pollers -> {"idle", "asked", "refund", "final"}]
    BY <2>2 DEF Init
  <2>5. MidjourneyTypeOK
    BY <2>2, <2>3, <2>4 DEF Init, MidjourneyTypeOK
  <2> QED BY <2>1, <2>5 DEF Init, MidjourneyRows
<1>2. MidjourneyRows /\ [Next]_vars => MidjourneyRows'
  <2> SUFFICES ASSUME MidjourneyRows, [Next]_vars  PROVE MidjourneyRows'
    OBVIOUS
  <2>1. CASE FailWithoutId
    <3>1. row' \in Tasks
      BY <2>1 DEF FailWithoutId, Tasks, Statuses, MidjourneyRows, MidjourneyTypeOK
    <3> QED BY <2>1, <3>1 DEF FailWithoutId, submitVars, pollVars, noticeVars, storeVars,
                              MidjourneyRows, MidjourneyTypeOK
  <2>2. ASSUME NEW s \in Reports, NotifyRead(s)  PROVE MidjourneyRows'
    <3>1. noticeCopy' \in Tasks
      BY <2>2, ReportedTypes DEF NotifyRead, Reports, Statuses, MidjourneyRows, MidjourneyTypeOK
    <3> QED BY <2>2, <3>1 DEF NotifyRead, submitVars, pollVars, storeVars,
                              MidjourneyRows, MidjourneyTypeOK
  <2>3. CASE NotifySave
    <3>1. NoTask \in Tasks
      BY MidjourneyAssumption DEF NoTask, Tasks, Statuses
    <3> QED BY <2>3, <3>1 DEF NotifySave, submitVars, pollVars, storeVars,
                              MidjourneyRows, MidjourneyTypeOK
  <2>4. CASE Age \/ UNCHANGED vars
    BY <2>4 DEF Age, vars, submitVars, pollVars, noticeVars, storeVars,
                MidjourneyRows, MidjourneyTypeOK
  <2> QED BY <2>1, <2>2, <2>3, <2>4, SubmitTypes, PollTypes DEF Next
<1> QED BY <1>1, <1>2, PTL DEF Spec

(***************************************************************************)
(* The refund.                                                             *)
(***************************************************************************)
\* A step that leaves the billing columns and the stores alone keeps what the
\* row says of them.
LEMMA QuietAccount ==
  ASSUME MidjourneyRows, StoresInv, SameBill(row', row),
         UNCHANGED <<funding, split, stored, held, returned, rebated>>
  PROVE  StoresInv'
BY DEF StoresInv, SameBill, Taken

\* Copies that agree with the row agree with one that differs in status only.
LEMMA SameBillChain ==
  ASSUME NEW a, NEW b, NEW c, SameBill(a, b), SameBill(b, c)
  PROVE  SameBill(a, c) /\ SameBill(c, b) /\ SameBill(a, a)
BY DEF SameBill

\* While the submission runs nobody else does, so it need not mind any copy.
LEMMA SubmitTurns ==
  ASSUME MidjourneyInv, submit # "done", UNCHANGED <<pollVars, noticeVars>>
  PROVE  TurnsInv' /\ CopiesInv'
BY DEF MidjourneyInv, TurnsInv, CopiesInv, pollVars, noticeVars

\* Before the row carries a snapshot the stores are the submission's business.
LEMMA UnstoredAccount ==
  ASSUME MidjourneyInv, submit # "done", stored' = "nothing", stored = "nothing",
         UNCHANGED <<rebated, returned>>, ~row'.recorded, ~row'.refunded
  PROVE  StoresInv'
BY DEF MidjourneyInv, SubmissionInv, StoresInv

\* The submission stores its billing columns.
LEMMA PersistAccount ==
  ASSUME MidjourneyRows, MidjourneyInv, submit # "done", NEW c \in Tasks,
         row' = persistMidjourneyBillingState(c),
         c.source = funding, ~c.refunded, funding # "free", held' = Taken,
         c.recorded => funding = "wallet" /\ c.reward = split /\ c.paid = Price - split,
         stored' # "nothing", stored' = "split" => c.recorded,
         UNCHANGED <<funding, split, returned>>
  PROVE  StoresInv' /\ ~row'.refunded /\ row'.status = row.status /\ row'.full = row.full
<1>1. /\ row'.source = c.source /\ row'.refunded = c.refunded /\ row'.recorded = c.recorded
      /\ row'.reward = c.reward /\ row'.paid = c.paid
      /\ row'.status = row.status /\ row'.full = row.full
  BY DEF persistMidjourneyBillingState, Tasks, MidjourneyRows, MidjourneyTypeOK
<1>2. returned' = NotYet
  BY DEF MidjourneyInv, SubmissionInv, StoresInv
<1>3. Taken' = Taken
  BY DEF Taken
<1> QED BY <1>1, <1>2, <1>3 DEF StoresInv

\* The steps up to the first attempt to store the snapshot.
LEMMA EarlySubmission ==
  ASSUME MidjourneyRows, MidjourneyInv,
         Reserves \/ RequestFails \/ Answers \/ Insert \/ SubmitStops
  PROVE  MidjourneyInv'
<1> USE DEF storeVars
<1>1. submit # "done" /\ ~row.refunded
  BY DEF Reserves, Reserve, RequestFails, Answers, RequestAnswered, Insert, SubmitStops,
         MidjourneyInv, SubmissionInv
<1>2. TurnsInv' /\ CopiesInv'
  BY <1>1, SubmitTurns DEF Reserves, Reserve, RequestFails, Answers, RequestAnswered, Insert,
                           SubmitStops
<1>3. ASSUME NEW k \in {"submit", "swap"}, NEW f \in {"wallet", "subscription", "free"},
             NEW r \in 0 .. Price, Reserve(k, f, r)
      PROVE  MidjourneyInv'
  <2>1. stored = "nothing" /\ ~row.recorded
    BY <1>3 DEF Reserve, MidjourneyInv, SubmissionInv, StoresInv
  <2>2. held' = Taken'
    <3>1. CASE f = "wallet"
      <4>1. held' = [wallet |-> Price, reward |-> r, token |-> Price, subscription |-> 0]
        BY <1>3, <3>1 DEF Reserve, Nothing
      <4>2. funding' = "wallet" /\ split' = r
        BY <1>3, <3>1 DEF Reserve
      <4> QED BY <4>1, <4>2 DEF Taken
    <3>2. CASE f = "subscription"
      <4>1. held' = [wallet |-> 0, reward |-> 0, token |-> 0, subscription |-> Price]
        BY <1>3, <3>2 DEF Reserve, Nothing
      <4>2. funding' = "subscription"
        BY <1>3, <3>2 DEF Reserve
      <4> QED BY <4>1, <4>2 DEF Taken
    <3>3. CASE f = "free"
      BY <1>3, <3>3 DEF Reserve, Taken
    <3> QED BY <3>1, <3>2, <3>3
  <2>3. StoresInv'
    BY <1>1, <1>3, <2>1, UnstoredAccount DEF Reserve
  <2>4. SubmissionInv' /\ ProgressInv'
    BY <1>1, <1>3, <2>1, <2>2 DEF Reserve, MidjourneyInv, SubmissionInv, ProgressInv, noticeVars
  <2> QED BY <1>2, <2>3, <2>4 DEF MidjourneyInv
<1>4. CASE RequestFails
  <2>1. stored = "nothing" /\ ~row.recorded
    BY <1>4 DEF RequestFails, MidjourneyInv, SubmissionInv, StoresInv
  <2>2. StoresInv'
    BY <1>1, <1>4, <2>1, UnstoredAccount DEF RequestFails
  <2>3. SubmissionInv' /\ ProgressInv'
    BY <1>4 DEF RequestFails, MidjourneyInv, SubmissionInv, ProgressInv, noticeVars
  <2> QED BY <1>2, <2>2, <2>3 DEF MidjourneyInv
<1>5. ASSUME NEW accepted \in BOOLEAN, NEW id \in BOOLEAN,
             NEW s \in {"", "IN_PROGRESS", "SUCCESS"}, RequestAnswered(accepted, id, s)
      PROVE  MidjourneyInv'
  <2>1. stored = "nothing" /\ ~row.recorded /\ held = Taken
    BY <1>5 DEF RequestAnswered, MidjourneyInv, SubmissionInv, StoresInv
  <2>2. StoresInv'
    BY <1>1, <1>5, <2>1, UnstoredAccount DEF RequestAnswered
  <2>3. Taken' = Taken
    BY <1>5 DEF RequestAnswered, Taken
  <2>4. /\ ~mine'.refunded /\ ~mine'.recorded /\ mine'.status = s
        /\ mine'.full = (s = "SUCCESS") /\ mine'.billed = (accepted /\ funding # "free")
    BY <1>5 DEF RequestAnswered, NoTask
  <2>5. SubmissionInv'
    BY <1>1, <1>5, <2>1, <2>3, <2>4 DEF RequestAnswered, SubmissionInv
  <2>6. ProgressInv'
    BY <1>5, <2>4 DEF RequestAnswered, MidjourneyInv, ProgressInv, noticeVars, Final
  <2> QED BY <1>2, <2>2, <2>5, <2>6 DEF MidjourneyInv
<1>6. CASE Insert
  <2>1. stored = "nothing" /\ ~row.recorded /\ ~mine.refunded /\ ~mine.recorded
    BY <1>6 DEF Insert, MidjourneyInv, SubmissionInv, StoresInv
  <2>2. ~row'.recorded /\ ~row'.refunded
    BY <1>1, <1>6, <2>1 DEF Insert
  <2>3. StoresInv'
    BY <1>1, <1>6, <2>1, <2>2, UnstoredAccount DEF Insert
  <2>4. Taken' = Taken
    BY <1>6 DEF Insert, Taken
  <2>5. SubmissionInv' /\ ProgressInv'
    BY <1>6, <2>1, <2>2, <2>4
       DEF Insert, MidjourneyInv, SubmissionInv, ProgressInv, noticeVars
  <2> QED BY <1>2, <2>3, <2>5 DEF MidjourneyInv
<1>7. CASE SubmitStops
  <2>1. StoresInv'
    BY <1>7 DEF SubmitStops, MidjourneyInv, StoresInv, Taken
  <2>2. SubmissionInv' /\ ProgressInv'
    BY <1>7 DEF SubmitStops, MidjourneyInv, SubmissionInv, ProgressInv, noticeVars
  <2> QED BY <1>2, <2>1, <2>2 DEF MidjourneyInv
<1> QED BY <1>3, <1>4, <1>5, <1>6, <1>7 DEF Reserves, Answers

\* The steps that store the snapshot, its split and the rebate.
LEMMA LateSubmission ==
  ASSUME MidjourneyRows, MidjourneyRows', MidjourneyInv,
         \/ RecordMidjourneyBilling \/ RecordMidjourneyWalletFunding
         \/ RecordAgain \/ SubmitFinal
  PROVE  MidjourneyInv'
<1> USE DEF storeVars
<1>1. submit # "done" /\ ~row.refunded /\ returned = NotYet
  BY DEF RecordMidjourneyBilling, RecordMidjourneyWalletFunding, RecordAgain, SubmitFinal,
         MidjourneyInv, SubmissionInv, StoresInv
<1>2. TurnsInv' /\ CopiesInv'
  BY <1>1, SubmitTurns DEF RecordMidjourneyBilling, RecordMidjourneyWalletFunding, RecordAgain,
                           SubmitFinal
<1>3. /\ Taken' = Taken /\ UNCHANGED <<kind, funding, split, returned>>
      /\ UNCHANGED <<noticeAt, noticeCopy>>
  BY DEF RecordMidjourneyBilling, RecordMidjourneyWalletFunding, RecordAgain, SubmitFinal, Taken,
         noticeVars
<1>4. mine \in Tasks /\ mine' \in Tasks /\ row \in Tasks
  BY DEF MidjourneyRows, MidjourneyTypeOK
<1>5. CASE RecordMidjourneyBilling
  <2>1. /\ stored = "nothing" /\ ~row.recorded /\ ~mine.refunded /\ ~mine.recorded
        /\ funding # "free" /\ held = Taken
    BY <1>5 DEF RecordMidjourneyBilling, MidjourneyInv, SubmissionInv, StoresInv
  <2>2. CASE stored' = "snapshot"
    <3>1. /\ row' = persistMidjourneyBillingState(mine') /\ held' = held
          /\ mine' = [mine EXCEPT !.source = funding]
          /\ submit' \in {"split", "done"}
      BY <1>5, <2>1, <2>2 DEF RecordMidjourneyBilling
    <3>2. /\ mine'.source = funding /\ ~mine'.refunded /\ ~mine'.recorded
          /\ mine'.status = mine.status /\ mine'.full = mine.full
      BY <1>4, <2>1, <3>1 DEF Tasks
    <3>3. StoresInv' /\ ~row'.refunded /\ row'.status = row.status /\ row'.full = row.full
      BY <1>1, <1>3, <1>4, <2>1, <2>2, <3>1, <3>2, PersistAccount
    <3>4. SubmissionInv' /\ ProgressInv'
      BY <1>3, <2>2, <3>1, <3>2, <3>3 DEF MidjourneyInv, SubmissionInv, ProgressInv
    <3> QED BY <1>2, <3>3, <3>4 DEF MidjourneyInv
  <2>3. CASE stored' # "snapshot"
    <3>1. /\ stored' = "nothing" /\ UNCHANGED <<mine, row, rebated>> /\ submit' = "done"
      BY <1>5, <2>1, <2>3 DEF RecordMidjourneyBilling
    <3>2. StoresInv'
      BY <1>1, <1>3, <2>1, <3>1, UnstoredAccount
    <3>3. SubmissionInv' /\ ProgressInv'
      BY <1>3, <3>1 DEF MidjourneyInv, SubmissionInv, ProgressInv
    <3> QED BY <1>2, <3>2, <3>3 DEF MidjourneyInv
  <2> QED BY <2>2, <2>3
<1>6. CASE ~RecordMidjourneyBilling
  <2>1. submit \in {"split", "again", "final"}
    BY <1>6 DEF RecordMidjourneyWalletFunding, RecordAgain, SubmitFinal
  <2>2. /\ stored # "nothing" /\ held = Taken /\ row.source = funding /\ funding # "free"
        /\ mine.source = funding /\ ~mine.refunded
        /\ mine.recorded => funding = "wallet" /\ mine.reward = split /\ mine.paid = Price - split
    BY <1>1, <2>1 DEF MidjourneyInv, SubmissionInv, StoresInv
  <2>3. CASE RecordMidjourneyWalletFunding
    <3>1. CASE funding = "wallet"
      <4>1. /\ mine' = [mine EXCEPT !.reward = split, !.paid = Price - split, !.recorded = TRUE]
            /\ StoreSplit /\ UNCHANGED <<held, rebated>> /\ submit' = "again"
        BY <2>3, <3>1 DEF RecordMidjourneyWalletFunding
      <4>2. /\ mine'.source = funding /\ ~mine'.refunded /\ mine'.recorded
            /\ mine'.reward = split /\ mine'.paid = Price - split
            /\ mine'.status = mine.status /\ mine'.full = mine.full
        BY <1>4, <2>2, <4>1 DEF Tasks
      <4>3. /\ StoresInv' /\ ~row'.refunded /\ row'.status = row.status /\ row'.full = row.full
            /\ stored' # "nothing"
        <5>1. CASE row' = persistMidjourneyBillingState(mine') /\ stored' = "split"
          <6>1. held' = Taken /\ stored' # "nothing" /\ (stored' = "split" => mine'.recorded)
            BY <2>2, <4>1, <4>2, <5>1
          <6>2. mine'.recorded =>
                  funding = "wallet" /\ mine'.reward = split /\ mine'.paid = Price - split
            BY <3>1, <4>2
          <6> QED BY <1>1, <1>3, <1>4, <2>2, <4>2, <5>1, <6>1, <6>2, PersistAccount
        <5>2. CASE UNCHANGED <<row, stored>>
          BY <1>1, <1>3, <2>2, <4>1, <5>2 DEF MidjourneyInv, StoresInv
        <5> QED BY <3>1, <4>1, <5>1, <5>2 DEF StoreSplit
      <4>4. SubmissionInv' /\ ProgressInv'
        BY <1>3, <3>1, <4>1, <4>2, <4>3 DEF MidjourneyInv, SubmissionInv, ProgressInv
      <4> QED BY <1>2, <4>3, <4>4 DEF MidjourneyInv
    <3>2. CASE funding # "wallet"
      <4>1. UNCHANGED <<mine, row, stored, held, rebated>> /\ submit' = "again"
        BY <2>3, <3>2 DEF RecordMidjourneyWalletFunding
      <4>2. StoresInv' /\ SubmissionInv' /\ ProgressInv'
        BY <1>1, <1>3, <2>2, <3>2, <4>1 DEF MidjourneyInv, StoresInv, SubmissionInv, ProgressInv
      <4> QED BY <1>2, <4>2 DEF MidjourneyInv
    <3> QED BY <3>1, <3>2
  <2>4. CASE RecordAgain
    <3>1. /\ StoreSplit /\ UNCHANGED <<mine, held, rebated>> /\ submit' \in {"final", "done"}
          /\ funding = "wallet" => mine.recorded
      BY <2>4 DEF RecordAgain, MidjourneyInv, SubmissionInv
    <3>2. /\ StoresInv' /\ ~row'.refunded /\ row'.status = row.status /\ row'.full = row.full
          /\ stored' # "nothing"
      <4>1. CASE row' = persistMidjourneyBillingState(mine')
        <5>1. stored' # "nothing" /\ (stored' = "split" => funding = "wallet")
          BY <2>2, <3>1 DEF StoreSplit, MidjourneyInv, StoresInv
        <5> QED BY <1>1, <1>3, <1>4, <2>2, <3>1, <4>1, <5>1, PersistAccount
      <4>2. CASE UNCHANGED <<row, stored>>
        BY <1>1, <1>3, <2>2, <3>1, <4>2 DEF MidjourneyInv, StoresInv
      <4> QED BY <3>1, <4>1, <4>2 DEF StoreSplit
    <3>3. SubmissionInv' /\ ProgressInv'
      BY <1>3, <2>2, <3>1, <3>2 DEF MidjourneyInv, SubmissionInv, ProgressInv
    <3> QED BY <1>2, <3>2, <3>3 DEF MidjourneyInv
  <2>5. CASE SubmitFinal
    <3>1. /\ FinalizeMidjourneyConsumeRebate(mine) /\ UNCHANGED <<mine, held, stored>>
          /\ submit' = "done" /\ (funding = "wallet" => mine.recorded)
      BY <2>5 DEF SubmitFinal, MidjourneyInv, SubmissionInv
    <3>2. StoresInv' /\ row'.status = row.status /\ row'.full = row.full
      <4>1. CASE UNCHANGED row
        BY <1>1, <1>3, <2>2, <3>1, <4>1 DEF MidjourneyInv, StoresInv
      <4>2. CASE row' = persistMidjourneyBillingState([mine EXCEPT !.rebateDone = TRUE])
        <5> DEFINE c == [mine EXCEPT !.rebateDone = TRUE]
        <5>1. /\ c \in Tasks /\ c.source = mine.source /\ c.refunded = mine.refunded
              /\ c.recorded = mine.recorded /\ c.reward = mine.reward /\ c.paid = mine.paid
          BY <1>4 DEF Tasks
        <5>2. row' = persistMidjourneyBillingState(c)
          BY <4>2
        <5>3. stored' # "nothing" /\ (stored' = "split" => funding = "wallet")
          BY <2>2, <3>1 DEF MidjourneyInv, StoresInv
        <5> HIDE DEF c
        <5> QED BY <1>1, <1>3, <2>2, <3>1, <5>1, <5>2, <5>3, PersistAccount
      <4> QED BY <3>1, <4>1, <4>2 DEF FinalizeMidjourneyConsumeRebate
    <3>3. SubmissionInv' /\ ProgressInv'
      BY <1>3, <3>1, <3>2 DEF MidjourneyInv, SubmissionInv, ProgressInv
    <3> QED BY <1>2, <3>2, <3>3 DEF MidjourneyInv
  <2> QED BY <1>6, <2>3, <2>4, <2>5
<1> QED BY <1>5, <1>6

\* The refund in its transaction, by the only loop that is past the end of the
\* task: everything the row says was taken comes back, and the marker is set.
LEMMA RefundAccount ==
  ASSUME MidjourneyRows, StoresInv, RefundMidjourneyBilling,
         UNCHANGED <<funding, split, stored, rebated>>
  PROVE  StoresInv' /\ row'.status = row.status /\ row'.full = row.full
<1>0. /\ row \in Tasks /\ held \in Stores /\ rebated \in Nat /\ Price \in Nat /\ split \in Int
      /\ NotYet \notin Nat
  BY MidjourneyAssumption DEF MidjourneyRows, MidjourneyTypeOK, Stores, NotYet
<1>1. CASE UNCHANGED <<held, row, returned>>
  BY <1>1 DEF StoresInv, Taken
<1>2. CASE ~row.refunded /\ held' = Returned /\ row' = Marked /\ NoteReturn
  <2>1. /\ row'.refunded /\ ~row'.recorded /\ row'.source = row.source
        /\ row'.status = row.status /\ row'.full = row.full
    BY <1>0, <1>2 DEF Marked, Tasks
  <2>2. returned' = rebated /\ rebated' = rebated /\ returned' # NotYet
    BY <1>0, <1>2 DEF NoteReturn, StoresInv
  <2>3. ASSUME stored # "nothing"
        PROVE  /\ held'.wallet = 0 /\ held'.token = 0 /\ held'.subscription = 0
               /\ stored = "split" => held'.reward = 0
    <3>1. held = Taken /\ row.source = funding /\ funding \in {"wallet", "subscription"}
      BY <1>2, <2>3 DEF StoresInv, MidjourneyRows
    <3>2. CASE funding = "wallet"
      <4>1. held = [wallet |-> Price, reward |-> split, token |-> Price, subscription |-> 0]
        BY <3>1, <3>2 DEF Taken
      <4>2. Returned = [held EXCEPT !.wallet = @ - Price,
                                    !.reward = @ - (IF row.recorded THEN row.reward ELSE 0),
                                    !.token = @ - Price]
        BY <3>1, <3>2 DEF Returned, RefundDue
      <4>3. stored = "split" => row.recorded /\ row.reward = split
        BY <1>2 DEF StoresInv
      <4>4. /\ held'.wallet = Price - Price /\ held'.token = Price - Price
            /\ held'.subscription = 0
            /\ held'.reward = split - (IF row.recorded THEN row.reward ELSE 0)
        BY <1>2, <4>1, <4>2
      <4> QED BY <1>0, <4>3, <4>4
    <3>3. CASE funding = "subscription"
      <4>1. held = [wallet |-> 0, reward |-> 0, token |-> 0, subscription |-> Price]
        BY <3>1, <3>3 DEF Taken
      <4>2. Returned = [held EXCEPT !.subscription = 0]
        BY <3>1, <3>3 DEF Returned, RefundDue
      <4> QED BY <1>2, <4>1, <4>2
    <3> QED BY <3>1, <3>2, <3>3
  <2> QED BY <1>2, <2>1, <2>2, <2>3 DEF StoresInv
<1> QED BY <1>1, <1>2 DEF RefundMidjourneyBilling

\* The rebate by the only loop that is past the end of the task: its copy is the
\* row, so nothing is rebated of a task that was given back, and no column is lost.
LEMMA RebateAccount ==
  ASSUME MidjourneyRows, StoresInv, NEW c \in Tasks, SameBill(c, row),
         FinalizeMidjourneyConsumeRebate(c),
         UNCHANGED <<funding, split, stored, held, returned>>
  PROVE  StoresInv' /\ row'.status = row.status /\ row'.full = row.full
<1>0. row \in Tasks
  BY DEF MidjourneyRows, MidjourneyTypeOK
<1>1. CASE ~RebateDue(c)
  BY <1>1 DEF FinalizeMidjourneyConsumeRebate, StoresInv, Taken
<1>2. CASE RebateDue(c)
  <2>1. returned = NotYet /\ row.recorded
    BY <1>2 DEF RebateDue, StoresInv, SameBill
  <2>2. /\ row'.source = row.source /\ row'.refunded = row.refunded
        /\ row'.recorded = row.recorded /\ row'.reward = row.reward /\ row'.paid = row.paid
        /\ row'.status = row.status /\ row'.full = row.full
    <3>1. CASE UNCHANGED row
      BY <3>1
    <3>2. CASE row' = persistMidjourneyBillingState([c EXCEPT !.rebateDone = TRUE])
      BY <1>0, <3>2 DEF persistMidjourneyBillingState, Tasks, SameBill
    <3> QED BY <1>2, <3>1, <3>2 DEF FinalizeMidjourneyConsumeRebate
  <2> QED BY <2>1, <2>2 DEF StoresInv, Taken
<1> QED BY <1>1, <1>2

\* The loops: one of them, p, takes a step while neither the submission nor a
\* notice is at work.
LEMMA PollInv ==
  ASSUME MidjourneyRows, MidjourneyInv, ~Overlap, NEW p \in Pollers, PollNext(p)
  PROVE  MidjourneyInv'
<1> USE DEF storeVars, submitVars, noticeVars
<1>0. /\ row \in Tasks /\ copy \in [Pollers -> Tasks]
      /\ at \in [Pollers -> {"idle", "asked", "refund", "final"}]
  BY DEF MidjourneyRows, MidjourneyTypeOK
<1>1. submit = "done" /\ noticeAt = "idle"
  BY DEF PollNext, Load, MayRead, FailWithoutChannel, NoAnswer, UpdateWithStatus,
         RefundMidjourneyQuota, PollFinal, PollerStops, MidjourneyInv, TurnsInv, MidjourneyRows
<1>2. UNCHANGED <<submit, mine, noticeAt, noticeCopy, funding, split, stored>>
  BY DEF PollNext, Load, FailWithoutChannel, NoAnswer, UpdateWithStatus,
         RefundMidjourneyQuota, PollFinal, PollerStops
<1>3. SubmissionInv'
  BY <1>1, <1>2 DEF SubmissionInv
<1>4. CASE Load(p)
  <2>1. /\ UNCHANGED <<row, held, rebated, returned>> /\ ~row.full
        /\ at' = [at EXCEPT ![p] = "asked"] /\ copy' = [copy EXCEPT ![p] = row]
    BY <1>4 DEF Load
  <2>2. ProgressInv' /\ StoresInv'
    BY <1>2, <2>1, QuietAccount DEF MidjourneyInv, ProgressInv, SameBill
  <2>3. TurnsInv' /\ CopiesInv'
    BY <1>0, <1>1, <1>2, <2>1
       DEF MidjourneyInv, TurnsInv, CopiesInv, ProgressInv, SameBill
  <2> QED BY <1>3, <2>2, <2>3 DEF MidjourneyInv
<1>5. ASSUME Idle(p), UNCHANGED row, UNCHANGED <<held, rebated, returned>>
      PROVE  MidjourneyInv'
  <2>1. at'[p] = "idle" /\ \A q \in Pollers \ {p} : at'[q] = at[q] /\ copy'[q] = copy[q]
    BY <1>5, IdleTypes
  <2>2. ProgressInv' /\ StoresInv'
    BY <1>2, <1>5, QuietAccount DEF MidjourneyInv, ProgressInv, SameBill
  <2>3. TurnsInv' /\ CopiesInv'
    BY <1>1, <1>2, <1>5, <2>1 DEF MidjourneyInv, TurnsInv, CopiesInv
  <2> QED BY <1>3, <2>2, <2>3 DEF MidjourneyInv
<1>6. CASE FailWithoutChannel(p)
  <2>1. /\ row'.status = "FAILURE" /\ row'.full /\ SameBill(row', row)
        /\ UNCHANGED <<held, rebated, returned>> /\ Idle(p)
    BY <1>0, <1>6 DEF FailWithoutChannel, Tasks, SameBill
  <2>2. at'[p] = "idle" /\ \A q \in Pollers \ {p} : at'[q] = at[q] /\ copy'[q] = copy[q]
    BY <2>1, IdleTypes
  <2>3. ProgressInv' /\ StoresInv'
    BY <1>2, <2>1, QuietAccount DEF MidjourneyInv, ProgressInv, Final
  <2>4. TurnsInv' /\ CopiesInv'
    BY <1>1, <1>2, <2>1, <2>2 DEF MidjourneyInv, TurnsInv, CopiesInv, SameBill
  <2> QED BY <1>3, <2>3, <2>4 DEF MidjourneyInv
<1>7. ASSUME NEW s \in Reports, UpdateWithStatus(p, s), row.status = copy[p].status,
             row' = Reported(copy[p], Verdict(s))
      PROVE  MidjourneyInv'
  <2>1. at[p] = "asked" /\ copy[p].status \notin Final /\ ~row.full /\ SameBill(copy[p], row)
    BY <1>7 DEF UpdateWithStatus, MidjourneyInv, CopiesInv, ProgressInv
  <2>2. Verdict(s) \in Statuses /\ copy[p] \in Tasks
    BY <1>0 DEF Verdict, Reports, Statuses
  <2>3. SameBill(row', copy[p]) /\ (row'.full <=> row'.status \in Final)
    BY <1>7, <2>2, ReportedTypes
  <2>4. SameBill(row', row)
    BY <2>1, <2>3 DEF SameBill
  <2>5. UNCHANGED <<held, rebated, returned>>
    BY <1>7 DEF UpdateWithStatus
  <2>6. ProgressInv' /\ StoresInv'
    BY <1>2, <2>3, <2>4, <2>5, QuietAccount DEF MidjourneyInv, ProgressInv
  <2>7. \A q \in Pollers : at[q] \notin {"refund", "final"}
    BY <2>1 DEF MidjourneyInv, CopiesInv
  <2>8. /\ at'[p] \in {"idle", "refund", "final"}
        /\ at'[p] \in {"refund", "final"} => copy'[p] = row' /\ row'.status \in Final
        /\ \A q \in Pollers \ {p} : at'[q] = at[q] /\ copy'[q] = copy[q]
    <3>1. CASE Idle(p)
      BY <3>1, IdleTypes
    <3>2. CASE ~Idle(p)
      BY <1>0, <1>7, <3>2 DEF UpdateWithStatus, Final
    <3> QED BY <3>1, <3>2
  <2>9. TurnsInv'
    BY <1>1, <1>2, <2>7, <2>8 DEF TurnsInv
  <2>10. CopiesInv'
    BY <1>1, <1>2, <2>3, <2>4, <2>7, <2>8, <2>1
       DEF MidjourneyInv, CopiesInv, SameBill
  <2> QED BY <1>3, <2>6, <2>9, <2>10 DEF MidjourneyInv
<1>8. ASSUME at[p] \in {"refund", "final"}, Idle(p), StoresInv',
             row'.status = row.status, row'.full = row.full
      PROVE  MidjourneyInv'
  <2>1. at'[p] = "idle" /\ \A q \in Pollers \ {p} : at'[q] = at[q] /\ copy'[q] = copy[q]
    BY <1>8, IdleTypes
  <2>2. row.full /\ \A q \in Pollers \ {p} : at[q] \notin {"refund", "final"}
    BY <1>8 DEF MidjourneyInv, TurnsInv, CopiesInv
  <2>3. ProgressInv'
    BY <1>2, <1>8 DEF MidjourneyInv, ProgressInv
  <2>4. TurnsInv' /\ CopiesInv'
    BY <1>1, <1>2, <1>8, <2>1, <2>2 DEF MidjourneyInv, TurnsInv, CopiesInv
  <2> QED BY <1>3, <1>8, <2>3, <2>4 DEF MidjourneyInv
<1>9. CASE RefundMidjourneyQuota(p)
  <2>1. at[p] = "refund" /\ Idle(p) /\ rebated' = rebated
    BY <1>9 DEF RefundMidjourneyQuota
  <2>2. CASE RefundMidjourneyBilling
    <3>1. StoresInv' /\ row'.status = row.status /\ row'.full = row.full
      BY <1>2, <2>1, <2>2, RefundAccount DEF MidjourneyInv
    <3> QED BY <1>8, <2>1, <3>1
  <2>3. CASE UNCHANGED <<held, row, returned>>
    BY <1>5, <2>1, <2>3
  <2> QED BY <1>9, <2>2, <2>3 DEF RefundMidjourneyQuota
<1>10. CASE PollFinal(p)
  <2>1. /\ at[p] = "final" /\ Idle(p) /\ UNCHANGED <<held, returned>>
        /\ FinalizeMidjourneyConsumeRebate(copy[p])
    BY <1>10 DEF PollFinal
  <2>2. copy[p] \in Tasks /\ SameBill(copy[p], row)
    BY <1>0, <2>1 DEF MidjourneyInv, CopiesInv
  <2>3. StoresInv' /\ row'.status = row.status /\ row'.full = row.full
    BY <1>2, <2>1, <2>2, RebateAccount DEF MidjourneyInv
  <2> QED BY <1>8, <2>1, <2>3
<1>11. ASSUME NEW s \in Reports, UpdateWithStatus(p, s)  PROVE MidjourneyInv'
  <2>1. CASE Idle(p) /\ UNCHANGED row
    BY <1>5, <1>11, <2>1 DEF UpdateWithStatus
  <2>2. CASE row.status = copy[p].status /\ row' = Reported(copy[p], Verdict(s))
    BY <1>7, <1>11, <2>2
  <2> QED BY <1>11, <2>1, <2>2 DEF UpdateWithStatus
<1>12. CASE NoAnswer(p) \/ PollerStops(p)
  BY <1>5, <1>12 DEF NoAnswer, PollerStops
<1> QED BY <1>4, <1>6, <1>9, <1>10, <1>11, <1>12 DEF PollNext

\* RefundExact for any price and any number of loops, faults and notices, where
\* the writers of the row take turns: a task whose snapshot reached its row is
\* given back at most once, to whoever paid and completely, and nothing is
\* rebated of it afterwards.
THEOREM RefundsAreExact ==
  ASSUME ~Overlap
  PROVE  Spec => []RefundExact
<1>1. Init => MidjourneyInv
  <2> SUFFICES ASSUME Init  PROVE MidjourneyInv
    OBVIOUS
  <2>1. ProgressInv
    BY DEF Init, NoTask, Final, ProgressInv
  <2>2. TurnsInv /\ CopiesInv
    BY DEF Init, TurnsInv, CopiesInv
  <2>3. SubmissionInv /\ StoresInv
    BY DEF Init, NoTask, Taken, SubmissionInv, StoresInv
  <2> QED BY <2>1, <2>2, <2>3 DEF MidjourneyInv
<1>2. MidjourneyRows /\ MidjourneyRows' /\ MidjourneyInv /\ [Next]_vars => MidjourneyInv'
  <2> SUFFICES ASSUME MidjourneyRows, MidjourneyRows', MidjourneyInv, [Next]_vars
               PROVE  MidjourneyInv'
    OBVIOUS
  <2> USE DEF storeVars, submitVars, pollVars
  <2>0. row \in Tasks
    BY DEF MidjourneyRows, MidjourneyTypeOK
  <2>1. CASE FailWithoutId
    <3>1. /\ row'.status = "FAILURE" /\ row'.full /\ SameBill(row', row)
          /\ noticeAt = "idle" /\ submit = "done"
      BY <2>0, <2>1 DEF FailWithoutId, MayRead, Tasks, SameBill
    <3>2. UNCHANGED <<submitVars, pollVars, noticeVars, storeVars, stored>>
      BY <2>1 DEF FailWithoutId
    <3>3. StoresInv' /\ ProgressInv' /\ SubmissionInv'
      BY <3>1, <3>2, QuietAccount DEF MidjourneyInv, ProgressInv, SubmissionInv, Final, noticeVars
    <3>4. TurnsInv' /\ CopiesInv'
      BY <3>1, <3>2 DEF MidjourneyInv, TurnsInv, CopiesInv, SameBill, noticeVars
    <3> QED BY <3>3, <3>4 DEF MidjourneyInv
  <2>2. ASSUME NEW s \in Reports, NotifyRead(s)  PROVE MidjourneyInv'
    <3>1. /\ noticeCopy' = Reported(row, s) /\ noticeAt' = "save" /\ submit = "done"
          /\ \A p \in Pollers : at[p] = "idle"
          /\ UNCHANGED <<submitVars, row, pollVars, storeVars, stored>>
      BY <2>2 DEF NotifyRead
    <3>2. SameBill(noticeCopy', row) /\ (noticeCopy'.full <=> noticeCopy'.status \in Final)
      <4>1. s \in Statuses
        BY DEF Reports, Statuses
      <4>2. /\ SameBill(Reported(row, s), row)
            /\ Reported(row, s).full <=> Reported(row, s).status \in Final
        BY <2>0, <4>1, ReportedTypes
      <4> QED BY <3>1, <4>2
    <3>3. StoresInv' /\ ProgressInv' /\ SubmissionInv'
      BY <3>1, <3>2 DEF MidjourneyInv, ProgressInv, SubmissionInv, StoresInv, Taken
    <3>4. TurnsInv' /\ CopiesInv'
      BY <3>1, <3>2 DEF MidjourneyInv, TurnsInv, CopiesInv, SameBill
    <3> QED BY <3>3, <3>4 DEF MidjourneyInv
  <2>3. CASE NotifySave
    <3>1. /\ noticeAt = "save" /\ noticeAt' = "idle" /\ noticeCopy' = NoTask
          /\ row' \in {row, noticeCopy}
          /\ UNCHANGED <<submitVars, pollVars, storeVars, stored>>
      BY <2>3 DEF NotifySave
    <3>2. SameBill(noticeCopy, row) /\ submit = "done" /\ \A p \in Pollers : at[p] = "idle"
      BY <3>1 DEF MidjourneyInv, TurnsInv, CopiesInv
    <3>3. SameBill(row', row)
      BY <3>1, <3>2 DEF SameBill
    <3>4. StoresInv' /\ SubmissionInv'
      BY <3>1, <3>2, <3>3, QuietAccount DEF MidjourneyInv, SubmissionInv
    <3>5. ProgressInv'
      BY <3>1 DEF MidjourneyInv, ProgressInv, NoTask, Final
    <3>6. TurnsInv' /\ CopiesInv'
      BY <3>1, <3>2 DEF MidjourneyInv, TurnsInv, CopiesInv
    <3> QED BY <3>4, <3>5, <3>6 DEF MidjourneyInv
  <2>4. CASE Age \/ UNCHANGED vars
    BY <2>4 DEF Age, vars, noticeVars, MidjourneyInv, ProgressInv, TurnsInv, CopiesInv,
                SubmissionInv, StoresInv, Taken
  <2> QED BY <2>1, <2>2, <2>3, <2>4, EarlySubmission, LateSubmission, PollInv
          DEF Next, SubmitNext
<1>3. MidjourneyRows /\ MidjourneyInv => RefundExact
  <2> SUFFICES ASSUME MidjourneyRows, StoresInv  PROVE RefundExact
    BY DEF MidjourneyInv
  <2>1. Price \in Nat /\ split \in Nat
    BY MidjourneyAssumption DEF MidjourneyRows
  <2> QED BY <2>1 DEF StoresInv, RefundExact, Taken, MidjourneyRows
<1> QED BY <1>1, <1>2, <1>3, MidjourneyTyped, PTL DEF Spec
=============================================================================
