----------------------------- MODULE TokenQuota -----------------------------
(***************************************************************************)
(* The quota of one limited API token (model/token.go) with its Redis copy *)
(* (model/token_cache.go, common/redis.go) and the batch updater           *)
(* (model/utils.go).                                                       *)
(*                                                                         *)
(* The row in the database is changed by relative updates; requests read   *)
(* the copy when there is one.  Nothing keeps the two in step: a reader    *)
(* that missed the copy writes the row it read by a goroutine, a change of *)
(* quota is added to the copy by another, and either may run late.  The    *)
(* TTL of the copy is what ends a disagreement.                            *)
(*                                                                         *)
(* Requests paid by a subscription leave the token alone and are left out. *)
(* What a session takes and returns is BillingSession's subject; here a    *)
(* request reserves, then settles to some amount.                          *)
(***************************************************************************)
EXTENDS Integers, FiniteSets

CONSTANTS
  Requests,            \* requests in flight at most
  Jobs,                \* goroutines of the pool that write to Redis (bound)
  Quota,               \* what a request reserves
  MaxExtra,            \* by how much settlement may exceed the reservation
  InitialQuota,        \* remain_quota of the new token
  TTL,                 \* RedisKeyCacheSeconds
  Settings,            \* the settings of the process that are looked at
  MaxRequests,         \* requests served, by RedisEnabled (bound)
  MaxEdits,            \* calls of UpdateToken and DeleteToken (bound)
  MaxFaults            \* database errors and process ends (bound)

ASSUME TokenAssumption ==
  /\ IsFiniteSet(Requests) /\ Requests # {}
  /\ Quota \in Nat \ {0} /\ MaxExtra \in Nat /\ InitialQuota \in Nat
  /\ TTL \in Nat \ {0}
  /\ Settings \subseteq [redis : BOOLEAN, batch : BOOLEAN]
  /\ MaxRequests \in [BOOLEAN -> Nat] /\ MaxEdits \in Nat /\ MaxFaults \in Nat

\* Token status; a copy that HINCRBY created holds RemainQuota alone, and
\* RedisHGetObj leaves its status 0.
Statuses == {"enabled", "disabled", "exhausted"}
NoStatus == "0"

NoCopy == [there |-> FALSE, remain |-> 0, status |-> NoStatus, left |-> 0]
NothingSeen == [remain |-> 0, status |-> NoStatus]
NoEdit == [at |-> "idle", remain |-> 0, status |-> NoStatus, used |-> 0]
Free == [do |-> "free", remain |-> 0, status |-> NoStatus, ttl |-> 0]
NotDraining == [on |-> FALSE, value |-> 0]

VARIABLES
  RedisEnabled, BatchUpdateEnabled,  \* settings of the process, fixed
  row,       \* the row: live until it is deleted (softly), remain, used, status
  copy,      \* the hash in Redis and what is left of its TTL
  jobs,      \* the goroutines that will write to Redis
  batch,     \* the batch updater's entry of the token, a change of remain
  draining,  \* the entry batchUpdate took out of the map and writes
  at, seen,  \* each request: where it is and the token it read
  held,      \* what its session holds of the token
  editor,    \* UpdateToken or DeleteToken between its read and its write
  served, edits, faults,  \* counters of the bounds
  charged,   \* what callers were told was taken, less what was returned (history)
  lost       \* batched changes that never reached the row (history)

counters == <<served, edits, faults>>
vars == <<row, copy, jobs, batch, draining, at, seen, held, editor, counters,
          charged, lost>>

-----------------------------------------------------------------------------
(* Goroutines that write to Redis                                          *)

\* gopool.Go: some free goroutine takes the job.
Spawn(job) == \E j \in Jobs : jobs[j] = Free /\ jobs' = [jobs EXCEPT ![j] = job]
SpawnIfRedis(job) == IF RedisEnabled THEN Spawn(job) ELSE UNCHANGED jobs

SetJob(token) == [do |-> "set", remain |-> token.remain, status |-> token.status, ttl |-> 0]
IncrJob(delta) == [do |-> "ttl", remain |-> delta, status |-> NoStatus, ttl |-> 0]
DelJob == [do |-> "del", remain |-> 0, status |-> NoStatus, ttl |-> 0]

untouchedByJobs ==
  <<row, batch, draining, at, seen, held, editor, counters, charged, lost>>

\* RedisHSetObj writes the fields and the expiry in one transaction.
RedisHSetObj(j) ==
  /\ jobs[j].do = "set"
  /\ copy' = [there |-> TRUE, remain |-> jobs[j].remain,
              status |-> jobs[j].status, left |-> TTL]
  /\ jobs' = [jobs EXCEPT ![j] = Free]
  /\ UNCHANGED untouchedByJobs

RedisDelKey(j) ==
  /\ jobs[j].do = "del"
  /\ copy' = NoCopy
  /\ jobs' = [jobs EXCEPT ![j] = Free]
  /\ UNCHANGED untouchedByJobs

\* RedisHIncrBy first asks for the TTL, and gives up unless there is one.
RedisTTL(j) ==
  /\ jobs[j].do = "ttl"
  /\ jobs' = [jobs EXCEPT ![j] =
       IF copy.left > 0 THEN [@ EXCEPT !.do = "incr", !.ttl = copy.left] ELSE Free]
  /\ UNCHANGED <<copy, untouchedByJobs>>

\* Slip: HINCRBY alone, which keeps the TTL of a key that exists.
RedisHIncrByOnly(j) ==
  /\ jobs[j].do = "incr"
  /\ copy' = [copy EXCEPT !.there = TRUE, !.remain = @ + jobs[j].remain]
  /\ jobs' = [jobs EXCEPT ![j] = Free]
  /\ UNCHANGED untouchedByJobs

\* Then HINCRBY and EXPIRE with that TTL in one transaction.  A key that is
\* gone by now comes back with the one field.
RedisHIncrBy(j) ==
  /\ jobs[j].do = "incr"
  /\ copy' = [copy EXCEPT !.there = TRUE, !.remain = @ + jobs[j].remain,
                          !.left = jobs[j].ttl]
  /\ jobs' = [jobs EXCEPT ![j] = Free]
  /\ UNCHANGED untouchedByJobs

JobStep(j) == RedisHSetObj(j) \/ RedisDelKey(j) \/ RedisTTL(j) \/ RedisHIncrBy(j)

\* Redis: a second of the TTL passes.  A key without a TTL (left is 0) stays.
Expire ==
  /\ copy.left > 0
  /\ copy' = IF copy.left = 1 THEN NoCopy ELSE [copy EXCEPT !.left = @ - 1]
  /\ UNCHANGED <<jobs, untouchedByJobs>>

-----------------------------------------------------------------------------
(* Changes of the quota                                                    *)

\* increaseTokenQuota and decreaseTokenQuota; a deleted row does not match.
Moved(delta) ==
  IF row.live THEN [row EXCEPT !.remain = @ + delta, !.used = @ - delta] ELSE row

\* IncreaseTokenQuota (delta > 0) and DecreaseTokenQuota (delta < 0): the
\* copy's goroutine, then the batch entry or the row.
ChangeTokenQuota(delta) ==
  /\ SpawnIfRedis(IncrJob(delta))
  /\ IF BatchUpdateEnabled
     THEN batch' = batch + delta /\ UNCHANGED row
     ELSE row' = Moved(delta) /\ UNCHANGED batch
  /\ charged' = charged - delta

\* The statement fails after the goroutine was started.
ChangeFails(delta) ==
  /\ ~BatchUpdateEnabled /\ faults < MaxFaults
  /\ faults' = faults + 1
  /\ SpawnIfRedis(IncrJob(delta))
  /\ UNCHANGED <<row, batch, charged>>

\* batchUpdate: swap the map under its lock, then write what was in it.  An
\* error is logged and the entry is gone.
BatchTake ==
  /\ ~draining.on /\ batch # 0
  /\ draining' = [on |-> TRUE, value |-> batch]
  /\ batch' = 0
  /\ UNCHANGED <<row, copy, jobs, at, seen, held, editor, counters, charged, lost>>

BatchWrite ==
  /\ draining.on
  /\ draining' = NotDraining
  /\ \/ row' = Moved(draining.value) /\ UNCHANGED <<faults, lost>>
     \/ /\ faults < MaxFaults
        /\ faults' = faults + 1
        /\ lost' = lost + draining.value
        /\ UNCHANGED row
  /\ UNCHANGED <<copy, jobs, batch, at, seen, held, editor, served, edits, charged>>

-----------------------------------------------------------------------------
(* Requests                                                                *)

untouchedByReads == <<copy, batch, draining, editor, held, charged, lost, edits, faults>>

\* Request r goes on to p; one that is over keeps nothing of what it read.
Goto(r, p) ==
  /\ at' = [at EXCEPT ![r] = p]
  /\ seen' = [seen EXCEPT ![r] = IF p \in {"idle", "running"} THEN NothingSeen ELSE @]

\* GetTokenByKey: the copy if there is one, else the row, and then the copy
\* is written from it.  The request goes to hit with the token, or to miss
\* when the key is unknown.
GetTokenByKey(r, from, hit, miss) ==
  /\ at[r] = from
  /\ \/ /\ RedisEnabled /\ copy.there
        /\ seen' = [seen EXCEPT ![r] = [remain |-> copy.remain, status |-> copy.status]]
        /\ at' = [at EXCEPT ![r] = hit]
        /\ UNCHANGED jobs
     \/ /\ ~(RedisEnabled /\ copy.there) /\ row.live
        /\ seen' = [seen EXCEPT ![r] = [remain |-> row.remain, status |-> row.status]]
        /\ at' = [at EXCEPT ![r] = hit]
        /\ SpawnIfRedis(SetJob(row))
     \/ /\ ~(RedisEnabled /\ copy.there) /\ ~row.live
        /\ Goto(r, miss)
        /\ UNCHANGED jobs
  /\ UNCHANGED <<row, untouchedByReads>>

\* TokenAuth: ValidateUserTokenInProvider reads the token ...
Authenticate(r) ==
  /\ served < MaxRequests[RedisEnabled]
  /\ GetTokenByKey(r, "idle", "validate", "idle")
  /\ served' = served + 1

\* ... and validateUserTokenRecordWithQuota looks at it.  Without Redis it
\* stores that a token is exhausted (SelectUpdate writes the status alone).
Validate(r) ==
  /\ at[r] = "validate"
  /\ \/ /\ seen[r].status = "enabled" /\ seen[r].remain > 0
        /\ Goto(r, "reserve")
        /\ UNCHANGED row
     \/ /\ seen[r].status # "enabled" \/ seen[r].remain <= 0
        /\ Goto(r, "idle")
        /\ row' = IF ~RedisEnabled /\ seen[r].status = "enabled" /\ row.live
                  THEN [row EXCEPT !.status = "exhausted"] ELSE row
  /\ UNCHANGED <<jobs, untouchedByReads, served>>

\* PreConsumeTokenQuota reads the token again ...
ReadAgain(r) ==
  GetTokenByKey(r, "reserve", "check", "idle") /\ UNCHANGED served

untouchedByChange == <<copy, draining, editor, served, edits, lost>>

\* Slip: the reservation is not compared with what is left.
PreConsumeUnchecked(r) ==
  /\ at[r] = "check"
  /\ ChangeTokenQuota(-Quota)
  /\ Goto(r, "running")
  /\ held' = [held EXCEPT ![r] = Quota]
  /\ UNCHANGED <<untouchedByChange, faults>>

\* ... and refuses, or decreases the quota by a statement of its own.
PreConsumeTokenQuota(r) ==
  /\ at[r] = "check"
  /\ \/ /\ seen[r].remain < Quota
        /\ Goto(r, "idle")
        /\ UNCHANGED <<row, batch, jobs, charged, held, faults>>
     \/ /\ seen[r].remain >= Quota
        /\ ChangeTokenQuota(-Quota)
        /\ Goto(r, "running")
        /\ held' = [held EXCEPT ![r] = Quota]
        /\ UNCHANGED faults
     \/ /\ seen[r].remain >= Quota
        /\ ChangeFails(-Quota)
        /\ Goto(r, "idle")
        /\ UNCHANGED held
  /\ UNCHANGED untouchedByChange

\* The session settles to an actual amount, or returns everything.
Settle(r) ==
  /\ at[r] = "running"
  /\ \E actual \in 0 .. Quota + MaxExtra :
       IF actual = held[r] THEN UNCHANGED <<row, batch, jobs, charged>>
                           ELSE ChangeTokenQuota(held[r] - actual)
  /\ Goto(r, "idle")
  /\ held' = [held EXCEPT ![r] = 0]
  /\ UNCHANGED <<untouchedByChange, faults>>

RequestStep(r) ==
  Authenticate(r) \/ Validate(r) \/ ReadAgain(r) \/ PreConsumeTokenQuota(r) \/ Settle(r)

-----------------------------------------------------------------------------
(* The owner                                                               *)

untouchedByOwner ==
  <<copy, batch, draining, at, seen, held, served, faults, charged, lost>>

\* UpdateToken reads the row and keeps the quota or sets a new one.
EditRead ==
  /\ editor.at = "idle" /\ edits < MaxEdits /\ row.live
  /\ edits' = edits + 1
  /\ \/ \E s \in {"enabled", "disabled"} :
          /\ s = "enabled" => ~(row.status = "exhausted" /\ row.remain <= 0)
          /\ editor' = [at |-> "write", remain |-> row.remain, status |-> s, used |-> row.used]
     \/ editor' = [at |-> "write", remain |-> InitialQuota, status |-> row.status, used |-> row.used]
  /\ UNCHANGED <<row, jobs, untouchedByOwner>>

\* Slip: Update writes every column it read.
UpdateAll ==
  /\ editor.at = "write"
  /\ editor' = NoEdit
  /\ row' = IF row.live THEN [row EXCEPT !.remain = editor.remain, !.used = editor.used,
                                         !.status = editor.status] ELSE row
  /\ SpawnIfRedis(SetJob(editor))
  /\ UNCHANGED <<edits, untouchedByOwner>>

\* Token.Update writes the selected columns of that copy, remain_quota among
\* them also when only the status was to change, and then the Redis copy.
Update ==
  /\ editor.at = "write"
  /\ editor' = NoEdit
  /\ row' = IF row.live THEN [row EXCEPT !.remain = editor.remain,
                                         !.status = editor.status] ELSE row
  /\ SpawnIfRedis(SetJob(editor))
  /\ UNCHANGED <<edits, untouchedByOwner>>

\* DeleteTokenById: the row, then by a goroutine the copy.
Delete ==
  /\ row.live /\ edits < MaxEdits
  /\ edits' = edits + 1
  /\ row' = [row EXCEPT !.live = FALSE]
  /\ SpawnIfRedis(DelJob)
  /\ UNCHANGED <<editor, untouchedByOwner>>

\* The process ends: goroutines, requests and the batch entry are gone.
ProcessEnds ==
  /\ faults < MaxFaults
  /\ faults' = faults + 1
  /\ jobs' = [j \in Jobs |-> Free]
  /\ lost' = lost + batch + draining.value
  /\ batch' = 0 /\ draining' = NotDraining
  /\ at' = [r \in Requests |-> "idle"]
  /\ held' = [r \in Requests |-> 0]
  /\ editor' = NoEdit
  /\ seen' = [r \in Requests |-> NothingSeen]
  /\ UNCHANGED <<row, copy, served, edits, charged>>

-----------------------------------------------------------------------------
Init ==
  /\ \E s \in Settings : RedisEnabled = s.redis /\ BatchUpdateEnabled = s.batch
  /\ row = [live |-> TRUE, remain |-> InitialQuota, used |-> 0, status |-> "enabled"]
  /\ copy = NoCopy
  /\ jobs = [j \in Jobs |-> Free]
  /\ batch = 0 /\ draining = NotDraining
  /\ at = [r \in Requests |-> "idle"]
  /\ seen = [r \in Requests |-> NothingSeen]
  /\ held = [r \in Requests |-> 0]
  /\ editor = NoEdit
  /\ served = 0 /\ edits = 0 /\ faults = 0
  /\ charged = 0 /\ lost = 0

settings == <<RedisEnabled, BatchUpdateEnabled>>

Next ==
  /\ \/ \E r \in Requests : RequestStep(r)
     \/ \E j \in Jobs : JobStep(j)
     \/ BatchTake \/ BatchWrite \/ Expire
     \/ EditRead \/ Update \/ Delete \/ ProcessEnds
  /\ UNCHANGED settings

\* Goroutines run, requests end, the batch updater wakes up and time passes.
Fairness ==
  /\ \A j \in Jobs : WF_vars(JobStep(j))
  /\ \A r \in Requests :
       WF_vars(Validate(r) \/ ReadAgain(r) \/ PreConsumeTokenQuota(r) \/ Settle(r))
  /\ WF_vars(BatchTake \/ BatchWrite)
  /\ WF_vars(Expire)

Spec == Init /\ [][Next]_<<vars, settings>> /\ Fairness

-----------------------------------------------------------------------------
(* Properties                                                              *)

\* The used quota of a token that exists is exactly what its requests were
\* charged, up to what the batch updater still carries or has dropped:
\* concurrent charges, an entry swapped out while another is added, and an
\* owner who writes a row read before a charge do not disturb it.
UsedIsCharged ==
  row.live => row.used - batch - draining.value - lost = charged

\* Without Redis and batching, and as long as the owner edits nothing,
\* requests that pass the check together can overdraw a limited token, but
\* only by what can be in flight: all but one reservation, and what
\* settlements add (PreConsumeTokenQuota).
OverdraftBounded ==
  ~RedisEnabled /\ ~BatchUpdateEnabled /\ edits = 0 => row.remain >=
    - (Cardinality(Requests) - 1) * Quota - Cardinality(Requests) * MaxExtra

\* A deleted token ends: once its requests are over no copy of it is left
\* for GetTokenByKey to find, although late goroutines may write the copy
\* again after cacheDeleteToken.
DeletedIsForgotten == <>[](~row.live => ~copy.there)

=============================================================================
