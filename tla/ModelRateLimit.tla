--------------------------- MODULE ModelRateLimit ---------------------------
(***************************************************************************)
(* ModelRequestRateLimit of middleware/model-rate-limit.go: one user's     *)
(* requests to models are limited twice per period, all of them by         *)
(* totalMaxCount and those that succeed by successMaxCount.  A request is  *)
(* checked before its handler runs and a success is recorded after it, so  *)
(* several requests are between check and record at once.                  *)
(*                                                                         *)
(* Without Redis the handler uses the limiter of RateLimiter.  With Redis  *)
(* the successes are a list of times, newest first, that several commands  *)
(* read and write, and the total is a token bucket that one Lua script     *)
(* updates (common/limiter).  The Redis commands are modelled from their   *)
(* use.  A total limit of 0 switches its check off and is left out.        *)
(***************************************************************************)
EXTENDS RateLimiter, FiniteSets

CONSTANTS
  Handlers,      \* goroutines that serve one user's requests
  Settings,      \* the values of RedisEnabled that are looked at
  Prompt         \* whether LPUSH, LTRIM and EXPIRE of one record always fall
                 \* into one second of the clock

ASSUME ModelLimitAssumption ==
  /\ IsFiniteSet(Handlers)
  /\ Settings \subseteq BOOLEAN /\ Prompt \in BOOLEAN
  /\ Keys = {"total", "check", "success"}
  /\ \A k \in Keys : duration[k] = duration["total"] /\ duration[k] > 0
  /\ maxRequestNum["check"] = maxRequestNum["success"]

totalMaxCount == maxRequestNum["total"]
successMaxCount == maxRequestNum["success"]
period == duration["total"]

Forever == -1   \* expiry of a key without a TTL

VARIABLES
  RedisEnabled,  \* which of the two handlers is installed, fixed
  at,         \* where each handler is
  verdict,    \* the answer to its last request
  list,       \* the Redis list of successes, newest first
  expiry,     \* when the list's key expires
  bucket,     \* the hash of the token bucket
  admitted,   \* times at which a request passed the total limit (history)
  successes   \* times at which a success was recorded (history)

redisVars == <<list, expiry, bucket>>
handlersVars == <<RedisEnabled, limiterVars, at, verdict, redisVars, admitted, successes>>

Go(r, from, to, answer) ==
  /\ at[r] = from
  /\ at' = [at EXCEPT ![r] = to]
  /\ verdict' = [verdict EXCEPT ![r] = answer]

-----------------------------------------------------------------------------
(* memoryRateLimitHandler                                                  *)

\* The total limit counts every request.
MemoryTotal(r) ==
  /\ ~RedisEnabled
  /\ Request("total")
  /\ \/ /\ Allows("total") /\ Go(r, "idle", "check", "")
        /\ admitted' = Append(admitted, now)
     \/ /\ ~Allows("total") /\ Go(r, "idle", "idle", "total")
        /\ UNCHANGED admitted
  /\ UNCHANGED <<redisVars, successes>>

\* The success limit is asked under a key of its own.
MemoryCheck(r) ==
  /\ Request("check")
  /\ \/ Allows("check") /\ Go(r, "check", "running", "")
     \/ ~Allows("check") /\ Go(r, "check", "idle", "success")
  /\ UNCHANGED <<redisVars, admitted, successes>>

\* The answer of Request for the success is not looked at.
MemoryFinish(r) ==
  /\ ~RedisEnabled
  /\ \/ /\ Go(r, "running", "idle", "served")
        /\ Request("success")
        /\ successes' = Append(successes, now)
     \/ /\ Go(r, "running", "idle", "failed")
        /\ UNCHANGED <<limiterVars, successes>>
  /\ UNCHANGED <<redisVars, admitted>>

-----------------------------------------------------------------------------
(* Redis                                                                   *)

Expired == expiry # Forever /\ now >= expiry
Entries == IF Expired THEN <<>> ELSE list

\* EXPIRE does nothing to a missing key.
Expire(t) == expiry' = IF Entries = <<>> THEN expiry ELSE t

\* LPUSH creates a missing key without a TTL.
Push(t) ==
  /\ list' = <<t>> \o Entries
  /\ expiry' = IF Entries = <<>> THEN Forever ELSE expiry

Trim(n) ==
  /\ list' = SubSeq(Entries, 1, IF Len(Entries) < n THEN Len(Entries) ELSE n)
  /\ UNCHANGED expiry

\* The script: refill by the whole seconds that passed, then take what is
\* requested.  Capacity, rate and request are those of redisRateLimitHandler.
capacity == totalMaxCount * period
Refilled ==
  LET full == bucket.tokens + (now - bucket.last_time) * totalMaxCount
  IN IF full < capacity THEN full ELSE capacity
rate_limit(taken) == bucket' = [tokens |-> Refilled - taken, last_time |-> now]

-----------------------------------------------------------------------------
(* redisRateLimitHandler                                                   *)

\* checkRedisRateLimit: LLEN.
RedisLength(r) ==
  /\ RedisEnabled
  /\ Go(r, "idle", IF Len(Entries) < successMaxCount THEN "bucket" ELSE "oldest", "")
  /\ UNCHANGED <<limiterVars, redisVars, admitted, successes>>

\* LINDEX -1; the list may have expired since, and "" is not a time.
RedisOldest(r) ==
  /\ \/ Entries = <<>> /\ Go(r, "oldest", "idle", "error")
     \/ /\ Entries # <<>>
        /\ IF now - Entries[Len(Entries)] < period
           THEN Go(r, "oldest", "renew", "success")
           ELSE Go(r, "oldest", "bucket", "")
  /\ UNCHANGED <<limiterVars, redisVars, admitted, successes>>

\* A refusal renews the key.
RedisRefuse(r) ==
  /\ Go(r, "renew", "idle", "success")
  /\ Expire(now + period)
  /\ UNCHANGED <<limiterVars, list, bucket, admitted, successes>>

\* The handler goes on after a refusal by the bucket, but the context is
\* aborted: Next runs nothing and the status is 429.
RedisTotal(r) ==
  /\ \/ /\ Refilled >= period
        /\ rate_limit(period)
        /\ Go(r, "bucket", "running", "")
        /\ admitted' = Append(admitted, now)
     \/ /\ Refilled < period
        /\ rate_limit(0)
        /\ Go(r, "bucket", "idle", "total")
        /\ UNCHANGED admitted
  /\ UNCHANGED <<limiterVars, list, expiry, successes>>

RedisFinish(r) ==
  /\ RedisEnabled
  /\ Go(r, "running", "push", "served") \/ Go(r, "running", "idle", "failed")
  /\ UNCHANGED <<limiterVars, redisVars, admitted, successes>>

\* recordRedisRequest: three commands.
RedisPush(r) ==
  /\ Go(r, "push", "trim", "served")
  /\ Push(now)
  /\ successes' = Append(successes, now)
  /\ UNCHANGED <<limiterVars, bucket, admitted>>

\* Slip: the last index of LTRIM taken for exclusive.
RedisTrimShort(r) ==
  /\ Go(r, "trim", "expire", "served")
  /\ Trim(successMaxCount - 1)
  /\ UNCHANGED <<limiterVars, bucket, admitted, successes>>

RedisTrim(r) ==
  /\ Go(r, "trim", "expire", "served")
  /\ Trim(successMaxCount)
  /\ UNCHANGED <<limiterVars, bucket, admitted, successes>>

RedisExpire(r) ==
  /\ Go(r, "expire", "idle", "served")
  /\ Expire(now + period)
  /\ UNCHANGED <<limiterVars, list, bucket, admitted, successes>>

-----------------------------------------------------------------------------
Passes ==
  /\ \/ Tick /\ (Prompt => \A r \in Handlers : at[r] \notin {"trim", "expire"})
     \/ clearExpiredItems
  /\ UNCHANGED <<at, verdict, redisVars, admitted, successes>>

HandlersInit ==
  /\ RedisEnabled \in Settings
  /\ LimiterInit
  /\ at = [r \in Handlers |-> "idle"]
  /\ verdict = [r \in Handlers |-> ""]
  /\ list = <<>> /\ expiry = Forever
  /\ bucket = [tokens |-> capacity, last_time |-> 0]
  /\ admitted = <<>> /\ successes = <<>>

HandlersNext ==
  /\ \/ \E r \in Handlers :
          \/ MemoryTotal(r) \/ MemoryCheck(r) \/ MemoryFinish(r)
          \/ RedisLength(r) \/ RedisOldest(r) \/ RedisRefuse(r) \/ RedisTotal(r)
          \/ RedisFinish(r) \/ RedisPush(r) \/ RedisTrim(r) \/ RedisExpire(r)
     \/ Passes
  /\ UNCHANGED RedisEnabled

HandlersSpec == HandlersInit /\ [][HandlersNext]_handlersVars

-----------------------------------------------------------------------------
(* Properties                                                              *)

\* What the setting "requests per period, failures included" says: the
\* request that passes totalMaxCount after another passes a period later.
TotalPerPeriod ==
  \A i \in 1 .. Len(admitted) - totalMaxCount :
    admitted[i + totalMaxCount] - admitted[i] >= period

\* With Redis the success limit is checked before a request and recorded
\* after it.  Requests that run side by side may all pass the check, but the
\* limit is exceeded by no more than the others in flight, whatever the order
\* of their LPUSH, LTRIM and EXPIRE.
SuccessOvershoot ==
  LET most == successMaxCount + Cardinality(Handlers) - 1
  IN RedisEnabled => \A i \in 1 .. Len(successes) - most :
       successes[i + most] - successes[i] >= period

\* What the setting "only successful requests are counted" says: a request
\* is refused for the success limit only if that many successes were
\* recorded within the period.
OnlySuccessesCount ==
  [][\A r \in Handlers :
       verdict[r] # "success" /\ verdict'[r] = "success" =>
         Cardinality({i \in DOMAIN successes : now - successes[i] < period})
           >= successMaxCount]_handlersVars

=============================================================================
