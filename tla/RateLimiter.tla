---------------------------- MODULE RateLimiter ----------------------------
(***************************************************************************)
(* The sliding windows in memory: InMemoryRateLimiter of                   *)
(* common/rate-limit.go, one instance shared by every middleware.  A key   *)
(* has a queue of the times, in whole seconds, of its newest grants.       *)
(* Request and the sweep hold the mutex throughout, so each is one step.   *)
(*                                                                         *)
(* Each middleware passes its own limit and period with its own keys, but  *)
(* the sweep knows one period only, that of the first Init.                *)
(***************************************************************************)
EXTENDS Integers, Sequences

CONSTANTS
  Keys,                \* a mark and a client address or user
  maxRequestNum,       \* the limit passed with each key
  duration,            \* the period passed with each key, in seconds
  expirationDuration,  \* how long the sweep keeps a queue
  MaxTime              \* the clock stops here (bound)

\* The last conjunct is the comment over the periods in common/constants.go:
\* none is longer than RateLimitKeyExpirationDuration.
ASSUME LimiterAssumption ==
  /\ maxRequestNum \in [Keys -> Nat \ {0}]
  /\ duration \in [Keys -> Nat]
  /\ expirationDuration \in Nat
  /\ MaxTime \in Nat
  /\ \A k \in Keys : duration[k] <= expirationDuration

VARIABLES
  now,     \* time.Now().Unix()
  store,   \* the queue of each key, empty when the map has no entry
  granted  \* the times of all grants of each key (history, for properties)

limiterVars == <<now, store, granted>>

-----------------------------------------------------------------------------
\* Request answers true when the queue has room, or when its oldest entry
\* has left the window.
Allows(k) ==
  Len(store[k]) >= maxRequestNum[k] => now - Head(store[k]) >= duration[k]

\* The queue after a grant: a full queue loses its oldest entry.
Pushed(k) ==
  IF Len(store[k]) < maxRequestNum[k]
  THEN Append(store[k], now)
  ELSE Append(Tail(store[k]), now)

Grant(k) ==
  /\ store' = [store EXCEPT ![k] = Pushed(k)]
  /\ granted' = [granted EXCEPT ![k] = Append(@, now)]
  /\ UNCHANGED now

\* Slip: a refusal takes a place in the queue.
RequestCountsRefusals(k) ==
  \/ Allows(k) /\ Grant(k)
  \/ ~Allows(k) /\ store' = [store EXCEPT ![k] = Pushed(k)]
                /\ UNCHANGED <<now, granted>>

Request(k) ==
  \/ Allows(k) /\ Grant(k)
  \/ ~Allows(k) /\ UNCHANGED limiterVars

\* Slip: the sweep looks at the oldest entry.
StaleOldest(k) ==
  /\ store[k] # <<>>
  /\ now - Head(store[k]) > expirationDuration

\* A queue is dropped when its newest entry is too old.  The goroutine
\* sleeps expirationDuration between sweeps; here a sweep may come at any
\* time.
Stale(k) ==
  /\ store[k] # <<>>
  /\ now - store[k][Len(store[k])] > expirationDuration

clearExpiredItems ==
  /\ \E k \in Keys : Stale(k)
  /\ store' = [k \in Keys |-> IF Stale(k) THEN <<>> ELSE store[k]]
  /\ UNCHANGED <<now, granted>>

Tick ==
  /\ now < MaxTime
  /\ now' = now + 1
  /\ UNCHANGED <<store, granted>>

LimiterInit ==
  /\ now = 0
  /\ store = [k \in Keys |-> <<>>]
  /\ granted = [k \in Keys |-> <<>>]

LimiterNext ==
  \/ \E k \in Keys : Request(k)
  \/ clearExpiredItems
  \/ Tick

LimiterSpec == LimiterInit /\ [][LimiterNext]_limiterVars

-----------------------------------------------------------------------------
(* Properties                                                              *)

\* Type invariant.
LimiterTypeOK ==
  /\ now \in Nat
  /\ store \in [Keys -> Seq(Nat)]
  /\ granted \in [Keys -> Seq(Nat)]

\* However grants, refusals and sweeps follow each other, no period of a key
\* sees more grants than its limit: the grant that comes maxRequestNum after
\* another is at least a whole period later (Request, clearExpiredItems).
WindowRespected ==
  \A k \in Keys : \A i \in 1 .. Len(granted[k]) - maxRequestNum[k] :
    granted[k][i + maxRequestNum[k]] - granted[k][i] >= duration[k]

\* Request refuses a key only while a full limit of its grants is younger
\* than its period: neither dropping the oldest entry nor a sweep makes the
\* limiter stricter than its limit.
RefusalJustified ==
  \A k \in Keys : ~Allows(k) =>
    /\ Len(granted[k]) >= maxRequestNum[k]
    /\ now - granted[k][Len(granted[k]) - maxRequestNum[k] + 1] < duration[k]

=============================================================================
