------------------------------ MODULE OrderLock ------------------------------
(***************************************************************************)
(* The per-order locks of controller/topup.go: a map from trade numbers to *)
(* reference-counted mutexes, guarded by createLock.  Each process has its *)
(* own map.  LockOrder and UnlockOrder take two steps each, because the    *)
(* mutex itself is taken and freed outside the section of createLock.      *)
(***************************************************************************)
EXTENDS Integers, FiniteSets

CONSTANTS
  Handlers,     \* request handlers; each serves one request at a time
  Processes,    \* server processes
  Process,      \* Process[h] is the process that handler h runs in
  Trades,       \* trade numbers
  Mutexes,      \* the refCountedMutex objects a run may allocate
  NoMutex,      \* no entry in the map
  NoTrade,      \* a handler without a request
  Nobody        \* the owner of a free mutex

ASSUME LockAssumption ==
  /\ IsFiniteSet(Handlers) /\ Process \in [Handlers -> Processes]
  /\ NoMutex \notin Mutexes /\ NoTrade \notin Trades /\ Nobody \notin Handlers

VARIABLES
  entry,        \* orderLocks: entry[p][t] is the mutex stored for t in p
  refs,         \* refCount of each mutex
  owner,        \* who holds its mu
  at,           \* where a handler is: "out", "wait", "in" or "leave"
  key,          \* the trade number a handler's request is about
  mutex         \* rcm, the handler's local pointer

locks == <<entry, refs, owner, at, key, mutex>>

LockInit ==
  /\ entry = [p \in Processes |-> [t \in Trades |-> NoMutex]]
  /\ refs = [m \in Mutexes |-> 0]
  /\ owner = [m \in Mutexes |-> Nobody]
  /\ at = [h \in Handlers |-> "out"]
  /\ key = [h \in Handlers |-> NoTrade]
  /\ mutex = [h \in Handlers |-> NoMutex]

\* A new mutex is one that no map and no handler refers to.
Unused(m) ==
  /\ \A p \in Processes, t \in Trades : entry[p][t] # m
  /\ \A h \in Handlers : mutex[h] # m

Entry(h) == entry[Process[h]][key[h]]

\* LockOrder, the section of createLock: look up or create, refCount++.
Register(h, t, m) ==
  /\ at[h] = "out"
  /\ \/ entry[Process[h]][t] = m /\ refs' = [refs EXCEPT ![m] = @ + 1]
     \/ entry[Process[h]][t] = NoMutex /\ Unused(m) /\ refs' = [refs EXCEPT ![m] = 1]
  /\ entry' = [entry EXCEPT ![Process[h]][t] = m]
  /\ mutex' = [mutex EXCEPT ![h] = m]
  /\ key' = [key EXCEPT ![h] = t]
  /\ at' = [at EXCEPT ![h] = "wait"]
  /\ UNCHANGED owner

\* LockOrder, rcm.mu.Lock().
Acquire(h) ==
  /\ at[h] = "wait" /\ owner[mutex[h]] = Nobody
  /\ owner' = [owner EXCEPT ![mutex[h]] = h]
  /\ at' = [at EXCEPT ![h] = "in"]
  /\ UNCHANGED <<entry, refs, key, mutex>>

\* UnlockOrder up to rcm.mu.Unlock().  It looks the mutex up again; without an
\* entry it returns and leaves its own mutex locked.
Release(h) ==
  /\ at[h] = "in"
  /\ IF Entry(h) = NoMutex
     THEN /\ at' = [at EXCEPT ![h] = "out"]
          /\ mutex' = [mutex EXCEPT ![h] = NoMutex]
          /\ key' = [key EXCEPT ![h] = NoTrade]
          /\ UNCHANGED owner
     ELSE /\ owner' = [owner EXCEPT ![Entry(h)] = Nobody]
          /\ mutex' = [mutex EXCEPT ![h] = Entry(h)]
          /\ at' = [at EXCEPT ![h] = "leave"]
          /\ UNCHANGED key
  /\ UNCHANGED <<entry, refs>>

\* Slip: the entry is deleted by every user of the lock, not by the last one.
DeregisterAlways(h) ==
  /\ at[h] = "leave"
  /\ refs' = [refs EXCEPT ![mutex[h]] = @ - 1]
  /\ entry' = [entry EXCEPT ![Process[h]][key[h]] = NoMutex]
  /\ mutex' = [mutex EXCEPT ![h] = NoMutex]
  /\ at' = [at EXCEPT ![h] = "out"]
  /\ key' = [key EXCEPT ![h] = NoTrade]
  /\ UNCHANGED owner

\* UnlockOrder, the section of createLock: refCount--, delete at zero.
Deregister(h) ==
  /\ at[h] = "leave"
  /\ refs' = [refs EXCEPT ![mutex[h]] = @ - 1]
  /\ entry' = IF refs[mutex[h]] = 1
              THEN [entry EXCEPT ![Process[h]][key[h]] = NoMutex]
              ELSE entry
  /\ mutex' = [mutex EXCEPT ![h] = NoMutex]
  /\ at' = [at EXCEPT ![h] = "out"]
  /\ key' = [key EXCEPT ![h] = NoTrade]
  /\ UNCHANGED owner

\* The mutexes in the map of a process.
Stored(p) == {entry[p][t] : t \in Trades}

\* The process stops: its handlers and its map, all in memory, are gone.
LocksLost(p) ==
  /\ entry' = [entry EXCEPT ![p] = [t \in Trades |-> NoMutex]]
  /\ refs' = [m \in Mutexes |-> IF m \in Stored(p) THEN 0 ELSE refs[m]]
  /\ owner' = [m \in Mutexes |-> IF m \in Stored(p) THEN Nobody ELSE owner[m]]
  /\ at' = [h \in Handlers |-> IF Process[h] = p THEN "out" ELSE at[h]]
  /\ mutex' = [h \in Handlers |-> IF Process[h] = p THEN NoMutex ELSE mutex[h]]
  /\ key' = [h \in Handlers |-> IF Process[h] = p THEN NoTrade ELSE key[h]]

(***************************************************************************)
(* What the locks promise.                                                 *)
(***************************************************************************)
LockTypeOK ==
  /\ entry \in [Processes -> [Trades -> Mutexes \cup {NoMutex}]]
  /\ refs \in [Mutexes -> Int]
  /\ owner \in [Mutexes -> Handlers \cup {Nobody}]
  /\ at \in [Handlers -> {"out", "wait", "in", "leave"}]
  /\ key \in [Handlers -> Trades \cup {NoTrade}]
  /\ mutex \in [Handlers -> Mutexes \cup {NoMutex}]

\* Two handlers of one process are never inside the lock of one order: no one
\* keeps waiting on a mutex that was deleted from the map while another locks
\* its successor (LockOrder, UnlockOrder).
OrderMutex ==
  \A g, h \in Handlers :
    (g # h /\ Process[g] = Process[h] /\ key[g] = key[h])
      => ~ (at[g] = "in" /\ at[h] = "in")

\* The map has an entry for an order exactly while some handler uses it, so
\* the locks of finished orders do not pile up (UnlockOrder deletes at zero).
LocksCleaned ==
  \A p \in Processes, t \in Trades :
    (entry[p][t] # NoMutex)
      <=> \E h \in Handlers : Process[h] = p /\ key[h] = t /\ at[h] # "out"

(***************************************************************************)
(* The inductive invariant of the locks.                                   *)
(***************************************************************************)
Users(m) == {h \in Handlers : mutex[h] = m}

\* A handler between LockOrder and the end of UnlockOrder uses the mutex that
\* the map has for its order; no other handler has one.
Registered ==
  \A h \in Handlers :
    IF at[h] = "out" THEN mutex[h] = NoMutex
    ELSE /\ key[h] \in Trades
         /\ mutex[h] = entry[Process[h]][key[h]] /\ mutex[h] \in Mutexes

OwnerInside ==
  \A h \in Handlers, m \in Mutexes :
    (owner[m] = h) <=> (at[h] = "in" /\ mutex[h] = m)

Counted == \A m \in Mutexes : refs[m] = Cardinality(Users(m))

OneEntryEach ==
  \A p, q \in Processes : \A t, u \in Trades :
    (entry[p][t] = entry[q][u] /\ entry[p][t] # NoMutex) => (p = q /\ t = u)

InUse ==
  \A p \in Processes : \A t \in Trades :
    entry[p][t] # NoMutex => \E h \in Handlers : mutex[h] = entry[p][t]

LockInv ==
  LockTypeOK /\ Registered /\ OwnerInside /\ Counted /\ OneEntryEach /\ InUse
==============================================================================
