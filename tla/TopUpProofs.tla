----------------------------- MODULE TopUpProofs -----------------------------
(***************************************************************************)
(* Proofs about OrderLock and TopUpOrders, for any number of handlers,     *)
(* orders and faults.                                                      *)
(***************************************************************************)
EXTENDS TopUpOrders, FiniteSetTheorems, TLAPS

(***************************************************************************)
(* The locks.                                                              *)
(***************************************************************************)
\* The users of a mutex are finitely many.
LEMMA UsersFinite ==
  ASSUME NEW m
  PROVE  IsFiniteSet(Users(m)) /\ Cardinality(Users(m)) \in Nat
  <1>1. IsFiniteSet(Users(m))
    BY LockAssumption, FS_Subset DEF Users
  <1> QED BY <1>1, FS_CardinalityType

\* The empty lock maps of a process that starts.
LEMMA LockInitSound == LockInit => LockInv
  <1> SUFFICES ASSUME LockInit PROVE LockInv
    OBVIOUS
  <1> USE LockAssumption DEF LockInit
  <1>1. LockTypeOK /\ Registered /\ OneEntryEach /\ InUse
    BY DEF LockTypeOK, Registered, OneEntryEach, InUse
  <1>2. OwnerInside
    BY DEF OwnerInside
  <1>3. Counted
    <2> SUFFICES ASSUME NEW m \in Mutexes PROVE refs[m] = Cardinality(Users(m))
      BY DEF Counted
    <2>1. Users(m) = {}
      BY DEF Users
    <2> QED BY <2>1, FS_EmptySet
  <1> QED BY <1>1, <1>2, <1>3 DEF LockInv

\* LockOrder's section of createLock: a handler joins the users of one mutex.
LEMMA RegisterKeeps ==
  ASSUME LockInv, NEW h \in Handlers, NEW t \in Trades, NEW m \in Mutexes,
         Register(h, t, m)
  PROVE  LockInv'
  <1> USE LockAssumption DEF LockInv, Register
  <1> DEFINE p == Process[h]
  <1>0. p \in Processes /\ mutex[h] = NoMutex /\ m # NoMutex
    BY DEF Registered, LockTypeOK
  <1>1. LockTypeOK'
    BY <1>0 DEF LockTypeOK
  <1>2. /\ \A q \in Processes, u \in Trades :
             entry'[q][u] = IF q = p /\ u = t THEN m ELSE entry[q][u]
        /\ \A g \in Handlers : /\ mutex'[g] = IF g = h THEN m ELSE mutex[g]
                               /\ at'[g] = IF g = h THEN "wait" ELSE at[g]
                               /\ key'[g] = IF g = h THEN t ELSE key[g]
    BY <1>0 DEF LockTypeOK
  <1>3. \/ entry[p][t] = m
        \/ /\ entry[p][t] = NoMutex
           /\ \A q \in Processes, u \in Trades : entry[q][u] # m
           /\ \A g \in Handlers : mutex[g] # m
    BY DEF Unused
  <1>4. Registered'
    <2> SUFFICES ASSUME NEW g \in Handlers
                 PROVE  IF at'[g] = "out" THEN mutex'[g] = NoMutex
                        ELSE /\ key'[g] \in Trades
                             /\ mutex'[g] = entry'[Process[g]][key'[g]]
                             /\ mutex'[g] \in Mutexes
      BY DEF Registered
    <2>1. CASE g = h
      BY <2>1, <1>0, <1>2
    <2>2. CASE g # h
      <3>1. CASE at[g] = "out"
        BY <2>2, <3>1, <1>2 DEF Registered
      <3>2. CASE at[g] # "out"
        <4>1. /\ key[g] \in Trades /\ mutex[g] \in Mutexes /\ Process[g] \in Processes
              /\ mutex[g] = entry[Process[g]][key[g]]
          BY <3>2 DEF Registered
        <4>2. (Process[g] = p /\ key[g] = t) => mutex[g] = m
          BY <4>1, <1>3
        <4> QED BY <2>2, <3>2, <4>1, <4>2, <1>2
      <3> QED BY <3>1, <3>2
    <2> QED BY <2>1, <2>2
  <1>5. OwnerInside'
    BY <1>0, <1>2 DEF OwnerInside, LockTypeOK
  <1>6. Counted'
    <2> SUFFICES ASSUME NEW n \in Mutexes PROVE refs'[n] = Cardinality(Users(n)')
      BY DEF Counted
    <2>1. CASE n # m
      <3>1. Users(n)' = Users(n)
        BY <2>1, <1>0, <1>2 DEF Users
      <3> QED BY <2>1, <3>1 DEF Counted, LockTypeOK
    <2>2. CASE n = m
      <3>1. Users(n)' = Users(n) \cup {h} /\ h \notin Users(n)
        BY <2>2, <1>0, <1>2 DEF Users
      <3>2. Cardinality(Users(n)') = Cardinality(Users(n)) + 1
        BY <3>1, UsersFinite, FS_AddElement
      <3>3. CASE refs' = [refs EXCEPT ![m] = @ + 1]
        BY <3>2, <3>3, <2>2 DEF Counted, LockTypeOK
      <3>4. CASE Unused(m) /\ refs' = [refs EXCEPT ![m] = 1]
        <4>1. Users(n) = {}
          BY <3>4, <2>2 DEF Unused, Users
        <4> QED BY <4>1, <3>2, <3>4, <2>2, FS_EmptySet DEF LockTypeOK
      <3> QED BY <3>3, <3>4
    <2> QED BY <2>1, <2>2
  <1>7. OneEntryEach'
    BY <1>0, <1>2, <1>3 DEF OneEntryEach
  <1>8. InUse'
    <2> SUFFICES ASSUME NEW q \in Processes, NEW u \in Trades, entry'[q][u] # NoMutex
                 PROVE  \E g \in Handlers : mutex'[g] = entry'[q][u]
      BY DEF InUse
    <2>1. CASE q = p /\ u = t
      BY <2>1, <1>2
    <2>2. CASE ~ (q = p /\ u = t)
      <3>1. entry[q][u] = entry'[q][u]
        BY <2>2, <1>2
      <3>2. PICK g \in Handlers : mutex[g] = entry[q][u]
        BY <3>1 DEF InUse
      <3>3. g # h
        BY <3>1, <3>2, <1>0
      <3> QED BY <3>1, <3>2, <3>3, <1>2
    <2> QED BY <2>1, <2>2
  <1> QED BY <1>1, <1>4, <1>5, <1>6, <1>7, <1>8

\* rcm.mu.Lock: the mutex was free, so no handler was inside with it.
LEMMA AcquireKeeps ==
  ASSUME LockInv, NEW h \in Handlers, Acquire(h)
  PROVE  LockInv'
  <1> USE LockAssumption DEF LockInv, Acquire
  <1>0. mutex[h] \in Mutexes
    BY DEF Registered
  <1>1. LockTypeOK'
    BY <1>0 DEF LockTypeOK
  <1>2. Registered'
    BY DEF Registered, LockTypeOK
  <1>3. OwnerInside'
    <2> SUFFICES ASSUME NEW g \in Handlers, NEW m \in Mutexes
                 PROVE  (owner'[m] = g) <=> (at'[g] = "in" /\ mutex'[g] = m)
      BY DEF OwnerInside
    <2>1. /\ owner'[m] = IF m = mutex[h] THEN h ELSE owner[m]
          /\ at'[g] = IF g = h THEN "in" ELSE at[g]
      BY <1>0 DEF LockTypeOK
    <2>2. (owner[m] = g) <=> (at[g] = "in" /\ mutex[g] = m)
      BY DEF OwnerInside
    <2>3. (owner[m] = h) <=> (at[h] = "in" /\ mutex[h] = m)
      BY DEF OwnerInside
    <2> QED BY <2>1, <2>2, <2>3
  <1>4. Counted' /\ OneEntryEach' /\ InUse'
    BY DEF Counted, Users, OneEntryEach, InUse
  <1> QED BY <1>1, <1>2, <1>3, <1>4

\* rcm.mu.Unlock: the entry looked up again is the handler's own mutex.
LEMMA ReleaseKeeps ==
  ASSUME LockInv, NEW h \in Handlers, Release(h)
  PROVE  LockInv' /\ at'[h] = "leave" /\ UNCHANGED key
  <1> USE LockAssumption DEF LockInv
  <1>0. mutex[h] \in Mutexes /\ mutex[h] = Entry(h) /\ Entry(h) # NoMutex /\ at[h] = "in"
    BY DEF Registered, Release, Entry
  <1>1. /\ owner' = [owner EXCEPT ![mutex[h]] = Nobody]
        /\ mutex' = [mutex EXCEPT ![h] = mutex[h]]
        /\ at' = [at EXCEPT ![h] = "leave"]
        /\ UNCHANGED <<entry, refs, key>>
    BY <1>0 DEF Release
  <1>2. mutex' = mutex /\ at'[h] = "leave"
    BY <1>1 DEF LockTypeOK
  <1>3. LockTypeOK'
    BY <1>0, <1>1, <1>2 DEF LockTypeOK
  <1>4. Registered'
    BY <1>0, <1>1, <1>2 DEF Registered, LockTypeOK
  <1>5. OwnerInside'
    <2> SUFFICES ASSUME NEW g \in Handlers, NEW m \in Mutexes
                 PROVE  (owner'[m] = g) <=> (at'[g] = "in" /\ mutex'[g] = m)
      BY DEF OwnerInside
    <2>1. /\ owner'[m] = IF m = mutex[h] THEN Nobody ELSE owner[m]
          /\ at'[g] = IF g = h THEN "leave" ELSE at[g]
      BY <1>0, <1>1 DEF LockTypeOK
    <2>2. (owner[m] = g) <=> (at[g] = "in" /\ mutex[g] = m)
      BY DEF OwnerInside
    <2>3. (owner[m] = h) <=> (at[h] = "in" /\ mutex[h] = m)
      BY DEF OwnerInside
    <2> QED BY <2>1, <2>2, <2>3, <1>0, <1>2
  <1>6. Counted' /\ OneEntryEach' /\ InUse'
    BY <1>1, <1>2 DEF Counted, Users, OneEntryEach, InUse
  <1> QED BY <1>1, <1>2, <1>3, <1>4, <1>5, <1>6

\* UnlockOrder's section of createLock: the last user deletes the entry.
LEMMA DeregisterKeepsInv ==
  ASSUME LockInv, NEW h \in Handlers, Deregister(h),
         NEW t, t = key[h], NEW m, m = mutex[h]
  PROVE  LockInv'
  <1> USE LockAssumption DEF LockInv
  <1> DEFINE p == Process[h]
             last == refs[m] = 1
  <1>0. /\ m \in Mutexes /\ m = entry[p][t] /\ t \in Trades /\ p \in Processes
        /\ at[h] = "leave"
    BY DEF Registered, Deregister
  <1>1. /\ \A q \in Processes, u \in Trades :
             entry'[q][u] = IF last /\ q = p /\ u = t THEN NoMutex ELSE entry[q][u]
        /\ \A g \in Handlers : /\ mutex'[g] = IF g = h THEN NoMutex ELSE mutex[g]
                               /\ at'[g] = IF g = h THEN "out" ELSE at[g]
                               /\ key'[g] = IF g = h THEN NoTrade ELSE key[g]
        /\ owner' = owner
    BY <1>0 DEF Deregister, LockTypeOK
  <1>2. LockTypeOK'
    BY <1>0 DEF Deregister, LockTypeOK
  <1>3. Users(m)' = Users(m) \ {h} /\ h \in Users(m)
    <2>1. \A g \in Handlers : mutex'[g] = m <=> mutex[g] = m /\ g # h
      <3>1. NoMutex # m
        BY <1>0
      <3> QED BY <3>1, <1>1
    <2> QED BY <2>1 DEF Users
  <1>4. /\ refs[m] = Cardinality(Users(m)) /\ refs[m] \in Nat
        /\ Cardinality(Users(m)') = refs[m] - 1
    <2>1. refs[m] = Cardinality(Users(m)) /\ refs[m] \in Nat
      BY <1>0, UsersFinite DEF Counted
    <2>2. Cardinality(Users(m) \ {h}) = Cardinality(Users(m)) - 1
      BY <1>3, UsersFinite, FS_RemoveElement
    <2> QED BY <2>1, <2>2, <1>3
  <1>5. last => \A g \in Handlers : g # h => mutex[g] # m
    <2> SUFFICES ASSUME last, NEW g \in Handlers, g # h, mutex[g] = m PROVE FALSE
      OBVIOUS
    <2>1. Cardinality(Users(m)') = 0
      BY <1>4
    <2>2. Users(m)' = {}
      BY <2>1, <1>3, UsersFinite, FS_RemoveElement, FS_EmptySet
    <2> QED BY <2>2, <1>3 DEF Users
  <1>6. ~ last => \E g \in Handlers : g # h /\ mutex[g] = m
    <2> SUFFICES ASSUME ~ last, \A g \in Handlers : g # h => mutex[g] # m PROVE FALSE
      OBVIOUS
    <2>1. Users(m)' = {}
      BY <1>3 DEF Users
    <2> QED BY <2>1, <1>4, FS_EmptySet
  <1> HIDE DEF last
  <1>7. Registered'
    <2> SUFFICES ASSUME NEW g \in Handlers
                 PROVE  IF at'[g] = "out" THEN mutex'[g] = NoMutex
                        ELSE /\ key'[g] \in Trades
                             /\ mutex'[g] = entry'[Process[g]][key'[g]]
                             /\ mutex'[g] \in Mutexes
      BY DEF Registered
    <2>1. CASE g = h
      BY <2>1, <1>1
    <2>2. CASE g # h /\ at[g] = "out"
      BY <2>2, <1>1 DEF Registered
    <2>3. CASE g # h /\ at[g] # "out"
      <3>1. /\ key[g] \in Trades /\ mutex[g] \in Mutexes /\ Process[g] \in Processes
            /\ mutex[g] = entry[Process[g]][key[g]]
        BY <2>3 DEF Registered
      <3>2. ~ (last /\ Process[g] = p /\ key[g] = t)
        BY <2>3, <3>1, <1>0, <1>5
      <3> QED BY <2>3, <3>1, <3>2, <1>1
    <2> QED BY <2>1, <2>2, <2>3
  <1>8. OwnerInside'
    <2> SUFFICES ASSUME NEW g \in Handlers, NEW n \in Mutexes
                 PROVE  (owner'[n] = g) <=> (at'[g] = "in" /\ mutex'[g] = n)
      BY DEF OwnerInside
    <2>1. (owner[n] = g) <=> (at[g] = "in" /\ mutex[g] = n)
      BY DEF OwnerInside
    <2> QED BY <2>1, <1>0, <1>1
  <1>9. Counted'
    <2> SUFFICES ASSUME NEW n \in Mutexes PROVE refs'[n] = Cardinality(Users(n)')
      BY DEF Counted
    <2>1. refs'[n] = IF n = m THEN refs[m] - 1 ELSE refs[n]
      BY <1>0 DEF Deregister, LockTypeOK
    <2>2. CASE n = m
      BY <2>1, <2>2, <1>4
    <2>3. CASE n # m
      <3>1. Users(n)' = Users(n)
        BY <2>3, <1>1 DEF Users
      <3> QED BY <2>1, <2>3, <3>1 DEF Counted
    <2> QED BY <2>2, <2>3
  <1>10. OneEntryEach'
    BY <1>1 DEF OneEntryEach
  <1>11. InUse'
    <2> SUFFICES ASSUME NEW q \in Processes, NEW u \in Trades, entry'[q][u] # NoMutex
                 PROVE  \E g \in Handlers : mutex'[g] = entry'[q][u]
      BY DEF InUse
    <2>1. entry'[q][u] = entry[q][u] /\ ~ (last /\ q = p /\ u = t)
      BY <1>1
    <2>2. PICK g \in Handlers : mutex[g] = entry[q][u]
      BY <2>1 DEF InUse
    <2>3. CASE g # h
      BY <2>1, <2>2, <2>3, <1>1
    <2>4. CASE g = h
      <3>1. q = p /\ u = t
        <4>1. entry[q][u] = entry[p][t] /\ entry[q][u] # NoMutex
          BY <2>1, <2>2, <2>4, <1>0
        <4> QED BY <4>1, <1>0 DEF OneEntryEach
      <3>2. \E k \in Handlers : k # h /\ mutex[k] = m
        BY <3>1, <2>1, <1>6
      <3> QED BY <3>2, <2>1, <2>2, <2>4, <1>1
    <2> QED BY <2>3, <2>4
  <1> QED BY <1>2, <1>7, <1>8, <1>9, <1>10, <1>11

\* A stop takes a whole map with all its users.
LEMMA LocksLostKeeps ==
  ASSUME LockInv, NEW p \in Processes, LocksLost(p)
  PROVE  LockInv'
  <1> USE LockAssumption DEF LockInv
  <1>1. /\ \A q \in Processes, u \in Trades :
             entry'[q][u] = IF q = p THEN NoMutex ELSE entry[q][u]
        /\ \A g \in Handlers :
             /\ mutex'[g] = IF Process[g] = p THEN NoMutex ELSE mutex[g]
             /\ at'[g] = IF Process[g] = p THEN "out" ELSE at[g]
             /\ key'[g] = IF Process[g] = p THEN NoTrade ELSE key[g]
        /\ \A m \in Mutexes : /\ refs'[m] = IF m \in Stored(p) THEN 0 ELSE refs[m]
                              /\ owner'[m] = IF m \in Stored(p) THEN Nobody ELSE owner[m]
    <2>1. \A q \in Processes, u \in Trades :
            entry'[q][u] = IF q = p THEN NoMutex ELSE entry[q][u]
      BY DEF LocksLost, LockTypeOK
    <2>2. \A g \in Handlers :
            /\ mutex'[g] = IF Process[g] = p THEN NoMutex ELSE mutex[g]
            /\ at'[g] = IF Process[g] = p THEN "out" ELSE at[g]
            /\ key'[g] = IF Process[g] = p THEN NoTrade ELSE key[g]
      BY DEF LocksLost
    <2>3. /\ refs' = [m \in Mutexes |-> IF m \in Stored(p) THEN 0 ELSE refs[m]]
          /\ owner' = [m \in Mutexes |-> IF m \in Stored(p) THEN Nobody ELSE owner[m]]
      BY DEF LocksLost
    <2> QED BY <2>1, <2>2, <2>3
  <1>2. \A g \in Handlers, m \in Mutexes :
          mutex[g] = m => (m \in Stored(p) <=> Process[g] = p)
    <2> SUFFICES ASSUME NEW g \in Handlers, NEW m \in Mutexes, mutex[g] = m
                 PROVE  m \in Stored(p) <=> Process[g] = p
      OBVIOUS
    <2>1. /\ key[g] \in Trades /\ m = entry[Process[g]][key[g]] /\ m # NoMutex
          /\ Process[g] \in Processes
      BY DEF Registered
    <2> QED BY <2>1 DEF OneEntryEach, Stored
  <1>3. LockTypeOK'
    BY DEF LocksLost, LockTypeOK
  <1>4. Registered'
    BY <1>1 DEF Registered
  <1>5. OwnerInside'
    <2> SUFFICES ASSUME NEW g \in Handlers, NEW m \in Mutexes
                 PROVE  (owner'[m] = g) <=> (at'[g] = "in" /\ mutex'[g] = m)
      BY DEF OwnerInside
    <2>1. (owner[m] = g) <=> (at[g] = "in" /\ mutex[g] = m)
      BY DEF OwnerInside
    <2>2. mutex[g] = m => (m \in Stored(p) <=> Process[g] = p)
      BY <1>2
    <2>3. /\ owner'[m] = IF m \in Stored(p) THEN Nobody ELSE owner[m]
          /\ mutex'[g] = IF Process[g] = p THEN NoMutex ELSE mutex[g]
          /\ at'[g] = IF Process[g] = p THEN "out" ELSE at[g]
      BY <1>1
    <2> QED BY <2>1, <2>2, <2>3
  <1>6. Counted'
    <2> SUFFICES ASSUME NEW m \in Mutexes PROVE refs'[m] = Cardinality(Users(m)')
      BY DEF Counted
    <2>1. CASE m \in Stored(p)
      <3>1. Users(m)' = {}
        BY <2>1, <1>1, <1>2 DEF Users
      <3> QED BY <3>1, <2>1, <1>1, FS_EmptySet
    <2>2. CASE m \notin Stored(p)
      <3>1. Users(m)' = Users(m)
        BY <2>2, <1>1, <1>2 DEF Users
      <3>2. refs'[m] = refs[m]
        BY <2>2, <1>1
      <3> QED BY <3>1, <3>2 DEF Counted
    <2> QED BY <2>1, <2>2
  <1>7. OneEntryEach'
    BY <1>1 DEF OneEntryEach
  <1>8. InUse'
    <2> SUFFICES ASSUME NEW q \in Processes, NEW u \in Trades, entry'[q][u] # NoMutex
                 PROVE  \E g \in Handlers : mutex'[g] = entry'[q][u]
      BY DEF InUse
    <2>1. entry'[q][u] = entry[q][u] /\ q # p
      BY <1>1
    <2>2. PICK g \in Handlers : mutex[g] = entry[q][u]
      BY <2>1 DEF InUse
    <2>3. ~ (entry[q][u] \in Stored(p)) /\ entry[q][u] \in Mutexes
      BY <2>1 DEF OneEntryEach, LockTypeOK, Stored
    <2>4. Process[g] # p
      BY <2>2, <2>3, <1>2
    <2> QED BY <2>1, <2>2, <2>4, <1>1
  <1> QED BY <1>3, <1>4, <1>5, <1>6, <1>7, <1>8

\* A request that does not use the lock only changes its handler's key.
LEMMA KeyKeeps ==
  ASSUME LockInv, UNCHANGED mutexes, NEW h \in Handlers, at[h] = "out",
         NEW k \in Trades \cup {NoTrade}, key' = [key EXCEPT ![h] = k]
  PROVE  LockInv'
  <1> USE DEF LockInv, mutexes
  <1>1. LockTypeOK' /\ Counted' /\ OneEntryEach' /\ InUse' /\ OwnerInside'
    BY DEF LockTypeOK, Counted, Users, OneEntryEach, InUse, OwnerInside
  <1>2. Registered'
    BY DEF Registered, LockTypeOK
  <1> QED BY <1>1, <1>2

\* A step that leaves the locks alone keeps their invariant.
LEMMA LocksStutter == ASSUME LockInv, UNCHANGED locks PROVE LockInv'
  BY DEF locks, LockInv, LockTypeOK, Registered, OwnerInside, Counted, Users,
         OneEntryEach, InUse

\* From the invariant: one handler inside, and entries exactly while used.
LEMMA LockInvGives == LockInv => OrderMutex /\ LocksCleaned
  <1> SUFFICES ASSUME LockInv PROVE OrderMutex /\ LocksCleaned
    OBVIOUS
  <1> USE LockAssumption DEF LockInv
  <1>1. OrderMutex
    BY DEF OrderMutex, Registered, OwnerInside
  <1>2. LocksCleaned
    <2> SUFFICES ASSUME NEW p \in Processes, NEW t \in Trades
                 PROVE  (entry[p][t] # NoMutex) <=>
                          \E h \in Handlers : Process[h] = p /\ key[h] = t /\ at[h] # "out"
      BY DEF LocksCleaned
    <2>1. ASSUME entry[p][t] # NoMutex
          PROVE  \E h \in Handlers : Process[h] = p /\ key[h] = t /\ at[h] # "out"
      <3>1. PICK h \in Handlers : mutex[h] = entry[p][t]
        BY <2>1 DEF InUse
      <3>2. /\ at[h] # "out" /\ key[h] \in Trades /\ Process[h] \in Processes
            /\ mutex[h] = entry[Process[h]][key[h]]
        BY <3>1, <2>1 DEF Registered
      <3>3. entry[Process[h]][key[h]] = entry[p][t]
        BY <3>1, <3>2
      <3>4. Process[h] = p /\ key[h] = t
        BY <3>2, <3>3, <2>1 DEF OneEntryEach
      <3> QED BY <3>2, <3>4
    <2>2. ASSUME NEW h \in Handlers, Process[h] = p, key[h] = t, at[h] # "out"
          PROVE  entry[p][t] # NoMutex
      BY <2>2 DEF Registered
    <2> QED BY <2>1, <2>2
  <1> QED BY <1>1, <1>2

(***************************************************************************)
(* The orders.                                                             *)
(***************************************************************************)
\* Saving a row with another status keeps the other columns.
LEMMA SetStatusFields ==
  ASSUME order \in [Trades -> Orders], NEW t \in Trades, NEW s \in Statuses,
         SetStatus(t, s)
  PROVE  /\ order' \in [Trades -> Orders]
         /\ \A u \in Trades : /\ order'[u].status = IF u = t THEN s ELSE order[u].status
                              /\ order'[u].method = order[u].method
                              /\ order'[u].hash = order[u].hash
  <1>1. /\ order' \in [Trades -> {order[u] : u \in Trades} \cup {[order[t] EXCEPT !.status = s]}]
        /\ \A u \in Trades :
             order'[u] = IF u = t THEN [order[t] EXCEPT !.status = s] ELSE order[u]
    BY DEF SetStatus
  <1>2. \A u \in Trades : order[u] \in Orders
    OBVIOUS
  <1>3. /\ [order[t] EXCEPT !.status = s] \in Orders
        /\ [order[t] EXCEPT !.status = s].status = s
        /\ [order[t] EXCEPT !.status = s].method = order[t].method
        /\ [order[t] EXCEPT !.status = s].hash = order[t].hash
    BY <1>2 DEF Orders
  <1>4. order' \in [Trades -> Orders]
    BY <1>1, <1>2, <1>3
  <1>5. ASSUME NEW u \in Trades
        PROVE  /\ order'[u].status = IF u = t THEN s ELSE order[u].status
               /\ order'[u].method = order[u].method /\ order'[u].hash = order[u].hash
    <2>1. CASE u = t
      BY <2>1, <1>1, <1>3
    <2>2. CASE u # t
      <3>1. order'[u] = order[u]
        BY <2>2, <1>1
      <3> QED BY <3>1, <2>2
    <2> QED BY <2>1, <2>2
  <1> QED BY <1>4, <1>5

\* What a transaction decides is a verdict; it credits only pending orders, and
\* a gateway only its own.
LEMMA DecideType ==
  ASSUME NEW c \in Calls, NEW t \in Trades, order[t] \in Orders
  PROVE  /\ Decide(c, t) \in {"none", "credit", "done", "refuse"} \cup Failures
         /\ Decide(c, t) = "credit" =>
              /\ order[t].status = "pending"
              /\ c.kind \in {"manual", order[t].method}
  <1> USE DEF Calls, Orders, Gateways, Failures, Statuses, Verdict, Pending, Succeeded
  <1>1. CASE c.kind \in Gateways
    BY <1>1 DEF Decide, Recharge, RechargeWechatTopUp, RechargeCreem, RechargeWaffo,
                RechargeWaffoPancake, RechargeCrypto
  <1>2. CASE c.kind = "manual"
    BY <1>2 DEF Decide, ManualCompleteTopUp
  <1>3. CASE c.kind \in Failures \cup {"none"}
    BY <1>3 DEF Decide, MarkStripe
  <1> QED BY <1>1, <1>2, <1>3

\* The starting state.
LEMMA InitSound == TopUpInit => BaseInv /\ CreditInv
  <1> SUFFICES ASSUME TopUpInit PROVE BaseInv /\ CreditInv
    OBVIOUS
  <1> USE DEF TopUpInit, NoOrder, NoCall, Call
  <1>1. LockInv
    BY LockInitSound
  <1>2. TopUpTypeOK
    BY DEF TopUpTypeOK, Orders, Calls, Statuses, Failures, Gateways
  <1>3. StepsMatchLock /\ ClaimHeld /\ BonusOnce
    BY DEF StepsMatchLock, OutOfLock, ClaimHeld, BonusOnce, LockInit
  <1>4. Uncredited /\ CreditedOnce /\ CreditedWhenPaid /\ LinkedOnce
    BY DEF Uncredited, CreditedOnce, CreditedWhenPaid, LinkedOnce
  <1>5. ReportsArePaid
    BY DEF ReportsArePaid, LockInit
  <1> QED BY <1>1, <1>2, <1>3, <1>4, <1>5 DEF BaseInv, CreditInv

\* Requests outside the lock: creation, its answer, and unlocked failures.
LEMMA OutsideKeepsBase ==
  ASSUME BaseInv, NEW h \in Handlers,
         \/ \E t \in Trades, m \in Methods : Create(h, t, m)
         \/ LinkOk(h) \/ LinkFails(h) \/ Recheck(h) \/ MarkFailed(h)
         \/ \E t \in Trades : WaffoFails(h, t)
  PROVE  BaseInv'
  <1> USE TopUpAssumption DEF BaseInv
  <1>0. at[h] = "out" /\ pc[h] \in OutOfLock /\ UNCHANGED <<mutexes, bonus>>
    BY DEF Create, LinkOk, LinkFails, Recheck, MarkFailed, WaffoFails, Idle,
           StepsMatchLock, OutOfLock, mutexes, bonus
  <1>1. PICK k \in Trades \cup {NoTrade} : key' = [key EXCEPT ![h] = k]
    <2>1. key = [key EXCEPT ![h] = key[h]] /\ key[h] \in Trades \cup {NoTrade}
      BY DEF LockInv, LockTypeOK
    <2> QED BY <2>1 DEF Create, LinkOk, LinkFails, Recheck, MarkFailed, WaffoFails, Return
  <1>2. LockInv'
    BY <1>0, <1>1, KeyKeeps
  <1>3. /\ pc' = [pc EXCEPT ![h] = pc'[h]] /\ pc'[h] \in OutOfLock
        /\ pc'[h] # "idle" => key'[h] \in Trades
    BY <1>0 DEF Create, LinkOk, LinkFails, Recheck, MarkFailed, WaffoFails, Return, Goto,
           TopUpTypeOK, StepsMatchLock, OutOfLock, progress, LockInv, LockTypeOK
  <1>4. order' \in [Trades -> Orders]
    <2>1. CASE \E t \in Trades, m \in Methods : Create(h, t, m)
      BY <2>1 DEF Create, TopUpTypeOK, Orders, Statuses
    <2>2. CASE LinkFails(h) \/ MarkFailed(h)
      <3>1. key[h] \in Trades /\ order \in [Trades -> Orders]
        BY <2>2 DEF StepsMatchLock, LinkFails, MarkFailed, TopUpTypeOK
      <3>2. UNCHANGED order \/ \E s \in Statuses : SetStatus(key[h], s)
        BY <2>2 DEF LinkFails, MarkFailed, Statuses, Failures
      <3> QED BY <3>1, <3>2, SetStatusFields
    <2>3. CASE LinkOk(h) \/ Recheck(h) \/ \E t \in Trades : WaffoFails(h, t)
      BY <2>3 DEF LinkOk, Recheck, WaffoFails, TopUpTypeOK
    <2> QED BY <2>1, <2>2, <2>3
  <1>5. TopUpTypeOK'
    <2>1. outcome' \in [Trades -> {"none", "open", "paid", "lapsed"}]
      BY DEF Create, LinkOk, LinkFails, Recheck, MarkFailed, WaffoFails, TopUpTypeOK,
             StepsMatchLock
    <2>2. UNCHANGED <<credits, byHand, acked, bonus, call, verdict, faults>>
      BY DEF Create, LinkOk, LinkFails, Recheck, MarkFailed, WaffoFails, books, progress
    <2> QED BY <1>3, <1>4, <2>1, <2>2 DEF TopUpTypeOK, OutOfLock, bonus
  <1>6. StepsMatchLock'
    BY <1>0, <1>1, <1>3 DEF StepsMatchLock, mutexes, TopUpTypeOK, LockInv, LockTypeOK, OutOfLock
  <1>7. ClaimHeld' /\ BonusOnce'
    BY <1>0, <1>3 DEF ClaimHeld, BonusOnce, OutOfLock, bonus, TopUpTypeOK
  <1> QED BY <1>2, <1>5, <1>6, <1>7

\* A request for the lock.
LEMMA RequestKeepsBase ==
  ASSUME BaseInv, NEW h \in Handlers, NEW t \in Trades, NEW c \in Calls, Request(h, t, c)
  PROVE  BaseInv'
  <1> USE DEF BaseInv, Request, Goto
  <1>1. PICK m \in Mutexes : Register(h, t, m)
    OBVIOUS
  <1>2. LockInv'
    BY <1>1, RegisterKeeps
  <1>3. TopUpTypeOK'
    BY DEF TopUpTypeOK, books, bonus
  <1>4. StepsMatchLock'
    BY <1>1 DEF StepsMatchLock, Register, TopUpTypeOK, LockInv, LockTypeOK, OutOfLock
  <1>5. ClaimHeld' /\ BonusOnce'
    BY DEF ClaimHeld, BonusOnce, bonus, TopUpTypeOK
  <1> QED BY <1>2, <1>3, <1>4, <1>5

\* A step inside the lock that leaves the order, or changes its status.
LEMMA InsideKeepsBase ==
  ASSUME BaseInv, NEW h \in Handlers,
         \/ ReadOrder(h) \/ CompleteOrder(h) \/ FailOrder(h) \/ AnswerDone(h)
         \/ Refuse(h) \/ Rollback(h) \/ ClaimBonus(h) \/ NoBonus(h) \/ RedeemBonus(h)
         \/ ReleaseBonus(h) \/ Answer(h)
  PROVE  BaseInv'
  <1> USE TopUpAssumption DEF BaseInv, Goto
  <1>0. /\ at[h] = "in" /\ key[h] \in Trades /\ UNCHANGED locks
        /\ call \in [Handlers -> Calls] /\ order \in [Trades -> Orders]
    BY DEF ReadOrder, CompleteOrder, FailOrder, AnswerDone, Refuse, Rollback, ClaimBonus,
           NoBonus, RedeemBonus, ReleaseBonus, Answer, StepsMatchLock, TopUpTypeOK, OutOfLock
  <1>1. LockInv'
    BY <1>0, LocksStutter
  <1>2. order' \in [Trades -> Orders]
    <2>1. CASE CompleteOrder(h)
      <3>1. order' = [order EXCEPT ![key[h]] =
                        [@ EXCEPT !.status = "success", !.hash = call[h].hash]]
        BY <2>1 DEF CompleteOrder
      <3>2. [order[key[h]] EXCEPT !.status = "success", !.hash = call[h].hash] \in Orders
        BY <1>0 DEF Orders, Calls, Statuses
      <3> QED BY <3>1, <3>2, <1>0
    <2>2. CASE FailOrder(h)
      BY <2>2, <1>0, SetStatusFields DEF FailOrder, Statuses
    <2>3. CASE ~ CompleteOrder(h) /\ ~ FailOrder(h)
      BY <2>3, <1>0 DEF ReadOrder, AnswerDone, Refuse, Rollback, ClaimBonus, NoBonus,
                        RedeemBonus, ReleaseBonus, Answer
    <2> QED BY <2>1, <2>2, <2>3
  <1>3. /\ pc' = [pc EXCEPT ![h] = pc'[h]]
        /\ pc'[h] \in {"write", "bonus", "redeem", "answer", "unlock"}
    BY DEF ReadOrder, CompleteOrder, FailOrder, AnswerDone, Refuse, Rollback, ClaimBonus,
           NoBonus, RedeemBonus, ReleaseBonus, Answer, TopUpTypeOK
  <1>4. verdict' \in [Handlers -> {"none", "credit", "done", "refuse"} \cup Failures]
    <2>1. CASE ReadOrder(h)
      BY <2>1, <1>0, DecideType DEF ReadOrder, TopUpTypeOK
    <2>2. CASE ~ ReadOrder(h)
      BY <2>2 DEF CompleteOrder, FailOrder, AnswerDone, Refuse, Rollback, ClaimBonus,
           NoBonus, RedeemBonus, ReleaseBonus, Answer, TopUpTypeOK
    <2> QED BY <2>1, <2>2
  <1>5. TopUpTypeOK'
    <2>1. UNCHANGED <<outcome, call>> /\ faults' \in Nat
      BY DEF ReadOrder, CompleteOrder, FailOrder, AnswerDone, Refuse, Rollback, ClaimBonus,
             NoBonus, RedeemBonus, ReleaseBonus, Answer, TopUpTypeOK, Fault
    <2>2. credits' \in [Trades -> Nat] /\ byHand' \subseteq Trades /\ acked' \subseteq Trades
      BY <1>0 DEF ReadOrder, CompleteOrder, FailOrder, AnswerDone, Refuse, Rollback, ClaimBonus,
             NoBonus, RedeemBonus, ReleaseBonus, Answer, TopUpTypeOK, books
    <2>3. grant' \in BOOLEAN /\ bonuses' \in Nat
      <3>1. CASE ClaimBonus(h) \/ ReleaseBonus(h)
        BY <3>1 DEF ClaimBonus, ReleaseBonus, TopUpTypeOK
      <3>2. CASE RedeemBonus(h)
        BY <3>2 DEF RedeemBonus, TopUpTypeOK
      <3>3. CASE ~ (ClaimBonus(h) \/ ReleaseBonus(h) \/ RedeemBonus(h))
        <4>1. UNCHANGED <<grant, bonuses>>
          BY <3>3 DEF ReadOrder, CompleteOrder, FailOrder, AnswerDone, Refuse, Rollback,
                      NoBonus, Answer, bonus
        <4> QED BY <4>1 DEF TopUpTypeOK
      <3> QED BY <3>1, <3>2, <3>3
    <2> QED BY <1>2, <1>3, <1>4, <2>1, <2>2, <2>3 DEF TopUpTypeOK
  <1>6. StepsMatchLock'
    BY <1>0, <1>3 DEF StepsMatchLock, locks, TopUpTypeOK, OutOfLock
  <1>7. ClaimHeld' /\ BonusOnce'
    <2>1. CASE ClaimBonus(h)
      BY <2>1, <1>3 DEF ClaimBonus, ClaimHeld, BonusOnce, TopUpTypeOK
    <2>2. CASE RedeemBonus(h)
      BY <2>2, <1>3 DEF RedeemBonus, ClaimHeld, BonusOnce, TopUpTypeOK
    <2>3. CASE ReleaseBonus(h)
      BY <2>3, <1>3 DEF ReleaseBonus, ClaimHeld, BonusOnce, TopUpTypeOK
    <2>4. CASE ~ (ClaimBonus(h) \/ RedeemBonus(h) \/ ReleaseBonus(h))
      <3>1. UNCHANGED bonus /\ pc'[h] # "redeem"
        BY <2>4 DEF ReadOrder, CompleteOrder, FailOrder, AnswerDone, Refuse, Rollback,
                    NoBonus, Answer, TopUpTypeOK
      <3> QED BY <3>1, <1>3 DEF ClaimHeld, BonusOnce, bonus, TopUpTypeOK
    <2> QED BY <2>1, <2>2, <2>3, <2>4
  <1> QED BY <1>1, <1>5, <1>6, <1>7

\* Taking and leaving the lock.
LEMMA LockStepKeepsBase ==
  ASSUME BaseInv, NEW h \in Handlers, EnterLock(h) \/ LeaveLock(h) \/ Finish(h)
  PROVE  BaseInv'
  <1> USE DEF BaseInv, Goto
  <1>1. CASE EnterLock(h)
    <2> USE <1>1 DEF EnterLock, progress, books, bonus
    <2>1. LockInv'
      BY AcquireKeeps
    <2>2. TopUpTypeOK' /\ ClaimHeld' /\ BonusOnce'
      BY DEF TopUpTypeOK, ClaimHeld, BonusOnce
    <2>3. StepsMatchLock'
      BY DEF StepsMatchLock, Acquire, LockInv, LockTypeOK, OutOfLock
    <2> QED BY <2>1, <2>2, <2>3
  <1>2. CASE LeaveLock(h)
    <2> USE <1>2 DEF LeaveLock, progress, books, bonus
    <2>1. LockInv' /\ at'[h] = "leave" /\ UNCHANGED key /\ at[h] = "in"
      BY ReleaseKeeps DEF Release
    <2>2. TopUpTypeOK' /\ ClaimHeld' /\ BonusOnce'
      BY DEF TopUpTypeOK, ClaimHeld, BonusOnce
    <2>3. \A g \in Handlers : g # h => at'[g] = at[g]
      BY DEF Release, LockInv, LockTypeOK
    <2>4. StepsMatchLock'
      BY <2>1, <2>3 DEF StepsMatchLock, OutOfLock
    <2> QED BY <2>1, <2>2, <2>4
  <1>3. CASE Finish(h)
    <2> USE <1>3 DEF Finish, books, bonus
    <2>1. LockInv'
      BY DeregisterKeepsInv
    <2>2. TopUpTypeOK'
      BY DEF TopUpTypeOK, Calls, NoCall, Call
    <2>3. ClaimHeld' /\ BonusOnce'
      BY DEF TopUpTypeOK, ClaimHeld, BonusOnce
    <2>4. StepsMatchLock'
      BY DEF StepsMatchLock, Deregister, LockInv, LockTypeOK, OutOfLock, TopUpTypeOK
    <2> QED BY <2>1, <2>2, <2>3, <2>4
  <1> QED BY <1>1, <1>2, <1>3

\* A stop of a process.
LEMMA StopKeepsBase ==
  ASSUME BaseInv, NEW p \in Processes, Stop(p)
  PROVE  BaseInv'
  <1> USE DEF BaseInv, Stop, books, bonus
  <1>1. LockInv'
    BY LocksLostKeeps
  <1>2. TopUpTypeOK'
    BY TopUpAssumption DEF TopUpTypeOK, Calls, NoCall, Call, Fault
  <1>3. StepsMatchLock'
    BY DEF StepsMatchLock, LocksLost, OutOfLock
  <1>4. ClaimHeld' /\ BonusOnce'
    BY DEF ClaimHeld, BonusOnce
  <1> QED BY <1>1, <1>2, <1>3, <1>4

\* Every request brings a well-formed call.
LEMMA RequestIsCall ==
  ASSUME BaseInv, NEW h \in Handlers, NEW t \in Trades,
         \/ Report(h, t) \/ AdminCompleteTopUp(h, t)
         \/ \E g \in Astray : ReportAstray(h, t, g)
         \/ \E x \in Hashes : RequestCryptoConfirm(h, t, x)
         \/ \E s \in Failures : StripeFails(h, t, s)
  PROVE  \E c \in Calls : Request(h, t, c)
  <1>1. order[t].method \in Gateways
    BY DEF BaseInv, TopUpTypeOK, Orders
  <1>2. \A k \in Gateways \cup Failures \cup {"manual"}, x \in Hashes \cup {NoHash} :
          Call(k, x) \in Calls
    BY DEF Call, Calls
  <1>3. "manual" \in Gateways \cup Failures \cup {"manual"} /\ "crypto" \in Gateways
    BY DEF Gateways
  <1> QED BY <1>1, <1>2, <1>3, TopUpAssumption
      DEF Report, AdminCompleteTopUp, ReportAstray, RequestCryptoConfirm, StripeFails

\* Every step of the handlers, the gateways and the processes keeps what holds
\* whatever the processes.
LEMMA NextKeepsBase == BaseInv /\ [Next]_vars => BaseInv'
  <1> SUFFICES ASSUME BaseInv, [Next]_vars PROVE BaseInv'
    OBVIOUS
  <1>1. ASSUME NEW h \in Handlers,
               \/ \E t \in Trades, m \in Methods : Create(h, t, m)
               \/ LinkOk(h) \/ LinkFails(h) \/ Recheck(h) \/ MarkFailed(h)
               \/ \E t \in Trades : WaffoFails(h, t)
        PROVE  BaseInv'
    BY <1>1, OutsideKeepsBase
  <1>2. ASSUME NEW h \in Handlers, Locked(h)
        PROVE  BaseInv'
    BY <1>2, InsideKeepsBase, LockStepKeepsBase DEF Locked
  <1>3. ASSUME NEW h \in Handlers, NEW t \in Trades,
               \/ Report(h, t) \/ AdminCompleteTopUp(h, t)
               \/ \E g \in Astray : ReportAstray(h, t, g)
               \/ \E x \in Hashes : RequestCryptoConfirm(h, t, x)
               \/ \E s \in Failures : StripeFails(h, t, s)
        PROVE  BaseInv'
    BY <1>3, RequestIsCall, RequestKeepsBase
  <1>4. ASSUME NEW t \in Trades, Pay(t) \/ Lapse(t)
        PROVE  BaseInv'
    <2>1. UNCHANGED <<locks, order, books, bonus, progress, faults>>
      BY <1>4 DEF Pay, Lapse
    <2>2. outcome' \in [Trades -> {"none", "open", "paid", "lapsed"}]
      BY <1>4 DEF Pay, Lapse, BaseInv, TopUpTypeOK
    <2>3. LockInv'
      BY <2>1, LocksStutter DEF BaseInv
    <2> QED BY <2>1, <2>2, <2>3 DEF BaseInv, TopUpTypeOK, StepsMatchLock, ClaimHeld, BonusOnce,
                               locks, books, bonus, progress
  <1>5. ASSUME NEW p \in Processes, Stop(p) PROVE BaseInv'
    BY <1>5, StopKeepsBase
  <1>6. CASE UNCHANGED vars
    <2>1. LockInv'
      BY <1>6, LocksStutter DEF BaseInv, vars
    <2> QED BY <1>6, <2>1 DEF BaseInv, TopUpTypeOK, StepsMatchLock, ClaimHeld, BonusOnce,
                          vars, locks, books, bonus, progress
  <1> QED BY <1>1, <1>2, <1>3, <1>4, <1>5, <1>6 DEF Next

\* Locks, positions of the handlers and the claim of the bonus are consistent in
\* every behaviour: LockOrder, UnlockOrder and GrantTopUpBonus, for any number of
\* processes, handlers and orders.
THEOREM BaseInvariant == Spec => []BaseInv
  <1>1. TopUpInit => BaseInv
    BY InitSound
  <1> QED BY <1>1, NextKeepsBase, PTL DEF Spec

\* Only the handler inside the lock of an order is about to write it.
LEMMA OneWriter ==
  ASSUME BaseInv, SingleProcess, NEW g \in Handlers, NEW h \in Handlers,
         pc[g] = "write", pc[h] = "write", key[g] = key[h]
  PROVE  g = h
  <1>1. at[g] = "in" /\ at[h] = "in"
    BY DEF BaseInv, StepsMatchLock, OutOfLock, LockInv, LockTypeOK
  <1>2. OrderMutex
    BY LockInvGives DEF BaseInv
  <1> QED BY <1>1, <1>2 DEF OrderMutex, SingleProcess

\* Credited orders that keep their columns stay paid for.
LEMMA PaidKept ==
  ASSUME CreditedWhenPaid, UNCHANGED <<credits, byHand>>,
         \A u \in Trades :
           /\ credits[u] > 0 => order'[u].method = order[u].method /\ order'[u].hash = order[u].hash
           /\ outcome[u] = "paid" => outcome'[u] = "paid"
           /\ order'[u].hash \in {order[u].hash, NoHash}
  PROVE  CreditedWhenPaid'
  BY DEF CreditedWhenPaid, HashUsed

\* A new order is not known to any gateway and to no handler inside a lock.
LEMMA CreateKeepsCredit ==
  ASSUME BaseInv, CreditInv, NEW h \in Handlers, NEW t \in Trades, NEW m \in Methods,
         Create(h, t, m)
  PROVE  CreditInv'
  <1> USE DEF CreditInv, BaseInv, Create, books
  <1>1. /\ \A u \in Trades : order'[u] = IF u = t THEN [status |-> "pending", method |-> m,
                                                      hash |-> NoHash] ELSE order[u]
        /\ outcome' \in [Trades -> {"none", "open", "paid", "lapsed"}]
        /\ \A u \in Trades : u # t => outcome'[u] = outcome[u]
        /\ order[t].status = "none" /\ credits[t] = 0 /\ outcome[t] = "none"
    BY DEF TopUpTypeOK, Uncredited, LinkedOnce
  <1>2. \A g \in Handlers : /\ g # h => pc'[g] = pc[g] /\ key'[g] = key[g]
                            /\ pc'[h] \in OutOfLock
                            /\ pc'[h] = "link" => key'[h] = t /\ outcome' = outcome
    BY DEF Idle, Goto, progress, TopUpTypeOK, LockInv, LockTypeOK, OutOfLock
  <1>3. UNCHANGED <<call, verdict, at, credits, byHand>>
    BY DEF progress, mutexes
  <1>4. \A g \in Handlers : pc[g] \notin {"idle"} => key[g] \in Trades
    BY DEF StepsMatchLock
  <1>5. \A g \in Handlers : at[g] # "out" => key[g] # t /\ g # h
    BY DEF ReportsArePaid, Idle
  <1>6. Uncredited' /\ CreditedOnce'
    BY <1>1, <1>2, <1>3, <1>4 DEF Uncredited, CreditedOnce, OutOfLock
  <1>7. LinkedOnce'
    <2>1. \A g \in Handlers : pc[g] = "link" => key[g] # t /\ key[g] \in Trades
      BY <1>1, <1>4 DEF LinkedOnce
    <2> QED BY <1>1, <1>2, <2>1 DEF LinkedOnce
  <1>8. ReportsArePaid'
    <2>1. \A g \in Handlers : at[g] # "out" =>
            /\ order'[key'[g]] = order[key[g]] /\ outcome'[key'[g]] = outcome[key[g]]
            /\ pc'[g] = pc[g]
      BY <1>1, <1>2, <1>4, <1>5 DEF StepsMatchLock, OutOfLock
    <2>2. \A g \in Handlers : pc'[g] = "write" => at[g] # "out"
      BY <1>2 DEF StepsMatchLock, OutOfLock
    <2> QED BY <2>1, <2>2, <1>3 DEF ReportsArePaid
  <1>9. CreditedWhenPaid'
    <2>1. \A u \in Trades :
            /\ credits[u] > 0 => order'[u].method = order[u].method /\ order'[u].hash = order[u].hash
            /\ outcome[u] = "paid" => outcome'[u] = "paid"
            /\ order'[u].hash \in {order[u].hash, NoHash}
      BY <1>1
    <2> QED BY <2>1, <1>3, PaidKept
  <1> QED BY <1>6, <1>7, <1>8, <1>9

\* The status of an order is set to a failure, or nothing is written: handlers
\* may move between steps that write no credit.
LEMMA QuietKeepsCredit ==
  ASSUME BaseInv, CreditInv, UNCHANGED <<credits, byHand>>,
         \A u \in Trades : /\ order'[u].method = order[u].method
                           /\ order'[u].hash = order[u].hash
                           /\ order'[u].status \in {order[u].status} \cup Failures
                           /\ outcome[u] # "none" => outcome'[u] # "none"
                           /\ outcome[u] = "paid" => outcome'[u] = "paid"
                           /\ outcome'[u] # outcome[u] =>
                                /\ order[u].status # "none"
                                /\ \A g \in Handlers : pc'[g] = "link" => key'[g] # u,
         \A g \in Handlers :
           /\ pc'[g] = "link" => pc[g] = "link" /\ key'[g] = key[g]
           /\ pc'[g] = "write" => pc[g] = "write" /\ key'[g] = key[g] /\ verdict'[g] = verdict[g]
                                 /\ call'[g] = call[g]
           /\ \/ call'[g] = call[g] /\ (at'[g] # "out" => at[g] # "out" /\ key'[g] = key[g])
              \/ call'[g] = NoCall /\ at'[g] = "out"
  PROVE  CreditInv'
  <1> USE DEF CreditInv
  <1>1. \A g \in Handlers : pc[g] # "idle" => key[g] \in Trades
    BY DEF BaseInv, StepsMatchLock
  <1>2. \A g \in Handlers : at[g] # "out" => key[g] \in Trades
    BY DEF BaseInv, StepsMatchLock, OutOfLock
  <1>3. Uncredited' /\ CreditedOnce'
    BY <1>1 DEF Uncredited, CreditedOnce, Failures
  <1>4. LinkedOnce'
    BY <1>1 DEF LinkedOnce, Failures
  <1>5. ReportsArePaid'
    <2>1. ASSUME NEW g \in Handlers
          PROVE  (call'[g].kind = "crypto") <=> (call'[g].hash # NoHash)
      BY DEF ReportsArePaid, NoCall, Call
    <2>2. ASSUME NEW g \in Handlers, at'[g] # "out"
          PROVE  /\ order'[key'[g]].status # "none"
                 /\ (call'[g].kind = order'[key'[g]].method /\ call'[g].kind # "crypto")
                      => outcome'[key'[g]] = "paid"
      BY <2>2, <1>2 DEF ReportsArePaid, Failures
    <2>3. ASSUME NEW g \in Handlers, pc'[g] = "write", verdict'[g] = "credit"
          PROVE  call'[g].kind \in {"manual", order'[key'[g]].method}
      BY <2>3, <1>1 DEF ReportsArePaid
    <2> QED BY <2>1, <2>2, <2>3 DEF ReportsArePaid
  <1>6. CreditedWhenPaid'
    BY PaidKept
  <1> QED BY <1>3, <1>4, <1>5, <1>6

\* Handlers without the lock (links that fail, Waffo's failure notices) credit
\* nothing and never make a credited order pending.
LEMMA OutsideKeepsCredit ==
  ASSUME BaseInv, CreditInv, NEW h \in Handlers,
         \/ LinkOk(h) \/ LinkFails(h) \/ Recheck(h) \/ MarkFailed(h)
         \/ \E t \in Trades : WaffoFails(h, t)
  PROVE  CreditInv'
  <1> USE DEF BaseInv, Goto, Return
  <1>1. /\ UNCHANGED <<credits, byHand, call, verdict, at>> /\ at[h] = "out"
        /\ \A g \in Handlers : g # h => pc'[g] = pc[g] /\ key'[g] = key[g]
        /\ pc'[h] \in {"idle", "recheck", "mark"}
        /\ order \in [Trades -> Orders]
    BY DEF LinkOk, LinkFails, Recheck, MarkFailed, WaffoFails, StepsMatchLock, OutOfLock, Idle,
           mutexes, books, TopUpTypeOK, LockInv, LockTypeOK
  <1>2. \A u \in Trades : /\ order'[u].method = order[u].method
                          /\ order'[u].hash = order[u].hash
                          /\ order'[u].status \in {order[u].status} \cup Failures
    <2>1. CASE UNCHANGED order
      BY <2>1
    <2>2. CASE order' # order
      <3>1. pc[h] \in {"link", "mark"} /\ key[h] \in Trades
        BY <2>2 DEF LinkOk, LinkFails, Recheck, MarkFailed, WaffoFails, StepsMatchLock
      <3>2. \E s \in Failures : SetStatus(key[h], s)
        BY <2>2 DEF LinkOk, LinkFails, Recheck, MarkFailed, WaffoFails, Failures
      <3>3. PICK s \in Failures : SetStatus(key[h], s)
        BY <3>2
      <3>4. s \in Statuses
        BY DEF Statuses
      <3> QED BY <3>1, <3>3, <3>4, <1>1, SetStatusFields
    <2> QED BY <2>1, <2>2
  <1>3. \A u \in Trades : outcome'[u] # outcome[u] =>
          /\ outcome[u] = "none" /\ outcome'[u] = "open" /\ order[u].status # "none"
          /\ \A g \in Handlers : pc'[g] = "link" => key'[g] # u
    <2>1. CASE LinkOk(h)
      BY <2>1, <1>1 DEF LinkOk, CreditInv, LinkedOnce, TopUpTypeOK
    <2>2. CASE ~ LinkOk(h)
      BY <2>2 DEF LinkFails, Recheck, MarkFailed, WaffoFails
    <2> QED BY <2>1, <2>2
  <1>4. \A g \in Handlers : at'[g] # "out" => at[g] # "out" /\ key'[g] = key[g]
    BY <1>1
  <1>5. \A g \in Handlers :
          /\ pc'[g] = "link" => pc[g] = "link" /\ key'[g] = key[g]
          /\ pc'[g] = "write" => pc[g] = "write" /\ key'[g] = key[g]
    BY <1>1
  <1> QED BY <1>1, <1>2, <1>3, <1>4, <1>5, QuietKeepsCredit

\* Inside the lock, everything but the read and the completing write leaves the
\* credits as they are.
LEMMA InsideKeepsCredit ==
  ASSUME BaseInv, CreditInv, NEW h \in Handlers,
         \/ FailOrder(h) \/ AnswerDone(h) \/ Refuse(h) \/ Rollback(h)
         \/ ClaimBonus(h) \/ NoBonus(h) \/ RedeemBonus(h) \/ ReleaseBonus(h) \/ Answer(h)
  PROVE  CreditInv'
  <1> USE DEF BaseInv, Goto
  <1>1. /\ UNCHANGED <<credits, byHand, call, verdict, at, key, outcome>>
        /\ \A g \in Handlers : g # h => pc'[g] = pc[g]
        /\ pc'[h] \in {"redeem", "answer", "unlock"}
    BY DEF FailOrder, AnswerDone, Refuse, Rollback, ClaimBonus, NoBonus, RedeemBonus,
           ReleaseBonus, Answer, locks, books, TopUpTypeOK
  <1>2. \A u \in Trades : /\ order'[u].method = order[u].method
                          /\ order'[u].hash = order[u].hash
                          /\ order'[u].status \in {order[u].status} \cup Failures
    <2>1. CASE FailOrder(h)
      <3>1. /\ key[h] \in Trades /\ verdict[h] \in Failures /\ verdict[h] \in Statuses
            /\ order \in [Trades -> Orders] /\ SetStatus(key[h], verdict[h])
        BY <2>1 DEF FailOrder, StepsMatchLock, TopUpTypeOK, Statuses
      <3> QED BY <3>1, SetStatusFields
    <2>2. CASE ~ FailOrder(h)
      <3>1. UNCHANGED order
        BY <2>2 DEF AnswerDone, Refuse, Rollback, ClaimBonus, NoBonus, RedeemBonus,
                    ReleaseBonus, Answer
      <3> QED BY <3>1
    <2> QED BY <2>1, <2>2
  <1>3. \A g \in Handlers :
          /\ pc'[g] = "link" => pc[g] = "link" /\ key'[g] = key[g]
          /\ pc'[g] = "write" => pc[g] = "write" /\ key'[g] = key[g]
    BY <1>1
  <1> QED BY <1>1, <1>2, <1>3, QuietKeepsCredit

\* Taking and leaving the lock, and the end of a process, credit nothing.
LEMMA LockStepKeepsCredit ==
  ASSUME BaseInv, CreditInv,
         \/ \E h \in Handlers : EnterLock(h) \/ LeaveLock(h) \/ Finish(h)
         \/ \E p \in Processes : Stop(p)
  PROVE  CreditInv'
  <1>1. UNCHANGED <<credits, byHand, order, outcome>>
    BY DEF EnterLock, LeaveLock, Finish, Stop, books
  <1> DEFINE Kept(g) ==
        /\ pc'[g] = "link" => pc[g] = "link" /\ key'[g] = key[g]
        /\ pc'[g] = "write" => pc[g] = "write" /\ key'[g] = key[g] /\ verdict'[g] = verdict[g]
                              /\ call'[g] = call[g]
        /\ \/ call'[g] = call[g] /\ (at'[g] # "out" => at[g] # "out" /\ key'[g] = key[g])
           \/ call'[g] = NoCall /\ at'[g] = "out"
  <1>2. \A g \in Handlers : Kept(g)
    <2>1. ASSUME NEW h \in Handlers, EnterLock(h) PROVE \A g \in Handlers : Kept(g)
      BY <2>1 DEF EnterLock, Acquire, progress, BaseInv, LockInv, LockTypeOK
    <2>2. ASSUME NEW h \in Handlers, LeaveLock(h) PROVE \A g \in Handlers : Kept(g)
      <3>1. UNCHANGED key /\ at[h] = "in"
        BY <2>2, ReleaseKeeps DEF LeaveLock, BaseInv, Release
      <3> QED BY <2>2, <3>1 DEF LeaveLock, Release, progress, BaseInv, LockInv, LockTypeOK
    <2>3. ASSUME NEW h \in Handlers, Finish(h) PROVE \A g \in Handlers : Kept(g)
      BY <2>3 DEF Finish, Deregister, Goto, BaseInv, LockInv, LockTypeOK, TopUpTypeOK
    <2>4. ASSUME NEW p \in Processes, Stop(p) PROVE \A g \in Handlers : Kept(g)
      BY <2>4 DEF Stop, LocksLost
    <2> QED BY <2>1, <2>2, <2>3, <2>4
  <1> QED BY <1>1, <1>2, QuietKeepsCredit

\* What happens at a gateway credits nothing by itself.
LEMMA GatewayKeepsCredit ==
  ASSUME BaseInv, CreditInv, NEW t \in Trades, Pay(t) \/ Lapse(t)
  PROVE  CreditInv'
  <1>1. UNCHANGED <<credits, byHand, order, pc, key, verdict, call, at>>
    BY DEF Pay, Lapse, books, progress, locks
  <1>2. /\ outcome[t] = "open" /\ outcome'[t] # "none"
        /\ \A u \in Trades : u # t => outcome'[u] = outcome[u]
    BY DEF Pay, Lapse, BaseInv, TopUpTypeOK
  <1>3. order[t].status # "none" /\ \A g \in Handlers : pc[g] = "link" => key[g] # t
    BY <1>2 DEF CreditInv, LinkedOnce
  <1> QED BY <1>1, <1>2, <1>3, QuietKeepsCredit

\* A request that reaches the lock is about an order that exists.
LEMMA RequestKeepsCredit ==
  ASSUME BaseInv, CreditInv, NEW h \in Handlers, NEW t \in Trades,
         \/ Report(h, t) \/ AdminCompleteTopUp(h, t)
         \/ \E g \in Astray : ReportAstray(h, t, g)
         \/ \E x \in Hashes : RequestCryptoConfirm(h, t, x)
         \/ \E s \in Failures : StripeFails(h, t, s)
  PROVE  CreditInv'
  <1>1. PICK c \in Calls : Request(h, t, c)
    BY RequestIsCall
  <1>2. /\ UNCHANGED <<order, outcome, credits, byHand, verdict>> /\ call'[h] = c
        /\ pc'[h] = "read" /\ key'[h] = t
        /\ \A g \in Handlers : g # h => /\ pc'[g] = pc[g] /\ key'[g] = key[g]
                                        /\ at'[g] = at[g] /\ call'[g] = call[g]
    BY <1>1 DEF Request, Register, Goto, books, BaseInv, LockInv, LockTypeOK, TopUpTypeOK
  <1>3. /\ (call'[h].kind = "crypto") <=> (call'[h].hash # NoHash)
        /\ order[t].status # "none"
        /\ (call'[h].kind = order[t].method /\ call'[h].kind # "crypto") => outcome[t] = "paid"
    <2>1. ASSUME NEW d, Request(h, t, d) PROVE call'[h] = d
      BY <2>1 DEF Request, BaseInv, TopUpTypeOK
    <2> USE TopUpAssumption DEF Call, CreditInv, LinkedOnce, Failures
    <2>2. CASE Report(h, t)
      <3>1. order[t].status # "none" /\ order[t].method # "crypto" /\ outcome[t] = "paid"
        BY <2>2 DEF Report
      <3>2. call'[h] = Call(order[t].method, NoHash)
        BY <2>2, <2>1 DEF Report
      <3> QED BY <3>1, <3>2
    <2>3. CASE AdminCompleteTopUp(h, t)
      <3>1. call'[h] = Call("manual", NoHash) /\ order[t].status # "none"
        BY <2>3, <2>1 DEF AdminCompleteTopUp
      <3>2. order[t].method # "manual"
        BY DEF BaseInv, TopUpTypeOK, Orders, Gateways
      <3> QED BY <3>1, <3>2
    <2>4. CASE \E g \in Astray : ReportAstray(h, t, g)
      <3>1. PICK g \in Astray : ReportAstray(h, t, g)
        BY <2>4
      <3>2. call'[h] = Call(g, NoHash) /\ order[t].status # "none" /\ g # order[t].method
            /\ g # "crypto"
        BY <3>1, <2>1 DEF ReportAstray
      <3> QED BY <3>2
    <2>5. CASE \E x \in Hashes : RequestCryptoConfirm(h, t, x)
      <3>1. PICK x \in Hashes : RequestCryptoConfirm(h, t, x)
        BY <2>5
      <3>2. call'[h] = Call("crypto", x) /\ order[t].status = "pending" /\ x # NoHash
        BY <3>1, <2>1 DEF RequestCryptoConfirm
      <3> QED BY <3>2
    <2>6. CASE \E s \in Failures : StripeFails(h, t, s)
      <3>1. PICK s \in Failures : StripeFails(h, t, s)
        BY <2>6
      <3>2. call'[h] = Call(s, NoHash) /\ outcome[t] = "lapsed" /\ order[t].method = "stripe"
        BY <3>1, <2>1 DEF StripeFails
      <3> QED BY <3>2
    <2> QED BY <2>2, <2>3, <2>4, <2>5, <2>6
  <1>4. Uncredited' /\ CreditedOnce' /\ LinkedOnce'
    BY <1>2 DEF CreditInv, Uncredited, CreditedOnce, LinkedOnce
  <1>5. ReportsArePaid'
    BY <1>2, <1>3 DEF CreditInv, ReportsArePaid
  <1>6. CreditedWhenPaid'
    BY <1>2, PaidKept DEF CreditInv
  <1> QED BY <1>4, <1>5, <1>6 DEF CreditInv

\* The verdict to credit is given on a pending order.
LEMMA ReadKeepsCredit ==
  ASSUME BaseInv, CreditInv, NEW h \in Handlers, ReadOrder(h)
  PROVE  CreditInv'
  <1> USE DEF BaseInv, ReadOrder, Goto
  <1>1. key[h] \in Trades /\ call[h] \in Calls /\ order[key[h]] \in Orders
    BY DEF StepsMatchLock, TopUpTypeOK
  <1>2. /\ UNCHANGED <<order, outcome, credits, byHand, call, at, key>>
        /\ pc'[h] = "write" /\ verdict'[h] = Decide(call[h], key[h])
        /\ \A g \in Handlers : g # h => pc'[g] = pc[g] /\ verdict'[g] = verdict[g]
    BY DEF TopUpTypeOK, locks, books
  <1>3. verdict'[h] = "credit" => /\ order[key[h]].status = "pending"
                                  /\ call[h].kind \in {"manual", order[key[h]].method}
    BY <1>1, <1>2, DecideType
  <1>4. Uncredited' /\ CreditedOnce' /\ LinkedOnce'
    BY <1>1, <1>2, <1>3 DEF CreditInv, Uncredited, CreditedOnce, LinkedOnce
  <1>5. ReportsArePaid'
    BY <1>2, <1>3 DEF CreditInv, ReportsArePaid
  <1>6. CreditedWhenPaid'
    BY <1>2, PaidKept DEF CreditInv
  <1> QED BY <1>4, <1>5, <1>6 DEF CreditInv

\* The credit: the order was pending when it was read, and the lock kept every
\* other handler from crediting it since.
LEMMA CompleteKeepsCredit ==
  ASSUME BaseInv, CreditInv, SingleProcess, NEW h \in Handlers, CompleteOrder(h),
         NEW t, t = key[h], NEW x, x = call[h].hash
  PROVE  CreditInv'
  <1> USE DEF CompleteOrder, Goto
  <1>1. /\ t \in Trades /\ order \in [Trades -> Orders] /\ call[h] \in Calls
        /\ credits \in [Trades -> Nat]
    BY DEF BaseInv, StepsMatchLock, TopUpTypeOK
  <1>2. /\ UNCHANGED <<outcome, call, verdict, at, key>> /\ pc'[h] = "bonus"
        /\ \A g \in Handlers : g # h => pc'[g] = pc[g]
        /\ \A u \in Trades : credits'[u] = IF u = t THEN credits[u] + 1 ELSE credits[u]
        /\ byHand' = IF call[h].kind = "manual" THEN byHand \cup {t} ELSE byHand
    BY <1>1 DEF locks, BaseInv, TopUpTypeOK
  <1>3. /\ order'[t].status = "success" /\ order'[t].hash = x
        /\ order'[t].method = order[t].method
        /\ \A u \in Trades : u # t => order'[u] = order[u]
    <2>1. order' = [order EXCEPT ![t] = [@ EXCEPT !.status = "success", !.hash = x]]
      OBVIOUS
    <2>2. order'[t] = [order[t] EXCEPT !.status = "success", !.hash = x]
          /\ \A u \in Trades : u # t => order'[u] = order[u]
      BY <2>1, <1>1
    <2>3. order[t] \in Orders
      BY <1>1
    <2>4. /\ [order[t] EXCEPT !.status = "success", !.hash = x].status = "success"
          /\ [order[t] EXCEPT !.status = "success", !.hash = x].hash = x
          /\ [order[t] EXCEPT !.status = "success", !.hash = x].method = order[t].method
      BY <2>3 DEF Orders
    <2> QED BY <2>2, <2>4
  <1>4. credits[t] = 0 /\ call[h].kind \in {"manual", order[t].method}
    BY DEF CreditInv, Uncredited, ReportsArePaid
  <1> HIDE DEF CompleteOrder, Goto
  <1>5. Uncredited' /\ CreditedOnce'
    <2>1. \A g \in Handlers : (g # h /\ pc[g] = "write") => key[g] # t
      BY OneWriter DEF CompleteOrder
    <2>2. \A g \in Handlers : pc[g] = "write" => key[g] \in Trades
      BY DEF BaseInv, StepsMatchLock
    <2> QED BY <2>1, <2>2, <1>1, <1>2, <1>3, <1>4 DEF CreditInv, Uncredited, CreditedOnce
  <1>6. LinkedOnce'
    <2>1. \A g \in Handlers : pc[g] = "link" => key[g] \in Trades
      BY DEF BaseInv, StepsMatchLock
    <2> QED BY <2>1, <1>1, <1>2, <1>3 DEF CreditInv, LinkedOnce
  <1>7. ReportsArePaid'
    <2>1. \A g \in Handlers : at[g] # "out" \/ pc[g] = "write" => key[g] \in Trades
      BY DEF BaseInv, StepsMatchLock, OutOfLock
    <2>2. \A u \in Trades : /\ order'[u].method = order[u].method
                            /\ order[u].status # "none" => order'[u].status # "none"
      BY <1>1, <1>3
    <2>3. ASSUME NEW g \in Handlers, at[g] # "out"
          PROVE  /\ order'[key[g]].status # "none"
                 /\ (call[g].kind = order'[key[g]].method /\ call[g].kind # "crypto")
                      => outcome[key[g]] = "paid"
      BY <2>1, <2>2, <2>3 DEF CreditInv, ReportsArePaid
    <2>4. ASSUME NEW g \in Handlers, pc'[g] = "write", verdict[g] = "credit"
          PROVE  call[g].kind \in {"manual", order'[key[g]].method}
      <3>1. pc[g] = "write" /\ key[g] \in Trades
        BY <2>1, <2>4, <1>2
      <3> QED BY <3>1, <2>2, <2>4 DEF CreditInv, ReportsArePaid
    <2>5. \A g \in Handlers : (call[g].kind = "crypto") <=> (call[g].hash # NoHash)
      BY DEF CreditInv, ReportsArePaid
    <2> QED BY <2>3, <2>4, <2>5, <1>2 DEF ReportsArePaid
  <1>8. CreditedWhenPaid'
    <2> SUFFICES ASSUME NEW u \in Trades, credits'[u] > 0, u \notin byHand'
                 PROVE  IF order'[u].method = "crypto"
                        THEN /\ order'[u].hash # NoHash
                             /\ \A v \in Trades : v # u => order'[v].hash # order'[u].hash
                        ELSE outcome'[u] = "paid"
      BY DEF CreditedWhenPaid, HashUsed
    <2>1. call[h].kind = "crypto" <=> x # NoHash
      BY DEF CreditInv, ReportsArePaid
    <2>2. x # NoHash => \A v \in Trades : v # t => order[v].hash # x
      BY <2>1 DEF CompleteOrder, HashFree, HashUsed
    <2>3. CASE u = t
      <3>1. call[h].kind = order[t].method
        BY <2>3, <1>2, <1>4
      <3>2. CASE order[t].method = "crypto"
        BY <2>1, <2>2, <2>3, <3>1, <3>2, <1>3
      <3>3. CASE order[t].method # "crypto"
        <4>1. at[h] # "out"
          BY DEF CompleteOrder
        <4> QED BY <2>3, <3>1, <3>3, <4>1, <1>2, <1>3 DEF CreditInv, ReportsArePaid
      <3> QED BY <3>2, <3>3
    <2>4. CASE u # t
      <3>1. credits[u] > 0 /\ u \notin byHand /\ order'[u] = order[u]
        BY <2>4, <1>2, <1>3
      <3>2. IF order[u].method = "crypto"
            THEN /\ order[u].hash # NoHash
                 /\ \A v \in Trades : v # u => order[v].hash # order[u].hash
            ELSE outcome[u] = "paid"
        BY <3>1 DEF CreditInv, CreditedWhenPaid, HashUsed
      <3>3. order[u].hash # NoHash => order[u].hash # x
        BY <2>2, <2>4
      <3>4. ASSUME NEW v \in Trades, v # u, order[u].method = "crypto"
            PROVE  order'[v].hash # order'[u].hash
        <4>1. CASE v = t
          BY <4>1, <3>1, <3>2, <3>3, <3>4, <1>3
        <4>2. CASE v # t
          <5>1. order'[v] = order[v]
            BY <4>2, <1>3
          <5> QED BY <5>1, <3>1, <3>2, <3>4
        <4> QED BY <4>1, <4>2
      <3> QED BY <3>1, <3>2, <3>4, <1>2
    <2> QED BY <2>3, <2>4
  <1> QED BY <1>5, <1>6, <1>7, <1>8 DEF CreditInv

\* With all handlers in one process every step keeps the credits sound.
LEMMA NextKeepsCredit ==
  ASSUME SingleProcess, BaseInv, CreditInv, [Next]_vars
  PROVE  CreditInv'
  <1>1. ASSUME NEW h \in Handlers, Locked(h) PROVE CreditInv'
    BY <1>1, InsideKeepsCredit, LockStepKeepsCredit, ReadKeepsCredit, CompleteKeepsCredit
    DEF Locked
  <1>2. ASSUME NEW h \in Handlers, \E t \in Trades, m \in Methods : Create(h, t, m)
        PROVE  CreditInv'
    BY <1>2, CreateKeepsCredit
  <1>3. ASSUME NEW h \in Handlers,
               \/ LinkOk(h) \/ LinkFails(h) \/ Recheck(h) \/ MarkFailed(h)
               \/ \E t \in Trades : WaffoFails(h, t)
        PROVE  CreditInv'
    BY <1>3, OutsideKeepsCredit
  <1>4. ASSUME NEW h \in Handlers, NEW t \in Trades,
               \/ Report(h, t) \/ AdminCompleteTopUp(h, t)
               \/ \E g \in Astray : ReportAstray(h, t, g)
               \/ \E x \in Hashes : RequestCryptoConfirm(h, t, x)
               \/ \E s \in Failures : StripeFails(h, t, s)
        PROVE  CreditInv'
    BY <1>4, RequestKeepsCredit
  <1>5. ASSUME NEW t \in Trades, Pay(t) \/ Lapse(t) PROVE CreditInv'
    BY <1>5, GatewayKeepsCredit
  <1>6. ASSUME NEW p \in Processes, Stop(p) PROVE CreditInv'
    BY <1>6, LockStepKeepsCredit
  <1>7. CASE UNCHANGED vars
    BY <1>7, QuietKeepsCredit DEF vars, locks, books, progress
  <1> QED BY <1>1, <1>2, <1>3, <1>4, <1>5, <1>6, <1>7 DEF Next

(***************************************************************************)
(* What the status of an order tells.                                      *)
(***************************************************************************)
\* A gateway knows the order, or its creator is still waiting for the answer.
Known(t) == outcome[t] # "none" \/ \E g \in Handlers : pc[g] = "link" /\ key[g] = t

\* A failure that is written without the lock concerns an order that no gateway
\* knows, or Waffo; one that is written under the lock an uncredited order.
TellInv ==
  /\ \A t \in Trades : (Known(t) /\ order[t].method # "waffo") =>
       ((credits[t] > 0) <=> (order[t].status = "success"))
  /\ \A h \in Handlers, t \in Trades : (pc[h] \in {"recheck", "mark"} /\ key[h] = t) =>
       /\ order[t].status # "none"
       /\ order[t].method # "waffo" => ~ Known(t)
  /\ \A h \in Handlers :
       (pc[h] = "write" /\ verdict[h] \in Failures) => credits[key[h]] = 0

\* Steps that credit nothing and let nobody know of an order that was unknown.
LEMMA QuietKeepsTell ==
  ASSUME BaseInv, TellInv, UNCHANGED credits,
         \A u \in Trades :
           /\ order'[u].method = order[u].method
           /\ Known(u)' => Known(u)
           /\ \/ order'[u].status = order[u].status
              \/ /\ order'[u].status \in Failures
                 /\ credits[u] = 0 \/ order[u].method = "waffo" \/ ~ Known(u)',
         \A g \in Handlers :
           /\ \A u \in Trades : (pc'[g] \in {"recheck", "mark"} /\ key'[g] = u) =>
                \/ pc[g] \in {"recheck", "mark"} /\ key[g] = u
                \/ /\ order[u].status # "none"
                   /\ order[u].method # "waffo" => ~ Known(u)'
           /\ (pc'[g] = "write" /\ verdict'[g] \in Failures) =>
                \/ pc[g] = "write" /\ verdict[g] \in Failures /\ key'[g] = key[g]
                \/ credits[key'[g]] = 0
  PROVE  TellInv'
  <1>1. \A g \in Handlers : pc[g] # "idle" => key[g] \in Trades
    BY DEF BaseInv, StepsMatchLock
  <1>2. "success" \notin Failures /\ "none" \notin Failures
    BY DEF Failures
  <1>3. ASSUME NEW t \in Trades, Known(t)', order'[t].method # "waffo"
        PROVE  (credits'[t] > 0) <=> (order'[t].status = "success")
    <2>1. (credits[t] > 0) <=> (order[t].status = "success")
      BY <1>3 DEF TellInv
    <2>2. CASE order'[t].status = order[t].status
      BY <2>1, <2>2
    <2>3. CASE order'[t].status # order[t].status
      BY <1>2, <1>3, <2>3
    <2> QED BY <2>2, <2>3
  <1>4. ASSUME NEW h \in Handlers, NEW u \in Trades, pc'[h] \in {"recheck", "mark"}, key'[h] = u
        PROVE  /\ order'[u].status # "none"
               /\ order'[u].method # "waffo" => ~ Known(u)'
    <2>1. /\ order[u].status # "none"
          /\ order[u].method # "waffo" => ~ Known(u)'
      <3>1. CASE pc[h] \in {"recheck", "mark"} /\ key[h] = u
        BY <3>1 DEF TellInv
      <3> QED BY <1>4, <3>1
    <2>2. order'[u].method = order[u].method /\ order'[u].status # "none"
      BY <1>2, <2>1
    <2> QED BY <2>1, <2>2
  <1>5. ASSUME NEW h \in Handlers, pc'[h] = "write", verdict'[h] \in Failures
        PROVE  credits'[key'[h]] = 0
    BY <1>5 DEF TellInv
  <1> QED BY <1>3, <1>4, <1>5 DEF TellInv

\* Where no handler starts to wait for a link and no outcome changes, nobody
\* learns of an order.
LEMMA KnownKept ==
  ASSUME UNCHANGED outcome,
         \A g \in Handlers : pc'[g] = "link" => pc[g] = "link" /\ key'[g] = key[g],
         NEW u \in Trades, Known(u)'
  PROVE  Known(u)
  BY DEF Known

LEMMA InitTells == TopUpInit => TellInv
  <1> SUFFICES ASSUME TopUpInit PROVE TellInv
    OBVIOUS
  <1>1. /\ \A t \in Trades : order[t].status # "success" /\ credits[t] = 0
        /\ \A h \in Handlers : pc[h] = "idle"
    BY DEF TopUpInit, NoOrder
  <1> QED BY <1>1 DEF TellInv

\* A new order is pending and not credited.
LEMMA CreateKeepsTell ==
  ASSUME BaseInv, CreditInv, TellInv, NEW h \in Handlers, NEW t \in Trades,
         NEW m \in Methods, Create(h, t, m)
  PROVE  TellInv'
  <1> USE DEF BaseInv, Create, books
  <1>1. /\ \A u \in Trades : order'[u] = IF u = t THEN [status |-> "pending", method |-> m,
                                                      hash |-> NoHash] ELSE order[u]
        /\ \A u \in Trades : u # t => outcome'[u] = outcome[u]
        /\ order[t].status = "none" /\ credits[t] = 0 /\ UNCHANGED <<credits, verdict>>
    BY DEF TopUpTypeOK, CreditInv, Uncredited, LinkedOnce, progress
  <1>2. /\ pc[h] = "idle" /\ pc'[h] \in {"idle", "link"} /\ (pc'[h] = "link" => key'[h] = t)
        /\ \A g \in Handlers : g # h => pc'[g] = pc[g] /\ key'[g] = key[g]
    BY DEF Idle, Goto, progress, TopUpTypeOK, LockInv, LockTypeOK
  <1>3. \A g \in Handlers : pc[g] # "idle" => key[g] \in Trades
    BY DEF StepsMatchLock
  <1> HIDE DEF BaseInv, Create, books
  <1>4. ASSUME NEW u \in Trades, u # t PROVE Known(u)' <=> Known(u)
    BY <1>1, <1>2, <1>4 DEF Known
  <1>5. ASSUME NEW u \in Trades, Known(u)', order'[u].method # "waffo"
        PROVE  (credits'[u] > 0) <=> (order'[u].status = "success")
    <2>1. CASE u = t
      BY <1>1, <2>1
    <2>2. CASE u # t
      <3>1. order'[u] = order[u] /\ Known(u) /\ credits' = credits
        BY <1>1, <1>4, <1>5, <2>2
      <3> QED BY <1>5, <3>1 DEF TellInv
    <2> QED BY <2>1, <2>2
  <1>6. ASSUME NEW g \in Handlers, NEW u \in Trades, pc'[g] \in {"recheck", "mark"}, key'[g] = u
        PROVE  /\ order'[u].status # "none"
               /\ order'[u].method # "waffo" => ~ Known(u)'
    <2>1. g # h /\ pc[g] \in {"recheck", "mark"} /\ u = key[g]
      BY <1>2, <1>6
    <2>2. order[u].status # "none" /\ (order[u].method # "waffo" => ~ Known(u))
      BY <2>1 DEF TellInv
    <2>3. u # t
      BY <1>1, <2>2
    <2>4. order'[u] = order[u]
      BY <1>1, <2>3
    <2> QED BY <1>4, <2>2, <2>3, <2>4
  <1>7. ASSUME NEW g \in Handlers, pc'[g] = "write", verdict'[g] \in Failures
        PROVE  credits'[key'[g]] = 0
    BY <1>1, <1>2, <1>7 DEF TellInv
  <1> QED BY <1>5, <1>6, <1>7 DEF TellInv

\* The gateway answered: the order was known through its creator before.
LEMMA LinkOkKeepsTell ==
  ASSUME BaseInv, CreditInv, TellInv, NEW h \in Handlers, LinkOk(h)
  PROVE  TellInv'
  <1> USE DEF LinkOk, Return, Goto, BaseInv
  <1>1. /\ key[h] \in Trades /\ pc[h] = "link" /\ UNCHANGED <<order, credits, verdict>>
        /\ pc'[h] = "idle" /\ \A u \in Trades : u # key[h] => outcome'[u] = outcome[u]
        /\ \A g \in Handlers : g # h => pc'[g] = pc[g] /\ key'[g] = key[g]
    BY DEF StepsMatchLock, TopUpTypeOK, LockInv, LockTypeOK, books
  <1>2. ASSUME NEW u \in Trades, Known(u)' PROVE Known(u)
    BY <1>1, <1>2 DEF Known
  <1> QED BY <1>1, <1>2, QuietKeepsTell

\* The gateway refused: the creator was alone with the order.
LEMMA LinkFailsKeepsTell ==
  ASSUME BaseInv, CreditInv, TellInv, NEW h \in Handlers, LinkFails(h)
  PROVE  TellInv'
  <1>1. key[h] \in Trades
    BY DEF LinkFails, BaseInv, StepsMatchLock
  <1>2. PICK t \in Trades : t = key[h]
    BY <1>1
  <1>3. /\ pc[h] = "link" /\ UNCHANGED <<outcome, credits, verdict>>
        /\ order \in [Trades -> Orders] /\ pc'[h] \in {"idle", "recheck"}
        /\ pc'[h] = "recheck" => key'[h] = t
        /\ \A g \in Handlers : g # h => pc'[g] = pc[g] /\ key'[g] = key[g]
    BY <1>2 DEF LinkFails, Return, Goto, BaseInv, StepsMatchLock, TopUpTypeOK, LockInv,
       LockTypeOK, books
  <1>4. /\ order[t].status # "none" /\ outcome[t] = "none"
        /\ \A g \in Handlers : (pc[g] = "link" /\ key[g] = t) => g = h
    BY <1>2, <1>3 DEF CreditInv, LinkedOnce
  <1>5. \A u \in Trades : /\ order'[u].method = order[u].method
                          /\ order'[u].status = order[u].status
                               \/ (u = t /\ order'[u].status \in Failures)
    <2>1. CASE UNCHANGED order
      BY <2>1
    <2>2. CASE order' # order
      <3>1. PICK s \in Failures : SetStatus(t, s)
        BY <1>2, <2>2 DEF LinkFails, Failures
      <3>2. s \in Statuses
        BY DEF Statuses
      <3> QED BY <1>3, <3>1, <3>2, SetStatusFields
    <2> QED BY <2>1, <2>2
  <1>6. ~ Known(t)'
    BY <1>3, <1>4 DEF Known
  <1>7. ASSUME NEW u \in Trades, Known(u)' PROVE Known(u)
    BY <1>3, <1>7 DEF Known
  <1> QED BY <1>3, <1>4, <1>5, <1>6, <1>7, QuietKeepsTell

\* The failures that are written without the lock.
LEMMA UnlockedKeepsTell ==
  ASSUME BaseInv, CreditInv, TellInv, NEW h \in Handlers,
         Recheck(h) \/ MarkFailed(h) \/ \E t \in Trades : WaffoFails(h, t)
  PROVE  TellInv'
  <1>1. /\ UNCHANGED <<outcome, credits, verdict>> /\ pc'[h] \in {"idle", "recheck", "mark"}
        /\ order \in [Trades -> Orders]
        /\ \A g \in Handlers : g # h => pc'[g] = pc[g] /\ key'[g] = key[g]
    BY DEF Recheck, MarkFailed, WaffoFails, Return, Goto, BaseInv, TopUpTypeOK, LockInv,
       LockTypeOK, books, Idle
  <1>2. ASSUME NEW u \in Trades, Known(u)' PROVE Known(u)
    BY <1>1, <1>2, KnownKept
  <1>3. CASE Recheck(h)
    <2>1. UNCHANGED order /\ pc[h] = "recheck" /\ (pc'[h] # "idle" => key'[h] = key[h])
      BY <1>3 DEF Recheck, Return, Goto, BaseInv, TopUpTypeOK
    <2> QED BY <1>1, <1>2, <2>1, QuietKeepsTell
  <1>4. CASE MarkFailed(h)
    <2>1. /\ pc[h] = "mark" /\ key[h] \in Trades /\ SetStatus(key[h], "failed")
          /\ pc'[h] = "idle" /\ "failed" \in Statuses /\ "failed" \in Failures
      BY <1>4 DEF MarkFailed, Return, Goto, BaseInv, StepsMatchLock, TopUpTypeOK, Statuses,
         Failures
    <2>2. \A u \in Trades : /\ order'[u].method = order[u].method
                            /\ order'[u].status = IF u = key[h] THEN "failed" ELSE order[u].status
      BY <1>1, <2>1, SetStatusFields
    <2>3. order[key[h]].method = "waffo" \/ ~ Known(key[h])
      BY <2>1 DEF TellInv
    <2> QED BY <1>1, <1>2, <2>1, <2>2, <2>3, QuietKeepsTell
  <1>5. CASE \E t \in Trades : WaffoFails(h, t)
    <2>1. PICK t \in Trades : WaffoFails(h, t)
      BY <1>5
    <2>2. /\ UNCHANGED order /\ key'[h] = t /\ order[t].method = "waffo"
          /\ outcome[t] # "none"
      BY <2>1 DEF WaffoFails, BaseInv, LockInv, LockTypeOK
    <2>3. order[t].status # "none"
      BY <2>2 DEF CreditInv, LinkedOnce
    <2> QED BY <1>1, <1>2, <2>2, <2>3, QuietKeepsTell
  <1> QED BY <1>3, <1>4, <1>5

\* The failure of an order is decided on a pending one.
LEMMA ReadKeepsTell ==
  ASSUME BaseInv, CreditInv, TellInv, NEW h \in Handlers, ReadOrder(h)
  PROVE  TellInv'
  <1>1. /\ key[h] \in Trades /\ call[h] \in Calls /\ order[key[h]] \in Orders
        /\ UNCHANGED <<order, outcome, credits, key>>
        /\ pc'[h] = "write" /\ verdict'[h] = Decide(call[h], key[h])
        /\ \A g \in Handlers : g # h => pc'[g] = pc[g] /\ verdict'[g] = verdict[g]
    BY DEF BaseInv, ReadOrder, Goto, StepsMatchLock, TopUpTypeOK, locks, books
  <1>2. verdict'[h] \in Failures => order[key[h]].status = "pending"
    <2> USE DEF Calls, Gateways, Failures, Verdict, Pending
    <2>1. CASE call[h].kind \in Gateways
      BY <1>1, <2>1 DEF Decide, Recharge, RechargeWechatTopUp, RechargeCreem, RechargeWaffo,
         RechargeWaffoPancake, RechargeCrypto
    <2>2. CASE call[h].kind = "manual"
      BY <1>1, <2>2 DEF Decide, ManualCompleteTopUp
    <2>3. CASE call[h].kind \in Failures \cup {"none"}
      BY <1>1, <2>3 DEF Decide, MarkStripe
    <2> QED BY <1>1, <2>1, <2>2, <2>3
  <1>3. verdict'[h] \in Failures => credits[key[h]] = 0
    BY <1>1, <1>2 DEF CreditInv, Uncredited
  <1>4. ASSUME NEW u \in Trades, Known(u)' PROVE Known(u)
    BY <1>1, <1>4, KnownKept
  <1> QED BY <1>1, <1>3, <1>4, QuietKeepsTell

\* The credit and the success are one write, and nobody else is about to write.
LEMMA CompleteKeepsTell ==
  ASSUME SingleProcess, BaseInv, CreditInv, TellInv, NEW h \in Handlers, CompleteOrder(h)
  PROVE  TellInv'
  <1> DEFINE t == key[h]
  <1>1. /\ t \in Trades /\ order \in [Trades -> Orders] /\ credits \in [Trades -> Nat]
        /\ UNCHANGED <<outcome, verdict, key>> /\ pc[h] = "write" /\ pc'[h] = "bonus"
        /\ \A g \in Handlers : g # h => pc'[g] = pc[g]
        /\ \A u \in Trades : credits'[u] = IF u = t THEN credits[u] + 1 ELSE credits[u]
    BY DEF BaseInv, StepsMatchLock, TopUpTypeOK, CompleteOrder, Goto, locks
  <1>2. /\ order'[t].status = "success" /\ order'[t].method = order[t].method
        /\ \A u \in Trades : u # t => order'[u] = order[u]
    <2>1. order'[t] = [order[t] EXCEPT !.status = "success", !.hash = call[h].hash]
          /\ \A u \in Trades : u # t => order'[u] = order[u]
      BY <1>1 DEF CompleteOrder
    <2>2. order[t] \in Orders
      BY <1>1
    <2> HIDE DEF t
    <2> QED BY <2>1, <2>2 DEF Orders
  <1>3. \A g \in Handlers : pc[g] # "idle" => key[g] \in Trades
    BY DEF BaseInv, StepsMatchLock
  <1>4. ASSUME NEW u \in Trades PROVE Known(u)' => Known(u)
    BY <1>1, KnownKept
  <1>5. ASSUME NEW u \in Trades, Known(u)', order'[u].method # "waffo"
        PROVE  (credits'[u] > 0) <=> (order'[u].status = "success")
    <2>1. CASE u = t
      <3>1. credits'[u] = credits[u] + 1 /\ credits[u] \in Nat
        BY <1>1, <2>1
      <3>2. credits'[u] > 0
        BY <3>1
      <3> QED BY <1>2, <2>1, <3>2
    <2>2. CASE u # t
      <3>1. order'[u] = order[u] /\ Known(u) /\ credits'[u] = credits[u]
        BY <1>1, <1>2, <1>4, <1>5, <2>2
      <3> QED BY <1>5, <3>1 DEF TellInv
    <2> QED BY <2>1, <2>2
  <1>6. ASSUME NEW g \in Handlers, NEW u \in Trades, pc'[g] \in {"recheck", "mark"}, key'[g] = u
        PROVE  /\ order'[u].status # "none"
               /\ order'[u].method # "waffo" => ~ Known(u)'
    <2>1. pc[g] \in {"recheck", "mark"} /\ key[g] = u
      BY <1>1, <1>6
    <2>2. order[u].status # "none" /\ (order[u].method # "waffo" => ~ Known(u))
      BY <2>1 DEF TellInv
    <2>3. order'[u].method = order[u].method /\ order'[u].status # "none"
      BY <1>2, <2>2
    <2> QED BY <1>4, <2>2, <2>3
  <1>7. ASSUME NEW g \in Handlers, pc'[g] = "write", verdict'[g] \in Failures
        PROVE  credits'[key'[g]] = 0
    <2>1. pc[g] = "write" /\ verdict[g] \in Failures /\ g # h /\ key[g] \in Trades
      BY <1>1, <1>3, <1>7
    <2>2. key[g] # t
      BY <1>1, <2>1, OneWriter
    <2>3. credits[key[g]] = 0
      BY <2>1 DEF TellInv
    <2> QED BY <1>1, <2>1, <2>2, <2>3
  <1> QED BY <1>5, <1>6, <1>7 DEF TellInv

\* A failure is written over an order that nobody credited since it was read.
LEMMA FailKeepsTell ==
  ASSUME BaseInv, TellInv, NEW h \in Handlers, FailOrder(h)
  PROVE  TellInv'
  <1>1. /\ key[h] \in Trades /\ verdict[h] \in Failures /\ verdict[h] \in Statuses
        /\ order \in [Trades -> Orders] /\ SetStatus(key[h], verdict[h])
        /\ pc[h] = "write" /\ pc'[h] = "unlock" /\ UNCHANGED <<outcome, credits, verdict, key>>
        /\ \A g \in Handlers : g # h => pc'[g] = pc[g]
    BY DEF FailOrder, Goto, BaseInv, StepsMatchLock, TopUpTypeOK, Statuses, locks, books
  <1>2. credits[key[h]] = 0
    BY <1>1 DEF TellInv
  <1>3. \A u \in Trades : /\ order'[u].method = order[u].method
                          /\ order'[u].status = IF u = key[h] THEN verdict[h] ELSE order[u].status
    BY <1>1, SetStatusFields
  <1>4. ASSUME NEW u \in Trades, Known(u)' PROVE Known(u)
    BY <1>1, <1>4, KnownKept
  <1> QED BY <1>1, <1>2, <1>3, <1>4, QuietKeepsTell

\* Steps that write neither an order nor its credits.
LEMMA StillKeepsTell ==
  ASSUME BaseInv, TellInv, UNCHANGED <<order, credits>>,
         \A u \in Trades : outcome[u] = "none" => outcome'[u] = "none",
         \A g \in Handlers :
           /\ pc'[g] = pc[g] \/ pc'[g] \notin {"link", "recheck", "mark", "write"}
           /\ pc'[g] \in {"link", "recheck", "mark", "write"} =>
                key'[g] = key[g] /\ verdict'[g] = verdict[g]
  PROVE  TellInv'
  <1>1. ASSUME NEW u \in Trades, Known(u)' PROVE Known(u)
    BY <1>1 DEF Known
  <1> QED BY <1>1, QuietKeepsTell

LEMMA LockedKeepsTell ==
  ASSUME SingleProcess, BaseInv, CreditInv, TellInv, NEW h \in Handlers, Locked(h)
  PROVE  TellInv'
  <1> USE DEF BaseInv
  <1>1. ASSUME \/ AnswerDone(h) \/ Refuse(h) \/ Rollback(h) \/ ClaimBonus(h) \/ NoBonus(h)
               \/ RedeemBonus(h) \/ ReleaseBonus(h) \/ Answer(h)
        PROVE  TellInv'
    <2>1. /\ UNCHANGED <<order, credits, outcome, verdict, key>>
          /\ \A g \in Handlers : g # h => pc'[g] = pc[g]
          /\ pc'[h] \in {"redeem", "answer", "unlock"}
      BY <1>1 DEF AnswerDone, Refuse, Rollback, ClaimBonus, NoBonus, RedeemBonus, ReleaseBonus,
         Answer, Goto, locks, books, TopUpTypeOK
    <2> QED BY <2>1, StillKeepsTell
  <1>2. ASSUME EnterLock(h) PROVE TellInv'
    BY <1>2, StillKeepsTell DEF EnterLock, Acquire, progress, books
  <1>3. ASSUME LeaveLock(h) PROVE TellInv'
    <2>1. UNCHANGED key
      BY <1>3, ReleaseKeeps DEF LeaveLock, Release
    <2> QED BY <1>3, <2>1, StillKeepsTell DEF LeaveLock, progress, books
  <1>4. ASSUME Finish(h) PROVE TellInv'
    <2>1. /\ UNCHANGED <<order, credits, outcome>> /\ pc'[h] = "idle"
          /\ \A g \in Handlers : g # h => /\ pc'[g] = pc[g] /\ key'[g] = key[g]
                                          /\ verdict'[g] = verdict[g]
      BY <1>4 DEF Finish, Deregister, Goto, LockInv, LockTypeOK, TopUpTypeOK, books
    <2> QED BY <2>1, StillKeepsTell
  <1> HIDE DEF BaseInv
  <1> QED BY <1>1, <1>2, <1>3, <1>4, ReadKeepsTell, CompleteKeepsTell, FailKeepsTell DEF Locked

\* With all handlers in one process every step keeps the status true.
LEMMA NextKeepsTell ==
  ASSUME SingleProcess, BaseInv, CreditInv, TellInv, [Next]_vars
  PROVE  TellInv'
  <1>1. ASSUME NEW h \in Handlers, \E t \in Trades, m \in Methods : Create(h, t, m)
        PROVE  TellInv'
    BY <1>1, CreateKeepsTell
  <1>2. ASSUME NEW h \in Handlers,
               \/ LinkOk(h) \/ LinkFails(h) \/ Recheck(h) \/ MarkFailed(h)
               \/ \E t \in Trades : WaffoFails(h, t)
        PROVE  TellInv'
    BY <1>2, LinkOkKeepsTell, LinkFailsKeepsTell, UnlockedKeepsTell
  <1>3. ASSUME NEW h \in Handlers, NEW t \in Trades,
               \/ Report(h, t) \/ AdminCompleteTopUp(h, t)
               \/ \E g \in Astray : ReportAstray(h, t, g)
               \/ \E x \in Hashes : RequestCryptoConfirm(h, t, x)
               \/ \E s \in Failures : StripeFails(h, t, s)
        PROVE  TellInv'
    <2>1. PICK c \in Calls : Request(h, t, c)
      BY <1>3, RequestIsCall
    <2>2. /\ UNCHANGED <<order, outcome, credits, verdict>> /\ pc'[h] = "read"
          /\ \A g \in Handlers : g # h => pc'[g] = pc[g] /\ key'[g] = key[g]
      BY <2>1 DEF Request, Register, Goto, books, BaseInv, LockInv, LockTypeOK, TopUpTypeOK
    <2> QED BY <2>2, StillKeepsTell
  <1>4. ASSUME NEW t \in Trades, Pay(t) \/ Lapse(t) PROVE TellInv'
    <2>1. /\ UNCHANGED <<order, credits, pc, key, verdict>> /\ outcome[t] = "open"
          /\ \A u \in Trades : u # t => outcome'[u] = outcome[u]
      BY <1>4 DEF Pay, Lapse, books, progress, locks, BaseInv, TopUpTypeOK
    <2> QED BY <2>1, StillKeepsTell
  <1>5. ASSUME NEW p \in Processes, Stop(p) PROVE TellInv'
    <2>1. /\ UNCHANGED <<order, credits, outcome>>
          /\ \A g \in Handlers : \/ pc'[g] = "idle"
                                 \/ pc'[g] = pc[g] /\ key'[g] = key[g] /\ verdict'[g] = verdict[g]
      BY <1>5 DEF Stop, LocksLost, books
    <2> QED BY <2>1, StillKeepsTell
  <1>6. CASE UNCHANGED vars
    BY <1>6, StillKeepsTell DEF vars, locks, books, progress
  <1> QED BY <1>1, <1>2, <1>3, <1>4, <1>5, <1>6, LockedKeepsTell DEF Next

(***************************************************************************)
(* The results.                                                            *)
(***************************************************************************)
\* Whatever processes there are: two handlers of a process are never inside the
\* lock of one order (LockOrder, UnlockOrder with their reference counts).
THEOREM LocksExclude == Spec => []OrderMutex
  <1>1. BaseInv => OrderMutex
    BY LockInvGives DEF BaseInv
  <1> QED BY <1>1, BaseInvariant, PTL

\* The map of locks has exactly the orders in use, also after a process stopped.
THEOREM LocksAreCleaned == Spec => []LocksCleaned
  <1>1. BaseInv => LocksCleaned
    BY LockInvGives DEF BaseInv
  <1> QED BY <1>1, BaseInvariant, PTL

\* A user gets the bonus of a rule at most once, in any number of processes
\* (claimTopUpBonusGrant, releaseTopUpBonusGrant).
THEOREM BonusIsOnce == Spec => []BonusOnce
  <1>1. BaseInv => BonusOnce
    BY DEF BaseInv
  <1> QED BY <1>1, BaseInvariant, PTL

\* Handlers of one process credit an order at most once (LockOrder around the
\* plain reads of Recharge and its variants).
THEOREM CreditIsOnce == ASSUME SingleProcess PROVE Spec => []CreditedOnce
  <1>1. TopUpInit => CreditInv
    BY InitSound
  <1>2. BaseInv /\ CreditInv /\ [Next]_vars => CreditInv'
    BY NextKeepsCredit
  <1>3. CreditInv => CreditedOnce
    BY DEF CreditInv
  <1> QED BY <1>1, <1>2, <1>3, BaseInvariant, PTL DEF Spec

\* ... and only what the order's own gateway has as paid, or a chain transaction
\* that no other order uses.
THEOREM CreditIsPaid == ASSUME SingleProcess PROVE Spec => []CreditedWhenPaid
  <1>1. TopUpInit => CreditInv
    BY InitSound
  <1>2. BaseInv /\ CreditInv /\ [Next]_vars => CreditInv'
    BY NextKeepsCredit
  <1>3. CreditInv => CreditedWhenPaid
    BY DEF CreditInv
  <1> QED BY <1>1, <1>2, <1>3, BaseInvariant, PTL DEF Spec
\* Except for Waffo, an order that was handed out shows success exactly when it
\* was credited: an expiry event of Stripe that is handled beside the report of
\* the payment never hides the credit (sessionExpired under LockOrder).
THEOREM StatusIsTrue == ASSUME SingleProcess PROVE Spec => []StatusTellsCredit
  <1>1. TopUpInit => CreditInv /\ TellInv
    BY InitSound, InitTells
  <1>2. BaseInv /\ CreditInv /\ TellInv /\ [Next]_vars => CreditInv' /\ TellInv'
    BY NextKeepsCredit, NextKeepsTell
  <1>3. TellInv => StatusTellsCredit
    BY DEF TellInv, StatusTellsCredit, Known
  <1> QED BY <1>1, <1>2, <1>3, BaseInvariant, PTL DEF Spec
==============================================================================
