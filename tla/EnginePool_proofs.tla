-------------------------- MODULE EnginePool_proofs --------------------------
(***************************************************************************)
(* Proofs about EnginePool, for any number of requests, sessions, entries  *)
(* and any capacity.                                                       *)
(***************************************************************************)
EXTENDS EnginePool, FiniteSetTheorems, TLAPS

(* What the list operations return.                                          *)

\* Moving an entry to the front of the list, or removing entries from it, keeps
\* the list a relation on entries.
LEMMA ListTyped ==
    ASSUME NEW order \in SUBSET (Entries \X Entries), NEW e \in Entries,
           NEW S \in SUBSET Entries, NEW V
    PROVE  /\ ToFront(order, e, S) \subseteq Entries \X Entries
           /\ Without(order, V) \subseteq Entries \X Entries
  BY DEF ToFront, Without

\* Emptying slots of the map keeps it a map from keys to entries.
LEMMA DroppingTyped ==
    ASSUME items \in [Keys -> Entries \cup {NoEntry}], NEW V
    PROVE  Dropping(V) \in [Keys -> Entries \cup {NoEntry}]
  BY DEF Dropping

\* The cached entries are entries.
LEMMA CachedTyped ==
    ASSUME items \in [Keys -> Entries \cup {NoEntry}]
    PROVE  Cached \subseteq Entries
  BY DEF Cached

-----------------------------------------------------------------------------
(* Type correctness.                                                         *)

\* The types, and that a request has an entry exactly while it leases one: the
\* type invariant needs it, because a released entry would be undefined otherwise.
Typed == TypeOK /\ HeldWhileLeasing

\* Every action of the pool preserves both.
LEMMA TypedInvariant == Spec => []Typed
<1>1. Init => Typed
  BY DEF Init, Typed, TypeOK, HeldWhileLeasing, Leasing, States
<1>2. Typed /\ [Next]_vars => Typed'
  <2> SUFFICES ASSUME Typed, [Next]_vars
               PROVE  Typed'
    OBVIOUS
  <2> USE PoolAssumption DEF Typed, TypeOK, HeldWhileLeasing, Leasing, States
  <2>1. ASSUME NEW r \in Requests, Start(r)
        PROVE  Typed'
    BY <2>1 DEF Start, entryVars, ghostVars
  <2>2. ASSUME NEW r \in Requests, TakeCached(r)
        PROVE  Typed'
    <3>1. items[key[r]] \in Entries
      BY <2>2 DEF TakeCached
    <3>2. ahead' \subseteq Entries \X Entries
      BY <2>2, <3>1, ListTyped, CachedTyped DEF TakeCached
    <3>3. leases' \in [Entries -> Nat] /\ touched' \in [Entries -> Nat]
      BY <2>2, <3>1 DEF TakeCached
    <3> QED
      BY <2>2, <3>1, <3>2, <3>3 DEF TakeCached
  <2>3. ASSUME NEW r \in Requests, Hit(r)
        PROVE  Typed'
    BY <2>2, <2>3 DEF Hit
  <2>4. ASSUME NEW r \in Requests, Miss(r)
        PROVE  Typed'
    BY <2>4 DEF Miss, entryVars, ghostVars
  <2>5. ASSUME NEW r \in Requests, LoadHistory(r)
        PROVE  Typed'
    BY <2>5 DEF LoadHistory, entryVars, ghostVars
  <2>6. ASSUME NEW r \in Requests, BuildFails(r)
        PROVE  Typed'
    BY <2>6 DEF BuildFails, entryVars, ghostVars
  <2>7. ASSUME NEW r \in Requests, Adopt(r)
        PROVE  Typed'
    BY <2>2, <2>7 DEF Adopt
  <2>8. ASSUME NEW r \in Requests, Insert(r)
        PROVE  Typed'
    <3>1. PICK V \in SUBSET Cached,
               e \in Entries \ (Cached \cup {held[q] : q \in Requests}) :
            Insert(r)!3!(V, e)
      BY <2>8 DEF Insert
    <3>2. items' \in [Keys -> Entries \cup {NoEntry}]
      BY <3>1, DroppingTyped
    <3>3. ahead' \subseteq Entries \X Entries
      <4>1. Without(ahead, V) \in SUBSET (Entries \X Entries) /\ Cached \ V \in SUBSET Entries
        BY ListTyped, CachedTyped DEF Without
      <4> QED
        BY <3>1, <4>1, ListTyped
    <3>4. leases' \in [Entries -> Nat] /\ touched' \in [Entries -> Nat]
          /\ known' \in [Entries -> Nat]
      BY <3>1
    <3>5. churned' \subseteq Requests /\ suspect' \subseteq Entries
      BY <3>1 DEF Churning
    <3>6. held' \in [Requests -> Entries \cup {NoEntry}]
      BY <3>1
    <3>7. HeldWhileLeasing'
      BY <2>8, <3>1 DEF Insert
    <3> QED
      BY <2>8, <3>2, <3>3, <3>4, <3>5, <3>6, <3>7 DEF Insert
  <2>9. ASSUME NEW r \in Requests, Acquire(r)
        PROVE  Typed'
    BY <2>9 DEF Acquire, ghostVars
  <2>10. ASSUME NEW r \in Requests, RunTurn(r)
         PROVE  Typed'
    <3>1. stored' \in [Keys -> Nat]
      BY <2>10 DEF RunTurn
    <3>2. held[r] \in Entries
      BY <2>10 DEF RunTurn
    <3>3. known' \in [Entries -> Nat]
      BY <2>10, <3>2 DEF RunTurn
    <3> QED
      BY <2>10, <3>1, <3>3 DEF RunTurn, ghostVars, requestVars
  <2>11. ASSUME NEW r \in Requests, Unlock(r)
         PROVE  Typed'
    BY <2>11 DEF Unlock, ghostVars
  <2>12. ASSUME NEW r \in Requests, Return(r)
         PROVE  Typed'
    <3>0. held[r] \in Entries
      BY <2>12 DEF Return, Returned
    <3>1. PICK V \in SUBSET Cached : Return(r)!3!(V)
      BY <2>12 DEF Return, Returned
    <3>2. items' \in [Keys -> Entries \cup {NoEntry}]
      BY <3>1, DroppingTyped
    <3>3. ahead' \subseteq Entries \X Entries
      <4>1. ReleasedOrder(r) \subseteq Entries \X Entries
        BY <3>0, ListTyped, CachedTyped DEF ReleasedOrder
      <4> QED
        BY <3>1, <4>1, ListTyped DEF Without
    <3>4. leases' \in [Entries -> Nat]
      BY <2>12, <3>0 DEF Return, Returned
    <3>5. touched' \in [Entries -> Nat] /\ known' \in [Entries -> Nat]
      BY <3>1
    <3>6. churned' \subseteq Requests /\ suspect' \subseteq Entries
      BY <3>1 DEF Churning
    <3> QED
      BY <2>12, <3>2, <3>3, <3>4, <3>5, <3>6 DEF Return, Returned
  <2>13. CASE Tick
    BY <2>13 DEF Tick, entryVars, requestVars, ghostVars
  <2>14. CASE EvictIdle
    <3>1. PICK now \in 0..clock : EvictIdle!(now)
      BY <2>14 DEF EvictIdle
    <3> DEFINE Recent(e) == touched[e] > now - IdleTTL
               V == {e \in Cached :
                       /\ leases[e] = 0
                       /\ ~Recent(e)
                       /\ \A x \in Cached : <<e, x>> \in ahead => ~Recent(x)}
    <3>2. items' = Dropping(V) /\ ahead' = Without(ahead, V)
          /\ touched' = [x \in Entries |-> IF x \in V THEN 0 ELSE touched[x]]
          /\ known' = [x \in Entries |-> IF x \in V THEN 0 ELSE known[x]]
          /\ churned' = churned \cup Churning(V)
          /\ suspect' = suspect \ V
          /\ UNCHANGED <<leases, holder, requestVars, stored, clock>>
      BY <3>1
    <3> HIDE DEF V
    <3>3. items' \in [Keys -> Entries \cup {NoEntry}]
      BY <3>2, DroppingTyped
    <3>4. ahead' \subseteq Entries \X Entries
      BY <3>2 DEF Without
    <3> QED
      BY <3>2, <3>3, <3>4 DEF requestVars, Churning
  <2>15. CASE UNCHANGED vars
    BY <2>15 DEF vars, entryVars, requestVars, ghostVars
  <2> QED
    BY <2>1, <2>3, <2>4, <2>5, <2>6, <2>7, <2>8, <2>9, <2>10, <2>11, <2>12, <2>13,
       <2>14, <2>15 DEF Next, Step
<1> QED
  BY <1>1, <1>2, PTL DEF Spec

\* Each variable keeps its type: the entries, leases and histories of the pool
\* are never undefined, whatever the requests and the gc goroutine do.
THEOREM TypeCorrect == Spec => []TypeOK
  BY TypedInvariant, PTL DEF Typed

-----------------------------------------------------------------------------
(* The leases of an entry.                                                   *)

\* The lessees of an entry are finitely many, so that they can be counted.
LEMMA LesseesFinite ==
    ASSUME NEW e
    PROVE  IsFiniteSet(Lessees(e))
<1>1. Lessees(e) \subseteq Requests
  BY DEF Lessees
<1> QED
  BY <1>1, FS_Subset, PoolAssumption

\* Nobody has an entry whose lease count is zero: it can be evicted safely.
LEMMA IdleUnleased ==
    ASSUME LeaseInvariant, NEW e \in Entries, leases[e] = 0, NEW r \in Requests,
           pc[r] \in Leasing
    PROVE  held[r] # e
<1>1. Cardinality(Lessees(e)) = 0
  BY DEF LeaseInvariant
<1>2. Lessees(e) = {}
  BY <1>1, LesseesFinite, FS_EmptySet
<1> QED
  BY <1>2 DEF Lessees

\* Dropping idle entries leaves the entries of the leasing requests in the map,
\* and never maps two keys to one entry.
LEMMA DroppingIdle ==
    ASSUME Typed, LeaseInvariant, NEW V \in SUBSET Entries,
           \A v \in V : leases[v] = 0
    PROVE  /\ \A r \in Requests :
                pc[r] \in Leasing => Dropping(V)[key[r]] = held[r] /\ held[r] \notin V
           /\ \A k, l \in Keys :
                Dropping(V)[k] = Dropping(V)[l] /\ Dropping(V)[k] # NoEntry => k = l
<1>1. ASSUME NEW r \in Requests, pc[r] \in Leasing
      PROVE  held[r] \notin V /\ items[key[r]] = held[r]
  BY <1>1, IdleUnleased DEF LeaseInvariant
<1> QED
  BY <1>1 DEF Dropping, LeaseInvariant, Typed, TypeOK

-----------------------------------------------------------------------------
(* The lease invariant.                                                      *)

\* A step that leaves map, leases, mutexes and the leasing requests alone.
LEMMA LeaseFrame ==
    ASSUME LeaseInvariant, UNCHANGED <<items, leases, holder, held>>,
           \A r \in Requests :
              /\ pc'[r] \in Leasing <=> pc[r] \in Leasing
              /\ pc'[r] = "holding" <=> pc[r] = "holding"
              /\ pc[r] \in Leasing => key'[r] = key[r]
    PROVE  LeaseInvariant'
<1>1. \A e : Lessees(e)' = Lessees(e)
  BY DEF Lessees
<1> QED
  BY <1>1 DEF LeaseInvariant, Leasing

\* Leasing the cached entry of the key, on a hit or after losing the build race.
LEMMA LeaseTakeCached ==
    ASSUME Typed, LeaseInvariant, NEW r \in Requests, TakeCached(r), pc[r] \notin Leasing
    PROVE  LeaseInvariant'
<1> USE DEF Typed, TypeOK, HeldWhileLeasing, Leasing
<1>0. PICK e \in Entries : e = items[key[r]]
  BY DEF TakeCached
<1>1. items' = items /\ key' = key /\ holder' = holder
      /\ leases' = [leases EXCEPT ![e] = @ + 1]
      /\ held' = [held EXCEPT ![r] = e] /\ pc' = [pc EXCEPT ![r] = "waiting"]
  BY <1>0 DEF TakeCached
<1>2. Lessees(e)' = Lessees(e) \cup {r} /\ r \notin Lessees(e)
  BY <1>1 DEF Lessees
<1>3. \A x \in Entries \ {e} : Lessees(x)' = Lessees(x)
  BY <1>1 DEF Lessees
<1>4. leases'[e] = Cardinality(Lessees(e)')
  <2>1. leases'[e] = Cardinality(Lessees(e)) + 1
    BY <1>1 DEF LeaseInvariant
  <2>2. Cardinality(Lessees(e) \cup {r}) = Cardinality(Lessees(e)) + 1
    BY <1>2, LesseesFinite, FS_AddElement
  <2> QED
    BY <1>2, <2>1, <2>2
<1>5. \A x \in Entries : leases'[x] = Cardinality(Lessees(x)')
  <2>1. ASSUME NEW x \in Entries, x # e
        PROVE  leases'[x] = Cardinality(Lessees(x)')
    <3>1. leases'[x] = leases[x]
      BY <1>1, <2>1
    <3> QED
      BY <1>3, <2>1, <3>1 DEF LeaseInvariant
  <2> QED
    BY <1>4, <2>1
<1>6. \A q \in Requests : pc'[q] \in Leasing => items'[key'[q]] = held'[q]
  BY <1>0, <1>1 DEF LeaseInvariant
<1>7. \A q \in Requests : pc'[q] = "holding" => holder'[held'[q]] = q
  BY <1>1 DEF LeaseInvariant
<1> QED
  BY <1>1, <1>5, <1>6, <1>7 DEF LeaseInvariant

\* Inserting a new entry evicts idle ones only, and leases the new one once.
LEMMA LeaseInsert ==
    ASSUME Typed, LeaseInvariant, NEW r \in Requests, Insert(r)
    PROVE  LeaseInvariant'
<1> USE DEF Typed, TypeOK, HeldWhileLeasing, Leasing
<1>1. PICK V \in SUBSET Cached,
           e \in Entries \ (Cached \cup {held[q] : q \in Requests}) :
        Insert(r)!3!(V, e)
  BY DEF Insert
<1>2. V \in SUBSET Entries /\ (\A v \in V : leases[v] = 0)
  BY <1>1, CachedTyped DEF EvictsTo
<1>3. /\ items' = [Dropping(V) EXCEPT ![key[r]] = e]
      /\ leases' = [leases EXCEPT ![e] = 1]
      /\ held' = [held EXCEPT ![r] = e]
      /\ pc' = [pc EXCEPT ![r] = "waiting"]
      /\ holder' = holder /\ key' = key
      /\ pc[r] = "built" /\ items[key[r]] = NoEntry
  BY <1>1 DEF Insert
<1>4. \A q \in Requests : held[q] # e
  BY <1>1
<1>5. \A k \in Keys : items[k] # e
  BY <1>1, PoolAssumption DEF Cached
<1>6. Lessees(e)' = {r}
  BY <1>3, <1>4 DEF Lessees
<1>7. \A x \in Entries \ {e} : Lessees(x)' = Lessees(x)
  BY <1>3 DEF Lessees
<1>8. \A x \in Entries : leases'[x] = Cardinality(Lessees(x)')
  <2>1. leases'[e] = Cardinality(Lessees(e)')
    BY <1>3, <1>6, FS_Singleton
  <2>2. ASSUME NEW x \in Entries, x # e
        PROVE  leases'[x] = Cardinality(Lessees(x)')
    <3>1. leases'[x] = leases[x]
      BY <1>3, <2>2
    <3> QED
      BY <1>7, <2>2, <3>1 DEF LeaseInvariant
  <2> QED
    BY <2>1, <2>2
<1>9. \A q \in Requests : pc'[q] \in Leasing => items'[key'[q]] = held'[q]
  <2> SUFFICES ASSUME NEW q \in Requests, q # r, pc[q] \in Leasing
               PROVE  items'[key[q]] = held[q]
    BY <1>3, PoolAssumption DEF Dropping
  <2>1. Dropping(V)[key[q]] = held[q]
    BY <1>2, DroppingIdle
  <2>2. key[q] # key[r]
    BY <1>3 DEF LeaseInvariant
  <2> QED
    BY <1>3, <2>1, <2>2 DEF Dropping
<1>10. \A q \in Requests : pc'[q] = "holding" => holder'[held'[q]] = q
  BY <1>3 DEF LeaseInvariant
<1>11. \A k, l \in Keys : items'[k] = items'[l] /\ items'[k] # NoEntry => k = l
  <2>1. \A k \in Keys : Dropping(V)[k] # e
    BY <1>5, PoolAssumption DEF Dropping
  <2> QED
    <3>1. items' = [k \in Keys |-> IF k = key[r] THEN e ELSE Dropping(V)[k]]
      BY <1>3 DEF Dropping
    <3>2. \A k, l \in Keys :
             Dropping(V)[k] = Dropping(V)[l] /\ Dropping(V)[k] # NoEntry => k = l
      BY <1>2, DroppingIdle
    <3> QED
      BY <2>1, <3>1, <3>2
<1> QED
  BY <1>8, <1>9, <1>10, <1>11 DEF LeaseInvariant

\* Returning a lease drops one lessee, and evicts idle entries only.
LEMMA LeaseReturn ==
    ASSUME Typed, LeaseInvariant, NEW r \in Requests, Return(r)
    PROVE  LeaseInvariant'
<1> USE DEF Typed, TypeOK, HeldWhileLeasing, Leasing
<1>0. PICK e \in Entries : e = held[r]
  BY DEF Return, Returned
<1>1. PICK V \in SUBSET Cached : Return(r)!3!(V)
  BY DEF Return, Returned
<1>2. pc[r] = "releasing"
  BY DEF Return, Returned
<1>3. /\ items' = Dropping(V)
      /\ leases' = [leases EXCEPT ![e] = IF @ > 0 THEN @ - 1 ELSE @]
      /\ held' = [held EXCEPT ![r] = NoEntry]
      /\ pc' = [pc EXCEPT ![r] = "idle"]
      /\ holder' = holder /\ key' = key
      /\ V \in SUBSET Entries /\ (\A v \in V : leases'[v] = 0)
  BY <1>0, <1>1, CachedTyped DEF Return, Returned, EvictsTo
<1>4. r \in Lessees(e) /\ Lessees(e)' = Lessees(e) \ {r}
  BY <1>0, <1>2, <1>3, PoolAssumption DEF Lessees
<1>5. \A x \in Entries \ {e} : Lessees(x)' = Lessees(x)
  BY <1>0, <1>2, <1>3, PoolAssumption DEF Lessees
<1>6. leases'[e] = Cardinality(Lessees(e)')
  <2>1. Cardinality(Lessees(e)') = Cardinality(Lessees(e)) - 1
    BY <1>4, LesseesFinite, FS_RemoveElement
  <2>2. Cardinality(Lessees(e)) # 0
    BY <1>4, LesseesFinite, FS_EmptySet
  <2> QED
    BY <1>2, <1>3, <2>1, <2>2 DEF LeaseInvariant
<1>7. \A x \in Entries : leases'[x] = Cardinality(Lessees(x)')
  <2>1. ASSUME NEW x \in Entries, x # e
        PROVE  leases'[x] = Cardinality(Lessees(x)')
    <3>1. leases'[x] = leases[x]
      BY <1>3, <2>1
    <3> QED
      BY <1>5, <2>1, <3>1 DEF LeaseInvariant
  <2> QED
    BY <1>6, <2>1
<1>8. ASSUME NEW q \in Requests, pc'[q] \in Leasing
      PROVE  held[q] \notin V /\ q # r
  <2>1. q # r /\ pc[q] \in Leasing
    BY <1>3, <1>8
  <2>2. PICK d \in Entries : d = held[q]
    BY <2>1
  <2>3. q \in Lessees(d)'
    BY <1>3, <2>1, <2>2 DEF Lessees
  <2>4. IsFiniteSet(Lessees(d)')
    <3>1. Lessees(d)' \subseteq Requests
      BY DEF Lessees
    <3> QED
      BY <3>1, FS_Subset, PoolAssumption
  <2>5. Cardinality(Lessees(d)') # 0
    BY <2>3, <2>4, FS_EmptySet
  <2> QED
    BY <1>3, <1>7, <2>1, <2>2, <2>5
<1>9. \A q \in Requests : pc'[q] \in Leasing => items'[key'[q]] = held'[q]
  BY <1>3, <1>8 DEF LeaseInvariant, Dropping
<1>10. \A q \in Requests : pc'[q] = "holding" => holder'[held'[q]] = q
  BY <1>3 DEF LeaseInvariant
<1>11. \A k, l \in Keys : items'[k] = items'[l] /\ items'[k] # NoEntry => k = l
  BY <1>3 DEF LeaseInvariant, Dropping
<1> QED
  BY <1>7, <1>9, <1>10, <1>11 DEF LeaseInvariant

\* The gc goroutine evicts idle entries only.
LEMMA LeaseEvictIdle ==
    ASSUME Typed, LeaseInvariant, EvictIdle
    PROVE  LeaseInvariant'
<1>1. PICK now \in 0..clock : EvictIdle!(now)
  BY DEF EvictIdle
<1>2. PICK V \in SUBSET Cached :
        /\ \A v \in V : leases[v] = 0
        /\ items' = Dropping(V)
        /\ UNCHANGED <<leases, holder, requestVars>>
  BY <1>1
<1>3. V \in SUBSET Entries
  BY CachedTyped DEF Typed, TypeOK
<1>4. \A e : Lessees(e)' = Lessees(e)
  BY <1>2 DEF Lessees, requestVars
<1> QED
  BY <1>2, <1>3, <1>4, DroppingIdle DEF LeaseInvariant, requestVars

\* The leases, the map and the entry mutexes fit together in every state.
LEMMA LeaseInvariantHolds == Spec => []LeaseInvariant
<1>1. Init => LeaseInvariant
  <2> SUFFICES ASSUME Init PROVE LeaseInvariant
    OBVIOUS
  <2>1. \A e : Lessees(e) = {}
    BY DEF Init, Lessees, Leasing
  <2>2. \A e \in Entries : leases[e] = Cardinality(Lessees(e))
    BY <2>1, FS_EmptySet DEF Init
  <2> QED
    BY <2>2 DEF Init, LeaseInvariant, Leasing
<1>2. Typed /\ LeaseInvariant /\ [Next]_vars => LeaseInvariant'
  <2> SUFFICES ASSUME Typed, LeaseInvariant, [Next]_vars
               PROVE  LeaseInvariant'
    OBVIOUS
  <2> USE DEF Leasing
  <2>1. ASSUME NEW r \in Requests, Start(r)
        PROVE  LeaseInvariant'
    BY <2>1, LeaseFrame DEF Start, entryVars, Typed, TypeOK
  <2>2. ASSUME NEW r \in Requests, Hit(r)
        PROVE  LeaseInvariant'
    BY <2>2, LeaseTakeCached DEF Hit
  <2>3. ASSUME NEW r \in Requests, Miss(r)
        PROVE  LeaseInvariant'
    BY <2>3, LeaseFrame DEF Miss, entryVars, Typed, TypeOK
  <2>4. ASSUME NEW r \in Requests, LoadHistory(r)
        PROVE  LeaseInvariant'
    BY <2>4, LeaseFrame DEF LoadHistory, entryVars, Typed, TypeOK
  <2>5. ASSUME NEW r \in Requests, BuildFails(r)
        PROVE  LeaseInvariant'
    BY <2>5, LeaseFrame DEF BuildFails, entryVars, Typed, TypeOK
  <2>6. ASSUME NEW r \in Requests, Adopt(r)
        PROVE  LeaseInvariant'
    BY <2>6, LeaseTakeCached DEF Adopt
  <2>7. ASSUME NEW r \in Requests, Insert(r)
        PROVE  LeaseInvariant'
    BY <2>7, LeaseInsert
  <2>8. ASSUME NEW r \in Requests, Acquire(r)
        PROVE  LeaseInvariant'
    <3>1. \A e : Lessees(e)' = Lessees(e)
      BY <2>8 DEF Acquire, Lessees, Typed, TypeOK
    <3>2. \A q \in Requests : pc'[q] = "holding" => holder'[held'[q]] = q
      BY <2>8, PoolAssumption
         DEF Acquire, LeaseInvariant, Typed, TypeOK, HeldWhileLeasing
    <3> QED
      BY <2>8, <3>1, <3>2 DEF Acquire, LeaseInvariant, Typed, TypeOK
  <2>9. ASSUME NEW r \in Requests, RunTurn(r)
        PROVE  LeaseInvariant'
    BY <2>9, LeaseFrame DEF RunTurn, requestVars
  <2>10. ASSUME NEW r \in Requests, Unlock(r)
         PROVE  LeaseInvariant'
    <3>1. \A e : Lessees(e)' = Lessees(e)
      BY <2>10 DEF Unlock, Lessees, Typed, TypeOK
    <3>2. \A q \in Requests : pc'[q] = "holding" => holder'[held'[q]] = q
      BY <2>10, PoolAssumption
         DEF Unlock, LeaseInvariant, Typed, TypeOK, HeldWhileLeasing
    <3> QED
      BY <2>10, <3>1, <3>2 DEF Unlock, LeaseInvariant, Typed, TypeOK
  <2>11. ASSUME NEW r \in Requests, Return(r)
         PROVE  LeaseInvariant'
    BY <2>11, LeaseReturn
  <2>12. CASE Tick
    BY <2>12, LeaseFrame DEF Tick, entryVars, requestVars
  <2>13. CASE EvictIdle
    BY <2>13, LeaseEvictIdle
  <2>14. CASE UNCHANGED vars
    BY <2>14, LeaseFrame DEF vars, entryVars, requestVars
  <2> QED
    BY <2>1, <2>2, <2>3, <2>4, <2>5, <2>6, <2>7, <2>8, <2>9, <2>10, <2>11, <2>12,
       <2>13, <2>14 DEF Next, Step
<1> QED
  BY <1>1, <1>2, TypedInvariant, PTL DEF Spec

\* An engine in use stays the engine of its session, for any capacity, any
\* number of sessions and any choice of what to evict.
THEOREM LeasedEngineKept == Spec => []LeasedStaysCached
<1>1. LeaseInvariant => LeasedStaysCached
  BY DEF LeaseInvariant, LeasedStaysCached
<1> QED
  BY <1>1, LeaseInvariantHolds, PTL

\* Two requests never run the same session at once: both would hold the entry
\* that the map has for their key, and its mutex has one holder.
THEOREM SessionExclusion == Spec => []ExclusiveSession
<1>1. LeaseInvariant => ExclusiveSession
  BY DEF LeaseInvariant, ExclusiveSession, Leasing
<1> QED
  BY <1>1, LeaseInvariantHolds, PTL

-----------------------------------------------------------------------------
(* Overflow.                                                                 *)

\* Finitely many entries are cached, so that the cache has a size.
LEMMA CachedFinite ==
    ASSUME items \in [Keys -> Entries \cup {NoEntry}]
    PROVE  IsFiniteSet(Cached)
<1> DEFINE Slots == {items[k] : k \in Keys}
<1>1. items \in Surjection(Keys, Slots)
  BY DEF Surjection
<1>2. IsFiniteSet(Slots)
  BY <1>1, FS_Surjection, PoolAssumption, Zenon
<1> QED
  BY <1>2, FS_Subset DEF Cached

\* The overflow bound survives a step that caches nothing new and drops no lease.
LEMMA OverflowFrame ==
    ASSUME Typed, OverflowOnlyInUse, Cached' \subseteq Cached,
           \A e \in Cached' : leases[e] > 0 => leases'[e] > 0
    PROVE  OverflowOnlyInUse'
<1>1. Cardinality(Cached') <= Cardinality(Cached)
  BY CachedFinite, FS_Subset DEF Typed, TypeOK
<1>2. Cardinality(Cached) \in Nat /\ Cardinality(Cached') \in Nat
  BY CachedFinite, FS_Subset, FS_CardinalityType DEF Typed, TypeOK
<1>3. Capacity \in Nat
  BY PoolAssumption
<1> QED
  BY <1>1, <1>2, <1>3 DEF OverflowOnlyInUse

\* What is cached after the entries of V are dropped.
LEMMA CachedAfterDropping ==
    ASSUME NEW V \in SUBSET Cached, items' = Dropping(V)
    PROVE  Cached' = Cached \ V
  BY DEF Cached, Dropping

\* The pool exceeds its capacity only while every cached engine is in use.
THEOREM OverflowBounded == Spec => []OverflowOnlyInUse
<1>1. Init => OverflowOnlyInUse
  <2>1. Init => Cached = {}
    BY DEF Init, Cached
  <2> QED
    BY <2>1 DEF OverflowOnlyInUse
<1>2. Typed /\ LeaseInvariant /\ OverflowOnlyInUse /\ [Next]_vars => OverflowOnlyInUse'
  <2> SUFFICES ASSUME Typed, LeaseInvariant, OverflowOnlyInUse, [Next]_vars
               PROVE  OverflowOnlyInUse'
    OBVIOUS
  <2>0. Cached \subseteq Entries /\ leases \in [Entries -> Nat]
    BY CachedTyped DEF Typed, TypeOK
  <2>1. ASSUME items' = items, leases' = leases
        PROVE  OverflowOnlyInUse'
    BY <2>1, OverflowFrame DEF Cached
  <2>2. ASSUME NEW r \in Requests, TakeCached(r)
        PROVE  OverflowOnlyInUse'
    <3>1. Cached' = Cached /\ (\A e \in Cached : leases'[e] \in {leases[e], leases[e] + 1})
      BY <2>0, <2>2 DEF TakeCached, Cached
    <3> QED
      BY <2>0, <3>1, OverflowFrame
  <2>3. ASSUME NEW r \in Requests, Insert(r)
        PROVE  OverflowOnlyInUse'
    <3>1. PICK V \in SUBSET Cached,
               e \in Entries \ (Cached \cup {held[q] : q \in Requests}) :
            Insert(r)!3!(V, e)
      BY <2>3 DEF Insert
    <3>2. /\ items' = [Dropping(V) EXCEPT ![key[r]] = e]
          /\ leases' = [leases EXCEPT ![e] = 1]
          /\ items[key[r]] = NoEntry /\ key[r] \in Keys
      BY <2>3, <3>1 DEF Insert, Typed, TypeOK
    <3>3. Cached' = (Cached \ V) \cup {e} /\ e \notin Cached \ V
      <4>1. items' = [k \in Keys |-> IF k = key[r] THEN e
                                     ELSE IF items[k] \in V THEN NoEntry ELSE items[k]]
        BY <3>2 DEF Dropping
      <4>2. Cached' = {items'[k] : k \in Keys} \ {NoEntry}
        BY DEF Cached
      <4> QED
        BY <3>1, <3>2, <4>1, <4>2, PoolAssumption DEF Cached
    <3>4. IsFiniteSet(Cached \ V) /\ Cardinality(Cached \ V) \in Nat
      BY CachedFinite, FS_Subset, FS_CardinalityType DEF Typed, TypeOK
    <3>5. Cardinality(Cached') = Cardinality(Cached \ V) + 1
      BY <3>3, <3>4, FS_AddElement
    <3>6. CASE Cardinality(Cached \ V) <= Capacity - 1
      BY <3>4, <3>5, <3>6, PoolAssumption DEF OverflowOnlyInUse
    <3>7. CASE V = {x \in Cached : leases[x] = 0}
      <4>1. \A x \in Cached' : leases'[x] > 0
        BY <2>0, <3>2, <3>3, <3>7
      <4> QED
        BY <4>1 DEF OverflowOnlyInUse
    <3> QED
      BY <3>1, <3>6, <3>7 DEF EvictsTo
  <2>4. ASSUME NEW r \in Requests, Return(r)
        PROVE  OverflowOnlyInUse'
    <3>1. PICK V \in SUBSET Cached : Return(r)!3!(V)
      BY <2>4 DEF Return, Returned
    <3>2. Cached' = Cached \ V
      BY <3>1, CachedAfterDropping
    <3>3. IsFiniteSet(Cached \ V) /\ Cardinality(Cached \ V) \in Nat
      BY CachedFinite, FS_Subset, FS_CardinalityType DEF Typed, TypeOK
    <3>4. leases' \in [Entries -> Nat]
      <4>1. held[r] \in Entries
        BY <2>4 DEF Return, Returned, Typed, TypeOK, HeldWhileLeasing, Leasing
      <4> QED
        BY <2>4, <4>1 DEF Return, Returned, Typed, TypeOK
    <3>5. CASE Cardinality(Cached \ V) <= Capacity
      BY <3>2, <3>3, <3>5, PoolAssumption DEF OverflowOnlyInUse
    <3>6. CASE V = {x \in Cached : leases'[x] = 0}
      BY <2>0, <3>2, <3>4, <3>6 DEF OverflowOnlyInUse
    <3> QED
      BY <3>1, <3>5, <3>6 DEF EvictsTo
  <2>5. CASE EvictIdle
    <3>1. PICK now \in 0..clock : EvictIdle!(now)
      BY <2>5 DEF EvictIdle
    <3>2. PICK V \in SUBSET Cached : items' = Dropping(V) /\ leases' = leases
      BY <3>1
    <3>3. Cached' = Cached \ V
      BY <3>2, CachedAfterDropping
    <3> QED
      BY <3>2, <3>3, OverflowFrame
  <2>6. CASE Tick \/ UNCHANGED vars
    BY <2>1, <2>6 DEF Tick, vars, entryVars
  <2>7. ASSUME NEW r \in Requests,
               Start(r) \/ Miss(r) \/ LoadHistory(r) \/ BuildFails(r) \/ Acquire(r)
                 \/ RunTurn(r) \/ Unlock(r)
        PROVE  OverflowOnlyInUse'
    BY <2>1, <2>7
       DEF Start, Miss, LoadHistory, BuildFails, Acquire, RunTurn, Unlock, entryVars
  <2> QED
    BY <2>2, <2>3, <2>4, <2>5, <2>6, <2>7 DEF Next, Step, Hit, Adopt
<1> QED
  BY <1>1, <1>2, TypedInvariant, LeaseInvariantHolds, PTL DEF Spec

-----------------------------------------------------------------------------
(* The order of the list.                                                    *)

\* With no reading of the clock ahead of the clock, the order is inductive.
Ordered == RecencyOrder /\ \A e \in Entries : touched[e] <= clock

\* The order of any list that the pool derives from `ahead`.
Sorted(order, S, T) ==
    \A a, b \in S : a # b => /\ <<a, b>> \in order <=> <<b, a>> \notin order
                             /\ <<a, b>> \in order => T[a] >= T[b]

\* An entry touched now may be put ahead of every other.
LEMMA FrontSorted ==
    ASSUME Typed, Ordered, NEW e \in Entries, NEW S \in SUBSET (Cached \cup {e}),
           NEW T \in [Entries -> Nat], T[e] = clock,
           \A x \in S \ {e} : T[x] = touched[x]
    PROVE  Sorted(ToFront(ahead, e, S), S, T)
<1> SUFFICES ASSUME NEW a \in S, NEW b \in S, a # b
             PROVE  /\ <<a, b>> \in ToFront(ahead, e, S) <=> <<b, a>> \notin ToFront(ahead, e, S)
                    /\ <<a, b>> \in ToFront(ahead, e, S) => T[a] >= T[b]
  BY DEF Sorted
<1>1. Cached \subseteq Entries /\ clock \in Nat /\ touched \in [Entries -> Nat]
  BY CachedTyped DEF Typed, TypeOK
<1>2. a \in Entries /\ b \in Entries
  BY <1>1
<1>3. CASE a = e
  <2>1. <<a, b>> \in ToFront(ahead, e, S) /\ <<b, a>> \notin ToFront(ahead, e, S)
    BY <1>3 DEF ToFront
  <2> QED
    BY <1>1, <1>2, <1>3, <2>1 DEF Ordered
<1>4. CASE b = e
  BY <1>4 DEF ToFront
<1>5. CASE a # e /\ b # e
  <2>1. /\ <<a, b>> \in ToFront(ahead, e, S) <=> <<a, b>> \in ahead
        /\ <<b, a>> \in ToFront(ahead, e, S) <=> <<b, a>> \in ahead
    BY <1>5 DEF ToFront
  <2>2. a \in Cached /\ b \in Cached /\ T[a] = touched[a] /\ T[b] = touched[b]
    BY <1>5
  <2> QED
    BY <2>1, <2>2 DEF Ordered, RecencyOrder
<1> QED
  BY <1>3, <1>4, <1>5

\* What is left of a sorted list is sorted.
LEMMA RestSorted ==
    ASSUME NEW order, NEW S, NEW V, NEW T, NEW U, Sorted(order, S, T),
           \A x \in S \ V : U[x] = T[x]
    PROVE  Sorted(Without(order, V), S \ V, U)
<1> SUFFICES ASSUME NEW a \in S \ V, NEW b \in S \ V, a # b
             PROVE  /\ <<a, b>> \in Without(order, V) <=> <<b, a>> \notin Without(order, V)
                    /\ <<a, b>> \in Without(order, V) => U[a] >= U[b]
  BY DEF Sorted
<1>1. /\ <<a, b>> \in Without(order, V) <=> <<a, b>> \in order
      /\ <<b, a>> \in Without(order, V) <=> <<b, a>> \in order
  BY DEF Without
<1> QED
  BY <1>1 DEF Sorted

LEMMA OrderInsert ==
    ASSUME Typed, LeaseInvariant, Ordered, NEW r \in Requests, Insert(r)
    PROVE  Ordered'
<1>1. PICK V \in SUBSET Cached,
           e \in Entries \ (Cached \cup {held[q] : q \in Requests}) :
        Insert(r)!3!(V, e)
  BY DEF Insert
<1>2. /\ items' = [Dropping(V) EXCEPT ![key[r]] = e]
      /\ ahead' = ToFront(Without(ahead, V), e, Cached \ V)
      /\ touched' = [x \in Entries |->
                       IF x = e THEN clock ELSE IF x \in V THEN 0 ELSE touched[x]]
      /\ items[key[r]] = NoEntry /\ clock' = clock
  BY <1>1 DEF Insert
<1>3. /\ key[r] \in Keys /\ items \in [Keys -> Entries \cup {NoEntry}]
      /\ touched \in [Entries -> Nat] /\ clock \in Nat /\ e \in Entries /\ e \notin Cached
      /\ Cached \subseteq Entries /\ e # NoEntry
  BY <1>1, CachedTyped, PoolAssumption DEF Typed, TypeOK
<1>4. Cached' \subseteq (Cached \ V) \cup {e}
  BY <1>2, <1>3 DEF Cached, Dropping
<1>5. \A x \in Entries : touched'[x] <= clock'
  BY <1>2, <1>3 DEF Ordered
<1>6. ASSUME NEW a \in Cached', NEW b \in Cached', a # b
      PROVE  /\ <<a, b>> \in ahead' <=> <<b, a>> \notin ahead'
             /\ <<a, b>> \in ahead' => touched'[a] >= touched'[b]
  <2>1. CASE a = e
    <3>1. b \in Cached \ V /\ b # e
      BY <1>3, <1>4, <1>6, <2>1
    <3>2. <<a, b>> \in ahead' /\ <<b, a>> \notin ahead'
      BY <1>2, <2>1, <3>1 DEF ToFront
    <3>3. touched'[a] = clock /\ touched'[b] = touched[b] /\ touched[b] <= clock
      BY <1>2, <1>3, <2>1, <3>1 DEF Ordered
    <3> QED
      BY <1>3, <3>1, <3>2, <3>3
  <2>2. CASE b = e
    <3>1. a \in Cached \ V /\ a # e
      BY <1>3, <1>4, <1>6, <2>2
    <3> QED
      BY <1>2, <2>2, <3>1 DEF ToFront
  <2>3. CASE a # e /\ b # e
    <3>1. a \in Cached \ V /\ b \in Cached \ V
      BY <1>4, <2>3
    <3>2. /\ <<a, b>> \in ahead' <=> <<a, b>> \in ahead
          /\ <<b, a>> \in ahead' <=> <<b, a>> \in ahead
      BY <1>2, <2>3, <3>1 DEF ToFront, Without
    <3>3. touched'[a] = touched[a] /\ touched'[b] = touched[b]
      BY <1>2, <1>3, <2>3, <3>1
    <3> QED
      BY <1>6, <3>1, <3>2, <3>3 DEF Ordered, RecencyOrder
  <2> QED
    BY <2>1, <2>2, <2>3
<1> QED
  BY <1>5, <1>6 DEF Ordered, RecencyOrder

LEMMA OrderTakeCached ==
    ASSUME Typed, Ordered, NEW r \in Requests, TakeCached(r)
    PROVE  Ordered'
<1>1. PICK e \in Entries : e = items[key[r]] /\ e \in Cached
  BY DEF TakeCached, Typed, TypeOK, Cached
<1>2. /\ touched' = [touched EXCEPT ![e] = clock] /\ ahead' = ToFront(ahead, e, Cached)
      /\ items' = items /\ clock' = clock
  BY <1>1 DEF TakeCached
<1>3. touched \in [Entries -> Nat] /\ clock \in Nat /\ Cached \subseteq Entries
  BY CachedTyped DEF Typed, TypeOK
<1>4. Cached' = Cached
  BY <1>2 DEF Cached
<1>5. Sorted(ahead', Cached, touched')
  <2>1. touched' \in [Entries -> Nat] /\ touched'[e] = clock
    BY <1>2, <1>3
  <2>2. \A x \in Cached \ {e} : touched'[x] = touched[x]
    BY <1>2, <1>3
  <2> QED
    BY <1>2, <2>1, <2>2, FrontSorted
<1>6. \A x \in Entries : touched'[x] <= clock'
  BY <1>2, <1>3 DEF Ordered
<1> QED
  BY <1>4, <1>5, <1>6 DEF Ordered, RecencyOrder, Sorted

LEMMA OrderReturn ==
    ASSUME Typed, LeaseInvariant, Ordered, NEW r \in Requests, Return(r)
    PROVE  Ordered'
<1>1. PICK V \in SUBSET Cached : Return(r)!3!(V)
  BY DEF Return
<1>2. PICK e \in Entries : e = held[r] /\ items[key[r]] = e /\ e \in Cached
  BY PoolAssumption
     DEF Return, Typed, TypeOK, HeldWhileLeasing, LeaseInvariant, Leasing, Cached
<1>3. /\ items' = Dropping(V) /\ ahead' = Without(ToFront(ahead, e, Cached), V)
      /\ touched' = [x \in Entries |-> IF x \in V THEN 0 ELSE IF x = e THEN clock ELSE touched[x]]
      /\ clock' = clock
  BY <1>1, <1>2 DEF Return, ReleasedOrder
<1>4. touched \in [Entries -> Nat] /\ clock \in Nat /\ Cached \subseteq Entries
  BY CachedTyped DEF Typed, TypeOK
<1> DEFINE moment == [touched EXCEPT ![e] = clock]
<1>5. moment \in [Entries -> Nat] /\ moment[e] = clock
      /\ \A x \in Cached \ {e} : moment[x] = touched[x]
  BY <1>4
<1>6. Sorted(ToFront(ahead, e, Cached), Cached, moment)
  BY <1>5, FrontSorted
<1>7. \A x \in Cached \ V : touched'[x] = moment[x]
  BY <1>3, <1>4
<1>8. Sorted(ahead', Cached \ V, touched')
  BY <1>3, <1>6, <1>7, RestSorted
<1>9. Cached' = Cached \ V
  BY <1>1, <1>3, CachedAfterDropping
<1>10. \A x \in Entries : touched'[x] <= clock'
  BY <1>3, <1>4 DEF Ordered
<1> QED
  BY <1>8, <1>9, <1>10 DEF Ordered, RecencyOrder, Sorted

LEMMA OrderEvictIdle ==
    ASSUME Typed, Ordered, EvictIdle
    PROVE  Ordered'
<1>1. PICK now \in 0..clock : EvictIdle!(now)
  BY DEF EvictIdle
<1>2. PICK V \in SUBSET Cached :
        /\ items' = Dropping(V) /\ ahead' = Without(ahead, V) /\ clock' = clock
        /\ touched' = [x \in Entries |-> IF x \in V THEN 0 ELSE touched[x]]
  BY <1>1
<1>3. touched \in [Entries -> Nat] /\ clock \in Nat /\ Cached \subseteq Entries
  BY CachedTyped DEF Typed, TypeOK
<1>4. Sorted(ahead, Cached, touched)
  BY DEF Ordered, RecencyOrder, Sorted
<1>5. Sorted(ahead', Cached \ V, touched')
  BY <1>2, <1>3, <1>4, RestSorted
<1>6. Cached' = Cached \ V
  BY <1>2, CachedAfterDropping
<1>7. \A x \in Entries : touched'[x] <= clock'
  BY <1>2, <1>3 DEF Ordered
<1> QED
  BY <1>5, <1>6, <1>7 DEF Ordered, RecencyOrder, Sorted

\* No entry was touched later than one ahead of it, so that the walk of evictIdle from the back
\* may stop at the first recent entry.
THEOREM ListIsOrdered == Spec => []RecencyOrder
<1>1. Init => Ordered
  BY DEF Init, Ordered, RecencyOrder, Cached
<1>2. Typed /\ LeaseInvariant /\ Ordered /\ [Next]_vars => Ordered'
  <2> SUFFICES ASSUME Typed, LeaseInvariant, Ordered, [Next]_vars
               PROVE  Ordered'
    OBVIOUS
  <2>1. ASSUME NEW r \in Requests, Insert(r) PROVE Ordered'
    BY <2>1, OrderInsert
  <2>2. ASSUME NEW r \in Requests, Hit(r) \/ Adopt(r) PROVE Ordered'
    BY <2>2, OrderTakeCached DEF Hit, Adopt
  <2>3. ASSUME NEW r \in Requests, Return(r) PROVE Ordered'
    BY <2>3, OrderReturn
  <2>4. CASE EvictIdle
    BY <2>4, OrderEvictIdle
  <2>5. CASE Tick
    BY <2>5 DEF Tick, Ordered, RecencyOrder, Cached, entryVars, Typed, TypeOK
  <2>6. CASE UNCHANGED <<items, ahead, touched, clock>>
    BY <2>6 DEF Ordered, RecencyOrder, Cached
  <2>7. ASSUME NEW r \in Requests,
               \/ Start(r) \/ Miss(r) \/ LoadHistory(r) \/ BuildFails(r) \/ Acquire(r)
               \/ RunTurn(r) \/ Unlock(r)
        PROVE  Ordered'
    BY <2>6, <2>7
       DEF Start, Miss, LoadHistory, BuildFails, Acquire, RunTurn, Unlock, entryVars
  <2> QED
    BY <2>1, <2>2, <2>3, <2>4, <2>5, <2>6, <2>7 DEF Next, Step, vars, entryVars
<1>3. Ordered => RecencyOrder
  BY DEF Ordered
<1> QED
  BY <1>1, <1>2, <1>3, TypedInvariant, LeaseInvariantHolds, PTL DEF Spec

-----------------------------------------------------------------------------
(* What an engine remembers.                                                 *)

\* A history read by a request whose key no eviction touched since, and that is
\* still to insert it, is the stored one: turns only run on a cached engine.
Fresh ==
    \A r \in Requests :
        pc[r] = "built" /\ r \notin churned /\ items[key[r]] = NoEntry =>
          loaded[r] = stored[key[r]]

\* What evicting V leaves of it.
LEMMA MemoryAfterEviction ==
    ASSUME Typed, RemembersUnlessChurned, Fresh, NEW V \in SUBSET Cached
    PROVE  /\ \A k \in Keys :
                Dropping(V)[k] # NoEntry /\ Dropping(V)[k] \notin suspect \ V =>
                  /\ Dropping(V)[k] = items[k] /\ items[k] \in Entries \ V
                  /\ known[items[k]] = stored[k]
           /\ \A r \in Requests :
                /\ pc[r] = "built" /\ r \notin churned \cup Churning(V)
                /\ Dropping(V)[key[r]] = NoEntry
                => loaded[r] = stored[key[r]]
<1>1. items \in [Keys -> Entries \cup {NoEntry}] /\ key \in [Requests -> Keys]
  BY DEF Typed, TypeOK
<1>2. ASSUME NEW k \in Keys, Dropping(V)[k] # NoEntry, Dropping(V)[k] \notin suspect \ V
      PROVE  /\ Dropping(V)[k] = items[k] /\ items[k] \in Entries \ V
             /\ known[items[k]] = stored[k]
  <2>1. Dropping(V)[k] = items[k] /\ items[k] \in Entries \ V
    BY <1>1, <1>2 DEF Dropping
  <2>2. items[k] \notin suspect
    BY <1>2, <2>1
  <2> QED
    BY <1>2, <2>1, <2>2 DEF RemembersUnlessChurned
<1>3. ASSUME NEW r \in Requests, pc[r] = "built", r \notin churned \cup Churning(V),
             Dropping(V)[key[r]] = NoEntry
      PROVE  loaded[r] = stored[key[r]]
  <2>1. r \notin churned /\ items[key[r]] \notin V
    BY <1>3 DEF Churning
  <2>2. items[key[r]] = NoEntry
    BY <1>1, <1>3, <2>1 DEF Dropping
  <2> QED
    BY <1>3, <2>1, <2>2 DEF Fresh
<1> QED
  BY <1>2, <1>3

LEMMA MemoryInsert ==
    ASSUME Typed, LeaseInvariant, RemembersUnlessChurned, Fresh, NEW r \in Requests, Insert(r)
    PROVE  RemembersUnlessChurned' /\ Fresh'
<1>1. PICK V \in SUBSET Cached,
           e \in Entries \ (Cached \cup {held[q] : q \in Requests}) :
        Insert(r)!3!(V, e)
  BY DEF Insert
<1>2. /\ items' = [Dropping(V) EXCEPT ![key[r]] = e]
      /\ known' = [x \in Entries |->
                     IF x = e THEN loaded[r] ELSE IF x \in V THEN 0 ELSE known[x]]
      /\ churned' = (churned \cup Churning(V)) \ {r}
      /\ suspect' = (suspect \ V) \cup (IF r \in churned THEN {e} ELSE {})
      /\ pc[r] = "built" /\ items[key[r]] = NoEntry /\ stored' = stored /\ key' = key
      /\ pc' = [pc EXCEPT ![r] = "waiting"] /\ loaded' = [loaded EXCEPT ![r] = 0]
  BY <1>1 DEF Insert
<1>3. /\ key \in [Requests -> Keys] /\ items \in [Keys -> Entries \cup {NoEntry}]
      /\ pc \in [Requests -> States] /\ loaded \in [Requests -> Nat]
      /\ e \in Entries /\ e \notin Cached /\ e # NoEntry /\ V \subseteq Cached
      /\ Cached \subseteq Entries
  BY <1>1, CachedTyped, PoolAssumption DEF Typed, TypeOK
<1>4. /\ \A k \in Keys :
           Dropping(V)[k] # NoEntry /\ Dropping(V)[k] \notin suspect \ V =>
             /\ Dropping(V)[k] = items[k] /\ items[k] \in Entries \ V
             /\ known[items[k]] = stored[k]
      /\ \A q \in Requests :
           /\ pc[q] = "built" /\ q \notin churned \cup Churning(V)
           /\ Dropping(V)[key[q]] = NoEntry
           => loaded[q] = stored[key[q]]
  BY MemoryAfterEviction
<1>5. \A k \in Keys : items'[k] = IF k = key[r] THEN e ELSE Dropping(V)[k]
  BY <1>2, <1>3 DEF Dropping
<1>6. ASSUME NEW k \in Keys, items'[k] # NoEntry, items'[k] \notin suspect'
      PROVE  known'[items'[k]] = stored'[k]
  <2>1. CASE k = key[r]
    <3>1. items'[k] = e /\ r \notin churned
      BY <1>2, <1>5, <1>6, <2>1
    <3> QED
      BY <1>2, <1>3, <2>1, <3>1 DEF Fresh
  <2>2. CASE k # key[r]
    <3>1. items'[k] = Dropping(V)[k] /\ items'[k] \notin suspect \ V
      BY <1>2, <1>5, <1>6, <2>2
    <3>2. items'[k] = items[k] /\ items[k] \in Entries \ V /\ known[items[k]] = stored[k]
      BY <1>4, <1>6, <3>1
    <3>3. items[k] \in Cached
      BY <1>6, <3>2 DEF Cached
    <3>4. known'[items[k]] = known[items[k]]
      BY <1>2, <1>3, <3>2, <3>3
    <3> QED
      BY <1>2, <3>2, <3>4
  <2> QED
    BY <2>1, <2>2
<1>7. ASSUME NEW q \in Requests, pc'[q] = "built", q \notin churned', items'[key'[q]] = NoEntry
      PROVE  loaded'[q] = stored'[key'[q]]
  <2>1. q # r /\ pc[q] = "built" /\ loaded'[q] = loaded[q]
    BY <1>2, <1>3, <1>7
  <2>2. /\ key[q] # key[r] /\ Dropping(V)[key[q]] = NoEntry
        /\ q \notin churned \cup Churning(V)
    BY <1>2, <1>3, <1>5, <1>7, <2>1
  <2> QED
    BY <1>2, <1>4, <2>1, <2>2
<1> QED
  BY <1>6, <1>7 DEF RemembersUnlessChurned, Fresh

\* The engine a session is served by remembers every stored turn of it, for any capacity and
\* any order of the look-ups, builds, inserts and evictions, but for the entry of a request
\* whose key was evicted between its read and its insert.
THEOREM TurnsAreRemembered == Spec => []RemembersUnlessChurned
<1> DEFINE Memory == RemembersUnlessChurned /\ Fresh
<1>1. Init => Memory
  BY DEF Init, RemembersUnlessChurned, Fresh
<1>2. Typed /\ LeaseInvariant /\ Memory /\ [Next]_vars => Memory'
  <2> SUFFICES ASSUME Typed, LeaseInvariant, Memory, [Next]_vars
               PROVE  RemembersUnlessChurned' /\ Fresh'
    OBVIOUS
  <2>0. /\ items \in [Keys -> Entries \cup {NoEntry}] /\ key \in [Requests -> Keys]
        /\ pc \in [Requests -> States] /\ held \in [Requests -> Entries \cup {NoEntry}]
        /\ stored \in [Keys -> Nat] /\ known \in [Entries -> Nat] /\ loaded \in [Requests -> Nat]
    BY DEF Typed, TypeOK
  <2>1. ASSUME NEW r \in Requests, Insert(r) PROVE RemembersUnlessChurned' /\ Fresh'
    BY <2>1, MemoryInsert
  <2>2. ASSUME NEW r \in Requests, Hit(r) \/ Adopt(r)
        PROVE  RemembersUnlessChurned' /\ Fresh'
    BY <2>0, <2>2 DEF Hit, Adopt, TakeCached, RemembersUnlessChurned, Fresh
  <2>3. ASSUME NEW r \in Requests, Start(r) \/ Miss(r) \/ BuildFails(r)
        PROVE  RemembersUnlessChurned' /\ Fresh'
    BY <2>0, <2>3 DEF Start, Miss, BuildFails, RemembersUnlessChurned, Fresh, entryVars, ghostVars
  <2>4. ASSUME NEW r \in Requests, LoadHistory(r)
        PROVE  RemembersUnlessChurned' /\ Fresh'
    BY <2>0, <2>4 DEF LoadHistory, RemembersUnlessChurned, Fresh, entryVars, ghostVars
  <2>5. ASSUME NEW r \in Requests, Acquire(r) \/ Unlock(r)
        PROVE  RemembersUnlessChurned' /\ Fresh'
    BY <2>0, <2>5 DEF Acquire, Unlock, RemembersUnlessChurned, Fresh, entryVars, ghostVars
  <2>6. ASSUME NEW r \in Requests, RunTurn(r)
        PROVE  RemembersUnlessChurned' /\ Fresh'
    <3>1. /\ stored' = [stored EXCEPT ![key[r]] = @ + 1]
          /\ known' = [known EXCEPT ![held[r]] = @ + 1]
          /\ UNCHANGED <<items, key, pc, loaded, churned, suspect>> /\ pc[r] = "holding"
      BY <2>6 DEF RunTurn, requestVars, ghostVars
    <3>2. items[key[r]] = held[r] /\ held[r] # NoEntry /\ held[r] \in Entries /\ key[r] \in Keys
      BY <2>0, <3>1 DEF LeaseInvariant, Leasing, Typed, HeldWhileLeasing
    <3>3. ASSUME NEW k \in Keys, items'[k] # NoEntry, items'[k] \notin suspect'
          PROVE  known'[items'[k]] = stored'[k]
      <4>1. known[items[k]] = stored[k] /\ items[k] \in Entries /\ items'[k] = items[k]
        BY <2>0, <3>1, <3>3 DEF RemembersUnlessChurned
      <4>2. CASE k = key[r]
        BY <2>0, <3>1, <3>2, <4>1, <4>2
      <4>3. CASE k # key[r]
        <5>1. items[k] # held[r]
          BY <3>2, <4>3 DEF LeaseInvariant
        <5> QED
          BY <2>0, <3>1, <4>1, <4>3, <5>1
      <4> QED
        BY <4>2, <4>3
    <3>4. ASSUME NEW q \in Requests, pc'[q] = "built", q \notin churned', items'[key'[q]] = NoEntry
          PROVE  loaded'[q] = stored'[key'[q]]
      <4>1. key[q] # key[r] /\ key[q] \in Keys
        BY <2>0, <3>1, <3>2, <3>4
      <4> QED
        BY <2>0, <3>1, <3>4, <4>1 DEF Fresh
    <3> QED
      BY <3>3, <3>4 DEF RemembersUnlessChurned, Fresh
  <2>7. ASSUME NEW V \in SUBSET Cached, items' = Dropping(V),
               known' = [x \in Entries |-> IF x \in V THEN 0 ELSE known[x]],
               churned' = churned \cup Churning(V), suspect' = suspect \ V,
               UNCHANGED <<key, loaded, stored>>,
               \A q \in Requests : pc'[q] = "built" => pc[q] = "built"
        PROVE  RemembersUnlessChurned' /\ Fresh'
    <3>1. /\ \A k \in Keys :
               Dropping(V)[k] # NoEntry /\ Dropping(V)[k] \notin suspect \ V =>
                 /\ Dropping(V)[k] = items[k] /\ items[k] \in Entries \ V
                 /\ known[items[k]] = stored[k]
          /\ \A q \in Requests :
               /\ pc[q] = "built" /\ q \notin churned \cup Churning(V)
               /\ Dropping(V)[key[q]] = NoEntry
               => loaded[q] = stored[key[q]]
      BY MemoryAfterEviction
    <3> QED
      BY <2>7, <3>1 DEF RemembersUnlessChurned, Fresh
  <2>8. ASSUME NEW r \in Requests, Return(r) PROVE RemembersUnlessChurned' /\ Fresh'
    <3>1. PICK V \in SUBSET Cached : Return(r)!3!(V)
      BY <2>8 DEF Return
    <3>2. UNCHANGED <<key, loaded, stored>> /\ pc' = [pc EXCEPT ![r] = "idle"]
      BY <2>8 DEF Return
    <3>3. \A q \in Requests : pc'[q] = "built" => pc[q] = "built"
      BY <2>0, <3>2
    <3> QED
      BY <2>7, <3>1, <3>2, <3>3
  <2>9. CASE EvictIdle
    <3>1. PICK now \in 0..clock : EvictIdle!(now)
      BY <2>9 DEF EvictIdle
    <3>2. PICK V \in SUBSET Cached :
            /\ items' = Dropping(V)
            /\ known' = [x \in Entries |-> IF x \in V THEN 0 ELSE known[x]]
            /\ churned' = churned \cup Churning(V) /\ suspect' = suspect \ V
            /\ UNCHANGED <<requestVars, stored>>
      BY <3>1
    <3> QED
      BY <2>7, <3>2 DEF requestVars
  <2>10. CASE UNCHANGED <<items, known, requestVars, stored, ghostVars>>
    BY <2>10 DEF RemembersUnlessChurned, Fresh, requestVars, ghostVars
  <2>11. CASE Tick
    BY <2>10, <2>11 DEF Tick, entryVars
  <2> QED
    BY <2>1, <2>2, <2>3, <2>4, <2>5, <2>6, <2>8, <2>9, <2>10, <2>11
       DEF Next, Step, vars, entryVars
<1>3. Memory => RemembersUnlessChurned
  OBVIOUS
<1> QED
  BY <1>1, <1>2, <1>3, TypedInvariant, LeaseInvariantHolds, PTL DEF Spec

-----------------------------------------------------------------------------
(* The pool implements SessionTurns.                                         *)

\* The pool steps that a caller sees as a step of SessionTurns, and the ones it
\* does not see at all.
LEMMA StepRefines ==
    ASSUME Typed, LeaseInvariant, LeaseInvariant', [Next]_vars
    PROVE  [Abstract!Next]_(Abstract!vars)
<1> USE DEF Typed, TypeOK, HeldWhileLeasing, States, Turn
<1>1. ASSUME NEW r \in Requests, Start(r)
      PROVE  Abstract!Ask(r)
  BY <1>1 DEF Start, Abstract!Ask
<1>2. ASSUME NEW r \in Requests, TakeCached(r), pc[r] \in {"lookup", "built"}
      PROVE  Turn' = Turn /\ key' = key
  BY <1>2 DEF TakeCached
<1>3. ASSUME NEW r \in Requests, Miss(r)
      PROVE  Turn' = Turn /\ key' = key
  BY <1>3 DEF Miss
<1>4. ASSUME NEW r \in Requests, LoadHistory(r)
      PROVE  Turn' = Turn /\ key' = key
  BY <1>4 DEF LoadHistory
<1>5. ASSUME NEW r \in Requests, BuildFails(r)
      PROVE  Abstract!Fail(r)
  BY <1>5 DEF BuildFails, Abstract!Fail
<1>6. ASSUME NEW r \in Requests, Insert(r)
      PROVE  Turn' = Turn /\ key' = key
  BY <1>6 DEF Insert
<1>7. ASSUME NEW r \in Requests, Acquire(r)
      PROVE  Abstract!Enter(r)
  <2>1. \A q \in Requests : pc[q] = "holding" => key[q] # key[r]
    <3> SUFFICES ASSUME NEW q \in Requests, pc[q] = "holding", key[q] = key[r]
                 PROVE  FALSE
      OBVIOUS
    <3>1. held[q] = held[r] /\ holder[held[q]] = q
      BY <1>7 DEF Acquire, LeaseInvariant, Leasing
    <3> QED
      BY <1>7, <3>1, PoolAssumption DEF Acquire
  <2>2. \A q \in Requests : Turn[q] = "in" => pc[q] = "holding"
    OBVIOUS
  <2>3. Turn[r] = "queued" /\ Turn' = [Turn EXCEPT ![r] = "in"] /\ key' = key
    BY <1>7 DEF Acquire
  <2> HIDE DEF Turn
  <2> QED
    BY <2>1, <2>2, <2>3 DEF Abstract!Enter
<1>8. ASSUME NEW r \in Requests, RunTurn(r)
      PROVE  Turn' = Turn /\ key' = key
  BY <1>8 DEF RunTurn, requestVars
<1>9. ASSUME NEW r \in Requests, Unlock(r)
      PROVE  Abstract!Leave(r)
  BY <1>9 DEF Unlock, Abstract!Leave
<1>10. ASSUME NEW r \in Requests, Return(r)
       PROVE  Turn' = Turn /\ key' = key
  BY <1>10 DEF Return, Returned
<1>11. Tick \/ EvictIdle \/ UNCHANGED vars => Turn' = Turn /\ key' = key
  BY DEF Tick, EvictIdle, vars, requestVars
<1> HIDE DEF Turn
<1>12. ASSUME NEW r \in Requests, Start(r) \/ Step(r) \/ Acquire(r) \/ RunTurn(r)
       PROVE  [Abstract!Next]_(Abstract!vars)
  BY <1>1, <1>2, <1>3, <1>4, <1>5, <1>6, <1>7, <1>8, <1>9, <1>10, <1>12
     DEF Step, Hit, Adopt, Abstract!Next, Abstract!vars
<1> QED
  BY <1>11, <1>12 DEF Next, Abstract!vars

\* The pool implements the one-at-a-time discipline of SessionTurns.
THEOREM PoolImplementsSessionTurns == Spec => ImplementsSessionTurns
<1>1. Init => Abstract!Init
  BY DEF Init, Turn, Abstract!Init
<1>2. Typed /\ LeaseInvariant /\ LeaseInvariant' /\ [Next]_vars
        => [Abstract!Next]_(Abstract!vars)
  BY StepRefines
<1> QED
  BY <1>1, <1>2, TypedInvariant, LeaseInvariantHolds, PTL
     DEF Spec, ImplementsSessionTurns, Abstract!Spec
===============================================================================
