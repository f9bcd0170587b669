------------------------------ MODULE EnginePool ------------------------------
(***************************************************************************)
(* The per-session engine cache of internal/agentpool/pool.go.             *)
(*                                                                         *)
(* Requests lease the engine of a session: they look it up under the pool  *)
(* mutex, build and rehydrate it outside that mutex on a miss, and then    *)
(* wait for the mutex of the entry, which they hold for the whole turn.    *)
(* Every block of code under p.mu is one action; the code between two such *)
(* blocks is a separate action.  An Engine is abstracted to `known`, the   *)
(* number of the session's turns it remembers, and the message store to    *)
(* `stored`, the number of turns it holds.                                 *)
(***************************************************************************)
EXTENDS Integers, FiniteSets

CONSTANTS Requests,   \* goroutines that lease engines
          Keys,       \* (owner, session) pairs
          Entries,    \* identities of *entry values
          NoEntry,    \* the nil *entry
          NoRequest,  \* an unlocked entry mutex
          Capacity,   \* Options.Capacity
          IdleTTL,    \* Options.IdleTTL, in ticks of `clock`
          MaxClock,   \* bound of the model: last clock value
          MaxTurns    \* bound of the model: turns stored per session

ASSUME PoolAssumption ==
    /\ NoEntry \notin Entries
    /\ NoRequest \notin Requests
    /\ IsFiniteSet(Requests) /\ IsFiniteSet(Keys)
    /\ Capacity \in Nat \ {0}
    /\ IdleTTL \in Nat \ {0}
    /\ MaxClock \in Nat
    /\ MaxTurns \in Nat

VARIABLES items,    \* p.items: the entry cached for a key
          ahead,    \* p.lruList: <<a, b>> when a is nearer the front than b
          leases,   \* entry.leases
          touched,  \* entry.lastTouched
          holder,   \* entry.mu: the request that holds it
          known,    \* entry.eng: turns in its conversation history
          pc,       \* where each request is in Lease
          key,      \* the key a request leases
          held,     \* the entry getOrCreate returned to a request
          loaded,   \* turns in the history a request's buildEngine read
          stored,   \* turns in the message store
          churned,  \* history variable: requests whose key was evicted after they read it
          suspect,  \* history variable: entries that a churned request inserted
          clock     \* time.Now()

requestVars == <<pc, key, held, loaded>>
entryVars == <<leases, touched, holder, known>>
ghostVars == <<churned, suspect>>
vars == <<items, ahead, entryVars, requestVars, stored, ghostVars, clock>>

States == {"idle", "lookup", "building", "built", "waiting", "holding", "releasing"}

\* The states in which a request counts in the leases of the entry it has.
Leasing == {"waiting", "holding", "releasing"}

TypeOK ==
    /\ items \in [Keys -> Entries \cup {NoEntry}]
    /\ ahead \subseteq Entries \X Entries
    /\ leases \in [Entries -> Nat]
    /\ touched \in [Entries -> Nat]
    /\ holder \in [Entries -> Requests \cup {NoRequest}]
    /\ known \in [Entries -> Nat]
    /\ pc \in [Requests -> States]
    /\ key \in [Requests -> Keys]
    /\ held \in [Requests -> Entries \cup {NoEntry}]
    /\ loaded \in [Requests -> Nat]
    /\ stored \in [Keys -> Nat]
    /\ churned \subseteq Requests
    /\ suspect \subseteq Entries
    /\ clock \in Nat

Init ==
    /\ items = [k \in Keys |-> NoEntry]
    /\ ahead = {}
    /\ leases = [e \in Entries |-> 0]
    /\ touched = [e \in Entries |-> 0]
    /\ holder = [e \in Entries |-> NoRequest]
    /\ known = [e \in Entries |-> 0]
    /\ pc = [r \in Requests |-> "idle"]
    /\ key \in {[r \in Requests |-> k] : k \in Keys}
    /\ held = [r \in Requests |-> NoEntry]
    /\ loaded = [r \in Requests |-> 0]
    /\ stored = [k \in Keys |-> 0]
    /\ churned = {}
    /\ suspect = {}
    /\ clock = 0

-----------------------------------------------------------------------------
(* The cache: what the blocks under p.mu are built from.                     *)

Cached == {items[k] : k \in Keys} \ {NoEntry}

\* The requests that hold a lease of e: what entry.leases counts.
Lessees(e) == {r \in Requests : pc[r] \in Leasing /\ held[r] = e}

\* p.lruList.MoveToFront and PushFront: e ahead of every other entry of S.
ToFront(order, e, S) ==
    {p \in order : e \notin {p[1], p[2]}} \cup {<<e, x>> : x \in S \ {e}}

\* p.lruList.Remove of every entry of V.
Without(order, V) == {p \in order : p[1] \notin V /\ p[2] \notin V}

\* MUTANT: eviction takes the back of the list, leased or not.
EvictsToLeased(keep, V, S, order, lease) ==
    /\ V \subseteq S
    /\ \A v \in V, u \in S \ V : <<u, v>> \in order
    /\ Cardinality(S \ V) = IF Cardinality(S) > keep THEN keep ELSE Cardinality(S)

\* V is what `for len(p.items) > keep && p.evictOneIdleLRULocked()` removes from
\* the entries of S: idle entries from the back of the list, until keep entries
\* are left or no idle entry is.
EvictsTo(keep, V, S, order, lease) ==
    LET Idle == {e \in S : lease[e] = 0}
    IN  /\ V \subseteq Idle
        /\ \A v \in V, u \in Idle \ V : <<u, v>> \in order
        /\ V # {} => Cardinality(S \ V) >= keep
        /\ V # Idle => Cardinality(S \ V) <= keep

\* items without the entries of V.
Dropping(V) == [k \in Keys |-> IF items[k] \in V THEN NoEntry ELSE items[k]]

\* The requests that read their history before V was evicted and insert it after.
Churning(V) == {r \in Requests : pc[r] = "built" /\ items[key[r]] \in V}

-----------------------------------------------------------------------------
(* Lease: getOrCreate and the entry mutex.                                   *)

Start(r) ==
    /\ pc[r] = "idle"
    /\ pc' = [pc EXCEPT ![r] = "lookup"]
    /\ \E k \in Keys : key' = [key EXCEPT ![r] = k]
    /\ UNCHANGED <<items, ahead, entryVars, held, loaded, stored, ghostVars, clock>>

\* The entry of r's key is leased to r and becomes the most recently used.
TakeCached(r) ==
    LET e == items[key[r]]
    IN  /\ e # NoEntry
        /\ leases' = [leases EXCEPT ![e] = @ + 1]
        /\ touched' = [touched EXCEPT ![e] = clock]
        /\ ahead' = ToFront(ahead, e, Cached)
        /\ held' = [held EXCEPT ![r] = e]
        /\ pc' = [pc EXCEPT ![r] = "waiting"]
        /\ churned' = churned \ {r}
        /\ loaded' = [loaded EXCEPT ![r] = 0]
        /\ UNCHANGED <<items, holder, known, key, stored, suspect, clock>>

Hit(r) ==
    /\ pc[r] = "lookup"
    /\ TakeCached(r)

Miss(r) ==
    /\ pc[r] = "lookup"
    /\ items[key[r]] = NoEntry
    /\ pc' = [pc EXCEPT ![r] = "building"]
    /\ UNCHANGED <<items, ahead, entryVars, key, held, loaded, stored, ghostVars, clock>>

\* MUTANT: the page cursor skips the newest turn.
LoadHistoryOlder(r) ==
    /\ pc[r] = "building"
    /\ loaded' = [loaded EXCEPT ![r] = IF stored[key[r]] > 0 THEN stored[key[r]] - 1 ELSE 0]
    /\ pc' = [pc EXCEPT ![r] = "built"]
    /\ UNCHANGED <<items, ahead, entryVars, key, held, stored, ghostVars, clock>>

\* buildEngine: the pages are read newest first with a cursor, so rows appended
\* while it pages are never seen and the history is the one of the first page.
LoadHistory(r) ==
    /\ pc[r] = "building"
    /\ loaded' = [loaded EXCEPT ![r] = stored[key[r]]]
    /\ pc' = [pc EXCEPT ![r] = "built"]
    /\ UNCHANGED <<items, ahead, entryVars, key, held, stored, ghostVars, clock>>

BuildFails(r) ==
    /\ pc[r] = "building"
    /\ pc' = [pc EXCEPT ![r] = "idle"]
    /\ UNCHANGED <<items, ahead, entryVars, key, held, loaded, stored, ghostVars, clock>>

\* Another request inserted the key while r was building: use its entry.
Adopt(r) ==
    /\ pc[r] = "built"
    /\ TakeCached(r)

Insert(r) ==
    /\ pc[r] = "built"
    /\ items[key[r]] = NoEntry
    /\ \E V \in SUBSET Cached,
          e \in Entries \ (Cached \cup {held[q] : q \in Requests}) :
        LET S == Cached \ V
        IN  /\ EvictsTo(Capacity - 1, V, Cached, ahead, leases)
            /\ items' = [Dropping(V) EXCEPT ![key[r]] = e]
            /\ ahead' = ToFront(Without(ahead, V), e, S)
            /\ leases' = [leases EXCEPT ![e] = 1]
            /\ touched' = [x \in Entries |->
                             IF x = e THEN clock ELSE IF x \in V THEN 0 ELSE touched[x]]
            /\ known' = [x \in Entries |->
                           IF x = e THEN loaded[r] ELSE IF x \in V THEN 0 ELSE known[x]]
            /\ held' = [held EXCEPT ![r] = e]
            /\ churned' = (churned \cup Churning(V)) \ {r}
            /\ suspect' = (suspect \ V) \cup (IF r \in churned THEN {e} ELSE {})
    /\ pc' = [pc EXCEPT ![r] = "waiting"]
    /\ loaded' = [loaded EXCEPT ![r] = 0]
    /\ UNCHANGED <<holder, key, stored, clock>>

\* e.mu.Lock(), which no context interrupts.
Acquire(r) ==
    /\ pc[r] = "waiting"
    /\ holder[held[r]] = NoRequest
    /\ holder' = [holder EXCEPT ![held[r]] = r]
    /\ pc' = [pc EXCEPT ![r] = "holding"]
    /\ UNCHANGED <<items, ahead, leases, touched, known, key, held, loaded, stored,
                   ghostVars, clock>>

\* The caller runs a turn: its rows reach the store and the engine's history.
RunTurn(r) ==
    /\ pc[r] = "holding"
    /\ stored[key[r]] < MaxTurns
    /\ stored' = [stored EXCEPT ![key[r]] = @ + 1]
    /\ known' = [known EXCEPT ![held[r]] = @ + 1]
    /\ UNCHANGED <<items, ahead, leases, touched, holder, requestVars, ghostVars, clock>>

-----------------------------------------------------------------------------
(* The release closure: the entry mutex first, then the pool mutex.          *)

\* MUTANT: a path through the release closure forgets e.mu.Unlock().
UnlockForgotten(r) ==
    /\ pc[r] = "holding"
    /\ pc' = [pc EXCEPT ![r] = "releasing"]
    /\ UNCHANGED <<items, ahead, entryVars, key, held, loaded, stored, ghostVars, clock>>

Unlock(r) ==
    /\ pc[r] = "holding"
    /\ holder' = [holder EXCEPT ![held[r]] = NoRequest]
    /\ pc' = [pc EXCEPT ![r] = "releasing"]
    /\ UNCHANGED <<items, ahead, leases, touched, known, key, held, loaded, stored,
                   ghostVars, clock>>

\* MUTANT: the release closure touches the entry and leaves it where it is.
ReleasedOrderUnmoved(r) == ahead

\* The order of the list once the release closure has touched e.
ReleasedOrder(r) ==
    IF items[key[r]] = held[r] THEN ToFront(ahead, held[r], Cached) ELSE ahead

\* The lease count once one lease is given back.
Returned(n) == IF n > 0 THEN n - 1 ELSE n

Return(r) ==
    /\ pc[r] = "releasing"
    /\ leases' = [leases EXCEPT ![held[r]] = Returned(@)]
    /\ \E V \in SUBSET Cached :
        /\ EvictsTo(Capacity, V, Cached, ReleasedOrder(r), leases')
        /\ items' = Dropping(V)
        /\ ahead' = Without(ReleasedOrder(r), V)
        /\ touched' = [x \in Entries |->
                         IF x \in V THEN 0 ELSE IF x = held[r] THEN clock ELSE touched[x]]
        /\ known' = [x \in Entries |-> IF x \in V THEN 0 ELSE known[x]]
        /\ churned' = churned \cup Churning(V)
        /\ suspect' = suspect \ V
    /\ pc' = [pc EXCEPT ![r] = "idle"]
    /\ held' = [held EXCEPT ![r] = NoEntry]
    /\ UNCHANGED <<holder, key, loaded, stored, clock>>

-----------------------------------------------------------------------------
(* Time and the gc goroutine.                                                *)

Tick ==
    /\ clock < MaxClock
    /\ clock' = clock + 1
    /\ UNCHANGED <<items, ahead, entryVars, requestVars, stored, ghostVars>>

\* evictIdle reads the clock before it takes p.mu, so `now` may be old.  It walks
\* from the back and stops at the first entry touched after the deadline.
EvictIdle ==
    \E now \in 0..clock :
        LET Recent(e) == touched[e] > now - IdleTTL
            V == {e \in Cached :
                    /\ leases[e] = 0
                    /\ ~Recent(e)
                    /\ \A x \in Cached : <<e, x>> \in ahead => ~Recent(x)}
        IN  /\ V # {}
            /\ items' = Dropping(V)
            /\ ahead' = Without(ahead, V)
            /\ touched' = [x \in Entries |-> IF x \in V THEN 0 ELSE touched[x]]
            /\ known' = [x \in Entries |-> IF x \in V THEN 0 ELSE known[x]]
            /\ churned' = churned \cup Churning(V)
            /\ suspect' = suspect \ V
            /\ UNCHANGED <<leases, holder, requestVars, stored, clock>>

-----------------------------------------------------------------------------
Step(r) ==
    \/ Hit(r) \/ Miss(r) \/ LoadHistory(r) \/ BuildFails(r) \/ Adopt(r) \/ Insert(r)
    \/ Unlock(r) \/ Return(r)

Next ==
    \/ \E r \in Requests : Start(r) \/ Step(r) \/ Acquire(r) \/ RunTurn(r)
    \/ Tick
    \/ EvictIdle

\* A goroutine that can run does, every turn ends (its context has a deadline),
\* and sync.Mutex hands itself to the longest waiter, so no waiter starves.
Fairness ==
    \A r \in Requests : WF_vars(Step(r)) /\ SF_vars(Acquire(r))

Spec == Init /\ [][Next]_vars
FairSpec == Spec /\ Fairness

-----------------------------------------------------------------------------
(* Properties.                                                               *)

\* Two requests never run the same session at once, however the cache evicts
\* and rebuilds the engine between them (Lease serialises Chat per session).
ExclusiveSession ==
    \A r, q \in Requests :
        r # q /\ pc[r] = "holding" /\ pc[q] = "holding" => key[r] # key[q]

\* An engine in use stays the engine of its session: eviction on overflow, on
\* release and on idleness passes over leased entries, so nobody can build a
\* second engine with a second mutex beside it.
LeasedStaysCached ==
    \A r \in Requests : pc[r] \in Leasing => items[key[r]] = held[r]

\* evictIdle may stop at the first recently touched entry, because the list is
\* ordered by recency: no entry was touched later than one ahead of it.
RecencyOrder ==
    \A a, b \in Cached :
        a # b => /\ <<a, b>> \in ahead <=> <<b, a>> \notin ahead
                 /\ <<a, b>> \in ahead => touched[a] >= touched[b]

\* The pool exceeds its capacity only while every cached engine is in use, and
\* converges as soon as one of them is released.
OverflowOnlyInUse ==
    Cardinality(Cached) > Capacity => \A e \in Cached : leases[e] > 0

\* The engine a session is served by remembers every stored turn of it, unless
\* the entry comes from a request whose key was evicted between its read of the
\* history and its insert: the second look-up covers every other race.
RemembersUnlessChurned ==
    \A k \in Keys :
        items[k] # NoEntry /\ items[k] \notin suspect => known[items[k]] = stored[k]

\* A request has an entry exactly while it counts in the leases of one.
HeldWhileLeasing ==
    \A r \in Requests : held[r] # NoEntry <=> pc[r] \in Leasing

\* How the leases, the map and the entry mutexes fit together: the invariant that
\* the mutual exclusion of a session rests on.
LeaseInvariant ==
    /\ \A r \in Requests : pc[r] \in Leasing => items[key[r]] = held[r]
    /\ \A r \in Requests : pc[r] = "holding" => holder[held[r]] = r
    /\ \A k, l \in Keys : items[k] = items[l] /\ items[k] # NoEntry => k = l
    /\ \A e \in Entries : leases[e] = Cardinality(Lessees(e))

\* What a cold recovery promises with no exception: the newest turn is kept.
RemembersNewestTurn ==
    \A k \in Keys : items[k] # NoEntry => known[items[k]] = stored[k]

\* Every request gets its engine or an error: the wait for the entry mutex ends.
EveryLeaseServed ==
    \A r \in Requests : pc[r] = "lookup" ~> pc[r] \in {"holding", "idle"}

\* Where a request is, seen from outside the pool.
Turn == [r \in Requests |-> IF pc[r] \in {"idle", "releasing"} THEN "out"
                            ELSE IF pc[r] = "holding" THEN "in" ELSE "queued"]

Abstract == INSTANCE SessionTurns WITH turn <- Turn

\* The pool implements the one-at-a-time discipline of SessionTurns: hiding the
\* cache, the leases and the two mutexes, a request asks, enters alone, leaves.
ImplementsSessionTurns == Abstract!Spec
===============================================================================
