-------------------------- MODULE ChatSession_proofs --------------------------
(* Proofs about ChatSession: the budget of turns and the life of a cursor.   *)
EXTENDS ChatSession, FiniteSetTheorems, TLAPS

\* The compare-and-swap yields a session row, and counts no turn.
LEMMA UpdateTyped ==
    ASSUME row \in Sessions, NEW w, w.jobs \in SUBSET Cursors
    PROVE  UpdateContext(w) \in Sessions /\ UpdateContext(w).count = row.count
  <1> DEFINE new == [row EXCEPT !.version = @ + 1, !.jobs = w.jobs, !.schema = "current"]
  <1>1. row.version + 1 \in Nat /\ "current" \in Schemas
    BY DEF Sessions, Schemas
  <1>2. new \in Sessions /\ new.count = row.count
    <2>1. [row EXCEPT !.version = row.version + 1] \in Sessions
      BY <1>1 DEF Sessions
    <2>2. \A s \in Sessions : [s EXCEPT !.jobs = w.jobs] \in Sessions
      BY DEF Sessions
    <2>3. \A s \in Sessions : [s EXCEPT !.schema = "current"] \in Sessions
      BY <1>1 DEF Sessions
    <2>4. new = [[[row EXCEPT !.version = row.version + 1] EXCEPT !.jobs = w.jobs]
                   EXCEPT !.schema = "current"]
      OBVIOUS
    <2> QED
      BY <2>1, <2>2, <2>3, <2>4 DEF Sessions
  <1> QED
    BY <1>2 DEF UpdateContext

\* A statement that commits leaves the rows well typed, and never loses one.
LEMMA CommitTyped ==
    ASSUME TypeOK, NEW w \in Statements, Commit(w)
    PROVE  /\ row' \in Sessions
           /\ users' \subseteq Requests /\ users \subseteq users'
           /\ answer' \in [Requests -> Statuses]
           /\ \A r \in Requests : answer[r] # "absent" => answer'[r] # "absent"
           /\ row'.count >= row.count
  <1> USE DEF TypeOK, Statements, Sessions, Statuses
  <1>1. CASE w.op \in {"user", "assistant", "settle"}
    BY <1>1 DEF Commit
  <1>2. CASE w.op = "bump"
    BY <1>2 DEF Commit, Bumped
  <1>3. CASE w.op = "context"
    <2>1. w.jobs \in SUBSET Cursors
      BY <1>3
    <2>2. users' = users /\ answer' = answer /\ row' = UpdateContext(w)
      BY <1>3 DEF Commit
    <2>3. row \in Sessions
      BY DEF TypeOK
    <2> QED
      BY <2>1, <2>2, <2>3, UpdateTyped
  <1> QED
    BY <1>1, <1>2, <1>3

\* The statements of a turn are Statements.
LEMMA StatementsOfTurn ==
    ASSUME TypeOK, NEW r \in Requests
    PROVE  /\ pc[r] \in {"user", "assistant", "bump"} => [op |-> pc[r], by |-> r] \in Statements
           /\ [op |-> "bump", by |-> r] \in Statements
           /\ \A s \in Statuses \ {"absent"} :
                [op |-> "settle", by |-> r, status |-> s] \in Statements
           /\ [op |-> "context", by |-> r, version |-> engine.version, jobs |-> engine.jobs]
                \in Statements
  BY DEF TypeOK, Statements

\* The type of every variable is preserved by every step.
LEMMA TypeStep == ASSUME TypeOK, [Next]_vars PROVE TypeOK'
  <1> USE SessionAssumption DEF dbVars, Sessions, Locations
  <1>1. ASSUME NEW r \in Requests, Open(r) PROVE TypeOK'
    BY <1>1 DEF TypeOK, Open, Goto, ghostVars
  <1>2. ASSUME NEW r \in Requests, Lease(r) PROVE TypeOK'
    BY <1>2 DEF TypeOK, Lease, Goto, ghostVars
  <1>3. ASSUME NEW r \in Requests, ReadAgain(r) PROVE TypeOK'
    BY <1>3 DEF TypeOK, ReadAgain, Goto
  <1>4. ASSUME NEW r \in Requests, ReadFails(r) PROVE TypeOK'
    BY <1>4 DEF TypeOK, ReadFails, Release, Goto
  <1>5. ASSUME NEW r \in Requests, Hydrate(r) PROVE TypeOK'
    <2>1. Hydrated(sess[r]) \in [jobs : SUBSET Cursors, version : Nat, hydrated : BOOLEAN]
      BY DEF TypeOK, Hydrated, Zero
    <2> QED
      BY <1>5, <2>1 DEF TypeOK, Hydrate, Release, Goto, ghostVars
  <1>6. ASSUME NEW r \in Requests, AppendRow(r) PROVE TypeOK'
    <2>1. row' \in Sessions /\ users' \subseteq Requests /\ answer' \in [Requests -> Statuses]
      BY <1>6, StatementsOfTurn, CommitTyped DEF AppendRow
    <2> QED
      BY <1>6, <2>1 DEF TypeOK, AppendRow, Goto, ghostVars
  <1>7. ASSUME NEW r \in Requests, Bump(r) PROVE TypeOK'
    <2>1. row' \in Sessions /\ users' \subseteq Requests /\ answer' \in [Requests -> Statuses]
      BY <1>7, StatementsOfTurn, CommitTyped DEF Bump
    <2>2. ran' \subseteq Requests /\ pc' \in [Requests -> Locations]
      BY <1>7 DEF TypeOK, Bump, Goto
    <2>3. UNCHANGED <<late, sess, lease, engine, job, forgotten, overtaken, faults>>
      BY <1>7 DEF Bump
    <2> QED
      BY <2>1, <2>2, <2>3 DEF TypeOK
  <1>8. ASSUME NEW w \in Statements, Fail(w)
        PROVE  /\ late' \subseteq Statements /\ faults' \in Nat
               /\ row' \in Sessions /\ users' \subseteq Requests
               /\ answer' \in [Requests -> Statuses]
    BY <1>8 DEF TypeOK, Fail
  <1>9. ASSUME NEW r \in Requests, PrepareFails(r) PROVE TypeOK'
    <2>1. /\ late' \subseteq Statements /\ faults' \in Nat
          /\ row' \in Sessions /\ users' \subseteq Requests
          /\ answer' \in [Requests -> Statuses]
      BY <1>8, <1>9, StatementsOfTurn DEF PrepareFails
    <2> QED
      BY <1>9, <2>1 DEF TypeOK, PrepareFails, Release, Goto
  <1>10. ASSUME NEW r \in Requests, Launch(r) \/ Observe(r) PROVE TypeOK'
    BY <1>10 DEF TypeOK, Launch, Observe, Cursors, ghostVars
  <1>11. ASSUME NEW r \in Requests, Settle(r) PROVE TypeOK'
    <2>1. PICK s \in Statuses \ {"absent"} :
            \/ Commit([op |-> "settle", by |-> r, status |-> s]) /\ UNCHANGED <<late, faults>>
            \/ Fail([op |-> "settle", by |-> r, status |-> s])
      BY <1>11 DEF Settle, Statuses
    <2>2. [op |-> "settle", by |-> r, status |-> s] \in Statements
      BY StatementsOfTurn
    <2>3. /\ late' \subseteq Statements /\ faults' \in Nat
          /\ row' \in Sessions /\ users' \subseteq Requests
          /\ answer' \in [Requests -> Statuses]
      BY <1>8, <2>1, <2>2, CommitTyped DEF TypeOK
    <2> QED
      BY <1>11, <2>3 DEF TypeOK, Settle, Goto
  <1>12. ASSUME NEW r \in Requests, PersistState(r) PROVE TypeOK'
    <2> DEFINE w == [op |-> "context", by |-> r, version |-> engine.version, jobs |-> engine.jobs]
    <2>1. w \in Statements
      BY StatementsOfTurn
    <2>2. (Commit(w) \/ Fail(w) \/ UNCHANGED <<row, users, answer, late>>) /\ forgotten' \subseteq Cursors
      BY <1>12 DEF PersistState, TypeOK
    <2>3. late' \subseteq Statements /\ faults' \in Nat
      BY <1>8, <1>12, <2>1 DEF PersistState, TypeOK
    <2> HIDE DEF w
    <2>4. /\ row' \in Sessions /\ users' \subseteq Requests
          /\ answer' \in [Requests -> Statuses]
      BY <1>8, <2>1, <2>2, CommitTyped DEF TypeOK
    <2> QED
      BY <1>12, <2>2, <2>3, <2>4 DEF TypeOK, PersistState, Release, Goto
  <1>13. ASSUME Land PROVE TypeOK'
    <2>1. PICK w \in Statements : /\ Commit(w) /\ late' = late \ {w}
                                  /\ overtaken' = (overtaken \/ w.op = "context")
      BY <1>13 DEF Land, TypeOK
    <2>2. row' \in Sessions /\ users' \subseteq Requests /\ answer' \in [Requests -> Statuses]
      BY <2>1, CommitTyped
    <2>3. overtaken' \in BOOLEAN
      BY <2>1
    <2> QED
      BY <1>13, <2>1, <2>2, <2>3 DEF TypeOK, Land
  <1>14. ASSUME JobEnds PROVE TypeOK'
    BY <1>14 DEF TypeOK, JobEnds, Active, ghostVars
  <1>15. ASSUME Crash PROVE TypeOK'
    BY <1>15 DEF TypeOK, Crash, Tracking, Zero
  <1>16. ASSUME UNCHANGED vars PROVE TypeOK'
    BY <1>16 DEF TypeOK, vars, ghostVars
  <1> QED
    BY <1>1, <1>2, <1>3, <1>4, <1>5, <1>6, <1>7, <1>9, <1>10, <1>11, <1>12, <1>13, <1>14,
       <1>15, <1>16 DEF Next, TurnStep

-----------------------------------------------------------------------------
\* The request inside a turn is the one with the lease, after every step.
LEMMA LeaseStep == ASSUME TypeOK, LeaseHeld, [Next]_vars PROVE LeaseHeld'
  <1> USE SessionAssumption DEF TypeOK, LeaseHeld, Holding, Preparing, Goto, Release, dbVars, ghostVars
  <1>1. ASSUME NEW r \in Requests, Open(r) \/ Lease(r) PROVE LeaseHeld'
    BY <1>1 DEF Open, Lease
  <1>2. ASSUME NEW r \in Requests, ReadAgain(r) \/ ReadFails(r) PROVE LeaseHeld'
    BY <1>2 DEF ReadAgain, ReadFails
  <1>3. ASSUME NEW r \in Requests, Hydrate(r) PROVE LeaseHeld'
    BY <1>3 DEF Hydrate
  <1>4. ASSUME NEW r \in Requests, AppendRow(r) \/ Bump(r) PROVE LeaseHeld'
    BY <1>4 DEF AppendRow, Bump
  <1>5. ASSUME NEW r \in Requests, PrepareFails(r) \/ PersistState(r) PROVE LeaseHeld'
    BY <1>5 DEF PrepareFails, PersistState
  <1>6. ASSUME NEW r \in Requests, Launch(r) \/ Observe(r) PROVE LeaseHeld'
    BY <1>6 DEF Launch, Observe
  <1>7. ASSUME NEW r \in Requests, Settle(r) PROVE LeaseHeld'
    BY <1>7 DEF Settle
  <1>8. ASSUME Land \/ JobEnds PROVE LeaseHeld'
    BY <1>8 DEF Land, JobEnds
  <1>9. ASSUME Crash PROVE LeaseHeld'
    BY <1>9 DEF Crash
  <1>10. ASSUME UNCHANGED vars PROVE LeaseHeld'
    BY <1>10 DEF vars
  <1> QED
    BY <1>1, <1>2, <1>3, <1>4, <1>5, <1>6, <1>7, <1>8, <1>9, <1>10 DEF Next, TurnStep

-----------------------------------------------------------------------------
(* The budget of turns.                                                      *)

Budget == Admitted /\ TurnsAreCounted /\ TurnBudget

\* A request admitted on a count leaves room for one more turn.
LEMMA RoomForOne ==
    ASSUME NEW s \in Sessions, ~TurnLimit(s), NEW n \in Nat, 2 * n <= s.count
    PROVE  n + 1 <= MaxTurns + Extra
  <1>1. s.count \in Nat /\ MaxTurns \in Nat /\ Extra \in Nat
    BY SessionAssumption DEF Sessions
  <1>2. s.count \div 2 >= n /\ s.count \div 2 \in Nat
    BY <1>1
  <1>3. s.count \div 2 < MaxTurns \/ s.count \div 2 - MaxTurns < Extra
    BY <1>1, <1>2 DEF TurnLimit
  <1> QED
    BY <1>1, <1>2, <1>3

\* Every step but Bump leaves ran alone; no step loses a row or lowers the count.
LEMMA RowsGrow ==
    ASSUME TypeOK, [Next]_vars
    PROVE  /\ users \subseteq users'
           /\ \A r \in Requests : answer[r] # "absent" => answer'[r] # "absent"
           /\ row'.count >= row.count
           /\ ran' = ran \/ \E r \in Requests : Bump(r)
  <1> DEFINE Grow == /\ users \subseteq users'
                     /\ \A r \in Requests : answer[r] # "absent" => answer'[r] # "absent"
                     /\ row'.count >= row.count
  <1>1. ASSUME UNCHANGED <<row, users, answer>> PROVE Grow
    BY <1>1 DEF TypeOK, Sessions
  <1>2. ASSUME NEW w \in Statements, Commit(w) \/ Fail(w) PROVE Grow
    BY <1>1, <1>2, CommitTyped DEF Fail
  <1> HIDE DEF Grow
  <1>3. ASSUME NEW r \in Requests, AppendRow(r) \/ Bump(r) \/ PrepareFails(r) PROVE Grow
    BY <1>2, <1>3, StatementsOfTurn DEF AppendRow, Bump, PrepareFails
  <1>4. ASSUME NEW r \in Requests, Settle(r) PROVE Grow
    <2>1. PICK s \in Statuses \ {"absent"} :
            \/ Commit([op |-> "settle", by |-> r, status |-> s])
            \/ Fail([op |-> "settle", by |-> r, status |-> s])
      BY <1>4 DEF Settle, Statuses
    <2> QED
      BY <1>2, <2>1, StatementsOfTurn
  <1>5. ASSUME NEW r \in Requests, PersistState(r) PROVE Grow
    <2>1. \/ UNCHANGED <<row, users, answer>>
          \/ Commit([op |-> "context", by |-> r, version |-> engine.version, jobs |-> engine.jobs])
          \/ Fail([op |-> "context", by |-> r, version |-> engine.version, jobs |-> engine.jobs])
      BY <1>5 DEF PersistState, dbVars
    <2> QED
      BY <1>1, <1>2, <2>1, StatementsOfTurn
  <1>6. ASSUME Land PROVE Grow
    BY <1>2, <1>6 DEF Land, TypeOK
  <1>7. ASSUME \/ \E r \in Requests : \/ Open(r) \/ Lease(r) \/ ReadAgain(r) \/ ReadFails(r)
                                      \/ Hydrate(r) \/ Launch(r) \/ Observe(r)
               \/ JobEnds \/ Crash \/ UNCHANGED vars
        PROVE  Grow
    BY <1>1, <1>7 DEF Open, Lease, ReadAgain, ReadFails, Hydrate, Launch, Observe, JobEnds,
                      Crash, vars, dbVars
  <1>8. Grow
    BY <1>3, <1>4, <1>5, <1>6, <1>7 DEF Next, TurnStep
  <1>9. ran' = ran \/ \E r \in Requests : Bump(r)
    BY DEF Next, TurnStep, Open, Lease, ReadAgain, ReadFails, Hydrate, AppendRow, PrepareFails,
           Settle, PersistState, Launch, Observe, Land, JobEnds, Crash, vars, ghostVars
  <1> QED
    BY <1>8, <1>9 DEF Grow

\* A turn runs only after it was admitted with both its rows stored, and is counted.
LEMMA BudgetStep ==
    ASSUME TypeOK, LeaseHeld, Budget, [Next]_vars
    PROVE  Budget'
  <1> DEFINE Fin == IsFiniteSet(ran) /\ Cardinality(ran) \in Nat
  <1>1. Fin
    BY SessionAssumption, FS_Subset, FS_CardinalityType DEF TypeOK
  <1>2. ASSUME NEW r \in Requests, Bump(r) PROVE Budget'
    <2>1. /\ pc[r] = "bump" /\ ran' = ran \cup {r} /\ sess' = sess
          /\ row'.count = row.count + 2 /\ users' = users /\ answer' = answer
          /\ pc' = [pc EXCEPT ![r] = "running"]
      BY <1>2 DEF Bump, Commit, Bumped, Goto, TypeOK, Sessions
    <2>2. \A q \in Requests : pc'[q] \notin {"hydrating"} \cup Preparing
      BY <2>1 DEF TypeOK, LeaseHeld, Holding, Preparing
    <2>3. Cardinality(ran') \in Nat /\ Cardinality(ran') <= Cardinality(ran) + 1
      <3>1. IsFiniteSet(ran)
        BY <1>1
      <3>2. Cardinality(ran \cup {r}) =
              IF r \in ran THEN Cardinality(ran) ELSE Cardinality(ran) + 1
        BY <3>1, FS_AddElement, Zenon
      <3>3. Cardinality(ran') = Cardinality(ran \cup {r})
        BY <2>1
      <3> QED
        BY <1>1, <3>2, <3>3
    <2>4. /\ 2 * Cardinality(ran) <= sess[r].count /\ ~TurnLimit(sess[r])
          /\ r \in users /\ answer[r] # "absent" /\ sess[r] \in Sessions
      BY <2>1 DEF Budget, Admitted, Preparing, TypeOK
    <2>5. Cardinality(ran) + 1 <= MaxTurns + Extra
      BY <1>1, <2>4, RoomForOne
    <2>6. Admitted'
      BY <2>2 DEF Admitted, Preparing
    <2>7. TurnsAreCounted'
      BY <1>1, <2>1, <2>3, <2>4 DEF Budget, TurnsAreCounted, TypeOK, Sessions
    <2>8. TurnBudget'
      BY <1>1, <2>3, <2>5, SessionAssumption DEF TurnBudget
    <2> QED
      BY <2>6, <2>7, <2>8 DEF Budget
  <1>3. ASSUME ran' = ran, Admitted' PROVE Budget'
    <2>1. TurnsAreCounted'
      <3>1. row'.count \in Nat /\ row.count \in Nat
        BY TypeStep DEF TypeOK, Sessions
      <3>2. \A r \in ran' : r \in users' /\ answer'[r] # "absent"
        BY <1>3, RowsGrow DEF Budget, TurnsAreCounted, TypeOK
      <3>3. 2 * Cardinality(ran') <= row'.count
        BY <1>1, <1>3, <3>1, RowsGrow DEF Budget, TurnsAreCounted
      <3> QED
        BY <3>2, <3>3 DEF TurnsAreCounted
    <2> QED
      BY <1>3, <2>1 DEF Budget, TurnBudget
  <1>4. ASSUME ran' = ran, sess' = sess,
               \A r \in Requests : pc'[r] = pc[r] \/ pc'[r] \notin {"hydrating"} \cup Preparing
        PROVE  Admitted'
    BY <1>4, RowsGrow DEF Budget, Admitted, Preparing, TurnLimit
  <1>5. ASSUME NEW r \in Requests, Open(r) PROVE Budget'
    <2>1. ran' = ran /\ pc'[r] = "queued" /\ \A q \in Requests \ {r} : sess'[q] = sess[q] /\ pc'[q] = pc[q]
      BY <1>5 DEF Open, Goto, TypeOK, ghostVars
    <2>2. Admitted'
      BY <2>1, RowsGrow DEF Budget, Admitted, Preparing, TurnLimit
    <2> QED
      BY <1>3, <2>1, <2>2
  <1>6. ASSUME NEW r \in Requests, ReadAgain(r) PROVE Budget'
    <2>1. /\ ran' = ran /\ pc'[r] = "hydrating" /\ sess'[r] = row
          /\ \A q \in Requests \ {r} : sess'[q] = sess[q] /\ pc'[q] = pc[q]
      BY <1>6 DEF ReadAgain, Goto, TypeOK
    <2>2. Admitted'
      BY <2>1, RowsGrow DEF Budget, Admitted, Preparing, TurnLimit, TurnsAreCounted
    <2> QED
      BY <1>3, <2>1, <2>2
  <1>7. ASSUME NEW r \in Requests, Hydrate(r) PROVE Budget'
    <2>1. /\ ran' = ran /\ sess' = sess /\ pc[r] = "hydrating"
          /\ pc'[r] = "done" \/ (pc'[r] = "user" /\ ~TurnLimit(sess[r]))
          /\ \A q \in Requests \ {r} : pc'[q] = pc[q]
      BY <1>7 DEF Hydrate, Release, Goto, TypeOK, ghostVars
    <2>2. Admitted'
      BY <2>1, RowsGrow DEF Budget, Admitted, Preparing, TurnLimit
    <2> QED
      BY <1>3, <2>1, <2>2
  <1>8. ASSUME NEW r \in Requests, AppendRow(r) PROVE Budget'
    <2>1. /\ ran' = ran /\ sess' = sess /\ pc[r] \in {"user", "assistant"}
          /\ \A q \in Requests \ {r} : pc'[q] = pc[q]
          /\ pc'[r] = IF pc[r] = "user" THEN "assistant" ELSE "bump"
          /\ pc[r] = "user" => r \in users'
          /\ pc[r] = "assistant" => answer'[r] # "absent"
      BY <1>8 DEF AppendRow, Commit, Goto, TypeOK, ghostVars
    <2>2. Admitted'
      BY <2>1, RowsGrow DEF Budget, Admitted, Preparing, TurnLimit
    <2> QED
      BY <1>3, <2>1, <2>2
  <1>9. ASSUME NEW r \in Requests, \/ Lease(r) \/ ReadFails(r) \/ PrepareFails(r)
                                    \/ Settle(r) \/ PersistState(r)
        PROVE  Budget'
    <2>1. /\ ran' = ran /\ sess' = sess /\ pc'[r] \in {"leased", "done", "persisting"}
          /\ \A q \in Requests \ {r} : pc'[q] = pc[q]
      BY <1>9 DEF Lease, ReadFails, PrepareFails, Settle, PersistState, Release, Goto, TypeOK, ghostVars
    <2> QED
      BY <1>3, <1>4, <2>1 DEF Preparing
  <1>10. ASSUME \/ \E r \in Requests : Launch(r) \/ Observe(r)
                \/ Land \/ JobEnds \/ UNCHANGED vars
         PROVE  Budget'
    <2>1. ran' = ran /\ sess' = sess /\ pc' = pc
      BY <1>10 DEF Launch, Observe, Land, JobEnds, vars, ghostVars
    <2> QED
      BY <1>3, <1>4, <2>1
  <1>11. ASSUME Crash PROVE Budget'
    <2>1. ran' = ran /\ sess' = sess /\ \A r \in Requests : pc'[r] \in {"new", "done"}
      BY <1>11 DEF Crash
    <2> QED
      BY <1>3, <1>4, <2>1 DEF Preparing
  <1> QED
    BY <1>2, <1>5, <1>6, <1>7, <1>8, <1>9, <1>10, <1>11 DEF Next, TurnStep

-----------------------------------------------------------------------------
(* The life of a cursor.                                                     *)

\* What a step may do to the context of the session row: nothing, or the write of
\* a holder of its version that has seen every cursor of a running job.
ContextKept == row'.version = row.version /\ row'.jobs = row.jobs /\ row'.schema = row.schema
ContextWritten ==
    /\ Covers(row.version, row'.jobs)
    /\ row'.version = row.version + 1 /\ row'.schema = "current"
    /\ job' = job

\* A statement touches the context only as a compare-and-swap.
LEMMA CommitContext ==
    ASSUME TypeOK, NEW w \in Statements, Commit(w)
    PROVE  \/ ContextKept
           \/ /\ w.op = "context" /\ w.version = row.version /\ row'.version = row.version + 1
              /\ row'.jobs = w.jobs /\ row'.schema = "current"
  <1>1. CASE w.op = "context"
    <2>1. row' = UpdateContext(w) /\ row \in Sessions
      BY <1>1 DEF Commit, TypeOK
    <2> QED
      BY <1>1, <2>1 DEF UpdateContext, ContextKept, Sessions
  <1>2. CASE w.op = "bump"
    BY <1>2 DEF Commit, TypeOK, Sessions, ContextKept
  <1>3. CASE w.op \notin {"context", "bump"}
    <2>1. row' = row
      BY <1>3 DEF Commit
    <2> QED
      BY <2>1 DEF ContextKept
  <1> QED
    BY <1>1, <1>2, <1>3

\* Every step keeps the context or writes over what its writer covers.
LEMMA ContextStep ==
    ASSUME TypeOK, CursorInvariant, [Next]_vars
    PROVE  ContextKept \/ ContextWritten
  <1>1. ASSUME row' = row PROVE ContextKept
    BY <1>1 DEF ContextKept
  <1>2. ASSUME NEW w \in Statements, Commit(w), w.op # "context" PROVE ContextKept
    BY <1>2, CommitContext
  <1>3. ASSUME NEW w \in Statements, Commit(w), job' = job,
               w.op = "context" => Covers(w.version, w.jobs)
        PROVE  ContextKept \/ ContextWritten
    BY <1>3, CommitContext DEF ContextWritten
  <1>4. ASSUME NEW r \in Requests, AppendRow(r) \/ Bump(r) PROVE ContextKept
    <2>1. /\ [op |-> "bump", by |-> r].op # "context"
          /\ pc[r] \in {"user", "assistant"} => [op |-> pc[r], by |-> r].op # "context"
      OBVIOUS
    <2> QED
      BY <1>2, <1>4, <2>1, StatementsOfTurn DEF AppendRow, Bump
  <1>5. ASSUME NEW r \in Requests, Settle(r) PROVE ContextKept
    <2>1. PICK s \in Statuses \ {"absent"} :
            \/ Commit([op |-> "settle", by |-> r, status |-> s])
            \/ Fail([op |-> "settle", by |-> r, status |-> s])
      BY <1>5 DEF Settle, Statuses
    <2>2. [op |-> "settle", by |-> r, status |-> s].op # "context"
      OBVIOUS
    <2> QED
      BY <1>1, <1>2, <2>1, <2>2, StatementsOfTurn DEF Fail
  <1>6. ASSUME NEW r \in Requests, PersistState(r) PROVE ContextKept \/ ContextWritten
    <2> DEFINE w == [op |-> "context", by |-> r, version |-> engine.version, jobs |-> engine.jobs]
    <2>1. w \in Statements /\ w.version = engine.version /\ w.jobs = engine.jobs
      BY StatementsOfTurn
    <2>2. pc[r] = "persisting" /\ job' = job /\ (row' = row \/ (engine.hydrated /\ Commit(w)))
      BY <1>6 DEF PersistState, dbVars, Fail
    <2>3. engine.hydrated => Covers(w.version, w.jobs)
      BY <2>1, <2>2 DEF CursorInvariant
    <2> HIDE DEF w
    <2> QED
      BY <1>1, <1>3, <2>1, <2>2, <2>3
  <1>7. ASSUME Land PROVE ContextKept \/ ContextWritten
    <2>1. PICK w \in late : Commit(w) /\ job' = job
      BY <1>7 DEF Land
    <2>2. w \in Statements /\ (w.op = "context" => Covers(w.version, w.jobs))
      BY DEF TypeOK, CursorInvariant
    <2> QED
      BY <1>3, <2>1, <2>2
  <1>8. ASSUME \/ \E r \in Requests : \/ Open(r) \/ Lease(r) \/ ReadAgain(r) \/ ReadFails(r)
                                      \/ Hydrate(r) \/ PrepareFails(r) \/ Launch(r) \/ Observe(r)
               \/ JobEnds \/ Crash \/ UNCHANGED vars
        PROVE  ContextKept
    BY <1>1, <1>8 DEF Open, Lease, ReadAgain, ReadFails, Hydrate, PrepareFails, Fail, Launch,
                      Observe, JobEnds, Crash, vars, dbVars
  <1> QED
    BY <1>4, <1>5, <1>6, <1>7, <1>8 DEF Next, TurnStep

\* Covers in the next state, of values of this one.
CoversNext(version, jobs) ==
    /\ jobs \subseteq Born'
    /\ version <= row'.version
    /\ version = row'.version => /\ row'.jobs \cap Active' \subseteq jobs
                                 /\ row'.schema \in {"current", "older"}

\* A job is launched once and never runs again after it ended.
LEMMA JobsAge ==
    ASSUME TypeOK, [Next]_vars
    PROVE  Born \subseteq Born' /\ Active' \cap Born \subseteq Active
  <1>1. ASSUME job' = job PROVE Born \subseteq Born' /\ Active' \cap Born \subseteq Active
    BY <1>1 DEF Born, Active
  <1>2. ASSUME NEW r \in Requests, Launch(r)
        PROVE  Born \subseteq Born' /\ Active' \cap Born \subseteq Active
    BY <1>2 DEF Born, Active, Launch, TypeOK
  <1>3. ASSUME JobEnds PROVE Born \subseteq Born' /\ Active' \cap Born \subseteq Active
    BY <1>3 DEF Born, Active, JobEnds, TypeOK
  <1>4. \/ job' = job \/ JobEnds \/ \E r \in Requests : Launch(r)
    BY DEF Next, TurnStep, Open, Lease, ReadAgain, ReadFails, Hydrate, AppendRow, Bump,
           PrepareFails, Settle, PersistState, Observe, Land, Crash, vars
  <1> QED
    BY <1>1, <1>2, <1>3, <1>4

\* The row's cursors of running jobs were there, running, before a step that keeps it.
LEMMA KeptCursors ==
    ASSUME TypeOK, CursorInvariant, [Next]_vars
    PROVE  row.jobs \cap Active' \subseteq row.jobs \cap Active
  <1>1. row.jobs \subseteq Born \cup {Seeded}
    BY DEF CursorInvariant, Genuine
  <1>2. Active' \subseteq Jobs
    BY DEF Active
  <1> QED
    BY <1>1, <1>2, JobsAge, SessionAssumption

\* What a holder covers, it still covers after the step.
LEMMA CoversStep ==
    ASSUME TypeOK, CursorInvariant, [Next]_vars,
           NEW version \in Nat, NEW jobs, Covers(version, jobs)
    PROVE  CoversNext(version, jobs)
  <1>1. row.version \in Nat
    BY DEF TypeOK, Sessions
  <1>2. CASE ContextKept
    BY <1>2, JobsAge, KeptCursors DEF ContextKept, Covers, CoversNext
  <1>3. CASE ContextWritten
    BY <1>1, <1>3, JobsAge DEF ContextWritten, Covers, CoversNext
  <1> QED
    BY <1>2, <1>3, ContextStep

\* Only rows this schema wrote hold cursors of launched jobs, after every step.
LEMMA GenuineStep ==
    ASSUME TypeOK, CursorInvariant, [Next]_vars
    PROVE  /\ Genuine(row)'
           /\ \A s \in Sessions : Genuine(s) =>
                IF s.schema = "current" /\ s.version > 0 THEN s.jobs \subseteq Born'
                ELSE s.jobs \subseteq {Seeded}
  <1>1. CASE ContextKept
    BY <1>1, JobsAge DEF ContextKept, CursorInvariant, Genuine
  <1>2. CASE ContextWritten
    BY <1>2, JobsAge DEF ContextWritten, Covers, CursorInvariant, Genuine, TypeOK, Sessions
  <1>3. \A s \in Sessions : Genuine(s) =>
          IF s.schema = "current" /\ s.version > 0 THEN s.jobs \subseteq Born'
          ELSE s.jobs \subseteq {Seeded}
    BY JobsAge DEF Genuine
  <1> QED
    BY <1>1, <1>2, <1>3, ContextStep

\* Where the engine's state is in use.
InUse == Preparing \cup {"running", "persisting"}

\* What a request read before it hydrates the engine stays a row of the past.
LEMMA ReadStep ==
    ASSUME TypeOK, CursorInvariant, [Next]_vars, NEW r \in Requests, pc'[r] = "hydrating"
    PROVE  /\ Genuine(sess[r])'
           /\ sess'[r].version <= row'.version
           /\ sess'[r].version = row'.version =>
                sess'[r].jobs = row'.jobs /\ sess'[r].schema = row'.schema
  <1>1. CASE pc[r] = "hydrating" /\ sess'[r] = sess[r]
    <2>1. /\ Genuine(sess[r]) /\ sess[r].version <= row.version
          /\ sess[r].version = row.version => sess[r].jobs = row.jobs /\ sess[r].schema = row.schema
      BY <1>1 DEF CursorInvariant
    <2>2. sess[r] \in Sessions /\ row.version \in Nat /\ sess[r].version \in Nat
      BY DEF TypeOK, Sessions
    <2>3. Genuine(sess[r])'
      BY <1>1, <2>1, <2>2, GenuineStep DEF Genuine
    <2> QED
      BY <1>1, <2>1, <2>2, <2>3, ContextStep DEF ContextKept, ContextWritten
  <1>2. CASE sess'[r] = row /\ row' = row
    BY <1>2, GenuineStep DEF Genuine, TypeOK, Sessions
  <1>3. \/ pc[r] = "hydrating" /\ sess'[r] = sess[r]
        \/ sess'[r] = row /\ row' = row
    <2>1. ASSUME NEW q \in Requests, Open(q) \/ ReadAgain(q)
          PROVE  \/ pc[r] = "hydrating" /\ sess'[r] = sess[r]
                 \/ sess'[r] = row /\ row' = row
      BY <2>1 DEF Open, ReadAgain, Goto, TypeOK, dbVars
    <2>2. ASSUME NEW q \in Requests,
                 \/ Lease(q) \/ ReadFails(q) \/ Hydrate(q) \/ AppendRow(q) \/ Bump(q)
                 \/ PrepareFails(q) \/ Settle(q) \/ PersistState(q)
          PROVE  pc[r] = "hydrating" /\ sess'[r] = sess[r]
      BY <2>2 DEF Lease, ReadFails, Hydrate, AppendRow, Bump, PrepareFails, Settle, PersistState,
                  Release, Goto, TypeOK
    <2>3. ASSUME \/ \E q \in Requests : Launch(q) \/ Observe(q)
                 \/ Land \/ JobEnds \/ Crash \/ UNCHANGED vars
          PROVE  pc[r] = "hydrating" /\ sess'[r] = sess[r]
      BY <2>3 DEF Launch, Observe, Land, JobEnds, Crash, vars, TypeOK
    <2> QED
      BY <2>1, <2>2, <2>3 DEF Next, TurnStep
  <1> QED
    BY <1>1, <1>2, <1>3

\* The engine in use covers what its turn will write.
LEMMA EngineStep ==
    ASSUME TypeOK, LeaseHeld, CursorInvariant, [Next]_vars
    PROVE  /\ engine'.jobs \subseteq Born'
           /\ \A r \in Requests : pc'[r] \in InUse /\ engine'.hydrated =>
                CoversNext(engine'.version, engine'.jobs)
  <1> USE DEF InUse, Preparing
  <1>0. engine.jobs \subseteq Born /\ engine.version \in Nat
    BY DEF CursorInvariant, TypeOK
  <1>1. ASSUME engine' = engine, \A r \in Requests : pc'[r] \in InUse => pc[r] \in InUse
        PROVE  /\ engine'.jobs \subseteq Born'
               /\ \A r \in Requests : pc'[r] \in InUse /\ engine'.hydrated =>
                    CoversNext(engine'.version, engine'.jobs)
    <2>1. engine'.jobs \subseteq Born'
      BY <1>0, <1>1, JobsAge
    <2>2. ASSUME NEW r \in Requests, pc'[r] \in InUse, engine'.hydrated
          PROVE  CoversNext(engine'.version, engine'.jobs)
      <3>1. Covers(engine.version, engine.jobs)
        BY <1>1, <2>2 DEF CursorInvariant
      <3> QED
        BY <1>0, <1>1, <3>1, CoversStep
    <2> QED
      BY <2>1, <2>2
  <1>2. ASSUME NEW r \in Requests, Hydrate(r)
        PROVE  /\ engine'.jobs \subseteq Born'
               /\ engine'.hydrated => CoversNext(engine'.version, engine'.jobs)
    <2>1. /\ engine' = Hydrated(sess[r]) /\ row' = row /\ job' = job /\ pc[r] = "hydrating"
      BY <1>2 DEF Hydrate, dbVars
    <2>2. /\ Genuine(sess[r]) /\ sess[r].version <= row.version
          /\ sess[r].version = row.version => sess[r].jobs = row.jobs /\ sess[r].schema = row.schema
      BY <2>1 DEF CursorInvariant
    <2>3. Active \subseteq Jobs /\ sess[r].schema \in Schemas
      BY DEF Active, TypeOK, Sessions
    <2>4. Hydrated(sess[r]).jobs \subseteq Born
      BY <2>2 DEF Hydrated, Zero, Genuine
    <2>5. Hydrated(sess[r]).hydrated => Covers(sess[r].version, Hydrated(sess[r]).jobs)
      BY <2>2, <2>3, <2>4, SessionAssumption DEF Hydrated, Zero, Genuine, Covers, Schemas
    <2>6. Hydrated(sess[r]).hydrated => Hydrated(sess[r]).version = sess[r].version
      BY DEF Hydrated, Zero
    <2>7. sess[r].version \in Nat
      BY DEF TypeOK, Sessions
    <2> QED
      BY <2>1, <2>4, <2>5, <2>6, <2>7, CoversStep, JobsAge
  <1>3. ASSUME NEW r \in Requests, Launch(r)
        PROVE  /\ engine'.jobs \subseteq Born' /\ pc' = pc
               /\ pc[r] = "running"
               /\ engine'.hydrated => CoversNext(engine'.version, engine'.jobs)
    <2>1. PICK j \in Jobs : /\ job[j] = "unborn" /\ job' = [job EXCEPT ![j] = "running"]
                            /\ engine' = [engine EXCEPT !.jobs = @ \cup {j}]
      BY <1>3 DEF Launch
    <2>2. pc[r] = "running" /\ pc' = pc
      BY <1>3 DEF Launch
    <2>3. /\ engine'.version = engine.version /\ engine'.hydrated = engine.hydrated
          /\ engine'.jobs = engine.jobs \cup {j} /\ j \in Born'
      BY <2>1 DEF TypeOK, Born
    <2>4. engine.hydrated => CoversNext(engine.version, engine.jobs)
      BY <1>0, <2>2, CoversStep DEF CursorInvariant
    <2> QED
      BY <1>0, <2>2, <2>3, <2>4, JobsAge DEF CoversNext
  <1>4. ASSUME NEW r \in Requests, Observe(r)
        PROVE  /\ engine'.jobs \subseteq Born' /\ pc' = pc
               /\ engine'.hydrated => CoversNext(engine'.version, engine'.jobs)
    <2>1. PICK j \in engine.jobs \ Active : engine' = [engine EXCEPT !.jobs = @ \ {j}]
      BY <1>4 DEF Observe
    <2>2. pc[r] = "running" /\ pc' = pc /\ job' = job
      BY <1>4 DEF Observe
    <2>3. /\ engine'.version = engine.version /\ engine'.hydrated = engine.hydrated
          /\ engine'.jobs = engine.jobs \ {j} /\ Active' = Active
      BY <2>1, <2>2 DEF TypeOK, Active
    <2>4. engine.hydrated => CoversNext(engine.version, engine.jobs)
      BY <1>0, <2>2, CoversStep DEF CursorInvariant
    <2> QED
      BY <1>0, <2>2, <2>3, <2>4, JobsAge DEF CoversNext
  <1>5. ASSUME NEW r \in Requests, \/ Open(r) \/ Lease(r) \/ ReadAgain(r) \/ ReadFails(r)
                                    \/ AppendRow(r) \/ Bump(r) \/ PrepareFails(r)
                                    \/ Settle(r) \/ PersistState(r)
        PROVE  engine' = engine /\ \A q \in Requests : pc'[q] \in InUse => pc[q] \in InUse
    BY <1>5 DEF Open, Lease, ReadAgain, ReadFails, AppendRow, Bump, PrepareFails, Settle,
                PersistState, Release, Goto, TypeOK
  <1>6. ASSUME Land \/ JobEnds \/ UNCHANGED vars
        PROVE  engine' = engine /\ \A q \in Requests : pc'[q] \in InUse => pc[q] \in InUse
    BY <1>6 DEF Land, JobEnds, vars
  <1>7. ASSUME Crash PROVE engine'.jobs = {} /\ ~engine'.hydrated
    BY <1>7 DEF Crash, Zero
  <1> QED
    BY <1>1, <1>2, <1>3, <1>4, <1>5, <1>6, <1>7 DEF Next, TurnStep

\* A statement that may still commit covers what it would replace.
LEMMA LateStep ==
    ASSUME TypeOK, CursorInvariant, [Next]_vars
    PROVE  \A w \in late' : w.op = "context" => CoversNext(w.version, w.jobs)
  <1>1. ASSUME NEW w \in late', w.op = "context"
        PROVE  w \in Statements /\ Covers(w.version, w.jobs)
    <2>1. ASSUME w \in late PROVE w \in Statements /\ Covers(w.version, w.jobs)
      BY <1>1, <2>1 DEF CursorInvariant, TypeOK
    <2>2. CASE \E r \in Requests : PersistState(r)
      <3>1. PICK r \in Requests : PersistState(r)
        BY <2>2
      <3> DEFINE e == [op |-> "context", by |-> r, version |-> engine.version, jobs |-> engine.jobs]
      <3>2. pc[r] = "persisting" /\ (late' = late \/ (engine.hydrated /\ late' = late \cup {e}))
        BY <3>1 DEF PersistState, Fail, dbVars
      <3>3. /\ e \in Statements /\ e.version = engine.version /\ e.jobs = engine.jobs
            /\ engine.hydrated => Covers(engine.version, engine.jobs)
        BY <3>2, StatementsOfTurn DEF CursorInvariant
      <3> HIDE DEF e
      <3> QED
        BY <1>1, <2>1, <3>2, <3>3
    <2>3. CASE \E r \in Requests : PrepareFails(r) \/ Settle(r)
      BY <1>1, <2>1, <2>3 DEF PrepareFails, Settle, Fail
    <2>4. ~(\E r \in Requests : PersistState(r) \/ PrepareFails(r) \/ Settle(r)) => late' \subseteq late
      BY DEF Next, TurnStep, Open, Lease, ReadAgain, ReadFails, Hydrate, AppendRow, Bump, Launch,
             Observe, Land, JobEnds, Crash, vars, dbVars
    <2> QED
      BY <1>1, <2>1, <2>2, <2>3, <2>4
  <1> QED
    <2>1. ASSUME NEW w \in late', w.op = "context" PROVE CoversNext(w.version, w.jobs)
      <3>1. w.version \in Nat
        BY <1>1, <2>1 DEF Statements
      <3> QED
        BY <1>1, <2>1, <3>1, CoversStep
    <2> QED
      BY <2>1

LEMMA CursorStep ==
    ASSUME TypeOK, LeaseHeld, CursorInvariant, [Next]_vars
    PROVE  CursorInvariant'
  <1>1. \A version, jobs : CoversNext(version, jobs) =>
          /\ jobs \subseteq Born'
          /\ version <= row'.version
          /\ version = row'.version => /\ row'.jobs \cap Active' \subseteq jobs
                                       /\ row'.schema \in {"current", "older"}
    BY DEF CoversNext
  <1> QED
    BY <1>1, GenuineStep, ReadStep, EngineStep, LateStep DEF CursorInvariant, Covers, InUse

-----------------------------------------------------------------------------
(* What a turn knows of its row, and what becomes of its launches.           *)

\* The turn that holds the lease has read the row as it is, unless a late statement
\* landed since; the engine it uses was hydrated from what it read.
Agreement ==
    /\ late # {} \/ overtaken => faults > 0
    /\ \A r \in Requests :
        /\ pc[r] \in Holding \ {"leased"} =>
            overtaken \/ (sess[r].version = row.version /\ sess[r].schema = row.schema)
        /\ pc[r] \in InUse =>
            IF engine.hydrated THEN engine.version = sess[r].version
            ELSE sess[r].schema \in {"newer", "broken"}

LEMMA AgreementStep ==
    ASSUME TypeOK, LeaseHeld, CursorInvariant, Agreement, [Next]_vars
    PROVE  Agreement'
  <1> USE SessionAssumption DEF Holding, InUse, Preparing
  <1>1. late' # {} \/ overtaken' => faults' > 0
    <2>1. \A w \in late : faults > 0
      BY DEF Agreement
    <2>2. ASSUME NEW r \in Requests, \/ Open(r) \/ Lease(r) \/ ReadAgain(r) \/ ReadFails(r)
                                      \/ Hydrate(r) \/ AppendRow(r) \/ Bump(r)
                                      \/ Launch(r) \/ Observe(r)
          PROVE  late' # {} \/ overtaken' => faults' > 0
      BY <2>2 DEF Agreement, TypeOK, Open, Lease, ReadAgain, ReadFails, Hydrate, AppendRow, Bump,
                  Launch, Observe, dbVars, ghostVars
    <2>3. ASSUME NEW r \in Requests, PrepareFails(r) \/ Settle(r) \/ PersistState(r)
          PROVE  late' # {} \/ overtaken' => faults' > 0
      BY <2>3 DEF Agreement, TypeOK, PrepareFails, Settle, PersistState, Fail, dbVars
    <2>4. ASSUME Land \/ JobEnds \/ Crash \/ UNCHANGED vars
          PROVE  late' # {} \/ overtaken' => faults' > 0
      BY <2>1, <2>4 DEF Agreement, TypeOK, Land, JobEnds, Crash, vars, dbVars, ghostVars
    <2> QED
      BY <2>2, <2>3, <2>4 DEF Next, TurnStep
  <1>2. ASSUME NEW r \in Requests, pc'[r] \in Holding \ {"leased"}
        PROVE  overtaken' \/ (sess'[r].version = row'.version /\ sess'[r].schema = row'.schema)
    <2>1. ASSUME pc[r] \in Holding \ {"leased"}, sess'[r] = sess[r], overtaken' = overtaken,
                 ContextKept
          PROVE  overtaken' \/ (sess'[r].version = row'.version /\ sess'[r].schema = row'.schema)
      BY <2>1 DEF Agreement, ContextKept
    <2>2. ASSUME NEW q \in Requests, ReadAgain(q)
          PROVE  overtaken' \/ (sess'[r].version = row'.version /\ sess'[r].schema = row'.schema)
      <3>1. q = r
        BY <1>2, <2>2 DEF ReadAgain, Goto, LeaseHeld, TypeOK
      <3> QED
        BY <2>2, <3>1 DEF ReadAgain, TypeOK, dbVars
    <2>3. ASSUME NEW q \in Requests, \/ Open(q) \/ Lease(q) \/ ReadFails(q) \/ Hydrate(q)
                                      \/ PrepareFails(q) \/ Launch(q) \/ Observe(q)
          PROVE  /\ pc[r] \in Holding \ {"leased"} /\ sess'[r] = sess[r] /\ overtaken' = overtaken
                 /\ row' = row
      BY <1>2, <2>3 DEF Open, Lease, ReadFails, Hydrate, PrepareFails, Fail, Launch, Observe,
                        Release, Goto, TypeOK, LeaseHeld, dbVars, ghostVars
    <2>4. ASSUME NEW q \in Requests, AppendRow(q) \/ Bump(q) \/ Settle(q)
          PROVE  /\ pc[r] \in Holding \ {"leased"} /\ sess'[r] = sess[r] /\ overtaken' = overtaken
                 /\ pc[q] # "persisting" /\ pc'[q] \in Holding
      BY <1>2, <2>4 DEF AppendRow, Bump, Settle, Goto, TypeOK, ghostVars
    <2>5. ASSUME NEW q \in Requests, AppendRow(q) \/ Bump(q) PROVE ContextKept
      <3>1. /\ [op |-> "bump", by |-> q].op # "context"
            /\ pc[q] \in {"user", "assistant"} => [op |-> pc[q], by |-> q].op # "context"
        OBVIOUS
      <3> QED
        BY <2>5, <3>1, StatementsOfTurn, CommitContext DEF AppendRow, Bump
    <2>6. ASSUME NEW q \in Requests, Settle(q) PROVE ContextKept
      <3>1. PICK s \in Statuses \ {"absent"} :
              \/ Commit([op |-> "settle", by |-> q, status |-> s])
              \/ Fail([op |-> "settle", by |-> q, status |-> s])
        BY <2>6 DEF Settle, Statuses
      <3>2. [op |-> "settle", by |-> q, status |-> s].op # "context"
        OBVIOUS
      <3> QED
        BY <3>1, <3>2, StatementsOfTurn, CommitContext DEF Fail, ContextKept
    <2>7. ASSUME NEW q \in Requests, PersistState(q) PROVE FALSE
      BY <1>2, <2>7 DEF PersistState, Release, Goto, LeaseHeld, TypeOK
    <2>8. ASSUME Land
          PROVE  overtaken' \/ (sess'[r].version = row'.version /\ sess'[r].schema = row'.schema)
      <3>1. PICK w \in late : Commit(w) /\ overtaken' = (overtaken \/ w.op = "context")
        BY <2>8 DEF Land
      <3>2. pc' = pc /\ sess' = sess
        BY <2>8 DEF Land
      <3>3. ContextKept \/ w.op = "context"
        BY <3>1, CommitContext DEF TypeOK
      <3>4. overtaken \in BOOLEAN
        BY DEF TypeOK
      <3>5. CASE w.op = "context"
        BY <3>1, <3>5
      <3>6. CASE w.op # "context"
        BY <1>2, <2>1, <3>1, <3>2, <3>3, <3>4, <3>6
      <3> QED
        BY <3>5, <3>6
    <2>9. ASSUME JobEnds \/ UNCHANGED vars
          PROVE  /\ pc[r] \in Holding \ {"leased"} /\ sess'[r] = sess[r] /\ overtaken' = overtaken
                 /\ row' = row
      BY <1>2, <2>9 DEF JobEnds, vars, dbVars, ghostVars
    <2>10. ASSUME Crash PROVE FALSE
      BY <1>2, <2>10 DEF Crash
    <2>11. row' = row => ContextKept
      BY DEF ContextKept
    <2> QED
      BY <2>1, <2>2, <2>3, <2>4, <2>5, <2>6, <2>7, <2>8, <2>9, <2>10, <2>11 DEF Next, TurnStep
  <1>3. ASSUME NEW r \in Requests, pc'[r] \in InUse
        PROVE  IF engine'.hydrated THEN engine'.version = sess'[r].version
               ELSE sess'[r].schema \in {"newer", "broken"}
    <2>1. CASE /\ pc[r] \in InUse /\ sess'[r] = sess[r]
               /\ engine'.hydrated = engine.hydrated /\ engine'.version = engine.version
      BY <2>1 DEF Agreement
    <2>2. ASSUME NEW q \in Requests, Hydrate(q)
          PROVE  IF engine'.hydrated THEN engine'.version = sess'[r].version
                 ELSE sess'[r].schema \in {"newer", "broken"}
      <3>1. q = r
        BY <1>3, <2>2 DEF Hydrate, Release, Goto, LeaseHeld, TypeOK
      <3> QED
        BY <2>2, <3>1 DEF Hydrate, Hydrated, Zero
    <2>3. ASSUME NEW q \in Requests, \/ Open(q) \/ Lease(q) \/ ReadAgain(q) \/ ReadFails(q)
                                      \/ AppendRow(q) \/ Bump(q) \/ PrepareFails(q)
                                      \/ Settle(q) \/ PersistState(q)
          PROVE  pc[r] \in InUse /\ sess'[r] = sess[r] /\ engine' = engine
      BY <1>3, <2>3 DEF Open, Lease, ReadAgain, ReadFails, AppendRow, Bump, PrepareFails, Settle,
                        PersistState, Release, Goto, TypeOK
    <2>4. ASSUME NEW q \in Requests, Launch(q) \/ Observe(q)
          PROVE  /\ pc[r] \in InUse /\ sess'[r] = sess[r]
                 /\ engine'.hydrated = engine.hydrated /\ engine'.version = engine.version
      BY <1>3, <2>4 DEF Launch, Observe, TypeOK
    <2>5. ASSUME Land \/ JobEnds \/ UNCHANGED vars
          PROVE  pc[r] \in InUse /\ sess'[r] = sess[r] /\ engine' = engine
      BY <1>3, <2>5 DEF Land, JobEnds, vars
    <2>6. ASSUME Crash PROVE FALSE
      BY <1>3, <2>6 DEF Crash
    <2> QED
      BY <2>1, <2>2, <2>3, <2>4, <2>5, <2>6 DEF Next, TurnStep
  <1> QED
    BY <1>1, <1>2, <1>3 DEF Agreement

\* A launch is tracked by its turn until the row tracks it, or a fault explains why not.
LEMMA LaunchStep ==
    ASSUME TypeOK, LeaseHeld, CursorInvariant, Agreement, LaunchNotForgotten, [Next]_vars
    PROVE  LaunchNotForgotten'
  <1> USE SessionAssumption DEF Holding, Preparing
  <1>1. row.jobs \cap Active \subseteq row'.jobs
    BY ContextStep DEF ContextKept, ContextWritten, Covers
  <1>2. row.schema \in {"newer", "broken"} => row'.schema = row.schema
    BY ContextStep DEF ContextKept, ContextWritten, Covers
  <1>3. Active \subseteq Tracking \cup row.jobs \cup forgotten
    BY DEF LaunchNotForgotten
  <1> DEFINE Kept == Active' \subseteq Tracking' \cup row'.jobs \cup forgotten'
             Excused == forgotten' # {} => faults' > 0 \/ row'.schema \in {"newer", "broken"}
  <1>4. ASSUME forgotten' = forgotten, faults' = faults \/ faults' = faults + 1 PROVE Excused
    BY <1>2, <1>4 DEF LaunchNotForgotten, TypeOK
  <1>5. ASSUME faults' = faults + 1 PROVE Excused
    BY <1>5 DEF TypeOK
  <1>6. ASSUME Active' \subseteq Active, Tracking \cap Active' \subseteq Tracking',
               forgotten \subseteq forgotten'
        PROVE  Kept
    BY <1>1, <1>3, <1>6
  <1>7. ASSUME NEW r \in Requests, PersistState(r) PROVE Kept /\ Excused
    <2> DEFINE w == [op |-> "context", by |-> r, version |-> engine.version, jobs |-> engine.jobs]
    <2>1. /\ pc[r] = "persisting" /\ lease = r /\ Tracking = engine.jobs /\ Active' = Active
      BY <1>7 DEF PersistState, LeaseHeld, Tracking, Active, TypeOK
    <2>2. Agreement /\ faults \in Nat /\ row \in Sessions
      BY DEF TypeOK
    <2>3. CASE /\ engine.hydrated /\ Commit(w) /\ faults' = faults
               /\ forgotten' = IF engine.hydrated /\ row.version = engine.version
                              THEN forgotten ELSE forgotten \cup engine.jobs
      <3>1. w.op = "context" /\ w.version = engine.version /\ w.jobs = engine.jobs
        OBVIOUS
      <3> HIDE DEF w
      <3>2. row' = UpdateContext(w)
        BY <2>3, <3>1 DEF Commit
      <3>3. row.version = engine.version => row'.jobs = engine.jobs
        BY <2>2, <3>1, <3>2 DEF UpdateContext, Sessions
      <3>4. Kept
        BY <1>1, <1>3, <2>1, <2>3, <3>3
      <3>5. row.version # engine.version => overtaken
        BY <2>1, <2>2, <2>3 DEF Agreement, InUse
      <3>6. overtaken => faults > 0
        BY <2>2 DEF Agreement
      <3>7. CASE row.version = engine.version
        <4>1. forgotten' = forgotten /\ faults' = faults
          BY <2>3, <3>7
        <4> QED
          BY <1>4, <4>1, <3>4
      <3>8. CASE row.version # engine.version
        <4>1. faults' > 0
          BY <2>3, <3>5, <3>6, <3>8
        <4> QED
          BY <4>1, <3>4
      <3> QED
        BY <3>7, <3>8
    <2>4. CASE engine.hydrated /\ Fail(w) /\ forgotten' = forgotten \cup engine.jobs
      BY <1>1, <1>3, <1>5, <2>1, <2>4 DEF Fail
    <2>5. CASE ~engine.hydrated /\ forgotten' = forgotten \cup engine.jobs
               /\ UNCHANGED <<dbVars, faults>>
      <3>1. Kept
        BY <1>1, <1>3, <2>1, <2>5
      <3>2. overtaken \/ row.schema \in {"newer", "broken"}
        BY <2>1, <2>2, <2>5 DEF Agreement, InUse
      <3>3. overtaken => faults > 0
        BY <2>2 DEF Agreement
      <3> QED
        BY <2>5, <3>1, <3>2, <3>3 DEF dbVars
    <2> HIDE DEF Kept, Excused, w
    <2>6. \/ /\ engine.hydrated /\ Commit(w) /\ faults' = faults
             /\ forgotten' = IF engine.hydrated /\ row.version = engine.version
                            THEN forgotten ELSE forgotten \cup engine.jobs
          \/ engine.hydrated /\ Fail(w) /\ forgotten' = forgotten \cup engine.jobs
          \/ ~engine.hydrated /\ forgotten' = forgotten \cup engine.jobs
             /\ UNCHANGED <<dbVars, faults>>
      BY <1>7 DEF PersistState, w
    <2> QED
      BY <2>3, <2>4, <2>5, <2>6
  <1>8. ASSUME NEW r \in Requests, Launch(r) PROVE Kept /\ Excused
    <2>1. PICK j \in Jobs : /\ job[j] = "unborn" /\ job' = [job EXCEPT ![j] = "running"]
                            /\ engine' = [engine EXCEPT !.jobs = @ \cup {j}]
      BY <1>8 DEF Launch
    <2>2. /\ lease = r /\ pc[r] = "running" /\ pc' = pc /\ lease' = lease /\ row' = row
          /\ forgotten' = forgotten /\ faults' = faults
      BY <1>8 DEF Launch, LeaseHeld, dbVars, ghostVars
    <2>3. engine'.jobs = engine.jobs \cup {j} /\ Active' = Active \cup {j}
      BY <2>1 DEF TypeOK, Active
    <2>4. Tracking' = engine'.jobs /\ Tracking = engine.jobs
      BY <2>2 DEF Tracking
    <2> QED
      BY <1>3, <1>4, <2>2, <2>3, <2>4
  <1>9. ASSUME NEW r \in Requests, Observe(r) PROVE Kept /\ Excused
    <2>1. PICK j \in engine.jobs \ Active : engine' = [engine EXCEPT !.jobs = @ \ {j}]
      BY <1>9 DEF Observe
    <2>2. /\ job' = job /\ pc' = pc /\ lease' = lease /\ forgotten' = forgotten /\ faults' = faults
      BY <1>9 DEF Observe, dbVars, ghostVars
    <2>3. engine'.jobs = engine.jobs \ {j} /\ Active' = Active
      BY <2>1, <2>2 DEF TypeOK, Active
    <2> QED
      BY <1>4, <1>6, <2>2, <2>3 DEF Tracking
  <1>10. ASSUME NEW r \in Requests, \/ Lease(r) \/ ReadAgain(r) \/ ReadFails(r) \/ Hydrate(r)
                                     \/ AppendRow(r) \/ Bump(r) \/ PrepareFails(r)
         PROVE  Kept /\ Excused
    <2>1. Tracking = {}
      BY <1>10 DEF Lease, ReadAgain, ReadFails, Hydrate, AppendRow, Bump, PrepareFails, LeaseHeld, Tracking
    <2>2. /\ job' = job /\ forgotten' = forgotten /\ (faults' = faults \/ faults' = faults + 1)
      BY <1>10 DEF Lease, ReadAgain, ReadFails, Hydrate, AppendRow, Bump, PrepareFails, Fail, ghostVars
    <2> QED
      BY <1>4, <1>6, <2>1, <2>2 DEF Active
  <1>11. ASSUME NEW r \in Requests, Open(r) \/ Settle(r) PROVE Kept /\ Excused
    <2>1. /\ job' = job /\ forgotten' = forgotten /\ (faults' = faults \/ faults' = faults + 1)
          /\ engine' = engine /\ lease' = lease
      BY <1>11 DEF Open, Settle, Fail, ghostVars
    <2>2. \A q \in Requests : pc[q] \in {"running", "persisting"} => pc'[q] \in {"running", "persisting"}
      BY <1>11 DEF Open, Settle, Goto, TypeOK
    <2> QED
      BY <1>4, <1>6, <2>1, <2>2 DEF Active, Tracking, TypeOK
  <1>12. ASSUME Land \/ JobEnds \/ UNCHANGED vars PROVE Kept /\ Excused
    <2>1. /\ forgotten' = forgotten /\ faults' = faults
          /\ engine' = engine /\ lease' = lease /\ pc' = pc
      BY <1>12 DEF Land, JobEnds, vars, ghostVars
    <2>2. Active' \subseteq Active
      BY <1>12 DEF Land, JobEnds, vars, Active, TypeOK
    <2> QED
      BY <1>4, <1>6, <2>1, <2>2 DEF Tracking
  <1>13. ASSUME Crash PROVE Kept /\ Excused
    <2>1. job' = job /\ forgotten' = forgotten \cup Tracking /\ faults' = faults + 1
      BY <1>13 DEF Crash
    <2> QED
      BY <1>1, <1>3, <1>5, <2>1 DEF Active
  <1> HIDE DEF Kept, Excused
  <1>14. Kept /\ Excused
    BY <1>7, <1>8, <1>9, <1>10, <1>11, <1>12, <1>13 DEF Next, TurnStep
  <1> QED
    BY <1>14 DEF Kept, Excused, LaunchNotForgotten

-----------------------------------------------------------------------------
(* The theorems.                                                             *)

\* The inductive invariant: no part of it but the types and LeaseHeld is inductive alone.
IInv == TypeOK /\ LeaseHeld /\ Budget /\ CursorInvariant /\ Agreement /\ LaunchNotForgotten

LEMMA Initially == Init => IInv
  <1> SUFFICES ASSUME Init PROVE IInv
    OBVIOUS
  <1> USE SessionAssumption
  <1>1. row \in Sessions
    BY DEF Init, Sessions, Cursors, Schemas
  <1>2. TypeOK
    BY <1>1 DEF Init, TypeOK, Statuses, Locations, Zero
  <1>3. LeaseHeld
    BY DEF Init, LeaseHeld, Holding, Preparing
  <1>4. Cardinality({}) = 0
    BY FS_EmptySet
  <1>5. Budget
    BY <1>1, <1>4 DEF Init, Budget, Admitted, TurnsAreCounted, TurnBudget, Preparing, Sessions
  <1>6. CursorInvariant
    BY <1>1 DEF Init, CursorInvariant, Genuine, Born, Zero, Preparing, Sessions
  <1>7. Agreement
    BY DEF Init, Agreement, Holding, InUse, Preparing
  <1>8. LaunchNotForgotten
    BY DEF Init, LaunchNotForgotten, Active
  <1> QED
    BY <1>2, <1>3, <1>5, <1>6, <1>7, <1>8 DEF IInv

LEMMA InductiveStep == IInv /\ [Next]_vars => IInv'
  BY TypeStep, LeaseStep, BudgetStep, CursorStep, AgreementStep, LaunchStep DEF IInv

LEMMA Inductive == Spec => []IInv
  BY Initially, InductiveStep, PTL DEF Spec

\* Every reachable state of the session's rows, requests and engine is well typed
\* (prepareChat, chatStream, persistSessionStateBestEffort).
THEOREM SessionTyped == Spec => []TypeOK
  <1>1. IInv => TypeOK
    BY DEF IInv
  <1> QED
    BY <1>1, Inductive, PTL

\* MaxSessionTurns and the allowance of background jobs bound the turns of a session,
\* however many requests race for the last one (prepareChat's check under the lease).
THEOREM TurnsBounded == Spec => []TurnBudget
  <1>1. IInv => TurnBudget
    BY DEF IInv, Budget
  <1> QED
    BY <1>1, Inductive, PTL

\* A turn that reached the model has both its rows, and message_count counts it
\* (the order of Append, Append and Bump in prepareChat).
THEOREM TurnsCounted == Spec => []TurnsAreCounted
  <1>1. IInv => TurnsAreCounted
    BY DEF IInv, Budget
  <1> QED
    BY <1>1, Inductive, PTL

\* The engine never polls a cursor that no turn launched (ParsePersistedContext and
\* SetSessionState on rows of version 0 or of another schema).
THEOREM OnlyLaunchedCursors == Spec => []NoSeededCursor
  <1>1. IInv => NoSeededCursor
    BY SessionAssumption DEF IInv, CursorInvariant, Born, NoSeededCursor
  <1> QED
    BY <1>1, Inductive, PTL

\* Queueing for the lease never leaves a turn with the row of before (the second
\* GetByID of prepareChat).
THEOREM RowFresh == Spec => []FreshUnderLease
  <1>1. IInv => FreshUnderLease
    BY DEF IInv, Agreement, FreshUnderLease
  <1> QED
    BY <1>1, Inductive, PTL

\* A running job is tracked by its turn or its row unless a fault or an unreadable
\* row explains why not (the deferred persist of chatStream).
THEOREM LaunchesRemembered == Spec => []LaunchNotForgotten
  <1>1. IInv => LaunchNotForgotten
    BY DEF IInv
  <1> QED
    BY <1>1, Inductive, PTL

\* No write removes the cursor of a running job from the session row (the
\* compare-and-swap of UpdateContext).
THEOREM CursorsOutliveJobs == Spec => CursorOutlivesJob
  <1>1. IInv /\ [Next]_vars => [row.jobs \cap Active \subseteq row'.jobs]_vars
    BY ContextStep DEF IInv, ContextKept, ContextWritten, Covers
  <1> QED
    BY <1>1, Inductive, PTL DEF Spec, CursorOutlivesJob

\* A row of a newer schema, or one that does not parse, is never overwritten
\* (persistSessionStateBestEffort writes only from a hydrated engine).
THEOREM ForeignRowsKept == Spec => ForeignRowUntouched
  <1>1. IInv /\ [Next]_vars =>
          [row.schema \in {"newer", "broken"} => row'.jobs = row.jobs /\ row'.schema = row.schema]_vars
    BY ContextStep DEF IInv, ContextKept, ContextWritten, Covers
  <1> QED
    BY <1>1, Inductive, PTL DEF Spec, ForeignRowUntouched
==============================================================================
