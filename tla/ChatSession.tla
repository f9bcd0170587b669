----------------------------- MODULE ChatSession -----------------------------
(***************************************************************************)
(* The turns of one chat session and its rows in the database:             *)
(* prepareChat, chatStream and the two persist helpers of                  *)
(* internal/httpapi/handlers_chat.go, the statements they issue            *)
(* (internal/store), and the hydration of the engine's SessionState        *)
(* (internal/engine).                                                      *)
(*                                                                         *)
(* A request queues for the session's lease (EnginePool shows that the     *)
(* lease is exclusive), reads the row again, hydrates the engine, appends  *)
(* its rows, runs, and writes back the state it observed.  The part of the *)
(* state that outlives a turn is the set of cursors of background jobs     *)
(* launched in a guest.                                                    *)
(***************************************************************************)
EXTENDS Integers, FiniteSets

CONSTANTS Requests,   \* SendCSAgentChat calls on the session, one turn each
          Jobs,       \* background jobs that can be launched in guests
          Seeded,     \* a cursor no turn launched: client-made, or of an older schema
          NoRequest,  \* the lease is free
          MaxTurns,   \* cfg.Agent.HTTP.MaxSessionTurns
          Extra,      \* maxSessionBackgroundJobContinuationTurns
          MaxJobs,    \* opscontext.MaxBackgroundJobs
          MaxFaults   \* bound of the model: failed statements and crashes

ASSUME SessionAssumption ==
    /\ IsFiniteSet(Requests) /\ NoRequest \notin Requests
    /\ Seeded \notin Jobs
    /\ MaxTurns \in Nat \ {0} /\ Extra \in Nat /\ MaxJobs \in Nat /\ MaxFaults \in Nat

VARIABLES row,       \* sessions: context_version, the cursors and schema of context, message_count
          users,     \* messages: the turns whose user row is stored
          answer,    \* messages: the status of a turn's assistant row
          late,      \* statements that reported an error and may still commit
          pc,        \* where a request is
          sess,      \* the session row a request holds
          lease,     \* the request that has the engine
          engine,    \* the engine's SessionState
          job,       \* a background job in its guest: unborn, running or ended
          ran,       \* history variable: requests that reached the model
          forgotten, \* history variable: cursors a turn could not write back
          overtaken, \* history variable: a late statement committed under this lease
          faults     \* history variable: failed statements and crashes so far

dbVars == <<row, users, answer, late>>
ghostVars == <<ran, forgotten, overtaken, faults>>
vars == <<dbVars, pc, sess, lease, engine, job, ghostVars>>

Cursors == Jobs \cup {Seeded}
Schemas == {"current", "older", "newer", "broken"}
Statuses == {"absent", "pending", "ok", "aborted", "error"}
Sessions == [version : Nat, jobs : SUBSET Cursors, schema : Schemas, count : Nat]
Zero == [jobs |-> {}, version |-> 0, hydrated |-> FALSE]

Active == {j \in Jobs : job[j] = "running"}

\* The cursors in the hands of the turn that holds the lease.
Tracking == IF lease # NoRequest /\ pc[lease] \in {"running", "persisting"}
            THEN engine.jobs ELSE {}

\* The statements a turn issues, as what they do when they commit.
Statements ==
    [op : {"user", "assistant", "bump"}, by : Requests]
    \cup [op : {"settle"}, by : Requests, status : Statuses \ {"absent"}]
    \cup [op : {"context"}, by : Requests, version : Nat, jobs : SUBSET Cursors]

Locations == {"new", "queued", "leased", "hydrating", "user", "assistant", "bump",
              "running", "persisting", "done"}

TypeOK ==
    /\ row \in Sessions
    /\ users \subseteq Requests
    /\ answer \in [Requests -> Statuses]
    /\ late \subseteq Statements
    /\ pc \in [Requests -> Locations]
    /\ sess \in [Requests -> Sessions]
    /\ lease \in Requests \cup {NoRequest}
    /\ engine \in [jobs : SUBSET Cursors, version : Nat, hydrated : BOOLEAN]
    /\ job \in [Jobs -> {"unborn", "running", "ended"}]
    /\ ran \subseteq Requests
    /\ forgotten \subseteq Cursors
    /\ overtaken \in BOOLEAN
    /\ faults \in Nat

\* CreateSession stores the caller's context at version 0; later versions are
\* written by this binary, by an older one, or by a newer one rolled back since.
Init ==
    /\ row \in [version : {0, 1}, jobs : {{}, {Seeded}}, schema : Schemas, count : {0}]
    /\ row.jobs # {} => row.schema = "older" \/ row.version = 0
    /\ users = {}
    /\ answer = [r \in Requests |-> "absent"]
    /\ late = {}
    /\ pc = [r \in Requests |-> "new"]
    /\ sess = [r \in Requests |-> row]
    /\ lease = NoRequest
    /\ engine = Zero
    /\ job = [j \in Jobs |-> "unborn"]
    /\ ran = {}
    /\ forgotten = {}
    /\ overtaken = FALSE
    /\ faults = 0

-----------------------------------------------------------------------------
(* The database.                                                             *)

\* MUTANT: the predicate on context_version is dropped.
UpdateContextBlind(w) ==
    [row EXCEPT !.version = @ + 1, !.jobs = w.jobs, !.schema = "current"]

\* The compare-and-swap of UpdateContext.
UpdateContext(w) ==
    IF row.version = w.version
    THEN [row EXCEPT !.version = @ + 1, !.jobs = w.jobs, !.schema = "current"]
    ELSE row

\* message_count once the two rows of a turn are counted.
Bumped(n) == n + 2

Commit(w) ==
    /\ row' = CASE w.op = "bump" -> [row EXCEPT !.count = Bumped(@)]
                [] w.op = "context" -> UpdateContext(w)
                [] OTHER -> row
    /\ users' = IF w.op = "user" THEN users \cup {w.by} ELSE users
    /\ answer' = CASE w.op = "assistant" -> [answer EXCEPT ![w.by] = "pending"]
                   [] w.op = "settle" /\ answer[w.by] # "absent" ->
                        [answer EXCEPT ![w.by] = w.status]
                   [] OTHER -> answer

\* A statement whose deadline or connection fails may commit at any later time.
Fail(w) ==
    /\ faults < MaxFaults
    /\ faults' = faults + 1
    /\ late' = late \cup {w}
    /\ UNCHANGED <<row, users, answer>>

Land ==
    \E w \in late :
        /\ Commit(w)
        /\ late' = late \ {w}
        /\ overtaken' = (overtaken \/ w.op = "context")
        /\ UNCHANGED <<pc, sess, lease, engine, job, ran, forgotten, faults>>

-----------------------------------------------------------------------------
(* prepareChat.                                                              *)

Goto(r, l) == pc' = [pc EXCEPT ![r] = l]

\* Every way out of a turn gives the lease back.
Release(r) ==
    /\ lease' = NoRequest
    /\ Goto(r, "done")

\* getOrCreateSession, before the lease.
Open(r) ==
    /\ pc[r] = "new"
    /\ sess' = [sess EXCEPT ![r] = row]
    /\ Goto(r, "queued")
    /\ UNCHANGED <<dbVars, lease, engine, job, ghostVars>>

Lease(r) ==
    /\ pc[r] = "queued"
    /\ lease = NoRequest
    /\ lease' = r
    /\ Goto(r, "leased")
    /\ UNCHANGED <<dbVars, sess, engine, job, ghostVars>>

\* GetByID again: another turn may have finished while r queued.
ReadAgain(r) ==
    /\ pc[r] = "leased"
    /\ sess' = [sess EXCEPT ![r] = row]
    /\ overtaken' = FALSE
    /\ Goto(r, "hydrating")
    /\ UNCHANGED <<dbVars, lease, engine, job, ran, forgotten, faults>>

\* MUTANT: the error path forgets release().
ReadFailsLeased(r) ==
    /\ pc[r] = "leased"
    /\ faults < MaxFaults
    /\ faults' = faults + 1
    /\ Goto(r, "done")
    /\ UNCHANGED <<dbVars, sess, lease, engine, job, ran, forgotten, overtaken>>

ReadFails(r) ==
    /\ pc[r] = "leased"
    /\ faults < MaxFaults
    /\ faults' = faults + 1
    /\ Release(r)
    /\ UNCHANGED <<dbVars, sess, engine, job, ran, forgotten, overtaken>>

\* MUTANT: a row of a newer schema is read as if it were of this one.
HydratedForeign(s) ==
    [jobs |-> IF s.schema = "current" /\ s.version > 0 THEN s.jobs ELSE {},
     version |-> s.version, hydrated |-> TRUE]

\* ClearSessionState, ParsePersistedContext and SetSessionState.  A row of a newer
\* schema or that does not parse leaves the engine unhydrated; cursors come only
\* from a row this schema wrote, and never from the version 0 of the caller.
Hydrated(s) ==
    IF s.schema \in {"newer", "broken"} THEN Zero
    ELSE [jobs |-> IF s.schema = "current" /\ s.version > 0 THEN s.jobs ELSE {},
          version |-> s.version, hydrated |-> TRUE]

\* MUTANT: a session that tracks a job has no limit.
TurnLimitLifted(s) == s.count \div 2 >= MaxTurns /\ Hydrated(s).jobs = {}

\* The session's turns are used up, and so is what a tracked job adds to them.
\* Only the cap, not the allowance, is spent by a session that tracks no job.
TurnLimit(s) ==
    LET used == s.count \div 2
    IN  /\ used >= MaxTurns
        /\ Hydrated(s).jobs = {} \/ used - MaxTurns >= Extra

Hydrate(r) ==
    /\ pc[r] = "hydrating"
    /\ engine' = Hydrated(sess[r])
    /\ IF TurnLimit(sess[r]) THEN Release(r) ELSE Goto(r, "user") /\ UNCHANGED lease
    /\ UNCHANGED <<dbVars, sess, job, ghostVars>>

\* The two rows of the turn, then message_count; any failure gives the turn up.
\* SetTitleIfEmpty, between the second and the third, cannot fail the turn.
AppendRow(r) ==
    /\ pc[r] \in {"user", "assistant"}
    /\ Commit([op |-> pc[r], by |-> r])
    /\ Goto(r, IF pc[r] = "user" THEN "assistant" ELSE "bump")
    /\ UNCHANGED <<late, sess, lease, engine, job, ghostVars>>

Bump(r) ==
    /\ pc[r] = "bump"
    /\ Commit([op |-> "bump", by |-> r])
    /\ Goto(r, "running")
    /\ ran' = ran \cup {r}
    /\ UNCHANGED <<late, sess, lease, engine, job, forgotten, overtaken, faults>>

PrepareFails(r) ==
    /\ pc[r] \in {"user", "assistant", "bump"}
    /\ Fail([op |-> pc[r], by |-> r])
    /\ Release(r)
    /\ UNCHANGED <<sess, engine, job, ran, forgotten, overtaken>>

-----------------------------------------------------------------------------
(* chatStream.                                                               *)

\* observeInstanceOpsBackgroundJob: the harness reserved a place for the job.
Launch(r) ==
    /\ pc[r] = "running"
    /\ Cardinality(engine.jobs) < MaxJobs
    /\ \E j \in Jobs :
        /\ job[j] = "unborn"
        /\ job' = [job EXCEPT ![j] = "running"]
        /\ engine' = [engine EXCEPT !.jobs = @ \cup {j}]
    /\ UNCHANGED <<dbVars, pc, sess, lease, ghostVars>>

\* A turn polls a job that reached a terminal state.
Observe(r) ==
    /\ pc[r] = "running"
    /\ \E j \in engine.jobs \ Active : engine' = [engine EXCEPT !.jobs = @ \ {j}]
    /\ UNCHANGED <<dbVars, pc, sess, lease, job, ghostVars>>

\* The reply, the transport's end or the model's error settles the assistant row
\* (persistAssistant); a write that fails does not stop the turn from ending.
Settle(r) ==
    /\ pc[r] = "running"
    /\ \E s \in {"ok", "aborted", "error"} :
        LET w == [op |-> "settle", by |-> r, status |-> s]
        IN  \/ Commit(w) /\ UNCHANGED <<late, faults>>
            \/ Fail(w)
    /\ Goto(r, "persisting")
    /\ UNCHANGED <<sess, lease, engine, job, ran, forgotten, overtaken>>

\* MUTANT: an aborted turn returns before it persists its state.
PersistStateUnlessAborted(r) ==
    /\ pc[r] = "persisting"
    /\ LET w == [op |-> "context", by |-> r, version |-> engine.version, jobs |-> engine.jobs]
       IN  IF answer[r] # "aborted" /\ engine.hydrated THEN Commit(w)
           ELSE UNCHANGED <<row, users, answer>>
    /\ Release(r)
    /\ UNCHANGED <<late, sess, engine, job, ghostVars>>

\* persistSessionStateBestEffort, deferred on every path out of chatStream: an
\* unhydrated engine writes nothing, a stale write keeps the row that won.
PersistState(r) ==
    /\ pc[r] = "persisting"
    /\ LET w == [op |-> "context", by |-> r, version |-> engine.version, jobs |-> engine.jobs]
           kept == engine.hydrated /\ row.version = engine.version
       IN  \/ /\ engine.hydrated
              /\ Commit(w)
              /\ forgotten' = IF kept THEN forgotten ELSE forgotten \cup engine.jobs
              /\ UNCHANGED <<late, faults>>
           \/ /\ engine.hydrated
              /\ Fail(w)
              /\ forgotten' = forgotten \cup engine.jobs
           \/ /\ ~engine.hydrated
              /\ forgotten' = forgotten \cup engine.jobs
              /\ UNCHANGED <<dbVars, faults>>
    /\ Release(r)
    /\ UNCHANGED <<sess, engine, job, ran, overtaken>>

-----------------------------------------------------------------------------
JobEnds ==
    /\ \E j \in Active : job' = [job EXCEPT ![j] = "ended"]
    /\ UNCHANGED <<dbVars, pc, sess, lease, engine, ghostVars>>

\* The process dies: requests, leases and engines are gone, rows and jobs stay.
Crash ==
    /\ faults < MaxFaults
    /\ faults' = faults + 1
    /\ pc' = [r \in Requests |-> IF pc[r] = "new" THEN "new" ELSE "done"]
    /\ lease' = NoRequest
    /\ forgotten' = forgotten \cup Tracking
    /\ engine' = Zero
    /\ UNCHANGED <<dbVars, sess, job, ran, overtaken>>

TurnStep(r) ==
    \/ Lease(r) \/ ReadAgain(r) \/ ReadFails(r) \/ Hydrate(r) \/ AppendRow(r) \/ Bump(r)
    \/ PrepareFails(r) \/ Settle(r) \/ PersistState(r)

Next ==
    \/ \E r \in Requests : Open(r) \/ TurnStep(r) \/ Launch(r) \/ Observe(r)
    \/ Land \/ JobEnds \/ Crash

\* Every statement and every model call has a deadline, and the entry mutex serves
\* its waiters in turn.
Fairness == \A r \in Requests : WF_vars(TurnStep(r)) /\ SF_vars(Lease(r))

Spec == Init /\ [][Next]_vars
FairSpec == Spec /\ Fairness

-----------------------------------------------------------------------------
(* The invariants the properties rest on.                                    *)

Preparing == {"user", "assistant", "bump"}
Holding == {"leased", "hydrating", "running", "persisting"} \cup Preparing

\* The request inside prepareChat or chatStream is the one with the lease.
LeaseHeld == \A r \in Requests : pc[r] \in Holding <=> lease = r

\* A turn that is being prepared was admitted on a count that covers every turn
\* that ran, so it may run as well.
Admitted ==
    \A r \in Requests :
        /\ pc[r] \in {"hydrating"} \cup Preparing => 2 * Cardinality(ran) <= sess[r].count
        /\ pc[r] \in Preparing => ~TurnLimit(sess[r])
        /\ pc[r] \in {"assistant", "bump"} => r \in users
        /\ pc[r] = "bump" => answer[r] # "absent"

Born == {j \in Jobs : job[j] # "unborn"}

\* Cursors of launched jobs are in rows this schema wrote; other rows have none.
Genuine(s) ==
    IF s.schema = "current" /\ s.version > 0 THEN s.jobs \subseteq Born
    ELSE s.jobs \subseteq {Seeded}

\* What a write at a version may replace: whoever holds that version has read
\* every cursor of the row whose job still runs, and could read the row.
Covers(version, jobs) ==
    /\ jobs \subseteq Born
    /\ version <= row.version
    /\ version = row.version => /\ row.jobs \cap Active \subseteq jobs
                                /\ row.schema \in {"current", "older"}

CursorInvariant ==
    /\ Genuine(row)
    /\ engine.jobs \subseteq Born
    /\ \A w \in late : w.op = "context" => Covers(w.version, w.jobs)
    /\ \A r \in Requests :
        /\ pc[r] = "hydrating" =>
            /\ Genuine(sess[r])
            /\ sess[r].version <= row.version
            /\ sess[r].version = row.version =>
                sess[r].jobs = row.jobs /\ sess[r].schema = row.schema
        /\ pc[r] \in Preparing \cup {"running", "persisting"} /\ engine.hydrated =>
            Covers(engine.version, engine.jobs)

-----------------------------------------------------------------------------
(* Properties.                                                               *)

\* The cursor of a job leaves the session row only after the job ended: neither a
\* stale turn nor a statement that commits late overwrites the cursors of a turn
\* it did not see.
CursorOutlivesJob == [][row.jobs \cap Active \subseteq row'.jobs]_vars

\* A launch is not forgotten because its turn was aborted or failed: a running job
\* is tracked by its turn or by the row, unless the database or the process failed
\* or the row is one this binary cannot read.
LaunchNotForgotten ==
    /\ Active \subseteq Tracking \cup row.jobs \cup forgotten
    /\ forgotten # {} => faults > 0 \/ row.schema \in {"newer", "broken"}

\* A turn works on the newest row: queueing for the lease never leaves it with the
\* row of before, so only a late statement can make its write stale.
FreshUnderLease ==
    \A r \in Requests : pc[r] \in Holding \ {"leased"} =>
        sess[r].version = row.version \/ overtaken

\* However many requests race for the last turn, and whatever statements fail, a
\* session runs no more turns than its cap and the allowance of its jobs.
TurnBudget == Cardinality(ran) <= MaxTurns + Extra

\* A turn that reached the model has both its rows and is counted.
TurnsAreCounted ==
    /\ \A r \in ran : r \in users /\ answer[r] # "absent"
    /\ 2 * Cardinality(ran) <= row.count

\* No caller and no older binary plants a cursor: what the engine polls, turns
\* launched.
NoSeededCursor == Seeded \notin engine.jobs

\* A row this binary cannot read stays as its writer left it.
ForeignRowUntouched ==
    [][row.schema \in {"newer", "broken"} => row'.jobs = row.jobs /\ row'.schema = row.schema]_vars

\* Every request that queues for the session ends: no path keeps the lease.
EveryTurnEnds == \A r \in Requests : pc[r] = "queued" ~> pc[r] = "done"
==============================================================================
