# A verification of compshare-agent

compshare-agent is one Go binary (`cmd/`: an HTTP/WebSocket server and a Feishu
bot) that answers customers of a GPU cloud: a chat assistant which queries the
account, runs confirmed cloud operations, and works inside a rented instance
through a Python child process. This directory models the parts of it that are
hard to test — where requests, connections, timers, failing statements, lost
replies and user edits interleave — checks them with TLC on small instances,
and proves the main properties with TLAPS for every instance.

Paths below are relative to `src/internal/` unless they begin with `cmd/`,
`docs/` or `deploy/`, which are under `src/`.

1. [The system](#1-the-system)
2. [The modules](#2-the-modules)
3. [What the runs show](#3-what-the-runs-show)
4. [What is proved](#4-what-is-proved)
5. [Where the code and its words disagree](#5-where-the-code-and-its-words-disagree)
6. [What is not modelled](#6-what-is-not-modelled)
7. [Plan](#7-plan)

## 1. The system

One process serves all traffic (`deploy/k8s`: one replica, strategy Recreate),
so a session's single-writer rule is an in-memory lease and not a database
lock. A turn goes through it like this:

    client ─HTTP/SSE, WebSocket─> httpapi ──Lease──> agentpool ──> one Engine per session
    Feishu bot ──HTTP──────────────┘│  ▲                             │ round loop
                 cards, answers <───┘  └── ConfirmBroker <───────────┤ gates of a turn
                                    │                                ├── llm client ──> model tiers
                   rows of the turn ├──> store (MySQL)               ├── reads, knowledge, resolver
                   trace            └──> trace writer                ├── workflow engine ──> executor ──> cloud API
                                                                     └── sshops ──> harness ──> guest

### Components

| Component | State it keeps | Operations | Hard about it | Correct when |
|---|---|---|---|---|
| engine pool `agentpool/pool.go` | map and LRU list of entries; per entry an engine, a mutex, a lease count, a touch time | `Lease`, release, cold build outside the lock, overflow and idle eviction, gc goroutine | two misses of one key; a full cache of leased entries; a slow build overtaken by a turn; an LRU scan that stops early | one engine per session in use; an engine in use is never evicted; an engine remembers the stored turns |
| confirmation broker `httpapi/confirm_broker.go`, gates in `handlers_chat.go` | map id → pending card (owner, form, buffered channel) | `register`, `ClaimResolution`, deliver, `Cancel`, wait with timer | answer on the socket against answer by POST against timer against disconnect; a channel closed by one and sent on by another | one answer per card; a turn acts only on a yes its tenant gave and was told about; no card outlives its gate |
| websocket transport `httpapi/ws.go`, `writer.go` | per connection: write lock, turn context, chat goroutine | read loop, confirmation frames, acknowledgements, keepalive, ordered defers | acknowledgement before delivery; a failed acknowledgement after a claim | no turn left waiting for an answer nobody can give |
| chat handler `httpapi/handlers_chat.go` | the session row it read, the lease | `prepareChat`, `chatStream`, persist helpers | re-read under the lease, three statements without a transaction, detached writes that may commit late, abort paths | turn cap holds; every turn that ran is stored and counted; state observed by a turn is not lost |
| session and message store `store/` | `sessions` (context, context_version, message_count), `messages` | `Append`, `Bump…`, `UpdateAssistant`, `UpdateContext` (compare-and-swap), `GetByID` | two writers of `context` | no writer drops what another stored |
| engine session state `engine/session_state.go` | `SessionState` with versions, cursors of background jobs | clear, parse, set, snapshot | rows of older or newer schemas, contexts made by clients | only cursors of launched jobs; rows it cannot read are left alone |
| websocket shutdown `httpapi/ws_shutdown.go`, `cmd/server.go` | register of connections, draining flag | register, unregister, `Shutdown`, then close writer and database | registration against draining; the deadline; order of closing | every turn is refused or waited for |
| workflow engine `workflow/engine.go`, `execution_seal.go` | per run: params, results, seal | tool, batch, resolve and confirmation steps; edits and revalidation; failure record | nested rounds of edit and revalidation, skips, optional failures, polls, many gates | what executes is what was confirmed; no stale card; writes sent once |
| workflow definitions `workflow/*.go` | none | one step list per operation | nineteen lists written by hand | they keep what the engine relies on (`WellFormed`) |
| scheduled shutdown `workflow/scheduler.go` | the typed schedule in the draft | resolve for the card and again at the write | the clock runs while the card is open | the platform accepts what was confirmed |
| guided creation `workflow/create_instance*.go`, `deployment/` | params, fetched catalogues | cards, clearing of dependants, draft, gate | an answer invalidates earlier ones; catalogues are replaced | the draft is what was chosen; a card offers nothing the gate refuses |
| rate limiter `governance/ratelimit.go` | token bucket and day count per subject | `Allow` | clock read before the lock, midnight | never more than bucket and earnings |
| STS credentials, safe executor `tools/` | cache and flight per role | `ExecuteSafe`, `AssumeRole`, role bootstrap, sends | concurrent refresh, cancelled waiters, retry of a lost answer | what is sent was agreed; writes at most once; one flight |
| ReAct loop, turn lifecycle `engine/`, `agentruntime/` | messages, observations, commits of one turn | model rounds, batches of tools, nineteen ways to end | a turn that fails after a write; replay of an observation; half a batch | every write is reported; replays are current; the transcript closes |
| LLM client `llm/client.go` | none between calls | attempts over tiers, degraded requests, a stream | failing in the middle of a stream | what was shown is what is returned |
| knowledge `knowledge/`, `engine/search_knowledge.go`, … | evidence of the turn, remembered evidence | search, read, expiry, citation | a capability that expires between search and read | only what was shown is cited |
| transcript and history `engine/`, `agentpool/rehydrate.go` | messages and records of the hot engine; rows | capture, store, rebuild, compile | two forms of one memory under three budgets | both replay the same; a request is legal |
| resolver, entity registry, reads `actionresolver/`, `entity/`, `capability/` | registry with a life | paged listing, resolution, evidence, verdict | the account changes; a list is partial | nothing is denied or offered that was not observed |
| in-instance operations `sshops/`, `engine/instance_ops*.go` | audit row, child, cursors, pending notice | `RunWithContext`, stream parser, what is told of a run | two processes that wait for each other; a kill at any step; redelivery | entered once, on record; every run ends; a run that broke off is told of |
| SSH harness `deploy/ssh_ops_harness` (Python) | slots, tracked jobs, backups | tools, background jobs, file edits | lost replies of SFTP; a job that outlives its run | an edit says the truth; a job's handle outlives no job |
| Feishu bot `feishu/`, `cmd/feishu*.go` | queue, seen ids, topic → session, OAuth row | `onMessage`, workers, `handleJob`, refresh, authorize | redelivery, full queue, a token that rotates with every use | one session per topic; the grant is kept |
| observability `observability/`, `httpapi/trace_recorder.go` | the trace of a turn; queue and batches of the writer | observe, finalize; enqueue, insert, expire, close | callbacks of nested calls; a queue that drops; close against enqueue | the trace tells how the turn ended; no trace is unaccounted for |
| guardrails, diagnosis, config, prompts, helpers | none | — | data and wording | — |

The full list, with sources and status, is `components` of `PROJECT.json`; what
a test would hardly reach, line by line, is `hazards` there.

### Interactions

* **chat handler → pool**: `Lease` is called with the session key; the engine
  is the handler's until it calls `release`, after the turn's rows and state
  have been written. `EnginePool` shows that the lease is exclusive; that is
  what `ChatSession` assumes (its variable `lease` holds one request).
* **turn → broker → transport**: a gate inside the turn's goroutine registers
  a card, writes it to the client and waits. The answer comes on the read loop
  of the same socket or in a POST of another connection.
* **workflow engine → gates**: `confirmFn` and `confirmEditsFn` are those
  gates. `SealedWorkflow` sees one only as an answer: yes, a choice, an edit,
  or no (silence and disconnect are a no). `ConsentGate` is the contract between
  the two: a gate acts only on an answer that was given to its card.
* **round loop → tools**: `AgentTurn` sees a tool call as its outcome
  (an observation, a committed write, a report of an in-instance run, a
  denial). `TargetResolution` and `StockRead` say what those observations rest on,
  `KnowledgeTurn` what may be cited, `GuestEntry` what is said of a run.
* **workflow engine → executor**: a step's call is `CloudCalls`' call of
  origin "workflow"; its answer is `Succeed`, `CallFails` or `Pending`.
* **chat handler → store**: statements may fail, or report an error (a
  one-second deadline) and commit later. `CanonicalHistory` has the same rows as
  what a later cold engine is built from.
* **supervisor → harness → guest**: lines over stdout, replies over stdin; the
  jobs a run starts outlive it (`SshRun`), and a later run polls them (`RemoteJob`).
* **turn → trace**: the recorder is called by the engine and finished by the
  handler; the writer outlives the connections (`ServerDrain` has the order).

## 2. The modules

| Module | Models | Checked in |
|---|---|---|
| `SessionTurns` | abstract: the requests of a session ask, enter one at a time, leave or fail | `pool` |
| `EnginePool` | the pool; implements `SessionTurns` | `pool`, `liveness` |
| `ConsentGate` | abstract: a card is asked, answered at most once, and acted on only after a yes | `services` |
| `ConfirmBroker` | broker, gates and both transports; implements `ConsentGate` | `services`, `liveness` |
| `ChatSession` | the turns of one session against its rows, under failing and late statements and crashes | `session_runs`, `liveness` |
| `SealedWorkflow` | the workflow engine, for every well-formed definition | `actions`, `liveness` |
| `WorkflowDefinitions` | the nineteen registered definitions and the guided one, as data | `actions`, `liveness` |
| `ShutdownSchedule` | a scheduled stop from its proposal to its arrival upstream | `services` |
| `GuidedCreate` | the cards of a guided creation and the draft they lead to | `actions` |
| `CloudCalls` | `ExecuteSafe`, its retries, the STS cache, the role bootstrap, the sending | `actions` |
| `StockRead`, `TargetResolution` | what the two reads say, and the target of a write | `actions` |
| `AgentTurn` | one turn of the agent: rounds, batches, exits, committed writes | `turn` |
| `KnowledgeTurn` | searches, bodies, citations, remembered evidence | `turn` |
| `CanonicalHistory` | the memory of a session: hot messages and records, rows, replay | `turn`, `history_evidence` |
| `Selections` | parts of a sequence in its order, for the two above | `turn`, `history_evidence` |
| `ModelCalls` | one `Client.Chat` | `services` |
| `GuestEntry` | the way into an instance and what is told of a run | `services` |
| `SshRun` | supervisor, harness and guest of a run | `session_runs`, `liveness` |
| `RemoteJob` | one background job and its polls | `services` |
| `GuestFiles` | edits of one file of the guest | `services` |
| `ServerDrain` | WebSockets, turns, trace writer and database at the end of the process | `services` |
| `RateLimiter` | one counter of one subject | `services` |
| `FeishuBot`, `FeishuGrant` | topics and sessions of the bot; its OAuth grant | `services` |
| `TurnTrace`, `TraceWriter` | the trace of a turn; the sink of all traces | `services` |
| `*_proofs` | the theorems (eight modules) | |

The modules `MC*` are instances. `MCServices`, `MCActions`, `MCTurn`,
`MCSessionRuns` and `MCLiveness` check several components which share no state:
a variable `part` is chosen at the start, only the steps of that part are taken,
and the variables of the others keep an initial value. Every property of a
component is then about the behaviours of its part; a component that is
composed with none is not slowed down by the others.

Every definition that stands for code has its lines in `map` of
`PROJECT.json`. Operators marked `MUTANT:` are not part of a specification: each
is the form of a mapped definition that a plausible mistake would give, and
every property is listed with one or more that break it.

### EnginePool

One action is one block under `p.mu`, or the code between two such blocks:
`Start` (the call), `Hit`/`Miss` (first look-up), `LoadHistory` (`buildEngine`
reads the store, outside the lock), `BuildFails`, `Adopt`/`Insert` (second
look-up; insert evicts on overflow), `Acquire` (the entry mutex), `RunTurn`,
`Unlock` and `Return` (the two halves of release), `EvictIdle` (gc goroutine),
`Tick` (time). An engine is reduced to `known`, the number of stored turns it
remembers. `ahead` is the LRU order as a relation; `EvictsTo` says what
evicting from the back while over capacity comes to, as the least set that may
go. `Entries` are identities: one may be used again when its entry is out of
the map and in nobody's hands.

### ConfirmBroker

A turn goes `working → showing → asking → leaving`: `Register`, `ShowCard` or
`ShowFails`, then `Hear`, `Gone` or `TimeOut`, then `Cancel` (the deferred one).
When several of the wait's channels are ready, Go's `select` picks any: so does
the model. A handler — the read loop of a turn's socket, or a POST — goes
`read → claimed → (acked) → delivered`: `Receive`, `Claim` or `Refuse`,
`Acknowledge` or `AcknowledgeFails`, `Deliver`, `Respond`. A socket acknowledges
before it delivers and a POST delivers before it responds (`Ready`). A frame
names any registered card, of any tenant. `Overrides` are absent, valid or
invalid for the card's form. Frames whose overrides do not parse are rejected
before they reach the broker (`httpapi/ws.go:275-288`) and are not modelled. A
turn on SSE is a turn whose socket sends no frames.

### ChatSession

`Open` (resolve the session), `Lease`, `ReadAgain`/`ReadFails` (the row read
again under the lease), `Hydrate` (`ClearSessionState`, `SetSessionState`, the
turn limit), `AppendRow` (user row, then pending assistant row), `Bump`,
`PrepareFails` (a statement failed: 500, release), `Launch` and `Observe`
(background jobs while the turn runs), `Settle` (any terminal path: the
assistant row), `PersistState` (deferred: compare-and-swap of `context`,
release). A statement commits, or fails (`Fail`) and is then either lost or
stays in `late`, from where `Land` may commit it at any later time. `Crash`
loses requests, lease and engine. Rows start in every state this code can meet:
fresh, with a context the client seeded, of an older schema, of a newer one
(after a roll-back), or unparsable.

`MaxSessionTurns = 0` means no limit in the code; the model takes positive
caps. Replacement of a deleted session, titles, OCR and transcript metadata
are left out: none of them feeds back into the modelled state.

### SealedWorkflow and WorkflowDefinitions

The engine runs a definition, a sequence of steps; the specification is for
every `def \in Definitions` with `WellFormed(def)`, which says what all
definitions under `workflow/` keep to (a write comes after every gate, is never
polled or optional, only the last gate re-asks; a card rests on a chain of
results with no gate and no rewrite between). The branches that report a
definition error are thereby out of reach. `WorkflowDefinitions` translates the
registered ones, one operator per step function and one per `*Def` function; its
two assumptions, that all of them are well formed and that none writes under a
seal, are evaluated by TLC in `actions`.

Parameters are reduced to `choice` (everything the user selects) and `draft`
(what `PromoteOnConfirm` copies in), and a result to the choice it was computed
from: that is what the properties tell apart. The digest is equality. `Build`
ends at the check of the seal and `Succeed`, `CallFails`, `Pending` are the
answers of the call, so that a rewrite inside `BuildArgs` or `CheckResult` has
its place. A revalidation is `at` going back to `RevalidateFrom` with `back` set to
the gate; `Advance` returns to it. The calls inside a batch are one: outcomes
are stored, then accepted or rejected. The counter `cards` saturates one above
its bound. `GateAhead` counts a gate that `SkipIf` would skip, as the code does.

### ShutdownSchedule

`Propose` is the model's typed schedule, `Draft` its resolution for the card,
`Approve` the user's yes, `Finalize` the second resolution at the write edge, and
`Arrive` the check upstream; `Tick` runs between all of them. A time is a count of
transport allowances (`shutdownTransportAllowance`), so that the minute the code
rounds to and the seconds in which a request travels are told apart.

### GuidedCreate

`step` goes through the cards of `create_instance_cards.go` in their order: what
each one offers (`…Enabled`), what it writes by default, what its answer clears
downstream, and when it stands down. The replies of the platform (`sells`,
`probe`, `capacity`) are any of a set. `ResolveDraft` is the planner, `Check` the
create gate and the price, `Create` the last yes. Type, category and tag cards,
which narrow one list in the same way, are one card; sharing is like custom
images; `GuidedZoneLocked`, which nothing sets in production, and the plain
`CreateInstanceDef` (which `WorkflowDefinitions` has) are left out.

### CloudCalls

A call goes through the gate (`Submit`, `ResolveZone`, `Consult`), waits for
credentials (`CacheHit`, `Wait`, `Lead`, `Woken`, `LeavesWait`), whose flight may find
the role missing and create it (`Assumed`, `RoleMissing`, `Bootstrapped`,
`FlightFails`), and is sent and answered (`Send`, `NotSent`, `Answered`), or not:
`Resume` and `GiveUp` are the back-off and its end, `Cancel` the caller leaving.
A request is its class, its origin, how its zone is found, and whether the
arguments have one.

### StockRead and TargetResolution

`StockRead` is one read: the catalogue, the zones, both inventory backends (each
may answer about zones that are not its own), the answer or the capacity checks.
A row of the catalogue is named by its place, and of the rows of one model in
one zone the first is taken.
`TargetResolution` keeps the account apart from the registry that caches it. A
read (`StartRead`, `Page`, `Query`) and a write (`StartWrite`, `PointQuery`, `Resolve`, then
a card) use and change the registry; `Elsewhere` changes the account, `Tick` and
`NewTurn` end lives. The account changes any number of times (`MaxChanges` in
all), between the pages of a listing too. A listing is `Torn` if the account both
lost and gained an instance since its first page: it may count as complete and
be wrong, and `wrong` of the registry remembers about which instances, for `TargetIsEvidenced` to except them
(section 5). An id is given once (the platform reuses none), `TotalCount` is always
reported, and the selection of an earlier turn is left out.

### AgentTurn

`Ask` is a model call; what comes of it is an action each: `ModelFails`,
`Truncated`, `FirstAnswer` and `Answer`, `AskTools` (a batch), and of each call of the
batch `Read`, `Billing`, `Handoff`, `Guest`, `WriteCommits`, `WriteFails`,
`WriteUnverified`, `NotAttempted` or `Other`. The turn ends through `Cancelled`,
`RoundCancelled`, `OverBudget`, `RateLimited`, `Ceiling`, `Closed`, or an answer. A
sentence is what it reports, an observation the version of the account it was
made at.

### KnowledgeTurn and CanonicalHistory

`KnowledgeTurn`: `SearchKnowledge`, `ReadChunk`, `EndTurn`; the text of a chunk is a
level (nothing, excerpt, part, body). `CanonicalHistory`: `BeginTurn`, `Round`,
`Finish` or `Interrupt` in the hot engine, whose row is written or not; `Rebuild`
replaces the engine by one made from rows, `ForeignRow` is a row with a transcript
that this code did not write. `recentConversationPairs`, `budgetRecordedTurns`,
`ProjectTranscript` and the rest are operators with the names of the functions.
`ConversationIsLegal` joins the two ends of one promise: the turn leaves no call open
where its reply is made (`TranscriptCloses`, of `AgentTurn`), and no request of the
session, after any projection, shedding and trimming, is without its question or
has a call without its result (`RequestIsLegal`). `Request` is small enough that a
turn is cut between its own rounds.

### ModelCalls

`Send`, `Chunk`, `Finish` or `Fail`, then `Narrow` (a feature is given up and the request
repeated), `Retry` and `Resume` (the pause, the next tier), `GiveUp`, or `Abandon`.
Text is the number of the request it came from.

### GuestEntry, SshRun, RemoteJob, GuestFiles

`GuestEntry` is the engine's side: `Call` to `Begin` are the steps before the
harness exists (limit, target, address, credential, facts, audit row), `Start` to
`Verdict` what settles inside, `Answer`, `Recover`, `Deliver`, `Abort`, `Rehydrate` and
`NextTurn` what becomes of the account of it. It is checked with the lane
configured and granted.

`SshRun` is the supervisor (`Serve`: the row, the spawn, the stream parser, the
end of the child), the harness (`Main` and the tools, each a coroutine whose
blocking part is a thread) and the guest, joined by a bounded stdout pipe and a
stdin pipe. `Kill` is the deadline or the lost caller; `Overflow` the parser that
gives up over a long line. Jobs hold slots, are announced, and become cursors of
the session.

`RemoteJob` follows one job through the launcher (`MakeDirectory`, `Fork`,
`WritePid`, `Announce`), the wrapper (`Mark`, `Complete`, `End`), a reboot and a reused
pid, and a poll through its reads, each a round trip of its own. The child has
the job's id in its environment only once it has become nohup, env and the shell
(`Mark`), while the launcher writes its pid. `early` says that the last poll
overtook the launch: it looked before the directory or before the mark was there.

`GuestFiles` has `Prepare`, `Recheck`, `StoreBackup`, `StoreTemporary`, `Rename`,
`Verify`, `Rollback`, `ReadBack`, `Clean` for each edit, any SFTP request of which may
fail, or take effect and lose its reply; `Kill`, and `Touch` by other processes.

### ServerDrain, RateLimiter, TurnTrace, TraceWriter

`ServerDrain` has a connection's handler with its ordered defers, its turn with
its four writes, and `Main`: cancel, wait, give up at the deadline, close queue,
writer and database. `RateLimiter` separates `Read` (the clock) from `Allow` (the
mutex). `TurnTrace` has the callbacks of nested calls, the cards, the return of
the engine, `FinishTrace` and the row; `forsaken` names calls that got no completion.
`TraceWriter` has `Enqueue` in its three parts (count, send, count), the worker's
batches, late commits, the sweep, and `Close` with its deadline.

### FeishuBot and FeishuGrant

`FeishuBot`: `Deliver` (`onMessage` up to the queue) and the steps of a worker, from
`Take` and `Lock` to `Reply`. `FeishuGrant`: the local command (`Authorize`,
`Callback`, `Select`, `ExchangeCode`, `WriteBootstrap`), `Deploy`, `Crash`, `Start`, and a
refresh (`Acquire`, `Check`, `Load`, `Exchange`, `Save`), with what the member, the
operator and the platform may do meanwhile.

## 3. What the runs show

All of them are listed, with their properties, under `runs`; every property of
a passing run has a mutant of the code that the run catches.

| Run | Instance | Distinct states | Shows |
|---|---|---|---|
| `pool` | 3 requests, 3 sessions, 4 entries, capacity 2, 1 turn, clock 0..1 | 410 k | recency of the list, memory of a cold build, refinement of `SessionTurns` |
| `session_runs` | 2 invocations, 2 tools with 2 uses per run, 2 jobs, 1 slot, pipes of 2; a session of 2 requests on any row; a race of 3 for the last turn | 1.0 M | no job forgotten, rows that tell the runs, replies that meet their calls, turn budget, foreign rows, cursors |
| `turn` | a turn of 2 rounds with batches of 2; 3 turns of 2 searches; 3 remembered turns | 0.5 M | outcome told, replays current, the conversation legal, citations grounded, memory sound |
| `actions` | 23 definitions; 2 calls of 4 kinds; a catalogue of 8 rows and 6 images; 2 models in 2 zones; 3 instances and 2 changes of the account | 1.8 M | what executes is what was agreed, drafts, stock, targets |
| `services` | twelve components (below) | 1.4 M | see the table of modules |
| `liveness` | pool, broker, session, run and the workflow engine, small | 84 k | leases are served, answers settle, turns, runs and workflows end |
| `pool_stale`, `confirm_ack`, `turn_commit_untold`, `grant_reauth`, `history_evidence`, `job_interrupted` | | — | the findings of section 5 (violations) |

### Why these bounds

* **pool**: a broken order needs two cached entries and a third that forces an
  eviction; capacity 2 with three sessions makes both overflow and order
  happen. Four entries are one more than the sessions, so that an evicted
  engine and its successor coexist. One tick with TTL 1 makes an entry idle;
  touches in the same tick are ties.
* **session_runs**: two invocations of one run are a redelivery; two tools let a
  reply meet the wrong call, and a pipe of 2 fills. With one slot and two jobs
  the second launch meets the limit. In the session, the second request is the
  one whose row the first one's late write overtakes; in the race the third is
  the one the cap must refuse while two race.
* **turn**: a batch of two can be half done, and caches an observation that its own
  write invalidates; the second round asks for it again. Three turns of history
  exceed each of its three budgets with the sizes of `MCScripts`, which has a
  script for each branch of the budgets.
* **actions**: besides the nineteen registered definitions, the cut guided
  create, the two tampering definitions of `execution_seal_engine_test.go`, and one
  whose revalidated range contains a step that may be skipped or fail quietly.
  Two choices tell old from new. Two calls are what a single flight needs;
  nothing but identity tells calls apart, so they are symmetric. An account of two
  instances, one to a page, with a third to gain and two changes is the smallest
  in which a listing loses one, gains one and still counts as complete.
* **services**: two cards and two tenants with a POST beside the socket are the
  smallest races of transports; a minute of two allowances separates rounding
  from travel; of two connections one can be registered while the other meets
  the drain, before it, during it or after; two callers cross midnight in the opposite order of
  their clocks; two workers with two messages of one topic; a grant that is
  refreshed twice; two runs in two turns; two edits that touch one file; two
  polls of a job whose log outgrows the window; a trace of two calls, one inside
  the other, and two cards; three traces, two of one request and one malformed,
  through a queue of 1 and batches of 2.

Caps that exist only in the models are named as such where they are declared
(`MaxClock`, `MaxTurns` of the pool, `MaxFaults`, `Horizon`s, `MaxTouches`, …).

### Deadlock, fairness and liveness

TLC checks deadlock in the pool runs (requests come back). In the others turns,
requests and runs end for good, so `CHECK_DEADLOCK FALSE`; that they end where
they should is what the liveness properties are for. Each fairness is demanded
only in its part.

* pool: weak fairness of every step a goroutine takes by itself, strong
  fairness of `Acquire`: `sync.Mutex` in starvation mode hands over to the
  longest waiter. That turns end is part of `Step` (`Unlock`): a turn's context has
  a deadline. Starting requests, time and eviction are not fair.
* broker: weak fairness of turns and handlers (writes have deadlines). The
  card's timer, disconnects and new frames are not fair, so
  `OwnAnswerSettles` does not lean on the timer.
* session: weak fairness of a turn's steps, strong fairness of `Lease`, as
  above; crashes, late commits and jobs are not fair.
* workflow (the registered definitions and the guided one, three edits of
  cards): a run is one goroutine (weak fairness of `Next`); a card's timer
  ends the wait for an answer and a poll's deadline the wait for a state (weak
  fairness of `Succeed \/ CallFails`, against `Pending` forever).
* run: weak fairness of the supervisor, of the harness's main coroutine and of
  each tool. The deadline is not fair: `RunsEnd` says that a run ends without it,
  but for the two hazards it names (a lost parser, a call that outlives the
  stream), in which it is the deadline that ends it.

## 4. What is proved

`tlapm` checks every obligation of the eight proof modules. Nothing is assumed
but the named assumptions on constants (finite sets of requests, null values
outside the sets they are null of, positive capacities, well-formed
definitions), which TLC evaluates in the runs: `PoolAssumption`,
`BrokerAssumption`, `SessionAssumption`, `WorkflowAssumption`,
`AgentTurnAssumption`, `SshRunAssumption`, and for the instantiated
components `ServicesAssumption`, `ActionsAssumption`, `SessionsAssumption` and
`TurnAssumption`,
which say `ScheduleConstants`, `CallsConstants` and so on of their constants.
The theorems are listed, with the property of a run where one is stated, under
`theorems`.

A component that a run checks as a part is proved as that part: the theorem is
about the specification of the MC module, `ServicesSpec` for instance. A lemma
per component (`…Alone`) reduces a step of the composition to a step of the
component or a stutter, so that the invariant is the component's own.

**EnginePool_proofs.** Exclusion is not inductive: two
requests could hold two entries of one session. `LeaseInvariant` excludes that
— who leases an entry leases the cached entry of its key, an entry has one key,
`leases` counts exactly the lessees, who runs holds the mutex — and rests on
eviction passing over entries with a positive count (`Cardinality(Lessees(e))`
and the finite-set theorems). `HeldWhileLeasing` goes with the types, because a
release of no entry would be undefined. The refinement maps each step to one of
`SessionTurns` or to a stutter; `SessionExclusion` gives the guard of `Enter`.
`RecencyOrder` needs `Ordered` beside it: no entry was touched later than now,
and `ahead` is a strict order of what is cached. `RemembersUnlessChurned` needs
`Fresh`: a history that was read misses a stored turn only while the key is
leased by another, cached, or churned.

**ConfirmBroker_proofs.** `CardInvariant` is inductive with the types: a pending
card is unclaimed and its channel open, a claimed card belongs to one frame
which decides what is sent and what is told, and a handler past its claim is
alone with the card. Every other invariant follows from it but
`NeverBrokerCancelled`, which takes an induction of its own.
`AgreementBeforeAction` and `CardsSettled` are the properties of the run,
`BrokerImplementsConsentGate` maps every step to one of `ConsentGate`.

**ChatSession_proofs.** `IInv` joins: `LeaseHeld` (the request inside is the one
with the lease); `Budget` (who was admitted was admitted on a count that covers
every turn that ran, which needs the re-read under the lease and the error path
of `Bump`); `CursorInvariant` (whoever holds the version of the row, in memory
or in a late statement, has read every live cursor of it — `Covers`);
`Agreement` (the row a turn read is the present one unless a late statement
overtook it); `LaunchNotForgotten`. The two action properties follow from the
invariant, step by step.

**SealedWorkflow_proofs.** `IInv` says
where the run can be (`Control`), that a seal exists from a passed gate to the
next and equals its card (`Consent`), that the last gate behind the run was
passed or skipped (`Covered`), that `Params` leave the seal only by a rewrite
which the check then catches (`Faithful`), which writes were made (`Attempts`)
and that what the next card rests on is fresh (`Fresh`). `CardsBounded` adds
`Cards`, which counts the gates behind the run; that a definition with a gate has a last
one comes from well-foundedness of a descending order on its steps.

**AgentTurn_proofs.** The three properties of the turn are one induction:
`InRound` (where a call of a batch can be), `Recorded` (what is committed and not
yet told is recorded), `Current` (no cached observation is older than a recorded
write), `Answered` (calls of the batch without a tool message are those still
ahead), `NothingToTell` (a draft in hand excludes a recorded write) and `InHand`.

`KnowledgeTurn`, part of the same run: `KnownTyped` (with it: an entry of the
memory has chunks of the turn it is dated with, and there are no more entries than
the window); `KnownShown` (what is held of a chunk is what was shown of it in this
turn, a chunk counts as read exactly when its whole body was shown, and the ledger
has what has any text); `KnownAhead` (searches to come have returned nothing); and
`CapabilityIsCurrent` itself. A batch of bodies is a recursive function of the
batch, and what a selection keeps is a set of positions; the facts about both
(`KnownLeast`, `KnownInRow`, `KnownKeptExists`) rest on a set of numbers having a
least one, because the library's rules for induction take an operator as a
parameter.

`CanonicalHistory`, likewise: `RequestIsLegal` for all scripts, foreign transcripts,
questions and budgets (`HistoryConstants` only gives their types). A request is made
of pieces, each of them paired and none of them beginning with a
result. `PastPaired` says without maxima what `WellPaired` says (`PastPairing`), and
three facts about it carry the proof: what pairs stays paired with what follows it
(`PastJoined`), so does a part that begins with no result (`PastPart`), and what
`ProjectTranscript` leaves of any transcript is paired (`PastProjectedPaired`): each
kept result is the first of its id in the run of the message that declares the
id, and there are as many as kept calls. A flattened list of such pieces is one
(`PastFlattened`), and what is cut off it keeps the question of the turn
(`PastTrimmed`). The invariant is `PastTyped`, whose exchanges to be replayed are
pieces (`PastPairs`), and `PastInTurn`: in a turn the messages end with its question
and whole rounds, and its row is the last. A function of a sequence is again
brought out by a least number (`PastFlatExists`, `PastCounted`). `Cardinality` inside an
instance is another operator to the provers than the one of the library's
theorems, so the lengths of sequences are compared.

**Services_proofs.** `ShutdownSchedule`: `InTime` (what was previewed or finalized
lies ahead by the lead), `Meant` (the final time is what the card meant or
refused). `ServerDrain`: `Ordered` (main's steps against what they close) and
`Accounted` (a registered connection is one main waits for). `RateLimiter`:
`Budgeted` bounds grants, tokens and the clock of the bucket together; the case
that matters is a clock reading older than the bucket's. `FeishuBot`: `Locks`
(a topic's lock has one owner), `Placed` (each delivered message is in one place),
`Lineage` (a session's successor was made for the same topic), `Counted`.
`ModelCalls`: `Current`, `Shown` and `Counted` say which requests the buffer, the text
shown and the records belong to. `RemoteJob`: `RemotePlaces` (where launcher,
wrapper and the job's files can be at once), `RemoteRead` (what a poll that is
half through has read still holds, or which fault, or which overtaking of the
launch, explains that it does not) and `RemoteShown` (how far its readers are into
the log). `TurnTrace`:
`RecorderStack` (only a high-level read and a workflow nest), `RecorderWaiting` and
`RecorderMatched` (for which call of the stack an entry waits, so that the first
one that waits under a name is the call's own unless the name is forsaken),
`RecorderEnds` (a finished trace was derived from facts that have not changed
since). `TraceWriter`: `WriterPlaced` (queue and batch hold distinct traces that
were sent), `WriterEnds` (the worker ends behind a closed queue it has emptied),
`WriterCounted` (each counter is the size of a set of senders, and what left the
queue is the difference of two), `WriterRows` (one row per request, also in what
a statement that was given up may still commit). That the first trace of a
request is inserted rests on a set of positions having a least one. `GuestFiles`:
`FilesUnseen` (before its rename the text of an edit is neither in the target nor
in any plan, so nobody can bring it there), `FilesPlanned` (what lies beside the
target at each stage), `FilesKept` (the property, with what is known when the
backup is swept: the target was read as the planned file). `FeishuGrant`:
`GrantRemembered` (the process remembers nothing or what its next start would use),
`GrantOnItsWay` (between platform and store the successor is in the reply, which is
no older than the timeout), `GrantLive` (otherwise the platform takes the token of
the store, and before the first exchange the deployed one and the desk's),
`GrantDesk` (the desk writes the last authorization, from which nothing that is kept
comes yet) and `GrantHeld`. That a token handed out is still valid rests on
`Timeout <= Skew < Life`, and on no process's calling itself `nobody`. `GuestEntry`:
`EntryWork` (before the harness starts a run has begun and settled nothing, and it
was connected only if something settled), `EntryRouted` and `EntryFacts` (the
address is chosen once, the facts are those of the last report) and `EntryHeard`:
during a turn, what was interrupted at work and is not told yet was reported in
that turn, so that the reply which contains the reports may settle the notice
and the debt together. Nothing is assumed of its constants; that a candidate
is dialled where one may be rests on a set of positions having a least one.

The definitions by cases of the trace, of the guided creation and of the entry
(`TerminatedBy`, `Refusal`, `Describe`) are chains of `IF`, in the order of the
code's early returns: their guards overlap, and a `CASE` leaves the choice open.

**Actions_proofs.** `CloudCalls`: `Vetted` and `Passed` (a call past the gate was
admitted by it, a write that was sent is not sent again) and `OneFlight`, whose
proof is that a waiter becomes owner only when the flight's entry is free.
`TargetResolution`: `TargetAccount` (when each instance was last seen, and last seen
missing, which only grows), `TargetRegistry` (a registry that neither failed nor is
truncated was the whole account when it was loaded, so what it lacks was missing
then, and until a write of this session ends its life it lacks nothing this
session created), `TargetListing`, `TargetWarm`, `TargetJudged` and
`TargetEvidenced` (what a read that waits, a verdict and the evidence of the turn
are worth). The case that matters is an account that changes in the middle of
a listing. While it is unchanged the rows seen are its first pages; while it only
grew, what was seen is still there; while it only shrank, what was seen and what
is still to be read are fewer than the total that was reported, so the registry
counts as truncated. That is an argument about cardinalities. When it did both
it can fail, for the code counts and cannot tell: nothing is claimed of the
rows, the registry remembers what it got wrong, and the theorem excepts exactly
that. That a refusal denies a reference that
really failed rests on the first failing position existing. `TargetConstants`
asks that what exists at first is a list without repetition, that references are
sequences and name instances, and that a page is not empty.
`StockRead`: `StockTyped` and `StockAsked` (zones are known before any capacity is
checked, a check is made only of a row in a zone that was asked for, nothing is
said before the reply). The rest is lemmas about operators: a row of the
merged inventory is the row of the backend that owns its zone, of an answer that
came and about a zone that is listed; hence each claim the answer renders, and
each a check renders, is grounded. `StockConstants` asks that a row of the
catalogue and of an inventory is one, and that no zone is the null one.
`GuidedCreate`: the steps come in one order, and `OrderInv` says of each thing the
draft must get right from which step on it is settled, no later step unsettling
it: where the rows of the image catalogue are from (`OrderCatalog`), the image
(`OrderImage`, and `OrderChosen` for what an answer chose), and that each card of
the hardware was answered or could offer nothing but the value of the request
(`OrderGpu`, `OrderZone`, `OrderCount`, `OrderSpec`). That a draft the cards led to is
not refused at the gate follows, case by case of `Refusal`. `OrderConstants` asks that
nothing on sale is 0, that an id is of one image, and that none is the null name.

**SessionRuns_proofs.** Of `SshRun`, by far the largest: `Quiet` (nothing moves without a child), `Asked` (a
request on the pipe or in the supervisor's hand belongs to a tool that waits),
`Ordered` (steps, outcome, verdict and end appear in this order on the pipe),
`Faulted`, `Recorded` (what the row says), `Counted` (commands that reached the
guest = steps the parser counted + steps on the pipe + calls between the two),
`Room` and `Reserved` (slots against jobs), `Followed` (a running job is tracked,
announced on the pipe, held by a tool, or lost in one of two named ways). `Counted`
needs cardinalities of the lines of a sequence; they are counted by the bijection
that a shift of the pipe is. One lemma per action. The session's four
properties are those of `ChatSession_proofs`, instantiated.

**Only model-checked**, and why:

* liveness under fairness and `ENABLED` (`EveryLeaseServed`, `OwnAnswerSettles`,
  `EveryTurnEnds`, `RunsEnd`, `WorkflowTerminates`): beyond this prover;
* `MemoryIsSound`: that two memories agree compares what two computations cut
  from sequences of different shape by a budget. It is no invariant of every
  script either: an answer longer than one message may hold is cut in the
  transcript and not in a turn displayed to the user.

A function of several arguments is applied to a tuple (`sells[<<g, z, pool>>]`)
in the modules that are proved about: the SMT backend takes only one argument.

Invariants that are proved and no run lists: the types, `ExclusiveSession`,
`LeasedStaysCached`, `OverflowOnlyInUse`, `CardInvariant`, `OneAnswerPerCard`,
`NeverBrokerCancelled`, `NoSeededCursor`, `TurnsAreCounted`, `FreshUnderLease`,
`AuthorizedIffConfirmed`, `CardBudget`, `SingleAttempt`, `EditsAreNotTampering`,
`ShortestDelayHolds`, `KeepsItsMeaning`, `DraftIsNotLost`.

## 5. Where the code and its words disagree

* **A slow cold build may forget the newest turn** (`pool_stale`,
  `agentpool/pool.go:206`). A request misses, reads the history, and is delayed.
  Another one misses too, inserts the key, runs a turn, and its entry is
  evicted. The first finds the key absent and inserts the history it read:
  `docs/http-api.md:253` promises that a cold recovery keeps at least the newest turn
  (至少保留最新一轮). The engine answers without that turn until it is evicted. The
  re-check covers every other race, which is `RemembersUnlessChurned`.
* **An accepted approval may time out** (`confirm_ack`, `httpapi/ws.go:376`).
  The acknowledgement is written before the decision is delivered, and the
  card's timer may fire between the two; the client was told `Accepted` and the
  turn ends as a timeout, though `ws.go:344-346` says the point of the
  acknowledgement is that both agree on what was authorized. Nothing unauthorized
  runs: `ActsOnAgreement` holds.
* **A write whose verification failed is not told** (`turn_commit_untold`,
  `engine/workflow_replies.go:284`). Only a workflow that succeeded as a whole is
  recorded; the ports workflow writes, then verifies. If the turn ends badly
  afterwards, it says nothing of a write the platform accepted, against
  `workflow_replies.go:287-289`.
* **A new authorization is ignored while the old row exists** (`grant_reauth`,
  `feishu/oauth.go:278`), although `docs/feishu-topic-bot.md:123` and `oauth.go:106`
  send the operator to authorize again after a revocation.
* **An exchange may be replayed with another turn's tool results**
  (`history_evidence`, `engine/canonical_transcript.go:583`). The oldest record is
  dropped while its exchange stays; equal question and answer then attach a
  later record to it, which `direct_render_context.go:139-143` rules out.
* **A finished job may be called interrupted** (`job_interrupted`,
  `deploy/ssh_ops_harness/remote_job.py:360`). The status is read before the
  process is looked for; `remote_job.py:39-40` defines the word otherwise.

Seen while modelling, without a run:

* `engine/tool_progress.go:172`: cached observations are dropped where a write is
  recorded (`instance_referent.go:212`) and after a run inside an instance
  (`instance_ops_dispatch.go:214`). A write that took effect and was not recorded
  leaves them (`ReplaysAreCurrent` is about recorded writes).
* `engine/instance_ops_dispatch.go:289-297`: "not started" is inferred from commands
  that settled; one that started and did not settle is not seen.
* `workflow/create_instance.go:543`: community images are browsed again only when
  the first search found none. A search that found images of which none can be
  used leads to a card with no choice.
* `capability/read_stock.go`: totals may be 0 from a partial source, and a listing shows the
  status of a model's first row only.
* `engine/verified_evidence_ledger.go:161`: merging with a stale row may append an
  evicted older entry again as the newest.
* `engine/instance_ops_interruption.go:216`: a new interruption overwrites a
  notice that still waits; a recovery reply may acknowledge a notice whose run
  has no report in it.
* `feishu/oauth.go:300`: a crash, a deployment, or a failed save between the
  exchange and the save loses the rotated token, although the document says that
  restarts need no authorization.
* `agentpool/rehydrate.go:26`: beyond the budget `RowsFit` the hot engine keeps older
  plain exchanges that a cold one drops (`direct_render_context.go:36-40`), and
  without `DisplaysAreKnown` a cold engine replays the displayed text of a turn
  whose round was cut. `MemoryIsSound` has both as its premises.
* `capability/describe_instances.go:62-94`: a listing counts its rows. Of instances
  1, 2, 3 at two to a page, let 1 be deleted and 4 created after the first page:
  the second is 4 alone, three were seen of three, and 3, which exists, is denied
  for the life of the registry, although a partial view is not to be "an absence
  oracle" (lines 18-21, which speak of the page bound). `TargetIsEvidenced` is violated
  so when its exception `Misled` is left out.
* `deploy/ssh_ops_harness/remote_job.py`: a poll after a lost start answer can
  overtake the launch. Before the directory is made it answers `not_found`; between
  the fork and the exec of the shell that carries the mark (lines 211-216) it finds
  a process without the mark and answers `interrupted` (366-374). Either drops the
  handle (`harness.py:2505-2508`) of a job that then runs; `JobsAreFollowed` is
  violated so when its exception `early` is left out. A launcher stopped
  before it wrote the pid leaves an `unknown` that holds its slot for good; a
  failed log read makes the next poll repeat the log.
* `httpapi/trace_recorder.go:407`: a proposal handed back to the model
  (`engine/action_proposal.go:328`) gets no completion, so the next one's is filed
  with it, against `trace_recorder.go:37-39`; `forsaken` sets it apart. A turn with a normal answer has
  status "error" if its last card was declined.
* `observability/mysql_writer.go`: the accepted counter may briefly trail the
  succeeded one.

## 6. What is not modelled

* Panics, and the goroutines they would end.
* Several processes: the deployment is one replica, and nothing in the code
  guards a session across processes but the compare-and-swap of `context`.
* The text of anything: cards, messages, rows, prompts.
* TargetResolution: a page without `TotalCount`. ChatSession: dropping the jobs of
  an instance that is reported absent (`clearBackgroundJobForInstance`). ServerDrain:
  a listener that fails (`errCh`, `cmd/server.go:219`), which ends without a drain.
* Inside a batch step: `MaxBatchCalls` and unknown candidates.
* In a definition, steps that share one `Name` (guided create queries images
  up to three times under one name) have separate results in the model. In the
  code the later result replaces the earlier one. All of them lie before the
  draft, where every `RevalidateFrom` of the repository points, so a revalidation
  discards none of them.
* KnowledgeTurn: the confidence label, the cap of 256 items, and marker
  stripping; bodies are not empty. GuestEntry: the cursor of the agent session,
  the selected instance, the bound of 32 handles. CanonicalHistory: over-long
  arguments, the byte guard, the context card and the system prompt; one
  assistant row per turn. RemoteJob: the wrapper and its payload are one process,
  both logs one stream. TurnTrace: hashes, latencies, tokens, error codes,
  retrieval traces. TraceWriter: stored rows expire together. FeishuGrant: one
  process at a time, no time passes in `Save`. RateLimiter: one counter.
* The components marked `not_modelled`: guardrails and authorization
  (rules on the text of one request at a time), diagnosis (read-only, sequential),
  configuration, prompts, sanitizing and helpers.

## 7. Plan

Done: every component of section 1 with state that several actors touch, and
proofs of every safety property of `pool`, `session_runs`, `actions`, and
`services`, and of four of the five of `turn`; the fifth is `MemoryIsSound`.

In the proofs nothing a run checks is left but what section 4 names: liveness,
and `MemoryIsSound`.

In the model, next: the read projection (`readprojection/`), whose envelopes
the observations of `AgentTurn` stand for, and the monitoring and billing reads
of `capability/`.
