------------------------------ MODULE AgentTurn ------------------------------
(***************************************************************************)
(* One turn of the central agent: ChatWithOptions, runToolCallsRound and   *)
(* executeTool (internal/engine) over the round loop of                    *)
(* internal/agentruntime.  A model round either answers, asks for a batch  *)
(* of tools, or goes wrong; the engine decides how the turn ends.          *)
(*                                                                         *)
(* The model, the user and the platform choose freely.  A sentence is      *)
(* abstracted to what it reports: the writes and the in-instance runs.  A  *)
(* live observation is the version of the account it was read at.          *)
(***************************************************************************)
EXTENDS Integers, Sequences, FiniteSets

CONSTANTS Keys,          \* the live reads: a tool with its arguments
          MaxRounds,     \* maxReActRounds
          MaxGuestRuns,  \* MaxInstanceOpsRunsPerTurn
          MaxRecoveries, \* maxTruncatedOutputRecoveriesPerTurn
          MaxBatch,      \* bound: tool calls of one response
          MaxLive        \* bound: changes of the account in the turn

ASSUME AgentTurnAssumption ==
    /\ MaxRounds \in Nat \ {0, 1} /\ MaxGuestRuns \in Nat /\ MaxRecoveries \in Nat
    /\ MaxBatch \in Nat \ {0} /\ MaxLive \in Nat

VARIABLES pc,          \* where the turn is
          closing,     \* what made finishAgentTurn speak
          round,       \* runtimeRound.Index()
          alive,       \* ctx.Err() == nil
          spent,       \* tokenBudgetExceeded()
          queue,       \* calls of the last assistant message without a tool message
          last,        \* role of the last message of the history
          called,      \* the kinds of tools the turn has asked for
          entered,     \* agentToolCallsThisTurn("DiagnoseInstanceInternals")
          cache,       \* toolResultsByCallThisTurn: the version an observation was made at
          draft,       \* directAnswerToolRetryDraft is not empty
          retrying,    \* directAnswerToolRetryPending, then retryingDirectAnswer
          recoveries,  \* truncatedOutputRecoveries
          recorded,    \* committedWriteRepliesThisTurn
          report,      \* a tool result carries the report of an in-instance run
          owned,       \* verbatimBlocksThisTurn or customerSupportEntryThisTurn is not empty
          reason,      \* how the turn ended
          told,        \* the writes the reply reports
          live,        \* version of the account
          landed,      \* history variable: the writes of the turn that took effect
          accepted,    \* history variable: those the platform answered with success
          changed,     \* history variable: versions made by recorded writes and in-instance runs
          runs,        \* history variable: in-instance runs started
          replayed     \* history variable: the replays, with what had changed by then

model == <<round, spent, draft, retrying, recoveries>>
transcript == <<queue, last, called, entered>>
facts == <<cache, live, landed, accepted, changed, runs, replayed>>
outcome == <<recorded, report, owned>>
ending == <<reason, told>>
vars == <<pc, closing, alive, model, transcript, facts, outcome, ending>>

Writes == {"create", "reconciled", "plain", "verified"}
Calls == [tool : {"read"}, key : Keys]
         \cup [tool : Writes \cup {"guest", "billing", "handoff", "other"}, key : {"none"}]
Refusals == {"budget_refusal", "rate_limit", "output_truncated", "round_limit"}
NoVersion == -1
Report == 0   \* beside the writes, which are versions

TypeOK ==
    /\ pc \in {"top", "asking", "answering", "calls", "closing", "done"}
    /\ closing \in {"none", "budget", "error", "ceiling"}
    /\ round \in 0..MaxRounds
    /\ {alive, spent, draft, retrying, report, owned} \subseteq BOOLEAN
    /\ queue \in Seq(Calls)
    /\ last \in {"user", "assistant", "tool"}
    /\ called \subseteq {c.tool : c \in Calls}
    /\ entered \in Nat /\ recoveries \in Nat /\ live \in Nat /\ runs \in Nat
    /\ cache \in [Keys -> Nat \cup {NoVersion}]
    /\ recorded \subseteq landed /\ landed \subseteq 1..live /\ accepted \subseteq landed /\ changed \subseteq 0..live
    /\ reason \in Refusals \cup {"none", "final_answer", "deterministic_reply", "budget_recovery", "error"}
    /\ told \subseteq landed \cup {Report}

Init ==
    /\ pc = "top" /\ closing = "none"
    /\ round = 0 /\ alive = TRUE /\ spent = FALSE
    /\ queue = <<>> /\ last = "user" /\ called = {} /\ entered = 0
    /\ cache = [k \in Keys |-> NoVersion]
    /\ draft = FALSE /\ retrying = FALSE /\ recoveries = 0
    /\ recorded = {} /\ report = FALSE /\ owned = FALSE
    /\ reason = "none" /\ told = {}
    /\ live = 0 /\ landed = {} /\ accepted = {} /\ changed = {} /\ runs = 0 /\ replayed = {}

-----------------------------------------------------------------------------
(* The ways a turn ends.                                                     *)

Outcome == recorded \cup (IF report THEN {Report} ELSE {})

\* recordAndStream: one string is the reply and the assistant message.
Says(r, t) ==
    /\ pc' = "done" /\ reason' = r /\ told' = t /\ last' = "assistant"
    /\ UNCHANGED <<closing, alive, model, queue, called, entered, facts, outcome>>

\* finishCommittedWrite: what was done outranks every other end.
FinishCommitted == Outcome # {} /\ Says("deterministic_reply", Outcome)

\* finishDirectAnswerToolRetryDraft: the answer in hand is the answer.
FinishDraft == draft /\ Outcome = {} /\ Says("final_answer", {})

\* finishAgentTurn is worth a call: tools have answered and the turn is alive.
CanClose == alive /\ Outcome = {} /\ called # {}

Close(why) ==
    /\ pc' = "closing" /\ closing' = why
    /\ UNCHANGED <<alive, model, transcript, facts, outcome, ending>>

\* The turn fails; text that was already shown, or promised, still completes it.
Fails ==
    \/ FinishCommitted
    \/ /\ Outcome = {} /\ owned
       /\ Says("deterministic_reply", {})
    \/ /\ Outcome = {} /\ ~owned
       /\ pc' = "done" /\ reason' = "error"
       /\ UNCHANGED <<closing, alive, model, transcript, facts, outcome, told>>

-----------------------------------------------------------------------------
(* The round loop.                                                           *)

\* The transport goes away, or the turn runs out of time.
Cancelled ==
    /\ pc # "done" /\ alive
    /\ alive' = FALSE
    /\ UNCHANGED <<pc, closing, model, transcript, facts, outcome, ending>>

\* Runtime.Run looks at the context before every round.
RoundCancelled ==
    /\ pc = "top" /\ round < MaxRounds /\ ~alive
    /\ Fails

\* The token budget gate, before anything is sent.
OverBudget ==
    /\ pc = "top" /\ round < MaxRounds /\ alive /\ spent
    /\ \/ FinishCommitted
       \/ FinishDraft
       \/ Outcome = {} /\ ~draft /\ CanClose /\ Close("budget")
       \/ Outcome = {} /\ ~draft /\ ~CanClose /\ Says("budget_refusal", {})

\* The rate limit of model calls.
RateLimited ==
    /\ pc = "top" /\ round < MaxRounds /\ alive /\ ~spent
    /\ \/ FinishCommitted
       \/ retrying /\ FinishDraft
       \/ Outcome = {} /\ ~(retrying /\ draft) /\ Says("rate_limit", {})

Ask ==
    /\ pc = "top" /\ round < MaxRounds /\ alive /\ ~spent
    /\ pc' = "asking"
    /\ UNCHANGED <<closing, alive, model, transcript, facts, outcome, ending>>

\* The loop is exhausted.
Ceiling ==
    /\ pc = "top" /\ round = MaxRounds
    /\ \/ FinishCommitted
       \/ CanClose /\ Close("ceiling")
       \/ Outcome = {} /\ ~CanClose /\ Says("round_limit", {})

NextRound == pc' = "top" /\ round' = round + 1

ModelFails ==
    /\ pc = "asking"
    /\ \/ FinishCommitted
       \/ retrying /\ FinishDraft
       \/ ~(retrying /\ draft) /\ CanClose /\ Close("error")
       \/ ~(retrying /\ draft) /\ ~CanClose /\ Outcome = {} /\ Fails

\* Output that stopped short is neither kept nor acted on; it is asked for once more.
Truncated(s) ==
    /\ pc = "asking" /\ s \in {spent, TRUE}
    /\ \/ FinishCommitted
       \/ retrying /\ FinishDraft
       \/ /\ Outcome = {} /\ ~(retrying /\ draft) /\ recoveries < MaxRecoveries
          /\ NextRound /\ spent' = s /\ recoveries' = recoveries + 1
          /\ UNCHANGED <<closing, alive, draft, retrying, transcript, facts, outcome, ending>>
       \/ /\ Outcome = {} /\ ~(retrying /\ draft) /\ recoveries = MaxRecoveries
          /\ Says("output_truncated", {})

\* A first answer without a tool: the same agent is asked once whether it needs one.
FirstAnswer ==
    /\ pc = "asking" /\ round = 0 /\ ~spent
    /\ NextRound /\ draft' = TRUE /\ retrying' = TRUE
    /\ UNCHANGED <<closing, alive, spent, recoveries, transcript, facts, outcome, ending>>

\* An answer: the retry may come back empty, and then the draft stands.
Answer == pc = "asking" /\ Says("final_answer", {})

\* The response asks for tools: one assistant message carries the batch.
AskTools(batch, s) ==
    /\ pc = "asking" /\ s \in {spent, TRUE}
    /\ pc' = "calls" /\ queue' = batch /\ last' = "assistant"
    /\ called' = called \cup {batch[i].tool : i \in DOMAIN batch}
    /\ draft' = FALSE /\ retrying' = FALSE /\ spent' = s
    /\ UNCHANGED <<closing, alive, round, recoveries, entered, facts, outcome, ending>>

\* Every call of the batch has been answered.
BatchDone ==
    /\ pc = "calls" /\ queue = <<>>
    /\ NextRound
    /\ UNCHANGED <<closing, alive, spent, draft, retrying, recoveries, transcript, facts, outcome, ending>>

\* finishAgentTurn: one more model call, without tools, over the same conversation.
Closed ==
    /\ pc = "closing"
    /\ \/ Says("budget_recovery", {})
       \/ closing = "budget" /\ Says("budget_refusal", {})
       \/ closing = "ceiling" /\ Says("round_limit", {})
       \/ closing = "error" /\ Fails

-----------------------------------------------------------------------------
(* The calls of a batch, in order.                                           *)

\* The tool message of the call at the head, and the loop goes on.
Observed ==
    /\ pc = "calls" /\ queue # <<>>
    /\ queue' = Tail(queue) /\ last' = "tool"
    /\ entered' = IF Head(queue).tool = "guest" THEN entered + 1 ELSE entered
    /\ UNCHANGED <<pc, closing, alive, model, called, ending>>

\* MUTANT: a final delivery leaves the calls after it without a tool message.
DeliveredAtOnce(t) ==
    /\ pc = "calls" /\ queue # <<>>
    /\ pc' = "done" /\ reason' = "deterministic_reply" /\ told' = t
    /\ queue' = Tail(queue) /\ last' = "assistant"
    /\ UNCHANGED <<closing, alive, model, called, entered>>

\* deliverFinal: the rest of the batch is answered "skipped", and the engine has the last word.
Delivered(t) ==
    /\ pc = "calls" /\ queue # <<>>
    /\ pc' = "done" /\ reason' = "deterministic_reply" /\ told' = t
    /\ queue' = <<>> /\ last' = "assistant"
    /\ UNCHANGED <<closing, alive, model, called, entered>>

Calling(tools) == pc = "calls" /\ queue # <<>> /\ Head(queue).tool \in tools

\* MUTANT: what was observed stays reusable after a write.
Kept == cache

\* invalidateLiveToolObservations.
Invalidated == [k \in Keys |-> NoVersion]

\* A live read: the same call is replayed from its observation, another one is made.
Read ==
    /\ Calling({"read"})
    /\ LET k == Head(queue).key
       IN  IF cache[k] # NoVersion
           THEN /\ replayed' = replayed \cup {[at |-> cache[k], landed |-> landed, changed |-> changed]}
                /\ cache' = cache
           ELSE cache' = [cache EXCEPT ![k] = live] /\ replayed' = replayed
    /\ Observed
    /\ UNCHANGED <<live, landed, accepted, changed, runs, outcome>>

\* DiagnoseBilling: its card is shown as it is, or the chain fails one way or the other.
Billing ==
    /\ Calling({"billing"})
    /\ \/ Observed /\ owned' \in {owned, TRUE} /\ UNCHANGED <<recorded, report>>
       \/ Delivered(Outcome) /\ UNCHANGED outcome
    /\ UNCHANGED facts

\* HandoffToCustomerSupport ends the turn when it is all the turn asked for.
Handoff ==
    /\ Calling({"handoff"})
    /\ IF called = {"handoff"}
       THEN Delivered(Outcome) /\ UNCHANGED outcome
       ELSE Observed /\ owned' = TRUE /\ UNCHANGED <<recorded, report>>
    /\ UNCHANGED facts

\* Searches, refused calls, calls outside the window, malformed arguments.
Other ==
    /\ Calling({"other"})
    /\ \/ Observed
       \/ Delivered(Outcome)
    /\ UNCHANGED <<facts, outcome>>

\* The budget of in-instance runs counts the calls the transcript has answered.
MayEnter == entered < MaxGuestRuns

\* The run may change the instance whatever becomes of it, and may leave a report.
GuestRan ==
    /\ Calling({"guest"}) /\ MayEnter
    /\ live' \in {live, live + 1} /\ live' <= MaxLive
    /\ changed' = IF live' = live THEN changed ELSE changed \cup {live'}
    /\ runs' = runs + 1
    /\ cache' = Invalidated
    /\ report' \in {report, TRUE}
    /\ UNCHANGED <<landed, accepted, replayed, recorded, owned>>

\* executeInstanceOps: a run that used up its time ends the turn with what it has.
Guest ==
    \/ GuestRan /\ Observed
    \/ GuestRan /\ Delivered(recorded \cup (IF report' THEN {Report} ELSE {}))
    \/ /\ Calling({"guest"}) /\ ~MayEnter
       /\ Observed
       /\ UNCHANGED <<facts, outcome>>

\* executeActionProposal without an attempt: an invalid proposal goes back to the model; a card that
\* was not approved, a limit or a disabled lane ends the turn.
NotAttempted ==
    /\ Calling(Writes)
    /\ \/ Observed
       \/ Delivered(Outcome)
    /\ UNCHANGED <<facts, outcome>>

Lands(w) == w = live + 1 /\ w <= MaxLive /\ live' = w /\ landed' = landed \cup {w}

\* MUTANT: a commit is recorded when its narration has been delivered.
RecordNarrated(w) ==
    /\ Calling(Writes) /\ Lands(w)
    /\ accepted' = accepted \cup {w}
    /\ cache' = Invalidated /\ changed' = changed \cup {w}
    /\ UNCHANGED <<recorded, report, owned, runs, replayed>>

\* A write that succeeded is recorded before anything is said about it.
Record(w) ==
    /\ Calling(Writes) /\ Lands(w)
    /\ accepted' = accepted \cup {w}
    /\ cache' = Invalidated /\ changed' = changed \cup {w}
    /\ recorded' = recorded \cup {w}
    /\ UNCHANGED <<report, owned, runs, replayed>>

\* The model goes on after a write, unless a create was not delivered as it was confirmed.
WriteCommits ==
    \E w \in 1..MaxLive :
        /\ Record(w)
        /\ \/ Observed
           \/ Head(queue).tool = "create" /\ Delivered(recorded' \cup Outcome)

\* The attempt fails after it may have taken effect.  authorizedWriteFailureReply reads back and
\* ends the turn for some operations, a failed create ends it, others return to the model.
WriteFails ==
    /\ Calling(Writes)
    /\ \/ (\E w \in 1..MaxLive : Lands(w))
       \/ UNCHANGED <<live, landed>>
    /\ CASE Head(queue).tool = "reconciled" -> cache' = Invalidated /\ Delivered(Outcome)
         [] Head(queue).tool = "create"     -> cache' = cache /\ Delivered(Outcome)
         [] OTHER                           -> cache' = cache /\ (Observed \/ Delivered(Outcome))
    /\ UNCHANGED <<accepted, changed, runs, replayed, outcome>>

\* The write took effect and the step that verifies it fails, times out or is cancelled.
WriteUnverified ==
    /\ Calling({"verified"})
    /\ \E w \in 1..MaxLive : Lands(w) /\ accepted' = accepted \cup {w}
    /\ Observed
    /\ UNCHANGED <<cache, changed, runs, replayed, outcome>>

-----------------------------------------------------------------------------

Batches == UNION {[1..n -> Calls] : n \in 1..MaxBatch}

Next ==
    \/ Cancelled \/ RoundCancelled \/ OverBudget \/ RateLimited \/ Ask \/ Ceiling
    \/ ModelFails \/ (\E s \in BOOLEAN : Truncated(s)) \/ FirstAnswer \/ Answer
    \/ (\E b \in Batches, s \in BOOLEAN : AskTools(b, s))
    \/ BatchDone \/ Closed
    \/ Read \/ Billing \/ Handoff \/ Other \/ Guest
    \/ NotAttempted \/ WriteCommits \/ WriteFails \/ WriteUnverified

Spec == Init /\ [][Next]_vars

-----------------------------------------------------------------------------

Ended(reasons) == pc = "done" /\ reason \in reasons

\* A turn the engine ends itself, whatever went wrong, reports every write it recorded and the
\* report of an in-instance run; it never fails over them, nor over text the user has seen
\* (engine.go:1120-1125, 1040-1045, 1348-1363; loop exits of ChatWithOptions).
OutcomeIsTold ==
    /\ Ended(Refusals \cup {"deterministic_reply", "error"}) =>
        (landed \cap changed) \cup (IF report THEN {Report} ELSE {}) \subseteq told
    /\ Ended({"error"}) => ~owned

\* An observation is not replayed after a write the turn recorded, or after an in-instance run: the
\* read is made again (tool_progress.go:169-179, workflow_replies.go:285, instance_ops_dispatch.go:212-214).
ReplaysAreCurrent ==
    \A r \in replayed : \A w \in r.changed : r.at >= w

\* However the turn ends with a reply, its transcript is a complete exchange: each call of a batch
\* has a tool message, and the last message is the assistant's (engine.go:1379-1392, 1432-1439).
TranscriptCloses ==
    pc = "done" /\ reason # "error" => queue = <<>> /\ last = "assistant"

\* A complete answer that has been paid for is never turned into a refusal or, while somebody
\* waits for it, into an error (engine.go:1188-1195, 1097-1101, 1129-1133).
DraftIsNotLost ==
    Ended(Refusals) \/ (Ended({"error"}) /\ alive) => ~draft

\* VIOLATED: "from here the write is irreversible upstream, so every later exit ... has to be able
\* to say so" (workflow_replies.go:287-289).  A write that took effect and failed to verify is not recorded.
EveryWriteIsTold == Ended(Refusals \cup {"error"}) => accepted \subseteq told
=============================================================================
