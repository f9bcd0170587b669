------------------------------ MODULE TurnTrace ------------------------------
(***************************************************************************)
(* What the trace of one turn says: chatTraceRecorder                      *)
(* (src/internal/httpapi/trace_recorder.go) observes the engine while      *)
(* chatStream runs a turn, and FinalizeOutcome                             *)
(* (src/internal/observability/outcome.go) derives from the facts it       *)
(* gathered why the turn ended.  chatStream writes the row of the answer   *)
(* on its own, after the trace is finished.                                *)
(*                                                                         *)
(* An entry of the trace is filed under the source and the action of a     *)
(* call, and its completion finds it by these alone.  The engine works on  *)
(* one call at a time; a call may make others: `open` is that stack.       *)
(***************************************************************************)
EXTENDS Naturals, Sequences, SequencesExt

CONSTANTS MaxCalls,   \* calls and refusals of a turn
          MaxCards    \* confirmation cards of a turn

RecorderConstants == {MaxCalls, MaxCards} \subseteq Nat

VARIABLES open,       \* the calls under way, the innermost last
          made,       \* calls and refusals so far
          entries,    \* TraceRecord.ToolCalls: `of` made the entry, `by` completed it (0: nothing)
          pending,    \* pendingByID: of each key, the entries that wait, the oldest first
          forsaken,   \* keys of which a call ended without an event
          cards,      \* TraceRecord.Confirmations: how each card was settled
          denied,     \* RateLimit.Checked and not RateLimit.Allowed
          ended,      \* how the engine ended the turn
          ceiling,    \* reactCeilingHitThisTurn
          reply,      \* the engine returned a reply that is not blank
          chatErr,    \* the error of the turn
          transport,  \* the error of streamCtx
          stage, outcome, row

facts == <<entries, pending, cards, denied>>
engine == <<open, made, forsaken, ended, ceiling, reply>>
vars == <<facts, engine, chatErr, transport, stage, outcome, row>>

\* The kinds of calls: high-level reads, the calls of the platform they make, proposals, the
\* steps of the workflow that follows one, runs in a guest.  "flow" is a workflow under way,
\* which is no call itself; in "over" it has ended the turn.
Keys   == {"read", "api", "propose", "step", "guest"}
Frames == Keys \cup {"flow", "over"}

Settlements == {"confirmed", "declined", "timeout", "disconnect", "undelivered"}
Endings     == {"answer", "rate_limit", "token_budget", "round_ceiling", "error"}

TypeOK ==
  /\ made \in 0..MaxCalls
  /\ open \in Seq([frame : Frames, call : 0..MaxCalls])
  /\ entries \in Seq([key : Keys, of : 1..MaxCalls, by : 0..MaxCalls])
  /\ pending \in [Keys -> Seq(1..Len(entries))]
  /\ forsaken \subseteq Keys
  /\ cards \in Seq(Settlements) /\ denied \in BOOLEAN
  /\ ended \in Endings \cup {"no"} /\ ceiling \in BOOLEAN /\ reply \in BOOLEAN
  /\ chatErr \in {"none", "model", "canceled", "deadline"}
  /\ transport \in {"none", "canceled", "deadline"}
  /\ stage \in {"running", "returned", "traced", "done"}
  /\ row \in {"none", "aborted", "error", "ok"}

Init ==
  /\ open = <<>> /\ made = 0 /\ entries = <<>> /\ pending = [k \in Keys |-> <<>>]
  /\ forsaken = {} /\ cards = <<>> /\ denied = FALSE
  /\ ended = "no" /\ ceiling = FALSE /\ reply = FALSE
  /\ chatErr = "none" /\ transport = "none" /\ stage = "running"
  /\ outcome = [terminatedBy |-> "", cause |-> ""] /\ row = "none"

-----------------------------------------------------------------------------
(* The events of the engine, as OnStep records them.                       *)

Running == stage = "running"
Within(f) == open # <<>> /\ Last(open).frame = f
MayCall(k) ==
  CASE k = "api"  -> Within("read")
    [] k = "step" -> Within("flow")
    [] OTHER      -> open = <<>>

Opened(k, n) ==
  /\ entries' = Append(entries, [key |-> k, of |-> n, by |-> 0])
  /\ pending' = [pending EXCEPT ![k] = Append(@, Len(entries) + 1)]

\* MUTANT: a call that was completed keeps waiting.
CompletedAgain(k, n) ==
  IF pending[k] # <<>>
  THEN entries' = [entries EXCEPT ![Head(pending[k])].by = n] /\ UNCHANGED pending
  ELSE entries' = Append(entries, [key |-> k, of |-> n, by |-> n]) /\ UNCHANGED pending

(* matchPending: the oldest entry that waits under the key, or a new one.  *)
Completed(k, n) ==
  IF pending[k] # <<>>
  THEN /\ entries' = [entries EXCEPT ![Head(pending[k])].by = n]
       /\ pending' = [pending EXCEPT ![k] = Tail(@)]
  ELSE entries' = Append(entries, [key |-> k, of |-> n, by |-> n]) /\ UNCHANGED pending

Unrecorded == UNCHANGED <<entries, pending>>
Others == UNCHANGED <<forsaken, cards, denied, ended, ceiling, reply, chatErr, transport,
                      stage, outcome, row>>

Call(k) ==
  /\ Running /\ MayCall(k) /\ made < MaxCalls
  /\ made' = made + 1
  /\ open' = Append(open, [frame |-> k, call |-> made + 1])
  /\ Opened(k, made + 1)
  /\ Others

(* The result, the error or the refusal of the innermost call.             *)
Complete(k) ==
  /\ Running /\ Within(k) /\ k \in Keys
  /\ open' = Front(open)
  /\ Completed(k, Last(open).call)
  /\ UNCHANGED made /\ Others

(* Malformed arguments, a call that may not be made, an observation that   *)
(* is reused: a completion, and no call before it.                         *)
Refuse(k) ==
  /\ Running /\ MayCall(k) /\ k \in {"read", "guest"} /\ made < MaxCalls
  /\ made' = made + 1
  /\ Completed(k, made + 1)
  /\ UNCHANGED open /\ Others

(* executeActionProposal: a proposal that is accepted completes its call   *)
(* and goes on as a workflow; one that lacks something is given back to    *)
(* the model and no event says so.                                         *)
Accept ==
  /\ Running /\ Within("propose")
  /\ open' = <<[frame |-> "flow", call |-> 0]>>
  /\ Completed("propose", Last(open).call)
  /\ UNCHANGED made /\ Others

GiveBack ==
  /\ Running /\ Within("propose")
  /\ open' = <<>> /\ forsaken' = forsaken \cup {"propose"}
  /\ Unrecorded
  /\ UNCHANGED <<made, cards, denied, ended, ceiling, reply, chatErr, transport, stage,
                 outcome, row>>

(* The workflow is over: an observation for the model, or the reply.       *)
FlowEnds ==
  /\ Running /\ Within("flow")
  /\ \E frames \in {<<>>, <<[frame |-> "over", call |-> 0]>>} : open' = frames
  /\ Unrecorded /\ UNCHANGED made /\ Others

(* A command of a guest run is reported while the run goes on.             *)
Report ==
  /\ Running /\ Within("guest") /\ Len(entries) < MaxCalls
  /\ Completed("guest", Last(open).call)
  /\ UNCHANGED <<open, made>> /\ Others

(* A card is settled.  A workflow whose card is not confirmed says so and  *)
(* ends the turn; a guest run refuses the command and goes on.             *)
Settle(s) ==
  /\ Running /\ (Within("flow") \/ Within("guest")) /\ Len(cards) < MaxCards
  /\ s = "disconnect" => transport # "none"
  /\ cards' = Append(cards, s)
  /\ open' = IF Within("flow") /\ s # "confirmed"
             THEN <<[frame |-> "over", call |-> 0]>> ELSE open
  /\ UNCHANGED <<entries, pending, denied, made, forsaken, ended, ceiling, reply, chatErr,
                 transport, stage, outcome, row>>

(* A call of a tool or of the model is refused by the rate limit; later    *)
(* decisions do not take it back.                                          *)
Deny ==
  /\ Running /\ ~denied
  /\ denied' = TRUE
  /\ UNCHANGED <<entries, pending, cards, engine, chatErr, transport, stage, outcome, row>>

(* The client disconnects, or the connection's time is over.               *)
TransportEnds(e) ==
  /\ stage \in {"running", "returned"} /\ transport = "none"
  /\ transport' = e
  /\ UNCHANGED <<facts, engine, chatErr, stage, outcome, row>>

-----------------------------------------------------------------------------
(* The end of the turn.                                                    *)

(* ChatWithOptions returns: an answer, a refusal of its own or an error,   *)
(* perhaps past the limit of rounds.  A model call fails on its own time   *)
(* limit too, with the error of an ended connection.                       *)
Return(e, said, late) ==
  /\ Running /\ (open = <<>> \/ Within("over"))
  /\ ended' = e /\ ceiling' = late
  /\ e = "rate_limit" => denied
  /\ e = "round_ceiling" => late
  /\ late => e \in {"answer", "round_ceiling"} /\ ~Within("over")
  /\ Within("over") => e = "answer" /\ said
  /\ reply' = (said /\ e # "error")
  /\ said \/ e \in {"answer", "error"}
  /\ \E err \in {"model", "deadline", transport} \ {"none"} :
       chatErr' = IF e = "error" THEN err ELSE transport
  /\ stage' = "returned"
  /\ UNCHANGED <<facts, open, made, forsaken, transport, outcome, row>>

Branch ==
  IF chatErr = "canceled" \/ transport # "none" THEN "aborted"
  ELSE IF chatErr # "none" THEN "error" ELSE "ok"

\* MUTANT: the trace of an aborted turn is given the error of the engine.
EngineError == chatErr

(* The error the trace is finished with.                                   *)
TerminalErr == IF transport # "none" THEN transport ELSE chatErr

(* The last card decides.                                                  *)
LatestCard == IF cards = <<>> THEN "none" ELSE Last(cards)
Cancelled == LatestCard \in {"declined", "timeout", "disconnect"}
Failed    == LatestCard = "undelivered"

\* MUTANT: a denied call counts although the turn went on to answer.
BlockedByDenial == denied \/ ended = "rate_limit"

(* The completion is authoritative; a turn that ran always has one.        *)
GenuineBlock == ended = "rate_limit"
BudgetExhausted == ended \in {"token_budget", "round_ceiling"} \/ ceiling

\* The first that holds.
TerminatedBy ==
  IF GenuineBlock THEN "blocked"
  ELSE IF Cancelled THEN "user_cancel"
  ELSE IF Failed THEN "error"
  ELSE IF TerminalErr = "canceled" THEN "user_cancel"
  ELSE IF TerminalErr = "deadline" THEN "timeout"
  ELSE IF BudgetExhausted THEN "budget"
  ELSE IF TerminalErr # "none" THEN "error"
  ELSE IF ~reply THEN "empty_reply" ELSE "done"

AbortCause(by) ==
  CASE by = "user_cancel" -> IF Cancelled THEN LatestCard ELSE "disconnect"
    [] by = "empty_reply" -> "llm_empty_stream"
    [] OTHER              -> ""

(* finishTrace, before anything of the turn is stored.  The branch was     *)
(* chosen with it: a connection that ends later changes nothing.           *)
FinishTrace ==
  /\ stage = "returned"
  /\ outcome' = [terminatedBy |-> TerminatedBy, cause |-> AbortCause(TerminatedBy)]
  /\ row' = Branch
  /\ stage' = "traced"
  /\ UNCHANGED <<facts, engine, chatErr, transport>>

(* persistAssistant with the status of the branch.                         *)
Persist ==
  /\ stage = "traced"
  /\ stage' = "done"
  /\ UNCHANGED <<facts, engine, chatErr, transport, outcome, row>>

(* statusFromTrace, the status column of agent_traces.                     *)
Status ==
  CASE outcome.terminatedBy \in {"blocked", "budget"} -> "blocked"
    [] outcome.terminatedBy = "done"                  -> "success"
    [] OTHER                                          -> "error"

-----------------------------------------------------------------------------
Next ==
  \/ \E k \in Keys : Call(k) \/ Refuse(k)
  \/ \E k \in Keys \ {"propose"} : Complete(k)
  \/ Accept \/ GiveBack \/ FlowEnds \/ Report \/ Deny
  \/ \E s \in Settlements : Settle(s)
  \/ \E e \in {"canceled", "deadline"} : TransportEnds(e)
  \/ \E e \in Endings, said, late \in BOOLEAN : Return(e, said, late)
  \/ FinishTrace \/ Persist

Spec == Init /\ [][Next]_vars

-----------------------------------------------------------------------------
(* The trace tells what happened.  A completion is recorded with the call  *)
(* it belongs to, unless an earlier call of the same name was left without *)
(* one.  The trace and the stored row agree: a turn counts as a success    *)
(* exactly when its row is "ok", the engine answered with something,       *)
(* within its rounds, and the last card, if there was one, was confirmed;  *)
(* a cause that blames the user is the last card's or the connection's.    *)
TraceTellsTheTurn ==
  /\ \A i \in DOMAIN entries : entries[i].key \notin forsaken =>
       entries[i].by \in {0, entries[i].of}
  /\ stage = "done" =>
       /\ (Status = "success") <=>
            (row = "ok" /\ ended = "answer" /\ reply /\ ~ceiling
             /\ LatestCard \in {"none", "confirmed"})
       /\ outcome.cause = "disconnect" => row = "aborted" \/ LatestCard = "disconnect"
       /\ outcome.cause \in {"declined", "timeout"} => LatestCard = outcome.cause
=============================================================================
