--------------------------- MODULE CanonicalHistory ---------------------------
(***************************************************************************)
(* What the agent remembers of earlier turns: canonical_transcript.go,     *)
(* direct_render_context.go, prompt_assembly.go and history_helpers.go     *)
(* (internal/engine), RehydrateHistory, internal/agentpool/rehydrate.go    *)
(* and the terminal writes of a turn (internal/httpapi).                   *)
(*                                                                         *)
(* A session has one memory in two forms.  The hot engine keeps messages   *)
(* and a record of each ended turn; the store keeps a row per turn with    *)
(* its transcript.  A cold engine is rebuilt from the rows, and what both  *)
(* replay to the model is compiled by the same budgets.                    *)
(*                                                                         *)
(* A text is a name and a size; the size of a tool result includes that of *)
(* its call.  `turn` marks which turn a message is from: only properties   *)
(* read it.                                                                *)
(***************************************************************************)
EXTENDS Integers, SequencesExt, FiniteSetsExt, Selections

CONSTANTS Names,      \* of texts
          Users,      \* the questions
          Scripts,    \* what a turn may do: rounds of calls, then the answer
          Foreign,    \* transcripts a row of another release may hold
          MaxTurns,   \* bound: turns of the session
          MaxFaults,  \* bound: failed writes and foreign rows
          MsgCap,     \* maxTranscriptMessageRunes
          TotalCap,   \* maxTranscriptTotalRunes
          RawTurn,    \* maxRawTurnBytes
          Replay,     \* maxReplayedHistoryRunes; maxRawHistoryRunes is twice that
          Request,    \* maxAssembledRequestRunes less the tool window
          RowCost     \* what the JSON of a row costs beside its texts

VARIABLES stage,     \* "idle" or "turn"
          messages,  \* Engine.messages after the system prompt
          recent,    \* Engine.recentTurns
          rows,      \* the message rows of the session, by turn
          view,      \* AgentContext.RecentConversation of the turn
          script,    \* what is left of the turn's script
          faults

vars == <<stage, messages, recent, rows, view, script, faults>>

Kinds     == {"plain", "billing", "support"}
Bodies    == [name : Names, size : Nat, cut : BOOLEAN]
ToolCalls == [id : Nat, valid : BOOLEAN, kind : Kinds]
Messages  == [role : {"user", "assistant", "tool", "system"}, body : Bodies, calls : Seq(ToolCalls),
              id : Nat, kind : Kinds, turn : Nat]
Rounds    == {round \in [say : Bodies, calls : Seq(ToolCalls), results : Seq(Bodies)] :
                Len(round.results) = Len(round.calls)}

\* What a session may be made of.
HistoryConstants ==
  /\ {"", "completion", "display", "aborted"} \subseteq Names
  /\ Users \subseteq Bodies /\ Foreign \subseteq Seq(Messages)
  /\ Scripts \subseteq [rounds : Seq(Rounds), answer : Bodies, shown : BOOLEAN]
  /\ {MsgCap, TotalCap, RawTurn, Replay, Request, RowCost} \subseteq Nat

None  == <<>>        \* no transcript
Text(name, size) == [name |-> name, size |-> size, cut |-> FALSE]
Empty == Text("", 0)

Message(role, body, calls, id, kind, turn) ==
  [role |-> role, body |-> body, calls |-> calls, id |-> id, kind |-> kind, turn |-> turn]
Question(body, turn) == Message("user", body, <<>>, 0, "plain", turn)
Answer(body, turn)   == Message("assistant", body, <<>>, 0, "plain", turn)

IsTool(m)  == m.role = "tool"
IsPlain(m) == m.role = "assistant" /\ m.calls = <<>>
Total(s)   == FoldLeft(LAMBDA n, m : n + m.body.size, 0, s)

\* The last of the tool messages right behind position i.
RunEnd(s, i) == Max({j \in i..Len(s) : \A k \in (i + 1)..j : IsTool(s[k])})

\* The turn from its question on.
currentTurnStart(s) == Max({0} \cup {i \in DOMAIN s : s[i].role = "user"})
CurrentTurn(s) == IF currentTurnStart(s) = 0 THEN <<>> ELSE SubSeq(s, currentTurnStart(s), Len(s))

\* The newest entries that fit a budget, by what each costs; the last one stays
\* in any case.
Newest(s, costs, budget) ==
  LET cost[i \in 1..(Len(s) + 1)] == IF i > Len(s) THEN 0 ELSE costs[i] + cost[i + 1]
  IN IF s = <<>> THEN s
     ELSE SubSeq(s, Min({Len(s)} \cup {i \in DOMAIN s : cost[i] <= budget}), Len(s))

-----------------------------------------------------------------------------
(* The canonical transcript.                                               *)

boundContent(m) ==
  IF m.body.size <= MsgCap THEN m
  ELSE [m EXCEPT !.body.size = MsgCap, !.body.cut = TRUE]

\* What is left when the calls at some positions go with their results.
Without(s, gone) == Picked(s, {i \in DOMAIN s : \A d \in gone : i \notin d..RunEnd(s, d)})

\* The oldest whole rounds go, as few as let the rest fit.
shedRoundsToBudget(s) ==
  LET calling == {i \in DOMAIN s : s[i].calls # <<>>}
      Oldest(n) == {d \in calling : Cardinality({c \in calling : c < d}) < n}
      enough    == {n \in 0..Cardinality(calling) : Total(Without(s, Oldest(n))) <= TotalCap}
  IN Without(s, Oldest(Min({Cardinality(calling)} \cup enough)))

\* A turn that used no tool has none, and one too large to scan neither.
buildTranscriptV1(s) ==
  IF Total(s) <= RawTurn /\ \E i \in DOMAIN s : IsTool(s[i]) \/ s[i].calls # <<>>
    THEN shedRoundsToBudget([i \in DOMAIN s |-> boundContent(s[i])])
    ELSE None

validTranscriptStructure(t) ==
  \A i \in DOMAIN t :
    /\ t[i].role \in {"user", "assistant", "tool"}
    /\ t[i].calls # <<>> => t[i].role = "assistant"
    /\ \A j \in DOMAIN t[i].calls : t[i].calls[j].id # 0

(* A call counts where its id is first declared; it is kept if the run of    *)
(* results right behind answers it and no call of that id has broken         *)
(* arguments, and its first result is kept with it.  An assistant message    *)
(* that is left with nothing goes.                                           *)
ProjectTranscript(t) ==
  LET Declares(i, id) ==
        /\ \E j \in DOMAIN t[i].calls : t[i].calls[j].id = id
        /\ \A k \in 1..(i - 1) : \A l \in DOMAIN t[k].calls : t[k].calls[l].id # id
      Answered(i, id) ==
        /\ Declares(i, id)
        /\ \E k \in (i + 1)..RunEnd(t, i) : t[k].id = id
        /\ \A k \in DOMAIN t : \A l \in DOMAIN t[k].calls :
             t[k].calls[l].id = id => t[k].calls[l].valid
      Calls(i) == Picked(t[i].calls, {j \in DOMAIN t[i].calls :
        /\ Answered(i, t[i].calls[j].id)
        /\ \A l \in 1..(j - 1) : t[i].calls[l].id # t[i].calls[j].id})
      Stays(i) ==
        IF IsTool(t[i])
          THEN \E d \in 1..(i - 1) :
                 /\ Answered(d, t[i].id)
                 /\ \A k \in (d + 1)..(i - 1) : IsTool(t[k]) => t[k].id # t[i].id
          ELSE t[i].role = "assistant" => t[i].body.name # "" \/ Calls(i) # <<>>
      kept == Ascending(t, {i \in DOMAIN t : Stays(i)})
  IN IF validTranscriptStructure(t)
       THEN [n \in DOMAIN kept |-> [t[kept[n]] EXCEPT !.calls = Calls(kept[n])]]
       ELSE None

-----------------------------------------------------------------------------
(* What is replayed to the model.                                          *)

(* conversationPairsFromMessages: a question and the first answer before the *)
(* next one; what answers no question is not replayed.                       *)
Pairs(s) ==
  LET asked == Ascending(s, {i \in DOMAIN s : s[i].role = "user"})
      Next_(n) == IF n = Len(asked) THEN Len(s) ELSE asked[n + 1] - 1
      Plain(n) == {k \in asked[n]..Next_(n) : IsPlain(s[k])}
  IN [n \in DOMAIN asked |->
        [user |-> s[asked[n]].body, turn |-> s[asked[n]].turn, detail |-> None,
         answer |-> IF Plain(n) = {} THEN Empty ELSE s[Min(Plain(n))].body]]

\* MUTANT: the records of turns that used no tool are passed over.
AttachToolWorkOnly(pairs, records) ==
  [i \in DOMAIN pairs |->
     LET Text_(p) == <<p.user.name, p.answer.name>>
         earlier  == Cardinality({j \in 1..(i - 1) : Text_(pairs[j]) = Text_(pairs[i])})
         same     == SelectSeq(records, LAMBDA r : Text_(r) = Text_(pairs[i]) /\ r.transcript # None)
     IN IF earlier < Len(same)
          THEN [pairs[i] EXCEPT !.detail = ProjectTranscript(same[earlier + 1].transcript)]
          ELSE pairs[i]]

\* recordedTurnKey, and the records of a text: each is consumed once, in order.
Key(p) == <<p.user.name, p.answer.name>>
attachRecordedTranscripts(pairs, records) ==
  [i \in DOMAIN pairs |->
     LET Alike(s) == {j \in DOMAIN s : Key(s[j]) = Key(pairs[i])}
         same == Picked(records, Alike(records))
         n    == Len(Picked(pairs, {j \in Alike(pairs) : j <= i}))
     IN IF n <= Len(same)
          THEN [pairs[i] EXCEPT !.detail = ProjectTranscript(same[n].transcript)]
          ELSE pairs[i]]

\* The transcript can stand for the pair: it has the whole question and the whole answer.
transcriptReplaysCompletePair(p) ==
  /\ p.detail # None
  /\ Head(p.detail).role = "user" /\ Head(p.detail).body = p.user
  /\ IF p.answer.name = "" THEN ~IsPlain(Last(p.detail))
     ELSE IsPlain(Last(p.detail)) /\ Last(p.detail).body = p.answer

PlainRunes(p)    == p.user.size + p.answer.size
RenderedRunes(p) == IF transcriptReplaysCompletePair(p) THEN Total(p.detail) ELSE PlainRunes(p)

(* The dialogue first, then the details that fit, from the newest; when the  *)
(* dialogue alone is too large, the newest whole exchanges.                  *)
budgetReplayedPairs(pairs) ==
  LET plain == FoldLeft(LAMBDA n, p : n + PlainRunes(p), 0, pairs)
      extra == [i \in DOMAIN pairs |-> RenderedRunes(pairs[i]) - PlainRunes(pairs[i])]
      spent[i \in 1..(Len(pairs) + 1)] ==
        IF i > Len(pairs) THEN plain
        ELSE IF spent[i + 1] + extra[i] <= Replay THEN spent[i + 1] + extra[i] ELSE spent[i + 1]
  IN IF plain > Replay
       THEN Newest(pairs, [i \in DOMAIN pairs |-> RenderedRunes(pairs[i])], Replay)
     ELSE [i \in DOMAIN pairs |->
             IF transcriptReplaysCompletePair(pairs[i]) /\ spent[i + 1] + extra[i] <= Replay
               THEN pairs[i] ELSE [pairs[i] EXCEPT !.detail = None]]

recentConversationPairs(s, records) ==
  budgetReplayedPairs(attachRecordedTranscripts(Pairs(s), records))

\* messagesFromAgentContext: the replayed exchanges, then the turn itself.
Replayed(p) ==
  IF transcriptReplaysCompletePair(p) THEN p.detail
  ELSE IF p.answer.name = "" THEN <<Question(p.user, p.turn)>>
  ELSE <<Question(p.user, p.turn), Answer(p.answer, p.turn)>>
messagesFromAgentContext(s, pairs) ==
  FlattenSeq([n \in DOMAIN pairs |-> Replayed(pairs[n])]) \o CurrentTurn(s)

\* MUTANT: the cut may fall between a call and its result.
TrimAnywhere(s) ==
  LET now   == currentTurnStart(s)
      Fits(from, cut) == Total(SubSeq(s, from, now)) + Total(SubSeq(s, cut, Len(s))) <= Request
      from  == Min({now} \cup {i \in 1..now : s[i].role = "user" /\ Fits(i, now + 1)})
      cut   == Min({Len(s) + 1} \cup {c \in (now + 1)..Len(s) : Fits(from, c)})
  IN IF Total(s) <= Request THEN s ELSE SubSeq(s, from, now) \o SubSeq(s, cut, Len(s))

(* The request is cut to its size: the oldest exchanges go, then the oldest  *)
(* tool groups of the turn, never its question.                              *)
trimAssembledRequest(s) ==
  LET now   == currentTurnStart(s)
      Fits(from, cut) == Total(SubSeq(s, from, now)) + Total(SubSeq(s, cut, Len(s))) <= Request
      from  == Min({now} \cup {i \in 1..now : s[i].role = "user" /\ Fits(i, now + 1)})
      cut   == Min({Len(s) + 1} \cup {c \in (now + 1)..Len(s) : ~IsTool(s[c]) /\ Fits(from, c)})
  IN IF Total(s) <= Request THEN s ELSE SubSeq(s, from, now) \o SubSeq(s, cut, Len(s))

\* Between turns the tools go, and the oldest messages beyond the raw budget.
trimHistory(s) ==
  LET plain == Picked(s, {i \in DOMAIN s : ~IsTool(s[i]) /\ s[i].calls = <<>>})
      fits  == {i \in DOMAIN plain : Total(SubSeq(plain, i, Len(plain))) <= 2 * Replay}
  IN IF fits = {} THEN plain ELSE SubSeq(plain, Min(fits), Len(plain))

-----------------------------------------------------------------------------
(* The records of ended turns.                                             *)

Record(user, answer, transcript) == [user |-> user, answer |-> answer, transcript |-> transcript]
RecordRunes(r) == PlainRunes(r) + Total(r.transcript)
recordTurns(records) ==
  Newest(records, [i \in DOMAIN records |-> RecordRunes(records[i])], 2 * Replay)

\* An unanswered turn is closed by an empty answer before it is recorded.
captureTurnTranscript(s, records, turn) ==
  LET closed == IF IsPlain(Last(s)) THEN s ELSE Append(s, Answer(Empty, turn))
      now    == CurrentTurn(closed)
      built  == buildTranscriptV1(now)
  IN [messages |-> closed, transcript |-> built,
      recent |-> recordTurns(Append(records, Record(Head(now).body, Last(now).body, built)))]

\* The answer that was not delivered leaves the history, and its record is made again.
MarkLastTurnInterrupted(e, turn) ==
  LET now  == CurrentTurn(e.messages)
      mine == /\ e.recent # <<>>
              /\ Last(e.recent).user = Head(now).body /\ Last(e.recent).answer = Last(now).body
  IN captureTurnTranscript(
       Append(IF IsPlain(Last(now)) THEN Front(e.messages) ELSE e.messages, Answer(Empty, turn)),
       IF mine THEN Front(e.recent) ELSE e.recent, turn)

-----------------------------------------------------------------------------
(* The rows, and the engine that is rebuilt from them.                     *)

Row(user) ==
  [user |-> user, status |-> "none", answer |-> Empty, transcript |-> None, undelivered |-> Empty]
historyMessageSourceRunes(r) ==
  r.user.size + RowCost
  + (IF r.status = "none" THEN 0 ELSE r.answer.size + Total(r.transcript) + RowCost)
loadRecentHistory(rs) ==
  Newest(rs, [i \in DOMAIN rs |-> historyMessageSourceRunes(rs[i])], 2 * Replay)

(* displayProjectedModelHistoryContent: a turn whose row holds what was      *)
(* displayed, a billing card or a support handoff, is known by its           *)
(* transcript, which also has what the model wrote.                          *)
DisplayProjected(t) ==
  \E i \in DOMAIN t : \/ t[i].kind = "billing" /\ ~t[i].body.cut
                      \/ \E j \in DOMAIN t[i].calls : t[i].calls[j].kind = "support"
Restored(r) ==
  LET t == ProjectTranscript(r.transcript)
      wrote == {i \in DOMAIN t : IsPlain(t[i])}
  IN IF r.status # "ok" THEN Empty
     ELSE IF ~DisplayProjected(t) THEN r.answer
     ELSE IF wrote = {} THEN Text("completion", 1) ELSE t[Max(wrote)].body

\* A transcript that cannot be understood is none.
transcriptFromRow(r) == IF validTranscriptStructure(r.transcript) THEN r.transcript ELSE None

\* (The records are made one by one; what one cuts the later ones would cut.)
RehydrateHistory(rs) ==
  LET loaded == loadRecentHistory(rs)
      First  == Len(rs) - Len(loaded)
  IN [messages |-> FlattenSeq([n \in DOMAIN loaded |->
        <<Question(loaded[n].user, First + n), Answer(Restored(loaded[n]), First + n)>>]),
      recent |-> recordTurns([n \in DOMAIN loaded |->
        Record(loaded[n].user, Restored(loaded[n]), transcriptFromRow(loaded[n]))])]

-----------------------------------------------------------------------------
(* The session.                                                            *)

Init ==
  /\ stage = "idle" /\ messages = <<>> /\ recent = <<>> /\ rows = <<>>
  /\ view = <<>> /\ script = [rounds |-> <<>>, answer |-> Empty, shown |-> FALSE]
  /\ faults = 0

\* The pool dropped the engine: the next request has one rebuilt from the rows.
Rebuild ==
  /\ stage = "idle"
  /\ messages' = RehydrateHistory(rows).messages /\ recent' = RehydrateHistory(rows).recent
  /\ UNCHANGED <<stage, rows, view, script, faults>>

\* beginTurn: what is remembered is compiled before the history is trimmed.
BeginTurn ==
  /\ stage = "idle" /\ Len(rows) < MaxTurns
  /\ \E u \in Users, w \in Scripts :
       /\ view' = recentConversationPairs(messages, recent)
       /\ messages' = Append(trimHistory(messages), Question(u, Len(rows) + 1))
       /\ rows' = Append(rows, Row(u)) /\ script' = w
  /\ stage' = "turn"
  /\ UNCHANGED <<recent, faults>>

\* A response with calls, and the result of each.
Round ==
  /\ stage = "turn" /\ script.rounds # <<>>
  /\ LET round == Head(script.rounds) IN
       messages' = messages
         \o <<Message("assistant", round.say, round.calls, 0, "plain", Len(rows))>>
         \o [j \in DOMAIN round.calls |->
               Message("tool", round.results[j], <<>>, round.calls[j].id, round.calls[j].kind, Len(rows))]
  /\ script' = [script EXCEPT !.rounds = Tail(@)]
  /\ UNCHANGED <<stage, recent, rows, view, faults>>

\* The row of the turn and then its transcript; either write may fail.
Persist(row, transcript) ==
  \/ /\ rows' = Append(Front(rows), [row EXCEPT !.transcript = transcript])
     /\ UNCHANGED faults
  \/ /\ faults < MaxFaults /\ faults' = faults + 1
     /\ rows' \in {rows, Append(Front(rows), row)}

Closed(e) ==
  /\ messages' = e.messages /\ recent' = e.recent
  /\ stage' = "idle" /\ view' = <<>>
  /\ script' = [rounds |-> <<>>, answer |-> Empty, shown |-> FALSE]

Answered == Append(messages, Answer(script.answer, Len(rows)))

\* What was displayed may not be what the model wrote.
Finish ==
  /\ stage = "turn" /\ script.rounds = <<>>
  /\ LET e == captureTurnTranscript(Answered, recent, Len(rows)) IN
       /\ Closed(e)
       /\ Persist([Last(rows) EXCEPT !.status = "ok",
                     !.answer = IF script.shown THEN Text("display", 1) ELSE script.answer],
                   e.transcript)

\* The turn ends in an error, or its connection ends: also after the answer was written.
Interrupt ==
  /\ stage = "turn"
  /\ \E s \in {messages} \cup (IF script.rounds = <<>> THEN {Answered} ELSE {}) :
       LET e == MarkLastTurnInterrupted(captureTurnTranscript(s, recent, Len(rows)), Len(rows)) IN
       /\ Closed(e)
       /\ Persist([Last(rows) EXCEPT !.status = "interrupted", !.answer = Text("aborted", 1),
                     !.undelivered = IF IsPlain(Last(s)) THEN Last(s).body ELSE Empty],
                   e.transcript)

\* Another release wrote the transcript of a row.
ForeignRow ==
  /\ stage = "idle" /\ faults < MaxFaults /\ faults' = faults + 1
  /\ \E i \in DOMAIN rows, t \in Foreign :
       rows[i].status # "none" /\ rows' = [rows EXCEPT ![i].transcript = t]
  /\ UNCHANGED <<stage, messages, recent, view, script>>

Next == Rebuild \/ BeginTurn \/ Round \/ Finish \/ Interrupt \/ ForeignRow

Spec == Init /\ [][Next]_vars

-----------------------------------------------------------------------------
(* Properties.                                                             *)

(* What the rows cost to read is within the source budget, with the answers  *)
(* that were written and not delivered: they were recorded first, in the     *)
(* record and in its transcript.                                             *)
RowsFit ==
  FoldLeft(LAMBDA n, r : n + historyMessageSourceRunes(r) + 2 * r.undelivered.size, 0, rows)
    <= 2 * Replay

\* The transcript of a turn whose display differs has kept what tells so.
DisplaysAreKnown ==
  \A i \in DOMAIN rows : rows[i].answer.name = "display"
                           => DisplayProjected(ProjectTranscript(rows[i].transcript))

(* As long as every write landed and the rows fit, the engine that stayed    *)
(* and one rebuilt now replay the same exchanges (direct_render_context.go   *)
(* :208), and no exchange shows the tool work of another.                    *)
MemoryIsSound ==
  stage = "idle" /\ faults = 0 /\ RowsFit /\ DisplaysAreKnown =>
    LET kept == recentConversationPairs(messages, recent)
        cold == RehydrateHistory(rows)
    IN /\ kept = recentConversationPairs(cold.messages, cold.recent)
       /\ \A n \in DOMAIN kept : \A i \in DOMAIN kept[n].detail :
            kept[n].detail[i].turn = kept[n].turn

\* Every call is answered right behind it, once, and every result answers one.
WellPaired(s) ==
  \A i \in DOMAIN s :
    /\ s[i].calls # <<>> =>
         /\ {s[i].calls[j].id : j \in DOMAIN s[i].calls} = {s[k].id : k \in (i + 1)..RunEnd(s, i)}
         /\ Len(s[i].calls) = RunEnd(s, i) - i
    /\ IsTool(s[i]) => \E k \in 1..(i - 1) : s[k].calls # <<>> /\ RunEnd(s, k) >= i

(* Whatever the rows hold and whatever had to be cut, a request is one the   *)
(* provider accepts: its calls and results are paired, its question is there *)
(* (canonical_transcript.go, prompt_assembly.go).                            *)
RequestIsLegal ==
  stage = "turn" =>
    LET sent == trimAssembledRequest(messagesFromAgentContext(messages, view)) IN
    /\ WellPaired(sent)
    /\ \E i \in DOMAIN sent : sent[i].role = "user" /\ sent[i].turn = Len(rows)

(* A mismatch of messages and records degrades to no transcript, never to    *)
(* one turn's tool results under another turn's answer                       *)
(* (direct_render_context.go:141).                                           *)
EvidenceIsOwn ==
  stage = "idle" => \A n \in DOMAIN recentConversationPairs(messages, recent) :
    LET p == recentConversationPairs(messages, recent)[n] IN
    \A i \in DOMAIN p.detail : p.detail[i].turn \in {0, p.turn}
=============================================================================
