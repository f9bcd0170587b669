---------------------------- MODULE KnowledgeTurn ----------------------------
(***************************************************************************)
(* What one agent learns from the knowledge service and what it may cite.  *)
(* A search returns excerpts and a capability, the id of the search, with  *)
(* which the bodies of the chunks it returned may be read: the strongest   *)
(* are read at once, the model asks for others.  Hits under the relevance  *)
(* floor are shown by title only and become evidence when their body is    *)
(* read.  Evidence belongs to the turn; what an answer cites of it is      *)
(* remembered with the session for a few turns, and a later answer may be  *)
(* checked against it.                                                     *)
(*                                                                         *)
(* The text of a chunk is a level (nothing, an excerpt, a part, the whole  *)
(* body) and its length a number; ranking is the service's.                *)
(***************************************************************************)
EXTENDS Integers, Sequences, FiniteSets, SequencesExt, Selections

CONSTANTS
  Chunks, Queries,
  Size,        \* the length of a body
  Budget,      \* maxReadChunkRunesPerCall
  MaxCalls,    \* maxSearchKnowledgeCallsPerTurn, maxReadChunkCallsPerTurn
  MaxIds,      \* maxReadChunkIDsPerCall, maxBelowFloorKnowledgeCandidates, the ledger of one search
  Window,      \* verifiedEvidenceMaxTurns
  MaxPrior,    \* verifiedEvidenceMaxItems
  Replies,     \* what a search may return: [hits, above, scale, empty]
  MaxTurns

Levels  == <<"none", "excerpt", "part", "body">>
Rank(t) == CHOOSE i \in 1..4 : Levels[i] = t
Better(t, u) == IF Rank(t) < Rank(u) THEN u ELSE t

VARIABLES
  turnNo, question,  \* the first query of the turn, which its answer is remembered under
  ledger, text,      \* searchKnowledgeLedgerThisTurn: its chunks in order, and what it holds of each
  capability,        \* searchKnowledgeCapabilitiesThisTurn: the search that may read a chunk, 0 for none
  complete,          \* readChunkIDsThisTurn
  tried,             \* automaticKnowledgeBodyIDsThisTurn
  searches, reads,   \* the settled calls of the turn
  replayable,        \* toolResultsByCallThisTurn: the chunks each reusable search shows
  memory, row,       \* VerifiedEvidence, here and as last persisted
  returned, shown    \* history: the chunks of each search, the text delivered of each chunk

vars == <<turnNo, question, ledger, text, capability, complete, tried, searches, reads,
          replayable, memory, row, returned, shown>>

\* What a search returns, and that the limits are numbers.
KnowledgeConstants ==
  /\ \A r \in Replies : r.hits \in Seq(Chunks) /\ r.above \subseteq Chunks /\ r.empty \in BOOLEAN
  /\ {MaxCalls, MaxIds, Window, MaxPrior, MaxTurns} \subseteq Nat

NoText == [c \in Chunks |-> "none"]

\* Every field of the turn starts empty.
Fresh ==
  /\ question' = "none" /\ ledger' = <<>> /\ text' = NoText
  /\ capability' = [c \in Chunks |-> 0]
  /\ complete' = {} /\ tried' = {}
  /\ searches' = 0 /\ reads' = 0 /\ replayable' = [q \in {} |-> {}]
  /\ returned' = [s \in 1..MaxCalls |-> {}] /\ shown' = NoText

Init ==
  /\ turnNo = 1 /\ question = "none" /\ ledger = <<>> /\ text = NoText
  /\ capability = [c \in Chunks |-> 0]
  /\ complete = {} /\ tried = {}
  /\ searches = 0 /\ reads = 0 /\ replayable = [q \in {} |-> {}]
  /\ memory = <<>> /\ row = <<>>
  /\ returned = [s \in 1..MaxCalls |-> {}] /\ shown = NoText

(* ------------------------------ one read ------------------------------- *)

\* A remote read of the chunks of one search: refused because the capability
\* expired, failed, or answered with some of them, some cut by the service.
Outcomes == {"invalid", "down", "answered"}
SearchesOf(ids, cap) == {cap[c] : c \in ids} \ {0}
Answering(ids, cap, out) == {c \in ids : out[cap[c]] = "answered"}

\* Expiry takes the capability from every chunk of the search, allows another
\* automatic attempt, and withdraws the replayable searches that show one.
Expired(cap, refused)  == {c \in Chunks : cap[c] \in refused}
Withdrawn(gone) ==
  [q \in {r \in DOMAIN replayable : replayable[r].shows \cap gone = {}} |-> replayable[q]]

\* A ledger keeps the first item of a chunk.
Grown(seq, items) == seq \o Among(items, Chunks \ ToSet(seq))

(* ----------------------------- searching ------------------------------- *)

\* Scores of a mode this build does not know, and of a fallback without the
\* reranker, are compared with no floor.
Judged(r) == r.scale \in {"bm25", "semantic"}

\* The verdict is on the first hit.
FloorDrops(r) == Judged(r) /\ r.hits # <<>> /\ r.hits[1] \notin r.above

\* An answer that calls itself empty carries no capability, whatever it holds.
SearchId(r) == IF r.empty THEN 0 ELSE searches + 1
Prefix(seq)   == SubSeq(seq, 1, IF Len(seq) < MaxIds THEN Len(seq) ELSE MaxIds)

\* A strong first hit does not make the others strong.
Strong(r) ==
  IF Judged(r) /\ ~FloorDrops(r) THEN Among(Prefix(r.hits), r.above) ELSE <<>>

\* Bodies fetched without being asked for: strong hits not yet read nor tried.
Automatic(r) == Prefix(Among(Strong(r), Chunks \ (complete \cup tried)))

\* The last search that returned a chunk is the one that may read it.
Capabilities(r, named) ==
  [c \in Chunks |-> IF SearchId(r) # 0 /\ c \in ToSet(named) THEN SearchId(r) ELSE capability[c]]

\* A search that failed in part is asked again rather than repeated.
Reusable(auto, held, out, batch) ==
  held = ToSet(auto) /\ (\A s \in DOMAIN out : out[s] = "answered") /\ batch.missed = {}

\* What the bodies before place i of an automatic batch leave of its budget.
BodyLeft(seq, came, i) ==
  FoldLeft(LAMBDA left, c : IF c \notin came THEN left ELSE IF Size[c] > left THEN 0 ELSE left - Size[c],
           Budget, SubSeq(seq, 1, i - 1))

\* An automatic batch ends where its budget does, and the last body is cut there.
TakeBodies(seq, came, cut) ==
  LET reached == {i \in DOMAIN seq : BodyLeft(seq, came, i) > 0}
      fit     == {i \in reached : Size[seq[i]] <= BodyLeft(seq, came, i)}
      got     == {seq[i] : i \in reached} \cap came
  IN [got |-> got, whole |-> (got \cap {seq[i] : i \in fit}) \ cut,
      missed |-> {seq[i] : i \in reached} \ came]

\* What the model is shown of a chunk in a search result.
Displayed(c, batch) ==
  IF c \in batch.whole THEN "body" ELSE IF c \in batch.got THEN "part" ELSE "excerpt"

\* A body that was read replaces the excerpt; otherwise the first text of a chunk stays.
Recorded(items, batch) ==
  [c \in Chunks |-> IF c \in batch.got THEN Displayed(c, batch)
                    ELSE IF c \in ToSet(items) /\ text[c] = "none" THEN "excerpt" ELSE text[c]]

SearchUnavailable(q) ==
  /\ q \notin DOMAIN replayable
  /\ UNCHANGED <<ledger, text, capability, complete, tried, replayable, returned, shown>>

SearchAnswered(q, r) ==
  LET items == IF FloorDrops(r) THEN <<>> ELSE Prefix(r.hits)
      named == IF FloorDrops(r) THEN Prefix(r.hits) ELSE items
      cap   == Capabilities(r, named)
      auto  == Automatic(r)
      held  == {c \in ToSet(auto) : cap[c] # 0}
  IN /\ q \notin DOMAIN replayable
     /\ \E out \in [SearchesOf(held, cap) -> Outcomes] :
        \E came \in SUBSET Answering(held, cap, out) : \E cut \in SUBSET came :
          LET refused == {s \in DOMAIN out : out[s] = "invalid"}
              gone    == Expired(cap, refused)
              batch   == TakeBodies(auto, came, cut)
          IN /\ capability' = [c \in Chunks |-> IF c \in gone THEN 0 ELSE cap[c]]
             /\ tried' = (tried \cup ToSet(auto)) \ gone
             /\ complete' = complete \cup batch.whole
             /\ ledger' = Grown(ledger, items)
             /\ text' = Recorded(items, batch)
             /\ shown' = [c \in Chunks |-> IF c \in ToSet(items)
                                             THEN Better(shown[c], Displayed(c, batch)) ELSE shown[c]]
             /\ replayable' =
                  IF ~Reusable(auto, held, out, batch) THEN Withdrawn(gone)
                  ELSE [p \in DOMAIN Withdrawn(gone) \cup {q} |->
                          IF p = q THEN [shows |-> ToSet(named), keyed |-> ~r.empty] ELSE replayable[p]]
     /\ returned' = [returned EXCEPT ![searches + 1] = IF r.empty THEN {} ELSE ToSet(named)]

\* executeSearchKnowledge, behind the reuse of an identical call.
SearchKnowledge(q) ==
  /\ turnNo < MaxTurns /\ searches < MaxCalls
  /\ searches' = searches + 1
  /\ question' = IF question = "none" /\ q \notin DOMAIN replayable THEN q ELSE question
  /\ \/ /\ q \in DOMAIN replayable
        /\ UNCHANGED <<ledger, text, capability, complete, tried, replayable, returned, shown>>
     \/ SearchUnavailable(q)
     \/ \E r \in Replies : SearchAnswered(q, r)
  /\ UNCHANGED <<turnNo, reads, memory, row>>

(* ------------------------------ reading -------------------------------- *)

\* What the bodies before place i of an explicit read leave of its budget: one
\* that does not fit takes nothing of it.
Repeated(c) == c \in complete
ReadLeft(seq, came, i) ==
  FoldLeft(LAMBDA left, c : IF (Repeated(c) \/ c \in came) /\ Size[c] <= left THEN left - Size[c] ELSE left,
           Budget, SubSeq(seq, 1, i - 1))

\* What does not fit is left whole for a later call.
Deliver(seq, came, cut) ==
  LET fit == {i \in DOMAIN seq : Size[seq[i]] <= ReadLeft(seq, came, i)}
      got == {c \in {seq[i] : i \in fit} \cap came : ~Repeated(c)}
  IN [got |-> got, whole |-> got \ cut]

\* The chunks a call names, each once.
Requests == {asked \in UNION {[1..n -> Chunks] : n \in 1..MaxIds} : IsInjective(asked)}

\* executeReadChunk: a chunk that is complete is shown again, the others are
\* read through the search that returned them.
ReadChunk(asked) ==
  LET ids  == Prefix(asked)
      held == {c \in ToSet(ids) : ~Repeated(c) /\ capability[c] # 0}
  IN /\ turnNo < MaxTurns /\ reads < MaxCalls /\ ids # <<>>
     /\ reads' = reads + 1
     /\ \E out \in [SearchesOf(held, capability) -> Outcomes] :
        \E came \in SUBSET Answering(held, capability, out) : \E cut \in SUBSET came :
          LET gone  == Expired(capability, {s \in DOMAIN out : out[s] = "invalid"})
              batch == Deliver(ids, came, cut)
              read  == Among(ids, batch.got)
          IN /\ capability' = [c \in Chunks |-> IF c \in gone THEN 0 ELSE capability[c]]
             /\ tried' = tried \ gone
             /\ replayable' = Withdrawn(gone)
             /\ complete' = complete \cup batch.whole
             /\ ledger' = Grown(ledger, read)
             /\ text' = Recorded(read, batch)
             /\ shown' = [c \in Chunks |-> IF c \in batch.got
                                             THEN Better(shown[c], Displayed(c, batch)) ELSE shown[c]]
     /\ UNCHANGED <<turnNo, question, searches, memory, row, returned>>

(* ----------------------------- answering ------------------------------- *)

First(seq, n) == SubSeq(seq, 1, IF Len(seq) < n THEN Len(seq) ELSE n)

Now == [i \in DOMAIN ledger |-> <<ledger[i], turnNo>>]

\* verifiedEvidenceLedgerForQuestion: the newest entries first.  An item of memory
\* is a chunk with the turn that retrieved it.
Prior ==
  First(FoldRight(LAMBDA e, acc :
                    acc \o SelectSeq(e.items, LAMBDA it : \A i \in DOMAIN acc : acc[i][1] # it[1]),
                  memory, <<>>), MaxPrior)

\* rememberVerifiedEvidence: one entry for a question, the newest entries of all.
Latest(seq) == SubSeq(seq, IF Len(seq) > Window THEN Len(seq) - Window + 1 ELSE 1, Len(seq))
Remember(items) ==
  IF items = <<>> THEN memory
  ELSE Latest(Append(Among(memory, {e \in ToSet(memory) : e.question # question}),
                     [question |-> question, items |-> items, at |-> turnNo]))

\* MUTANT: what the answer cites is remembered wherever it came from.
CitedEvidenceOfAnyTurn(cites) ==
  First(Among(Now \o Prior, {it \in ToSet(Now \o Prior) : it[1] \in cites}), MaxIds)

\* citedEvidence: of the evidence of this turn, what the answer cites.
CitedEvidence(cites) == First(Among(Now, {it \in ToSet(Now) : it[1] \in cites}), MaxIds)

\* finalizeAgentLoopKnowledgeAnswer: an answer is grounded when it cites something
\* known and nothing unknown (`forged`: a marker names no chunk).  Every answer is
\* delivered without its markers; only a grounded one is remembered, and never one
\* of a turn that used a platform read.
Known == {it[1] : it \in ToSet(Now) \cup ToSet(Prior)}
Grounded(cites, forged) == ~forged /\ cites # {} /\ cites \subseteq Known
Answered(cites, forged, platform) ==
  IF searches > 0 /\ Grounded(cites, forged) /\ ~platform
    THEN Remember(CitedEvidence(cites)) ELSE memory

\* SetSessionState with a row no newer than the engine: entries of the row that
\* are missing here are added after those that are here.
Merged(mine, theirs) ==
  LET all       == mine \o theirs
      same(i)   == {j \in DOMAIN all : all[j].question = all[i].question}
      first     == Ascending(all, {i \in DOMAIN all : \A j \in same(i) : i <= j})
      newest(i) == Max({j \in same(i) : all[j].at = Max({all[k].at : k \in same(i)})})
  IN Latest([n \in DOMAIN first |-> all[newest(first[n])]])

\* The turn ends with an answer, its state reaches the database or does not, and
\* the next turn starts on this engine or on another process.
EndTurn(answer) ==
  /\ turnNo < MaxTurns
  /\ turnNo' = turnNo + 1
  /\ Fresh
  /\ \E kept \in {answer, row} :
        /\ row' = kept
        /\ memory' \in {Merged(answer, kept), kept}

Next ==
  \/ \E q \in Queries : SearchKnowledge(q)
  \/ \E asked \in Requests : ReadChunk(asked)
  \/ \E answer \in {Answered(cites, forged, platform) :
                     cites \in SUBSET Chunks, forged \in BOOLEAN, platform \in BOOLEAN} :
        EndTurn(answer)

Spec == Init /\ [][Next]_vars

(* ----------------------------- properties ------------------------------ *)

\* What may be cited is what the model was shown: the evidence of a chunk is the
\* best text of it delivered this turn, and a chunk that is never read again,
\* but repeated from the evidence, was delivered whole.
EvidenceIsWhatWasShown ==
  /\ text = shown
  /\ \A c \in complete : shown[c] = "body"
  /\ ToSet(ledger) = {c \in Chunks : text[c] # "none"}

\* A body is read only with the last search that returned the chunk, this turn,
\* and an identical search is answered from the turn's record only while all the
\* chunks it names can be read: a model told to search again is not given the
\* answer that sent it there.
CapabilityIsCurrent ==
  /\ \A c \in Chunks : capability[c] # 0 =>
        /\ c \in returned[capability[c]]
        /\ \A s \in capability[c] + 1..MaxCalls : c \notin returned[s]
  /\ \A q \in DOMAIN replayable : replayable[q].keyed =>
        \A c \in replayable[q].shows : capability[c] # 0

\* A remembered chunk was retrieved in the very turn its entry is dated with: no
\* later answer gives it a new date, and its entry leaves with the window.
MemoryIsDated ==
  /\ \A i \in DOMAIN memory : \A it \in ToSet(memory[i].items) : it[2] = memory[i].at
  /\ Len(memory) <= Window

KnowledgeIsGrounded == EvidenceIsWhatWasShown /\ CapabilityIsCurrent /\ MemoryIsDated

TypeOK ==
  /\ turnNo \in 1..MaxTurns /\ question \in Queries \cup {"none"}
  /\ text \in [Chunks -> ToSet(Levels)] /\ shown \in [Chunks -> ToSet(Levels)]
  /\ capability \in [Chunks -> 0..MaxCalls] /\ complete \subseteq Chunks /\ tried \subseteq Chunks
  /\ searches \in 0..MaxCalls /\ reads \in 0..MaxCalls /\ DOMAIN replayable \subseteq Queries
  /\ ledger \in Seq(Chunks)

=============================================================================
