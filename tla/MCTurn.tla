-------------------------------- MODULE MCTurn --------------------------------
(***************************************************************************)
(* What a turn of the agent is made of, in parts that share nothing here:  *)
(* `part` is chosen at the start, the steps are those of that component,   *)
(* and the variables of the others keep their first value.  The module     *)
(* extends the turn itself, which is the part "agent".                     *)
(***************************************************************************)
EXTENDS AgentTurn, TLC

CONSTANTS KnownChunks, KnownQueries, KnownSize, ReadBudget, MaxSearches, MaxKnownIds,
          KnownWindow, MaxKnownPrior, KnownTurns, KnownReplies,
          HistoryNames, HistoryUsers, HistoryScripts, HistoryForeign, HistoryTurns, MaxHistoryFaults,
          MsgCap, TotalCap, RawTurn, Replay, Request, RowCost

(* What a search returns: nothing, both chunks above or partly above their   *)
(* floor, a weak one, an order no floor judges, an answer said to be empty.  *)
Found(hits, above, scale, empty) ==
  [hits |-> hits, above |-> above, scale |-> scale, empty |-> empty]
MCSize == <<2, 1>>
MCSearchReplies ==
  { Found(<<>>, {}, "bm25", TRUE), Found(<<1, 2>>, {1, 2}, "semantic", FALSE),
    Found(<<1, 2>>, {1}, "bm25", FALSE), Found(<<2>>, {}, "bm25", FALSE),
    Found(<<2, 1>>, {}, "rrf", FALSE), Found(<<1>>, {1}, "semantic", TRUE) }

(* The memory of a session: turns that use no tool, use one, have an answer  *)
(* too long for the rest of the budget, large results and a broken call, a   *)
(* result too large to scan, or a display that is not what the model wrote;  *)
(* transcripts with an unanswered call and one result twice, a result that   *)
(* does not follow its call, an unknown role.                                *)
Body(name, size) == [name |-> name, size |-> size, cut |-> FALSE]
Asks(id, valid, kind) == [id |-> id, valid |-> valid, kind |-> kind]
Round(say, asks, results) == [say |-> say, calls |-> asks, results |-> results]
Script(rounds, answer, shown) == [rounds |-> rounds, answer |-> answer, shown |-> shown]
Silent == Body("", 0)
Yes    == Body("yes", 1)
Result(size) == Body("result", size)
MCUsers == {Body("u", 1)}
MCScripts ==
  { Script(<<>>, Yes, FALSE),
    Script(<<Round(Silent, <<Asks(1, TRUE, "plain")>>, <<Result(1)>>)>>, Yes, FALSE),
    Script(<<Round(Silent, <<Asks(1, TRUE, "plain")>>, <<Result(1)>>)>>, Body("long", 6), FALSE),
    Script(<<Round(Yes, <<Asks(1, TRUE, "plain")>>, <<Result(6)>>),
             Round(Yes, <<Asks(1, FALSE, "plain"), Asks(2, TRUE, "plain")>>, <<Result(1), Result(6)>>)>>,
           Yes, FALSE),
    Script(<<Round(Silent, <<Asks(1, TRUE, "plain")>>, <<Result(40)>>)>>, Yes, FALSE),
    Script(<<Round(Yes, <<Asks(1, FALSE, "plain"), Asks(2, TRUE, "support")>>,
                   <<Result(1), Result(2)>>)>>, Yes, TRUE) }
Wrote(role, body, asks, id) ==
  [role |-> role, body |-> body, calls |-> asks, id |-> id, kind |-> "plain", turn |-> 0]
MCForeign ==
  { <<Wrote("user", Body("u", 1), <<>>, 0),
      Wrote("assistant", Silent, <<Asks(1, TRUE, "plain"), Asks(2, TRUE, "plain")>>, 0),
      Wrote("tool", Yes, <<>>, 1), Wrote("tool", Yes, <<>>, 1), Wrote("assistant", Yes, <<>>, 0)>>,
    <<Wrote("user", Body("u", 1), <<>>, 0), Wrote("tool", Yes, <<>>, 1),
      Wrote("assistant", Silent, <<Asks(1, TRUE, "plain")>>, 0), Wrote("assistant", Yes, <<>>, 0),
      Wrote("tool", Yes, <<>>, 1), Wrote("assistant", Yes, <<>>, 0)>>,
    <<Wrote("system", Yes, <<>>, 0)>> }

VARIABLES part,
  turnNo, question, ledger, text, capability, complete, tried, searches, reads,
  replayable, memory, row, returned, delivered,
  historyStage, messages, recent, rows, view, script, historyFaults

Knowledge == INSTANCE KnowledgeTurn WITH shown <- delivered,
              Chunks <- KnownChunks, Queries <- KnownQueries, Size <- KnownSize,
              Budget <- ReadBudget, MaxCalls <- MaxSearches, MaxIds <- MaxKnownIds,
              Window <- KnownWindow, MaxPrior <- MaxKnownPrior, MaxTurns <- KnownTurns,
              Replies <- KnownReplies
History  == INSTANCE CanonicalHistory WITH stage <- historyStage, faults <- historyFaults,
              Names <- HistoryNames, Users <- HistoryUsers, Scripts <- HistoryScripts, Foreign <- HistoryForeign,
              MaxTurns <- HistoryTurns, MaxFaults <- MaxHistoryFaults

knowledgeVars == <<turnNo, question, ledger, text, capability, complete, tried, searches,
                   reads, replayable, memory, row, returned, delivered>>
historyVars  == <<historyStage, messages, recent, rows, view, script, historyFaults>>
partVars     == <<knowledgeVars, historyVars>>

ASSUME TurnAssumption == Knowledge!KnowledgeConstants /\ History!HistoryConstants

\* The parts that are not chosen start in one of their initial states.
TurnInit ==
  /\ part \in {"agent", "knowledge", "history"}
  /\ Init /\ Knowledge!Init /\ History!Init

\* The steps of the chosen part, `theirs`, leave the variables of every other alone.
Step(p, mine, theirs) == part = p /\ mine /\ UNCHANGED <<part, theirs>>

TurnNext ==
  \/ Step("agent", Next, partVars)
  \/ Step("knowledge", Knowledge!Next, <<vars, historyVars>>)
  \/ Step("history", History!Next, <<vars, knowledgeVars>>)

TurnSpec == TurnInit /\ [][TurnNext]_<<part, vars, partVars>>

-----------------------------------------------------------------------------
(* The properties of the parts: see their modules.                         *)

\* A call is answered where it was made: in the turn, and in what later turns are sent.
ConversationIsLegal == TranscriptCloses /\ History!RequestIsLegal
KnowledgeIsGrounded == Knowledge!KnowledgeIsGrounded
MemoryIsSound       == History!MemoryIsSound
=============================================================================
