--------------------------- MODULE AgentTurn_proofs ---------------------------
(***************************************************************************)
(* Proofs about AgentTurn.  The inductive invariant says, beside the       *)
(* types, that every change the turn knows of is a recorded write or not a *)
(* write, that an observation is at least as new as every known change,    *)
(* that a batch is answered before anything else happens, and that the     *)
(* closing call is made only by a turn that has nothing to report.         *)
(***************************************************************************)
EXTENDS MCTurn, FiniteSetTheorems, FunctionTheorems, NaturalsInduction, WellFoundedInduction, TLAPS

Recorded == landed \cap changed \subseteq recorded
Current == \A k \in Keys : cache[k] # NoVersion => \A w \in changed : cache[k] >= w
Answered == pc \in {"top", "asking", "closing"} => queue = <<>>
NothingToTell == pc = "closing" => recorded = {} /\ ~report

InRound == pc \in {"asking", "calls"} => round < MaxRounds

Steps ==
    \/ Cancelled \/ RoundCancelled \/ OverBudget \/ RateLimited \/ Ask \/ Ceiling
    \/ ModelFails \/ (\E s \in BOOLEAN : Truncated(s)) \/ FirstAnswer \/ Answer \/ Closed

\* The tools a call can name.
LEMMA ToolNames ==
    ASSUME NEW c \in Calls
    PROVE  c.tool \in {x.tool : x \in Calls} /\ (c.tool = "read" => c.key \in Keys)
BY DEF Calls, Writes

\* A batch is a sequence of calls.
LEMMA BatchIsSequence ==
    ASSUME NEW b \in Batches
    PROVE  b \in Seq(Calls)
<1>1. PICK n \in 1..MaxBatch : b \in [1..n -> Calls]
  BY DEF Batches
<1>2. n \in Nat
  BY AgentTurnAssumption
<1> QED
  BY <1>1, <1>2

LEMMA TypeInit == Init => TypeOK
<1> SUFFICES ASSUME Init PROVE TypeOK
  OBVIOUS
<1>1. {alive, spent, draft, retrying, report, owned} \subseteq BOOLEAN
  BY Zenon DEF Init
<1>2. queue \in Seq(Calls) /\ cache \in [Keys -> Nat \cup {NoVersion}] /\ round \in 0..MaxRounds
  BY AgentTurnAssumption DEF Init
<1>3. /\ pc \in {"top", "asking", "answering", "calls", "closing", "done"}
      /\ closing \in {"none", "budget", "error", "ceiling"}
      /\ last \in {"user", "assistant", "tool"} /\ called = {}
      /\ reason \in Refusals \cup {"none", "final_answer", "deterministic_reply", "budget_recovery", "error"}
  BY DEF Init
<1>4. /\ recorded = {} /\ landed = {} /\ accepted = {} /\ changed = {} /\ told = {}
      /\ entered \in Nat /\ recoveries \in Nat /\ live \in Nat /\ runs \in Nat
  BY DEF Init
<1> QED
  BY <1>1, <1>2, <1>3, <1>4, Zenon DEF TypeOK

-----------------------------------------------------------------------------
(* What the ends of a turn leave.                                            *)

\* A reply ends the turn, and touches neither the facts nor what is to be reported.
LEMMA SaysStep ==
    ASSUME TypeOK, NEW r \in Refusals \cup {"final_answer", "deterministic_reply", "budget_recovery"},
           NEW t, t \subseteq Outcome, Says(r, t)
    PROVE  TypeOK'
<1>1. t \subseteq landed \cup {Report}
  BY DEF TypeOK, Outcome
<1> QED
  BY <1>1, Zenon DEF TypeOK, Says, model, transcript, facts, outcome, ending, Refusals

LEMMA FailsStep ==
    ASSUME TypeOK, Fails
    PROVE  TypeOK'
<1>1. CASE FinishCommitted
  BY <1>1, SaysStep DEF FinishCommitted
<1>2. CASE Says("deterministic_reply", {})
  BY <1>2, SaysStep
<1>3. CASE /\ pc' = "done" /\ reason' = "error"
           /\ UNCHANGED <<closing, alive, model, transcript, facts, outcome, told>>
  BY <1>3, Zenon DEF TypeOK, model, transcript, facts, outcome
<1> QED
  BY <1>1, <1>2, <1>3 DEF Fails

-----------------------------------------------------------------------------
(* The types are kept.                                                       *)

\* The round loop changes neither the facts nor what is to be reported.
LEMMA StepsKeepType ==
    ASSUME TypeOK, InRound, Steps
    PROVE  TypeOK'
<1>1. CASE Cancelled
  BY <1>1, Zenon DEF TypeOK, Cancelled, model, transcript, facts, outcome, ending
<1>2. CASE RoundCancelled
  BY <1>2, FailsStep DEF RoundCancelled
<1>3. ASSUME NEW why \in {"budget", "error", "ceiling"}, Close(why) PROVE TypeOK'
  BY <1>3, Zenon DEF TypeOK, Close, model, transcript, facts, outcome, ending
<1>4. FinishCommitted \/ FinishDraft => TypeOK'
  BY SaysStep DEF FinishCommitted, FinishDraft
<1>5. \A r \in Refusals \cup {"final_answer", "deterministic_reply", "budget_recovery"} :
        Says(r, {}) => TypeOK'
  BY SaysStep
<1>6. CASE OverBudget
  BY <1>6, <1>3, <1>4, <1>5 DEF OverBudget, Refusals
<1>7. CASE RateLimited
  BY <1>7, <1>4, <1>5 DEF RateLimited, Refusals
<1>8. CASE Ask
  BY <1>8, Zenon DEF TypeOK, Ask, model, transcript, facts, outcome, ending
<1>9. CASE Ceiling
  BY <1>9, <1>3, <1>4, <1>5 DEF Ceiling, Refusals
<1>10. CASE ModelFails
  BY <1>10, <1>3, <1>4, FailsStep DEF ModelFails
<1>11. pc = "asking" => round + 1 \in 0..MaxRounds
  BY AgentTurnAssumption DEF TypeOK, InRound
<1>12. ASSUME NEW s \in BOOLEAN, Truncated(s) PROVE TypeOK'
  <2>1. CASE /\ pc = "asking" /\ NextRound /\ spent' = s /\ recoveries' = recoveries + 1
             /\ UNCHANGED <<closing, alive, draft, retrying, transcript, facts, outcome, ending>>
    <3>1. recoveries' \in Nat
      BY <2>1 DEF TypeOK
    <3> QED
      BY <1>11, <2>1, <3>1, Zenon DEF TypeOK, NextRound, transcript, facts, outcome, ending
  <2> QED
    BY <1>12, <1>4, <1>5, <2>1 DEF Truncated, Refusals
<1>13. CASE FirstAnswer
  BY <1>11, <1>13, Zenon DEF TypeOK, FirstAnswer, NextRound, transcript, facts, outcome, ending
<1>14. CASE Answer
  BY <1>14, <1>5 DEF Answer
<1>15. CASE Closed
  BY <1>15, <1>5, FailsStep DEF Closed, Refusals
<1> QED
  BY <1>1, <1>2, <1>6, <1>7, <1>8, <1>9, <1>10, <1>12, <1>13, <1>14, <1>15 DEF Steps

\* What a tool call may change, beside the exchange itself.
FactsOK ==
    /\ report \in BOOLEAN /\ owned \in BOOLEAN
    /\ live \in Nat /\ runs \in Nat
    /\ cache \in [Keys -> Nat \cup {NoVersion}]
    /\ recorded \subseteq landed /\ landed \subseteq 1..live
    /\ accepted \subseteq landed /\ changed \subseteq 0..live

Answers == Observed \/ \E t \in SUBSET (landed' \cup {Report}) : Delivered(t)

LEMMA AnswersKeepType ==
    ASSUME TypeOK, FactsOK', landed \subseteq landed', Answers
    PROVE  TypeOK'
<1>1. CASE Observed
  <2>1. Tail(queue) \in Seq(Calls) /\ entered' \in Nat
    BY <1>1 DEF TypeOK, Observed
  <2> QED
    BY <1>1, <2>1, Zenon DEF TypeOK, FactsOK, Observed, model, ending
<1>2. ASSUME NEW t \in SUBSET (landed' \cup {Report}), Delivered(t) PROVE TypeOK'
  <2>1. <<>> \in Seq(Calls)
    OBVIOUS
  <2> QED
    BY <1>2, <2>1, Zenon DEF TypeOK, FactsOK, Delivered, model, ending
<1> QED
  BY <1>1, <1>2 DEF Answers

LEMMA FactsOfType == TypeOK => FactsOK
BY Zenon DEF TypeOK, FactsOK

LEMMA OutcomeIsReportable ==
    ASSUME FactsOK
    PROVE  Outcome \in SUBSET (landed \cup {Report})
BY DEF FactsOK, Outcome

LEMMA ForgettingIsTyped == Invalidated \in [Keys -> Nat \cup {NoVersion}]
BY DEF Invalidated

\* The calls that leave the account alone.
LEMMA QuietCallsKeepType ==
    ASSUME TypeOK, Read \/ Billing \/ Handoff \/ Other \/ NotAttempted
    PROVE  TypeOK'
<1> USE FactsOfType
<1>1. Outcome \in SUBSET (landed \cup {Report})
  BY OutcomeIsReportable
<1>2. CASE Read
  <2>1. cache' \in [Keys -> Nat \cup {NoVersion}]
    BY <1>2 DEF TypeOK, Read
  <2>2. FactsOK' /\ landed' = landed
    BY <1>2, <2>1, Zenon DEF FactsOK, Read, outcome
  <2> QED
    BY <1>2, <2>2, AnswersKeepType, Zenon DEF Answers, Read
<1>3. CASE Billing
  <2>1. FactsOK' /\ landed' = landed
    BY <1>3, Zenon DEF FactsOK, Billing, facts, outcome
  <2> QED
    BY <1>1, <1>3, <2>1, AnswersKeepType, Zenon DEF Answers, Billing
<1>4. CASE Handoff
  <2>1. FactsOK' /\ landed' = landed
    BY <1>4, Zenon DEF FactsOK, Handoff, facts, outcome
  <2> QED
    BY <1>1, <1>4, <2>1, AnswersKeepType, Zenon DEF Answers, Handoff
<1>5. CASE Other \/ NotAttempted
  <2>1. FactsOK' /\ landed' = landed
    BY <1>5, Zenon DEF FactsOK, Other, NotAttempted, facts, outcome
  <2> QED
    BY <1>1, <1>5, <2>1, AnswersKeepType, Zenon DEF Answers, Other, NotAttempted
<1> QED
  BY <1>2, <1>3, <1>4, <1>5

\* A new version of the account bounds what was bounded by the one before.
LEMMA NextVersion ==
    ASSUME FactsOK, live' = live + 1
    PROVE  /\ live' \in Nat /\ live' \in 1..live' /\ live' \notin landed /\ live' \notin changed
           /\ landed \subseteq 1..live' /\ changed \subseteq 0..live'
           /\ \A w \in landed \cup changed : w <= live
BY DEF FactsOK

LEMMA GuestKeepsType ==
    ASSUME TypeOK, Guest
    PROVE  TypeOK'
<1> USE FactsOfType
<1>1. ASSUME GuestRan
      PROVE  /\ FactsOK' /\ landed' = landed
             /\ recorded \cup (IF report' THEN {Report} ELSE {}) \in SUBSET (landed' \cup {Report})
  <2>1. live' \in Nat /\ landed \subseteq 1..live' /\ changed' \subseteq 0..live'
    BY <1>1, NextVersion DEF FactsOK, GuestRan
  <2>2. runs' \in Nat
    BY <1>1 DEF FactsOK, GuestRan
  <2>3. report' \in BOOLEAN /\ owned' \in BOOLEAN
    BY <1>1, Zenon DEF FactsOK, GuestRan
  <2>4. cache' \in [Keys -> Nat \cup {NoVersion}] /\ recorded' = recorded /\ landed' = landed
        /\ accepted' = accepted
    BY <1>1, ForgettingIsTyped DEF GuestRan
  <2>5. FactsOK'
    BY <2>1, <2>2, <2>3, <2>4, Zenon DEF FactsOK
  <2> QED
    BY <2>4, <2>5 DEF FactsOK
<1>2. CASE GuestRan /\ Observed
  BY <1>1, <1>2, AnswersKeepType, Zenon DEF Answers
<1>3. CASE GuestRan /\ Delivered(recorded \cup (IF report' THEN {Report} ELSE {}))
  BY <1>1, <1>3, AnswersKeepType, Zenon DEF Answers
<1>4. CASE Observed /\ UNCHANGED <<facts, outcome>>
  <2>1. FactsOK' /\ landed' = landed
    BY <1>4, Zenon DEF FactsOK, facts, outcome
  <2> QED
    BY <1>4, <2>1, AnswersKeepType, Zenon DEF Answers
<1> QED
  BY <1>2, <1>3, <1>4 DEF Guest

LEMMA WritesKeepType ==
    ASSUME TypeOK, WriteCommits \/ WriteFails \/ WriteUnverified
    PROVE  TypeOK'
<1> USE FactsOfType
<1>1. ASSUME NEW w \in 1..MaxLive, Lands(w)
      PROVE  /\ live' \in Nat /\ landed' \subseteq 1..live' /\ landed \subseteq landed' /\ w \in landed'
             /\ changed \subseteq 0..live' /\ w \in 0..live'
  BY <1>1, NextVersion DEF Lands
<1>2. ASSUME NEW w \in 1..MaxLive, Record(w), Observed \/ Delivered(recorded' \cup Outcome)
      PROVE  TypeOK'
  <2>1. recorded' \subseteq landed' /\ accepted' \subseteq landed' /\ changed' \subseteq 0..live'
    BY <1>1, <1>2 DEF FactsOK, Record
  <2>2. FactsOK' /\ landed \subseteq landed'
    BY <1>1, <1>2, <2>1, ForgettingIsTyped, Zenon DEF FactsOK, Record
  <2>3. recorded' \cup Outcome \in SUBSET (landed' \cup {Report})
    BY <2>2, OutcomeIsReportable DEF FactsOK
  <2> QED
    BY <1>2, <2>2, <2>3, AnswersKeepType, Zenon DEF Answers
<1>3. CASE WriteFails
  <2>1. live' \in Nat /\ landed' \subseteq 1..live' /\ landed \subseteq landed' /\ changed \subseteq 0..live'
    BY <1>1, <1>3 DEF WriteFails, FactsOK
  <2>2. cache' \in [Keys -> Nat \cup {NoVersion}]
    BY <1>3, ForgettingIsTyped DEF WriteFails, FactsOK
  <2>3. FactsOK'
    BY <1>3, <2>1, <2>2, Zenon DEF WriteFails, FactsOK, outcome
  <2>4. Outcome \in SUBSET (landed' \cup {Report})
    BY <2>1, OutcomeIsReportable
  <2>5. Observed \/ Delivered(Outcome)
    BY <1>3 DEF WriteFails
  <2> QED
    BY <2>1, <2>3, <2>4, <2>5, AnswersKeepType, Zenon DEF Answers
<1>4. CASE WriteUnverified
  <2>1. PICK w \in 1..MaxLive : Lands(w) /\ accepted' = accepted \cup {w}
    BY <1>4 DEF WriteUnverified
  <2>2. accepted' \subseteq landed'
    BY <1>1, <2>1 DEF FactsOK
  <2>3. FactsOK' /\ landed \subseteq landed'
    BY <1>1, <1>4, <2>1, <2>2, Zenon DEF WriteUnverified, FactsOK, outcome
  <2> QED
    BY <1>4, <2>3, AnswersKeepType, Zenon DEF WriteUnverified, Answers
<1> QED
  BY <1>2, <1>3, <1>4 DEF WriteCommits

LEMMA BatchesKeepType ==
    ASSUME TypeOK, InRound, BatchDone \/ \E b \in Batches, s \in BOOLEAN : AskTools(b, s)
    PROVE  TypeOK'
<1>1. CASE BatchDone
  <2>1. round + 1 \in 0..MaxRounds
    BY <1>1, AgentTurnAssumption DEF TypeOK, InRound, BatchDone
  <2> QED
    BY <1>1, <2>1, Zenon DEF TypeOK, BatchDone, NextRound, transcript, facts, outcome, ending
<1>2. ASSUME NEW b \in Batches, NEW s \in BOOLEAN, AskTools(b, s) PROVE TypeOK'
  <2>1. b \in Seq(Calls)
    BY BatchIsSequence
  <2>2. called' \subseteq {c.tool : c \in Calls}
    BY <1>2, <2>1 DEF TypeOK, AskTools
  <2> QED
    BY <1>2, <2>1, <2>2, Zenon DEF TypeOK, AskTools, facts, outcome, ending
<1> QED
  BY <1>1, <1>2

\* Every step keeps the types.
LEMMA TypeStep == TypeOK /\ InRound /\ [Next]_vars => TypeOK'
<1> SUFFICES ASSUME TypeOK, InRound, [Next]_vars PROVE TypeOK'
  OBVIOUS
<1>1. CASE Next
  BY <1>1, StepsKeepType, BatchesKeepType, QuietCallsKeepType, GuestKeepsType, WritesKeepType
     DEF Next, Steps
<1>2. CASE UNCHANGED vars
  BY <1>2, Zenon DEF TypeOK, vars, model, transcript, facts, outcome, ending
<1> QED
  BY <1>1, <1>2

-----------------------------------------------------------------------------
(* The round loop keeps the invariant.                                       *)

\* What the loop leaves alone.
LEMMA StepsKeepFacts ==
    ASSUME Steps
    PROVE  UNCHANGED <<facts, outcome>>
<1>1. ASSUME NEW r, NEW t, Says(r, t) PROVE UNCHANGED <<facts, outcome>>
  BY <1>1 DEF Says
<1>2. FinishCommitted \/ FinishDraft \/ Fails \/ (\E w : Close(w)) => UNCHANGED <<facts, outcome>>
  BY <1>1 DEF FinishCommitted, FinishDraft, Fails, Close
<1>3. Cancelled \/ Ask \/ FirstAnswer => UNCHANGED <<facts, outcome>>
  BY DEF Cancelled, Ask, FirstAnswer
<1>4. ASSUME NEW s, Truncated(s) PROVE UNCHANGED <<facts, outcome>>
  BY <1>1, <1>2, <1>4 DEF Truncated
<1>5. RoundCancelled \/ OverBudget \/ RateLimited \/ Ceiling => UNCHANGED <<facts, outcome>>
  BY <1>1, <1>2 DEF RoundCancelled, OverBudget, RateLimited, Ceiling
<1>6. ModelFails \/ Answer \/ Closed => UNCHANGED <<facts, outcome>>
  BY <1>1, <1>2 DEF ModelFails, Answer, Closed
<1> QED
  BY <1>3, <1>4, <1>5, <1>6 DEF Steps

\* Where a step of the loop leads.
LEMMA StepsLead ==
    ASSUME Steps, Answered, InRound
    PROVE  InRound' /\ Answered' /\ TranscriptCloses'
<1>1. ASSUME NEW r, NEW t, pc \in {"top", "asking", "closing"}, Says(r, t)
      PROVE  InRound' /\ Answered' /\ TranscriptCloses'
  BY <1>1 DEF Says, InRound, Answered, TranscriptCloses
<1>2. ASSUME NEW w, pc \in {"top", "asking"}, Close(w)
      PROVE  InRound' /\ Answered' /\ TranscriptCloses'
  BY <1>2 DEF Close, InRound, Answered, TranscriptCloses, transcript
<1>3. ASSUME pc \in {"top", "asking", "closing"}, Fails
      PROVE  InRound' /\ Answered' /\ TranscriptCloses'
  BY <1>1, <1>3 DEF Fails, FinishCommitted, InRound, Answered, TranscriptCloses
<1>4. CASE Cancelled
  BY <1>4 DEF Cancelled, InRound, Answered, TranscriptCloses, transcript, model
<1>5. CASE RoundCancelled
  BY <1>3, <1>5 DEF RoundCancelled
<1>6. CASE OverBudget \/ RateLimited \/ Ceiling
  BY <1>1, <1>2, <1>6 DEF OverBudget, RateLimited, Ceiling, FinishCommitted, FinishDraft
<1>7. CASE Ask \/ FirstAnswer
  BY <1>7 DEF Ask, FirstAnswer, NextRound, InRound, Answered, TranscriptCloses, transcript, model
<1>8. CASE ModelFails \/ Answer
  BY <1>1, <1>2, <1>3, <1>8 DEF ModelFails, Answer, FinishCommitted, FinishDraft
<1>9. ASSUME NEW s \in BOOLEAN, Truncated(s)
      PROVE  InRound' /\ Answered' /\ TranscriptCloses'
  <2>1. CASE NextRound /\ UNCHANGED transcript
    BY <1>9, <2>1 DEF Truncated, NextRound, InRound, Answered, TranscriptCloses, transcript
  <2> QED
    BY <1>1, <1>9, <2>1 DEF Truncated, FinishCommitted, FinishDraft
<1>10. CASE Closed
  BY <1>1, <1>3, <1>10 DEF Closed
<1> QED
  BY <1>4, <1>5, <1>6, <1>7, <1>8, <1>9, <1>10 DEF Steps

\* A reply that leaves nothing out: the outcome itself, or there was none.
LEMMA SaysTells ==
    ASSUME FactsOK, Recorded, NEW r, NEW t, Says(r, t), r # "error",
           t = Outcome \/ Outcome = {} \/ r \in {"final_answer", "budget_recovery"}
    PROVE  OutcomeIsTold' /\ NothingToTell'
BY DEF Says, Recorded, Outcome, OutcomeIsTold, NothingToTell, Ended, facts, outcome, Refusals, FactsOK

LEMMA StepsTell ==
    ASSUME TypeOK, Recorded, NothingToTell, Steps
    PROVE  OutcomeIsTold' /\ NothingToTell'
<1> USE FactsOfType
<1>1. FinishCommitted \/ FinishDraft => OutcomeIsTold' /\ NothingToTell'
  BY SaysTells DEF FinishCommitted, FinishDraft
<1>2. ASSUME NEW r \in Refusals \cup {"deterministic_reply"}, Outcome = {}, Says(r, {})
      PROVE  OutcomeIsTold' /\ NothingToTell'
  BY <1>2, SaysTells DEF Refusals
<1>3. Fails => OutcomeIsTold' /\ NothingToTell'
  <2>1. CASE Outcome = {} /\ ~owned /\ pc' = "done" /\ reason' = "error" /\ UNCHANGED <<facts, outcome, told>>
    BY <2>1 DEF Recorded, Outcome, OutcomeIsTold, NothingToTell, Ended, facts, outcome, FactsOK
  <2> QED
    BY <1>1, <1>2, <2>1 DEF Fails
<1>4. ASSUME NEW w, Outcome = {}, Close(w)
      PROVE  OutcomeIsTold' /\ NothingToTell'
  BY <1>4 DEF Close, OutcomeIsTold, NothingToTell, Ended, Outcome, outcome
<1>5. \A r \in {"final_answer", "budget_recovery"} : Says(r, {}) => OutcomeIsTold' /\ NothingToTell'
  BY SaysTells
<1>6. ASSUME pc' \notin {"done", "closing"} PROVE OutcomeIsTold' /\ NothingToTell'
  BY <1>6 DEF OutcomeIsTold, NothingToTell, Ended
<1>7. CASE Cancelled
  BY <1>7 DEF Cancelled, OutcomeIsTold, NothingToTell, Ended, outcome
<1>8. CASE RoundCancelled
  BY <1>3, <1>8 DEF RoundCancelled
<1>9. CASE OverBudget \/ RateLimited \/ Ceiling
  BY <1>1, <1>2, <1>4, <1>9 DEF OverBudget, RateLimited, Ceiling, CanClose, Refusals
<1>10. CASE Ask \/ FirstAnswer
  BY <1>6, <1>10 DEF Ask, FirstAnswer, NextRound
<1>11. CASE ModelFails \/ Answer
  BY <1>1, <1>3, <1>4, <1>5, <1>11 DEF ModelFails, Answer, CanClose
<1>12. ASSUME NEW s \in BOOLEAN, Truncated(s)
       PROVE  OutcomeIsTold' /\ NothingToTell'
  BY <1>1, <1>2, <1>6, <1>12 DEF Truncated, NextRound, Refusals
<1>13. CASE Closed
  <2>1. Outcome = {}
    BY <1>13 DEF Closed, NothingToTell, Outcome
  <2> QED
    BY <1>2, <1>3, <1>5, <1>13, <2>1 DEF Closed, Refusals
<1> QED
  BY <1>7, <1>8, <1>9, <1>10, <1>11, <1>12, <1>13 DEF Steps

\* An answer is in hand only in the round that was asked for because of it.
InHand ==
    draft => /\ retrying /\ pc \in {"top", "asking", "done"}
             /\ pc # "done" => round = 1

LEMMA StepsKeepDraft ==
    ASSUME TypeOK, InHand, Steps
    PROVE  InHand' /\ DraftIsNotLost'
<1>1. ASSUME NEW r, NEW t, Says(r, t), r \notin Refusals, r # "error" \/ ~alive
      PROVE  InHand' /\ DraftIsNotLost'
  BY <1>1 DEF Says, InHand, DraftIsNotLost, Ended, model
<1>2. FinishCommitted \/ FinishDraft => InHand' /\ DraftIsNotLost'
  BY <1>1 DEF FinishCommitted, FinishDraft, Refusals
<1>3. ASSUME NEW r, Says(r, {}), ~draft
      PROVE  InHand' /\ DraftIsNotLost'
  BY <1>3 DEF Says, InHand, DraftIsNotLost, Ended, model
<1>4. ASSUME Fails, ~draft \/ ~alive
      PROVE  InHand' /\ DraftIsNotLost'
  <2>1. CASE Says("deterministic_reply", {})
    BY <1>1, <2>1 DEF Refusals
  <2>2. CASE pc' = "done" /\ reason' = "error" /\ UNCHANGED <<alive, model>>
    BY <1>4, <2>2 DEF InHand, DraftIsNotLost, Ended, Refusals, model
  <2> QED
    BY <1>2, <1>4, <2>1, <2>2 DEF Fails
<1>5. ASSUME NEW w, Close(w), ~draft
      PROVE  InHand' /\ DraftIsNotLost'
  BY <1>5 DEF Close, InHand, DraftIsNotLost, Ended, model
<1>6. CASE Cancelled
  BY <1>6 DEF Cancelled, InHand, DraftIsNotLost, Ended, model
<1>7. CASE RoundCancelled
  BY <1>4, <1>7 DEF RoundCancelled
<1>8. CASE OverBudget \/ RateLimited
  BY <1>2, <1>3, <1>5, <1>8 DEF OverBudget, RateLimited, InHand
<1>9. CASE Ask
  BY <1>9 DEF Ask, InHand, DraftIsNotLost, Ended, model
<1>10. CASE Ceiling
  <2>1. ~draft
    BY <1>10, AgentTurnAssumption DEF Ceiling, InHand
  <2> QED
    BY <1>2, <1>3, <1>5, <1>10, <2>1 DEF Ceiling
<1>11. CASE ModelFails
  BY <1>2, <1>4, <1>5, <1>11 DEF ModelFails, InHand
<1>12. ASSUME NEW s \in BOOLEAN, Truncated(s)
       PROVE  InHand' /\ DraftIsNotLost'
  <2>1. CASE ~(retrying /\ draft) /\ NextRound /\ UNCHANGED draft
    BY <2>1 DEF NextRound, InHand, DraftIsNotLost, Ended
  <2>2. CASE ~(retrying /\ draft) /\ Says("output_truncated", {})
    BY <1>3, <2>2 DEF InHand
  <2> QED
    BY <1>2, <1>12, <2>1, <2>2 DEF Truncated
<1>13. CASE FirstAnswer
  BY <1>13 DEF FirstAnswer, NextRound, InHand, DraftIsNotLost, Ended
<1>14. CASE Answer
  BY <1>1, <1>14 DEF Answer, Refusals
<1>15. CASE Closed
  <2>1. ~draft
    BY <1>15 DEF Closed, InHand
  <2> QED
    BY <1>3, <1>4, <1>15, <2>1 DEF Closed
<1> QED
  BY <1>6, <1>7, <1>8, <1>9, <1>10, <1>11, <1>12, <1>13, <1>14, <1>15 DEF Steps

-----------------------------------------------------------------------------
(* The calls of a batch keep the invariant.                                  *)

\* An answered call goes on with the batch, a delivered one ends a complete exchange.
LEMMA AnswersLead ==
    ASSUME InRound, InHand, Observed \/ \E t : Delivered(t)
    PROVE  InRound' /\ Answered' /\ TranscriptCloses' /\ NothingToTell' /\ InHand' /\ DraftIsNotLost'
<1>1. CASE Observed
  BY <1>1 DEF Observed, InRound, Answered, TranscriptCloses, NothingToTell, InHand, DraftIsNotLost,
              Ended, model
<1>2. ASSUME NEW t, Delivered(t)
      PROVE  InRound' /\ Answered' /\ TranscriptCloses' /\ NothingToTell' /\ InHand' /\ DraftIsNotLost'
  BY <1>2 DEF Delivered, InRound, Answered, TranscriptCloses, NothingToTell, InHand, DraftIsNotLost,
              Ended, Refusals, model
<1> QED
  BY <1>1, <1>2

\* A delivery that leaves nothing out.
LEMMA AnswersTell ==
    ASSUME Recorded', NEW t, Observed \/ (Delivered(t) /\ Outcome' \subseteq t)
    PROVE  OutcomeIsTold'
<1>1. CASE Observed
  BY <1>1 DEF Observed, OutcomeIsTold, Ended
<1>2. CASE Delivered(t) /\ Outcome' \subseteq t
  BY <1>2 DEF Delivered, OutcomeIsTold, Ended, Recorded, Outcome
<1> QED
  BY <1>1, <1>2

Fresh == Recorded /\ Current /\ ReplaysAreCurrent

\* Nothing that was observed before survives a change the turn knows of.
LEMMA ForgettingIsFresh ==
    ASSUME cache' = Invalidated
    PROVE  Current'
BY DEF Current, Invalidated

LEMMA QuietCallsKeepFresh ==
    ASSUME TypeOK, Fresh, Read \/ UNCHANGED <<facts, recorded>>
    PROVE  Fresh'
<1> USE FactsOfType
<1>1. CASE UNCHANGED <<facts, recorded>>
  BY <1>1 DEF Fresh, Recorded, Current, ReplaysAreCurrent, facts
<1>2. CASE Read
  <2> DEFINE k == Head(queue).key
  <2>1. Recorded' /\ changed' = changed /\ landed' = landed
    BY <1>2 DEF Read, Fresh, Recorded, outcome
  <2>2. CASE cache[k] # NoVersion
    <3>1. cache' = cache /\ replayed' = replayed \cup {[at |-> cache[k], landed |-> landed, changed |-> changed]}
      BY <1>2, <2>2 DEF Read
    <3>2. Current'
      BY <2>1, <3>1 DEF Fresh, Current
    <3>3. k \in Keys
      <4>1. Head(queue) \in Calls /\ Head(queue).tool = "read"
        BY <1>2 DEF Read, Calling, TypeOK
      <4> QED
        BY <4>1, ToolNames
    <3> QED
      BY <2>1, <2>2, <3>1, <3>2, <3>3 DEF Fresh, Current, ReplaysAreCurrent
  <2>3. CASE ~(cache[k] # NoVersion)
    <3>1. cache' = [cache EXCEPT ![k] = live] /\ replayed' = replayed
      BY <1>2, <2>3 DEF Read
    <3>2. \A w \in changed : live >= w
      BY DEF FactsOK
    <3>3. Current'
      BY <2>1, <3>1, <3>2 DEF Fresh, Current, FactsOK
    <3> QED
      BY <2>1, <3>1, <3>3 DEF Fresh, ReplaysAreCurrent
  <2> QED
    BY <2>2, <2>3
<1> QED
  BY <1>1, <1>2

\* A guest run or a write that the turn knows of forgets what was observed.
LEMMA GuestKeepsFresh ==
    ASSUME TypeOK, Fresh, GuestRan
    PROVE  Fresh'
<1> USE FactsOfType
<1>1. Current'
  BY ForgettingIsFresh DEF GuestRan
<1>2. Recorded'
  BY NextVersion DEF GuestRan, Fresh, Recorded
<1>3. ReplaysAreCurrent'
  BY DEF GuestRan, Fresh, ReplaysAreCurrent
<1> QED
  BY <1>1, <1>2, <1>3 DEF Fresh

LEMMA CommitsKeepFresh ==
    ASSUME TypeOK, Fresh, NEW w, Record(w)
    PROVE  Fresh'
<1>1. Current'
  BY ForgettingIsFresh DEF Record
<1>2. Recorded'
  BY DEF Record, Lands, Fresh, Recorded
<1>3. ReplaysAreCurrent'
  BY DEF Record, Fresh, ReplaysAreCurrent
<1> QED
  BY <1>1, <1>2, <1>3 DEF Fresh

\* An attempt that failed may have landed, but it is not a change the turn knows of.
LEMMA FailuresKeepFresh ==
    ASSUME TypeOK, Fresh, WriteFails \/ WriteUnverified
    PROVE  Fresh'
<1> USE FactsOfType
<1>1. changed' = changed /\ replayed' = replayed /\ recorded' = recorded
  BY DEF WriteFails, WriteUnverified, outcome
<1>2. landed' = landed \/ \E w \in 1..MaxLive : Lands(w)
  BY DEF WriteFails, WriteUnverified
<1>3. Recorded'
  BY <1>1, <1>2, NextVersion DEF Lands, Fresh, Recorded
<1>4. cache' = cache \/ cache' = Invalidated
  BY DEF WriteFails, WriteUnverified
<1>5. Current'
  BY <1>1, <1>4, ForgettingIsFresh DEF Fresh, Current
<1> QED
  BY <1>1, <1>3, <1>5 DEF Fresh, ReplaysAreCurrent

Call == Read \/ Billing \/ Handoff \/ Other \/ Guest
        \/ NotAttempted \/ WriteCommits \/ WriteFails \/ WriteUnverified

LEMMA CallsKeepFresh ==
    ASSUME TypeOK, Fresh, Call
    PROVE  Fresh'
<1>1. CASE Read \/ Billing \/ Handoff \/ Other \/ NotAttempted
  BY <1>1, QuietCallsKeepFresh DEF Billing, Handoff, Other, NotAttempted, outcome
<1>2. CASE Guest
  BY <1>2, GuestKeepsFresh, QuietCallsKeepFresh DEF Guest, outcome
<1>3. CASE WriteCommits \/ WriteFails \/ WriteUnverified
  BY <1>3, CommitsKeepFresh, FailuresKeepFresh DEF WriteCommits
<1> QED
  BY <1>1, <1>2, <1>3 DEF Call

LEMMA CallsTell ==
    ASSUME TypeOK, Fresh', Call
    PROVE  OutcomeIsTold' /\ (Observed \/ \E t : Delivered(t))
<1>1. Recorded'
  BY DEF Fresh
<1>2. CASE Read \/ WriteUnverified
  BY <1>1, <1>2, AnswersTell DEF Read, WriteUnverified
<1>3. CASE Billing \/ Handoff \/ Other \/ NotAttempted
  <2>1. Observed \/ (Delivered(Outcome) /\ Outcome' = Outcome)
    <3>1. CASE Billing
      <4>1. Observed \/ (Delivered(Outcome) /\ UNCHANGED outcome)
        BY <3>1, Zenon DEF Billing
      <4> QED
        BY <4>1 DEF Outcome, outcome
    <3>2. CASE Handoff
      BY <3>2, Zenon DEF Handoff, Outcome, outcome
    <3>3. CASE Other \/ NotAttempted
      BY <3>3 DEF Other, NotAttempted, Outcome, outcome
    <3> QED
      BY <1>3, <3>1, <3>2, <3>3
  <2> QED
    BY <1>1, <2>1, AnswersTell
<1>4. CASE Guest
  <2> DEFINE t == recorded \cup (IF report' THEN {Report} ELSE {})
  <2>1. Observed \/ (Delivered(t) /\ Outcome' = t)
    BY <1>4 DEF Guest, GuestRan, Outcome
  <2> QED
    BY <1>1, <2>1, AnswersTell
<1>5. CASE WriteCommits
  <2>1. Observed \/ (Delivered(recorded' \cup Outcome) /\ report' = report)
    BY <1>5 DEF WriteCommits, Record
  <2> QED
    BY <1>1, <2>1, AnswersTell DEF Outcome
<1>6. CASE WriteFails
  <2>1. Observed \/ (Delivered(Outcome) /\ Outcome' = Outcome)
    BY <1>6 DEF WriteFails, Outcome, outcome
  <2> QED
    BY <1>1, <2>1, AnswersTell
<1> QED
  BY <1>2, <1>3, <1>4, <1>5, <1>6 DEF Call

-----------------------------------------------------------------------------
(* The invariant and the theorems.                                           *)

Inv ==
    /\ TypeOK /\ InRound /\ Fresh /\ Answered /\ NothingToTell
    /\ InHand /\ TranscriptCloses /\ OutcomeIsTold /\ DraftIsNotLost

LEMMA InvInit == Init => Inv
<1> SUFFICES ASSUME Init PROVE Inv
  OBVIOUS
<1>1. InRound /\ Answered /\ NothingToTell /\ TranscriptCloses /\ OutcomeIsTold
  BY AgentTurnAssumption DEF Init, InRound, Answered, NothingToTell, TranscriptCloses, OutcomeIsTold, Ended
<1>3. InHand /\ DraftIsNotLost
  BY DEF Init, InHand, DraftIsNotLost, Ended
<1>2. Fresh
  BY DEF Init, Fresh, Recorded, Current, ReplaysAreCurrent
<1> QED
  BY <1>1, <1>2, <1>3, TypeInit DEF Inv

LEMMA InvStep == Inv /\ [Next]_vars => Inv'
<1> SUFFICES ASSUME Inv, [Next]_vars PROVE Inv'
  OBVIOUS
<1> USE DEF Inv
<1>1. TypeOK'
  BY TypeStep
<1>2. CASE Steps
  <2>1. Fresh'
    BY <1>2, StepsKeepFacts, QuietCallsKeepFresh DEF outcome
  <2> QED
    BY <1>1, <1>2, <2>1, StepsLead, StepsTell, StepsKeepDraft DEF Fresh
<1>3. CASE Call
  BY <1>1, <1>3, CallsKeepFresh, CallsTell, AnswersLead
<1>4. CASE BatchDone \/ \E b \in Batches, s \in BOOLEAN : AskTools(b, s)
  <2>1. Fresh'
    BY <1>4, QuietCallsKeepFresh DEF BatchDone, AskTools, outcome
  <2>2. InRound' /\ Answered' /\ NothingToTell' /\ TranscriptCloses' /\ OutcomeIsTold'
    BY <1>4 DEF BatchDone, AskTools, NextRound, InRound, Answered, NothingToTell, TranscriptCloses,
                OutcomeIsTold, Ended, transcript
  <2>3. InHand' /\ DraftIsNotLost'
    <3>1. draft' = FALSE /\ pc' # "done"
      BY <1>4 DEF BatchDone, AskTools, NextRound, InHand, TypeOK
    <3> QED
      BY <3>1, Zenon DEF InHand, DraftIsNotLost, Ended
  <2> QED
    BY <1>1, <2>1, <2>2, <2>3
<1>5. CASE UNCHANGED vars
  <2>1. Fresh'
    BY <1>5, QuietCallsKeepFresh DEF vars, outcome
  <2>2. InRound' /\ Answered' /\ NothingToTell' /\ TranscriptCloses' /\ OutcomeIsTold'
    BY <1>5 DEF vars, InRound, Answered, NothingToTell, TranscriptCloses, OutcomeIsTold, Ended,
                model, transcript, facts, outcome, ending
  <2>3. InHand' /\ DraftIsNotLost'
    BY <1>5 DEF vars, InHand, DraftIsNotLost, Ended, model, ending
  <2> QED
    BY <1>1, <2>1, <2>2, <2>3
<1> QED
  BY <1>2, <1>3, <1>4, <1>5 DEF Next, Steps, Call

\* Every variable of the turn stays in its type, in every run of the loop.
THEOREM TypeCorrect == Spec => []TypeOK
BY InvInit, InvStep, PTL DEF Spec, Inv

\* A turn that ends in the engine's own words reports every write it recorded and the report of its
\* in-instance run, and does not fail over them.
THEOREM OutcomeTold == Spec => []OutcomeIsTold
BY InvInit, InvStep, PTL DEF Spec, Inv

\* No observation is replayed across a recorded write or an in-instance run.
THEOREM ReplaysCurrent == Spec => []ReplaysAreCurrent
BY InvInit, InvStep, PTL DEF Spec, Inv, Fresh

\* A turn that ends with a reply leaves a transcript in which every call is answered.
THEOREM TranscriptClosed == Spec => []TranscriptCloses
BY InvInit, InvStep, PTL DEF Spec, Inv

\* An answer in hand is not turned into a refusal, nor into an error while somebody waits for it.
THEOREM DraftNotLost == Spec => []DraftIsNotLost
BY InvInit, InvStep, PTL DEF Spec, Inv

-----------------------------------------------------------------------------
(* What an agent knows, for any chunks, queries, replies and limits.  Beside *)
(* its types the invariant says that what is shown of a chunk is what the    *)
(* ledger holds of it and that a chunk is complete exactly when its body was *)
(* shown whole (KnownShown), that a search to come has returned nothing      *)
(* (KnownAhead), and that capabilities are current (KnownCurrent).           *)

\* A set of numbers that is not empty has a least one.
LEMMA KnownLeast ==
    ASSUME NEW S \in SUBSET Nat, S # {}
    PROVE  \E m \in S : \A k \in S : m <= k
<1> DEFINE R == {ss \in Nat \X Nat : ss[1] < ss[2]}
<1>1. IsWellFoundedOn(R, Nat)
  BY NatLessThanWellFounded DEF OpToRel
<1>2. PICK m \in S : \A k \in S : ~(<<k, m>> \in R)
  <2> HIDE DEF R
  <2> QED
    BY <1>1, WFMin
<1>3. \A k \in S : ~(k < m)
  BY <1>2
<1> QED
  BY <1>3

\* Of finitely many facts in a row the first and each that follows from the one
\* before it hold.
LEMMA KnownInRow ==
    ASSUME NEW n \in Nat, NEW Holds \in SUBSET Nat, 0 \in Holds,
           \A i \in 1..n : i - 1 \in Holds => i \in Holds
    PROVE  0..n \subseteq Holds
<1> SUFFICES ASSUME (0..n) \ Holds # {} PROVE FALSE
  OBVIOUS
<1> DEFINE rest == (0..n) \ Holds
<1>0. rest \in SUBSET Nat /\ rest # {}
  OBVIOUS
<1> HIDE DEF rest
<1>1. PICK m \in rest : \A k \in rest : m <= k
  BY <1>0, KnownLeast
<1> USE DEF rest
<1>2. m # 0 /\ m \in 1..n
  OBVIOUS
<1>3. m - 1 \in Holds
  BY <1>1, <1>2
<1> QED
  BY <1>2, <1>3

\* The selection, one place after the other.
KnownKept(f, s, S, n) ==
  f = [i \in 0..n |-> IF i = 0 THEN <<>>
                      ELSE IF s[i] \in S THEN Append(f[i - 1], s[i]) ELSE f[i - 1]]

\* The recursion by which a selection is defined has a solution.
LEMMA KnownKeptExists ==
    ASSUME NEW s, NEW S, NEW n \in Nat
    PROVE  \E f : KnownKept(f, s, S, n)
<1> DEFINE H == {m \in Nat : \E f : KnownKept(f, s, S, m)}
<1>1. 0 \in H
  <2>1. KnownKept([i \in 0..0 |-> <<>>], s, S, 0)
    BY DEF KnownKept
  <2> QED
    BY <2>1
<1>2. ASSUME NEW m \in 1..n, m - 1 \in H PROVE m \in H
  <2>1. PICK f : KnownKept(f, s, S, m - 1)
    BY <1>2
  <2> DEFINE g == [i \in 0..m |-> IF i = m THEN IF s[m] \in S THEN Append(f[m - 1], s[m]) ELSE f[m - 1]
                                  ELSE f[i]]
  <2>2. \A i \in 0..m : i # m => g[i] = f[i]
    OBVIOUS
  <2>3. \A i \in 1..m : g[i - 1] = f[i - 1]
    OBVIOUS
  <2>4. \A i \in 0..(m - 1) : f[i] = IF i = 0 THEN <<>> ELSE IF s[i] \in S THEN Append(f[i - 1], s[i]) ELSE f[i - 1]
    BY <2>1 DEF KnownKept
  <2>5. g[m] = IF s[m] \in S THEN Append(f[m - 1], s[m]) ELSE f[m - 1]
    OBVIOUS
  <2>6. DOMAIN g = 0..m /\ g = [i \in 0..m |-> g[i]]
    OBVIOUS
  <2> HIDE DEF g
  <2>7. \A i \in 0..m : g[i] = IF i = 0 THEN <<>> ELSE IF s[i] \in S THEN Append(g[i - 1], s[i]) ELSE g[i - 1]
    <3> TAKE i \in 0..m
    <3>1. CASE i = m
      BY <3>1, <2>5, <2>3
    <3>2. CASE i # m
      BY <3>2, <2>2, <2>3, <2>4
    <3> QED
      BY <3>1, <3>2
  <2>8. KnownKept(g, s, S, m)
    BY <2>6, <2>7 DEF KnownKept
  <2> QED
    BY <2>8
<1> HIDE DEF H
<1>3. 0..n \subseteq H
  BY <1>1, <1>2, KnownInRow DEF H
<1> QED
  BY <1>3 DEF H

\* The members of a sequence that grows by one.
LEMMA KnownAppended ==
    ASSUME NEW A, NEW s \in Seq(A), NEW e \in A
    PROVE  Knowledge!ToSet(Append(s, e)) = Knowledge!ToSet(s) \cup {e}
<1> DEFINE t == Append(s, e)
<1>1. DOMAIN t = 1..(Len(s) + 1) /\ DOMAIN s = 1..Len(s) /\ Len(s) \in Nat
  OBVIOUS
<1>2. \A i \in DOMAIN s : t[i] = s[i]
  OBVIOUS
<1>3. t[Len(s) + 1] = e
  OBVIOUS
<1> HIDE DEF t
<1>4. Knowledge!ToSet(t) = Knowledge!ToSet(s) \cup {e}
  BY <1>1, <1>2, <1>3 DEF Knowledge!ToSet
<1> QED
  BY <1>4 DEF t

\* The members of a selection are those of the sequence that are in the set.
LEMMA KnownAmong ==
    ASSUME NEW A, NEW s \in Seq(A), NEW S
    PROVE  /\ Knowledge!Among(s, S) \in Seq(A)
           /\ Knowledge!ToSet(Knowledge!Among(s, S)) = Knowledge!ToSet(s) \cap S
<1> DEFINE f == CHOOSE f : KnownKept(f, s, S, Len(s))
<1>1. KnownKept(f, s, S, Len(s))
  BY KnownKeptExists
<1>2. Knowledge!Among(s, S) = f[Len(s)]
  BY DEF Knowledge!Among, KnownKept
<1> HIDE DEF f
<1> DEFINE ok(n) == f[n] \in Seq(A) /\ Knowledge!ToSet(f[n]) = {s[j] : j \in 1..n} \cap S
           H     == {n \in 0..Len(s) : ok(n)}
<1>3. 0 \in H
  <2>1. f[0] = <<>> /\ f[0] \in Seq(A)
    BY <1>1 DEF KnownKept
  <2>2. Knowledge!ToSet(<<>>) = {}
    BY DEF Knowledge!ToSet
  <2>3. {s[j] : j \in 1..0} = {}
    OBVIOUS
  <2>4. f[0] \in Seq(A) /\ Knowledge!ToSet(f[0]) = {s[j] : j \in 1..0} \cap S
    BY <2>1, <2>2, <2>3
  <2>5. 0 \in 0..Len(s)
    OBVIOUS
  <2> QED
    BY <2>4, <2>5
<1>4. ASSUME NEW n \in 1..Len(s), n - 1 \in H PROVE n \in H
  <2>0. n \in 0..Len(s) /\ n # 0
    OBVIOUS
  <2>1. f[n] = IF s[n] \in S THEN Append(f[n - 1], s[n]) ELSE f[n - 1]
    BY <1>1, <2>0 DEF KnownKept
  <2>2. f[n - 1] \in Seq(A) /\ Knowledge!ToSet(f[n - 1]) = {s[j] : j \in 1..(n - 1)} \cap S
    BY <1>4
  <2>3. {s[j] : j \in 1..n} = {s[j] : j \in 1..(n - 1)} \cup {s[n]}
    OBVIOUS
  <2>4. s[n] \in A
    OBVIOUS
  <2>5. CASE s[n] \in S
    <3>1. Append(f[n - 1], s[n]) \in Seq(A)
      BY <2>2, <2>4
    <3>2. Knowledge!ToSet(Append(f[n - 1], s[n])) = Knowledge!ToSet(f[n - 1]) \cup {s[n]}
      BY <2>2, <2>4, KnownAppended
    <3>3. f[n] = Append(f[n - 1], s[n])
      BY <2>1, <2>5
    <3>4. Knowledge!ToSet(f[n]) = {s[j] : j \in 1..n} \cap S
      BY <2>2, <2>3, <2>5, <3>2, <3>3
    <3> QED
      BY <2>0, <3>1, <3>3, <3>4
  <2>6. CASE s[n] \notin S
    BY <2>1, <2>2, <2>3, <2>6
  <2> QED
    BY <2>5, <2>6
<1>5. Len(s) \in Nat /\ H \in SUBSET Nat
  OBVIOUS
<1> HIDE DEF H
<1>6. 0..Len(s) \subseteq H
  BY <1>3, <1>4, <1>5, KnownInRow
<1>7. Len(s) \in H
  BY <1>5, <1>6
<1>8. {s[j] : j \in 1..Len(s)} = Knowledge!ToSet(s)
  BY DEF Knowledge!ToSet
<1> QED
  BY <1>2, <1>7, <1>8 DEF H

\* A bounded set of numbers has a greatest one.
LEMMA KnownGreatest ==
    ASSUME NEW n \in Nat, NEW S \in SUBSET (0..n), S # {}
    PROVE  Knowledge!Max(S) \in S
<1> DEFINE T == {n - i : i \in S}
<1>0. \A i \in S : n - i \in Nat
  OBVIOUS
<1>e. PICK e \in S : TRUE
  OBVIOUS
<1>1. T \in SUBSET Nat /\ n - e \in T
  BY <1>0
<1> HIDE DEF T
<1>2. PICK m \in T : \A k \in T : m <= k
  BY <1>1, KnownLeast
<1> USE DEF T
<1>3. PICK i \in S : m = n - i
  OBVIOUS
<1>4. \A j \in S : n - j \in T
  OBVIOUS
<1>5. \A j \in S : m <= n - j
  BY <1>2, <1>4
<1>6. \A j \in S : i >= j
  BY <1>3, <1>5
<1> QED
  BY <1>6 DEF Knowledge!Max

\* A part of a sequence has members of the sequence only, and so have those below.
LEMMA KnownCut ==
    ASSUME NEW A, NEW s \in Seq(A), NEW a \in Nat \ {0}, NEW b \in 0..Len(s)
    PROVE  /\ SubSeq(s, a, b) \in Seq(A)
           /\ Knowledge!ToSet(SubSeq(s, a, b)) \subseteq Knowledge!ToSet(s)
           /\ Len(SubSeq(s, a, b)) = IF a <= b THEN b - a + 1 ELSE 0
<1> DEFINE t == SubSeq(s, a, b)
<1>1. Len(s) \in Nat /\ b \in Nat
  OBVIOUS
<1>2. t \in Seq(A) /\ Len(t) = IF a <= b THEN b - a + 1 ELSE 0
  BY <1>1
<1>3. \A i \in DOMAIN t : t[i] = s[a + i - 1] /\ a + i - 1 \in DOMAIN s
  BY <1>1
<1> HIDE DEF t
<1>4. Knowledge!ToSet(t) \subseteq Knowledge!ToSet(s)
  BY <1>3 DEF Knowledge!ToSet
<1> QED
  BY <1>2, <1>4 DEF t

LEMMA KnownFirst ==
    ASSUME NEW A, NEW s \in Seq(A), NEW n \in Nat
    PROVE  /\ Knowledge!First(s, n) \in Seq(A)
           /\ Knowledge!ToSet(Knowledge!First(s, n)) \subseteq Knowledge!ToSet(s)
<1> DEFINE b == IF Len(s) < n THEN Len(s) ELSE n
<1>1. b \in 0..Len(s) /\ 1 \in Nat \ {0}
  OBVIOUS
<1> QED
  BY <1>1, KnownCut DEF Knowledge!First

LEMMA KnownPrefix ==
    ASSUME NEW A, NEW s \in Seq(A), MaxKnownIds \in Nat
    PROVE  /\ Knowledge!Prefix(s) \in Seq(A)
           /\ Knowledge!ToSet(Knowledge!Prefix(s)) \subseteq Knowledge!ToSet(s)
<1> DEFINE b == IF Len(s) < MaxKnownIds THEN Len(s) ELSE MaxKnownIds
<1>1. b \in 0..Len(s) /\ 1 \in Nat \ {0}
  OBVIOUS
<1> QED
  BY <1>1, KnownCut DEF Knowledge!Prefix

\* What is kept of a memory fits the window.
LEMMA KnownLatest ==
    ASSUME NEW A, NEW s \in Seq(A), KnownWindow \in Nat
    PROVE  /\ Knowledge!Latest(s) \in Seq(A)
           /\ Len(Knowledge!Latest(s)) <= KnownWindow
<1> DEFINE a == IF Len(s) > KnownWindow THEN Len(s) - KnownWindow + 1 ELSE 1
<1>0. Len(s) \in Nat
  OBVIOUS
<1>1. a \in Nat \ {0} /\ Len(s) \in 0..Len(s)
  BY <1>0
<1>2. (IF a <= Len(s) THEN Len(s) - a + 1 ELSE 0) <= KnownWindow
  BY <1>0
<1>3. Knowledge!Latest(s) = SubSeq(s, a, Len(s))
  BY DEF Knowledge!Latest
<1> HIDE DEF a
<1> QED
  BY <1>1, <1>2, <1>3, KnownCut

KnownLevels == {"none", "excerpt", "part", "body"}

\* Of two texts of a chunk the longer one is the better.
LEMMA KnownBetter ==
    /\ \A u \in KnownLevels : Knowledge!Better("none", u) = u
    /\ \A t \in {"none", "excerpt", "part"}, u \in {"part", "body"} : Knowledge!Better(t, u) = u
    /\ \A t \in {"excerpt", "part", "body"} : Knowledge!Better(t, "excerpt") = t
<1>1. /\ Knowledge!Rank("none") = 1 /\ Knowledge!Rank("excerpt") = 2
      /\ Knowledge!Rank("part") = 3 /\ Knowledge!Rank("body") = 4
  <2>1. Knowledge!Rank("none") = 1
    BY DEF Knowledge!Rank, Knowledge!Levels
  <2>2. Knowledge!Rank("excerpt") = 2
    BY DEF Knowledge!Rank, Knowledge!Levels
  <2>3. Knowledge!Rank("part") = 3
    BY DEF Knowledge!Rank, Knowledge!Levels
  <2>4. Knowledge!Rank("body") = 4
    BY DEF Knowledge!Rank, Knowledge!Levels
  <2> QED
    BY <2>1, <2>2, <2>3, <2>4
<1>2. \A t, u : Knowledge!Better(t, u) = IF Knowledge!Rank(t) < Knowledge!Rank(u) THEN u ELSE t
  BY DEF Knowledge!Better
<1> QED
  BY <1>1, <1>2 DEF KnownLevels

\* What is asked, and an entry of the memory: of the turn it is dated with.
KnownItems   == KnownChunks \X Nat
KnownEntries ==
  {e \in [question : KnownQueries \cup {"none"}, items : Seq(KnownItems), at : Nat] :
     \A it \in Knowledge!ToSet(e.items) : it[2] = e.at}
KnownMemories == {m \in Seq(KnownEntries) : Len(m) <= KnownWindow}

KnownTyped ==
  /\ turnNo \in Nat /\ question \in KnownQueries \cup {"none"}
  /\ searches \in 0..MaxSearches
  /\ text \in [KnownChunks -> KnownLevels]
  /\ capability \in [KnownChunks -> 0..searches]
  /\ complete \subseteq KnownChunks
  /\ ledger \in Seq(KnownChunks)
  /\ returned \in [1..MaxSearches -> SUBSET KnownChunks]
  /\ \A q \in DOMAIN replayable : q \in KnownQueries /\ replayable[q].shows \subseteq KnownChunks
  /\ memory \in KnownMemories /\ row \in KnownMemories

\* A whole body is read once, and what has any text is in the ledger.
KnownShown ==
  /\ delivered = text
  /\ complete = {c \in KnownChunks : text[c] = "body"}
  /\ Knowledge!ToSet(ledger) = {c \in KnownChunks : text[c] # "none"}

\* Searches to come have returned nothing.
KnownAhead == \A s \in searches + 1..MaxSearches : returned[s] = {}

KnownCurrent == Knowledge!CapabilityIsCurrent

KnownInv == KnownTyped /\ KnownShown /\ KnownAhead /\ KnownCurrent

\* The invariant implies the property.
LEMMA KnownGrounds ==
    ASSUME KnownInv
    PROVE  Knowledge!KnowledgeIsGrounded
<1>1. Knowledge!EvidenceIsWhatWasShown
  BY DEF KnownInv, KnownTyped, KnownShown, Knowledge!EvidenceIsWhatWasShown
<1>2. Knowledge!MemoryIsDated
  <2>1. memory \in Seq(KnownEntries) /\ Len(memory) <= KnownWindow
    BY DEF KnownInv, KnownTyped, KnownMemories
  <2>2. \A i \in DOMAIN memory : memory[i] \in KnownEntries
    BY <2>1
  <2> QED
    BY <2>1, <2>2 DEF KnownEntries, Knowledge!MemoryIsDated
<1> QED
  BY <1>1, <1>2 DEF KnownInv, KnownCurrent, Knowledge!KnowledgeIsGrounded

\* A turn that starts knows nothing.
LEMMA KnownFresh ==
    ASSUME Knowledge!KnowledgeConstants, Knowledge!Fresh, turnNo' \in Nat,
           memory' \in KnownMemories, row' \in KnownMemories
    PROVE  KnownInv'
<1>1. /\ question' = "none" /\ ledger' = <<>> /\ text' = [c \in KnownChunks |-> "none"]
      /\ capability' = [c \in KnownChunks |-> 0] /\ complete' = {} /\ searches' = 0
      /\ replayable' = [q \in {} |-> {}] /\ returned' = [s \in 1..MaxSearches |-> {}]
      /\ delivered' = text' /\ MaxSearches \in Nat
  BY DEF Knowledge!Fresh, Knowledge!NoText, Knowledge!KnowledgeConstants
<1>2. Knowledge!ToSet(<<>>) = {}
  BY DEF Knowledge!ToSet
<1>3. KnownTyped'
  BY <1>1 DEF KnownTyped, KnownLevels
<1>4. KnownShown'
  BY <1>1, <1>2 DEF KnownShown
<1>5. KnownAhead' /\ KnownCurrent'
  BY <1>1 DEF KnownAhead, KnownCurrent, Knowledge!CapabilityIsCurrent
<1> QED
  BY <1>3, <1>4, <1>5 DEF KnownInv

LEMMA KnownStarts ==
    ASSUME Knowledge!KnowledgeConstants, Knowledge!Init
    PROVE  KnownInv
<1>1. /\ question = "none" /\ ledger = <<>> /\ text = [c \in KnownChunks |-> "none"]
      /\ capability = [c \in KnownChunks |-> 0] /\ complete = {} /\ searches = 0
      /\ replayable = [q \in {} |-> {}] /\ returned = [s \in 1..MaxSearches |-> {}]
      /\ delivered = text /\ MaxSearches \in Nat /\ KnownWindow \in Nat
      /\ turnNo = 1 /\ memory = <<>> /\ row = <<>>
  BY DEF Knowledge!Init, Knowledge!NoText, Knowledge!KnowledgeConstants
<1>2. Knowledge!ToSet(<<>>) = {}
  BY DEF Knowledge!ToSet
<1>3. <<>> \in KnownMemories
  BY <1>1 DEF KnownMemories
<1>4. KnownTyped
  BY <1>1, <1>3 DEF KnownTyped, KnownLevels
<1>5. KnownShown
  BY <1>1, <1>2 DEF KnownShown
<1>6. KnownAhead /\ KnownCurrent
  BY <1>1 DEF KnownAhead, KnownCurrent, Knowledge!CapabilityIsCurrent
<1> QED
  BY <1>4, <1>5, <1>6 DEF KnownInv

\* What is remembered of an answer was retrieved in its turn.
LEMMA KnownRemembers ==
    ASSUME Knowledge!KnowledgeConstants, KnownTyped, NEW cites, NEW forged, NEW platform
    PROVE  Knowledge!Answered(cites, forged, platform) \in KnownMemories
<1> DEFINE now   == Knowledge!Now
           cited == Knowledge!CitedEvidence(cites)
           mine  == {e \in Knowledge!ToSet(memory) : e.question # question}
           kept  == Knowledge!Among(memory, mine)
           entry == [question |-> question, items |-> cited, at |-> turnNo]
<1>1. KnownWindow \in Nat /\ MaxKnownIds \in Nat
  BY DEF Knowledge!KnowledgeConstants
<1>2. memory \in KnownMemories /\ memory \in Seq(KnownEntries)
  BY DEF KnownTyped, KnownMemories
<1>3. now \in Seq(KnownChunks \X {turnNo})
  <2>1. ledger \in Seq(KnownChunks)
    BY DEF KnownTyped
  <2> QED
    BY <2>1 DEF Knowledge!Now
<1>4. cited \in Seq(KnownChunks \X {turnNo})
  <2> DEFINE S == {it \in Knowledge!ToSet(now) : it[1] \in cites}
  <2>1. Knowledge!Among(now, S) \in Seq(KnownChunks \X {turnNo})
    <3> HIDE DEF now, S
    <3> QED
      BY <1>3, KnownAmong
  <2> HIDE DEF now
  <2>2. Knowledge!First(Knowledge!Among(now, S), MaxKnownIds) \in Seq(KnownChunks \X {turnNo})
    <3> HIDE DEF S
    <3> QED
      BY <1>1, <2>1, KnownFirst
  <2> QED
    BY <2>2 DEF Knowledge!CitedEvidence, now
<1>5. kept \in Seq(KnownEntries)
  <2> HIDE DEF mine
  <2> QED
    BY <1>2, KnownAmong
<1>6. entry \in KnownEntries
  <2>0. turnNo \in Nat /\ question \in KnownQueries \cup {"none"}
    BY DEF KnownTyped
  <2> HIDE DEF cited
  <2>1. cited \in Seq(KnownItems)
    BY <1>4, <2>0 DEF KnownItems
  <2>2. \A it \in Knowledge!ToSet(cited) : it[2] = turnNo
    BY <1>4 DEF Knowledge!ToSet
  <2> QED
    BY <2>0, <2>1, <2>2 DEF KnownEntries
<1> HIDE DEF kept, entry
<1>7. Append(kept, entry) \in Seq(KnownEntries)
  BY <1>5, <1>6
<1>8. Knowledge!Latest(Append(kept, entry)) \in KnownMemories
  <2>1. /\ Knowledge!Latest(Append(kept, entry)) \in Seq(KnownEntries)
        /\ Len(Knowledge!Latest(Append(kept, entry))) <= KnownWindow
    BY <1>1, <1>7, KnownLatest
  <2> QED
    BY <2>1 DEF KnownMemories
<1>9. Knowledge!Remember(cited) \in {memory, Knowledge!Latest(Append(kept, entry))}
  <2> HIDE DEF cited
  <2> QED
    BY DEF Knowledge!Remember, kept, mine, entry
<1> HIDE DEF cited
<1>10. Knowledge!Answered(cites, forged, platform) \in {memory, Knowledge!Remember(Knowledge!CitedEvidence(cites))}
  BY DEF Knowledge!Answered
<1> QED
  BY <1>2, <1>8, <1>9, <1>10 DEF cited

\* Finitely many numbers have a bound.
LEMMA KnownBounded ==
    ASSUME NEW n \in Nat, NEW v \in [1..n -> Nat]
    PROVE  \E b \in Nat : \A k \in 1..n : v[k] <= b
<1> DEFINE upTo(m) == \E b \in Nat : \A k \in 1..n : k <= m => v[k] <= b
           H == {m \in Nat : upTo(m)}
<1>1. upTo(0)
  OBVIOUS
<1>2. ASSUME NEW m \in 1..n, upTo(m - 1) PROVE upTo(m)
  <2>1. PICK b \in Nat : \A k \in 1..n : k <= m - 1 => v[k] <= b
    BY <1>2
  <2>2. v[m] \in Nat
    OBVIOUS
  <2> DEFINE c == IF v[m] <= b THEN b ELSE v[m]
  <2>3. c \in Nat /\ b <= c /\ v[m] <= c
    BY <2>2
  <2> HIDE DEF c
  <2>4. ASSUME NEW k \in 1..n, k <= m PROVE v[k] <= c
    <3>1. v[k] \in Nat
      OBVIOUS
    <3>2. CASE k = m
      BY <2>3, <3>2
    <3>3. CASE k # m
      BY <2>1, <2>3, <2>4, <3>1, <3>3
    <3> QED
      BY <3>2, <3>3
  <2> QED
    BY <2>3, <2>4
<1> HIDE DEF upTo
<1>3. 0 \in H /\ H \in SUBSET Nat
  BY <1>1
<1>4. \A m \in 1..n : m - 1 \in H => m \in H
  BY <1>2
<1> HIDE DEF H
<1>5. 0..n \subseteq H
  BY <1>3, <1>4, KnownInRow
<1>6. n \in H
  BY <1>5
<1>7. upTo(n)
  BY <1>6 DEF H
<1> QED
  BY <1>7 DEF upTo

\* Merging brings in nothing but entries of either side.
LEMMA KnownMerges ==
    ASSUME Knowledge!KnowledgeConstants, NEW mine \in KnownMemories, NEW theirs \in KnownMemories
    PROVE  Knowledge!Merged(mine, theirs) \in KnownMemories
<1> DEFINE all       == mine \o theirs
           same(i)   == {j \in DOMAIN all : all[j].question = all[i].question}
           places    == [i \in DOMAIN all |-> i]
           opening   == {i \in DOMAIN all : \A j \in same(i) : i <= j}
           first     == Knowledge!Among(places, opening)
           dates(i)  == {all[k].at : k \in same(i)}
           latest(i) == {j \in same(i) : all[j].at = Knowledge!Max(dates(i))}
           newest(i) == Knowledge!Max(latest(i))
           merged    == [n \in DOMAIN first |-> all[newest(first[n])]]
<1>1. KnownWindow \in Nat
  BY DEF Knowledge!KnowledgeConstants
<1>2. all \in Seq(KnownEntries)
  BY DEF KnownMemories
<1>3. Knowledge!Merged(mine, theirs) = Knowledge!Latest(merged)
  BY DEF Knowledge!Merged, Knowledge!Ascending
<1> HIDE DEF all
<1>4. DOMAIN all = 1..Len(all) /\ Len(all) \in Nat
  BY <1>2
<1>5. \A i \in DOMAIN all : all[i] \in KnownEntries /\ all[i].at \in Nat
  BY <1>2, <1>4 DEF KnownEntries
<1>6. first \in Seq(DOMAIN all)
  <2>1. places \in Seq(DOMAIN all)
    BY <1>4
  <2> HIDE DEF places, opening
  <2> QED
    BY <2>1, KnownAmong
<1>7. ASSUME NEW i \in DOMAIN all PROVE newest(i) \in DOMAIN all
  <2>1. i \in same(i) /\ same(i) \subseteq DOMAIN all
    OBVIOUS
  <2> HIDE DEF same
  <2>2. Knowledge!Max(dates(i)) \in dates(i)
    <3>1. \E n \in Nat : \A k \in same(i) : all[k].at <= n
      <4> DEFINE v == [k \in 1..Len(all) |-> all[k].at]
      <4>1. v \in [1..Len(all) -> Nat]
        BY <1>4, <1>5
      <4>2. \A k \in 1..Len(all) : v[k] = all[k].at
        OBVIOUS
      <4> HIDE DEF v
      <4>3. PICK n \in Nat : \A k \in 1..Len(all) : v[k] <= n
        BY <1>4, <4>1, KnownBounded
      <4> QED
        BY <1>4, <2>1, <4>2, <4>3
    <3>2. PICK n \in Nat : \A k \in same(i) : all[k].at <= n
      BY <3>1
    <3>3. dates(i) \in SUBSET (0..n) /\ all[i].at \in dates(i)
      BY <1>5, <2>1, <3>2
    <3> HIDE DEF dates
    <3> QED
      BY <3>3, KnownGreatest
  <2>3. PICK k \in same(i) : all[k].at = Knowledge!Max(dates(i))
    BY <2>2
  <2>4. latest(i) \in SUBSET (0..Len(all)) /\ k \in latest(i)
    BY <1>4, <2>1, <2>3
  <2>5. newest(i) \in latest(i)
    <3> HIDE DEF latest
    <3> QED
      BY <1>4, <2>4, KnownGreatest
  <2> QED
    BY <2>1, <2>5
<1>8. merged \in Seq(KnownEntries)
  <2>1. \A n \in DOMAIN first : first[n] \in DOMAIN all
    BY <1>6
  <2> HIDE DEF newest, first
  <2>2. \A n \in DOMAIN first : merged[n] \in KnownEntries
    BY <2>1, <1>5, <1>7
  <2>3. DOMAIN first = 1..Len(first) /\ Len(first) \in Nat
    BY <1>6
  <2> QED
    BY <2>2, <2>3
<1> HIDE DEF merged
<1> QED
  BY <1>1, <1>3, <1>8, KnownLatest DEF KnownMemories

\* The next turn starts with nothing retrieved and a memory of dated entries.
LEMMA KnownEnds ==
    ASSUME Knowledge!KnowledgeConstants, KnownInv, NEW answer \in KnownMemories, Knowledge!EndTurn(answer)
    PROVE  KnownInv'
<1>1. row \in KnownMemories /\ turnNo \in Nat
  BY DEF KnownInv, KnownTyped
<1>2. PICK kept \in {answer, row} : row' = kept /\ memory' \in {Knowledge!Merged(answer, kept), kept}
  BY DEF Knowledge!EndTurn
<1>3. kept \in KnownMemories
  BY <1>1
<1>4. memory' \in KnownMemories /\ row' \in KnownMemories
  BY <1>2, <1>3, KnownMerges
<1>5. Knowledge!Fresh /\ turnNo' \in Nat
  BY <1>1 DEF Knowledge!EndTurn
<1> QED
  BY <1>4, <1>5, KnownFresh

\* A batch reads bodies of its sequence that came, an explicit one none that is complete.
LEMMA KnownTakes ==
    ASSUME NEW seq, NEW came, NEW cut
    PROVE  /\ Knowledge!TakeBodies(seq, came, cut).got \subseteq Knowledge!ToSet(seq) \cap came
           /\ Knowledge!TakeBodies(seq, came, cut).whole \subseteq Knowledge!TakeBodies(seq, came, cut).got
BY DEF Knowledge!TakeBodies, Knowledge!ToSet

LEMMA KnownDelivers ==
    ASSUME NEW seq, NEW came, NEW cut
    PROVE  /\ Knowledge!Deliver(seq, came, cut).got \subseteq (Knowledge!ToSet(seq) \cap came) \ complete
           /\ Knowledge!Deliver(seq, came, cut).whole \subseteq Knowledge!Deliver(seq, came, cut).got
BY DEF Knowledge!Deliver, Knowledge!Repeated, Knowledge!ToSet

\* A ledger grows by the items it lacks.
LEMMA KnownGrows ==
    ASSUME NEW s \in Seq(KnownChunks), NEW items \in Seq(KnownChunks)
    PROVE  /\ Knowledge!Grown(s, items) \in Seq(KnownChunks)
           /\ Knowledge!ToSet(Knowledge!Grown(s, items)) = Knowledge!ToSet(s) \cup Knowledge!ToSet(items)
<1> DEFINE new == Knowledge!Among(items, KnownChunks \ Knowledge!ToSet(s))
<1>1. new \in Seq(KnownChunks) /\ Knowledge!ToSet(new) = Knowledge!ToSet(items) \ Knowledge!ToSet(s)
  <2>1. /\ new \in Seq(KnownChunks)
        /\ Knowledge!ToSet(new) = Knowledge!ToSet(items) \cap (KnownChunks \ Knowledge!ToSet(s))
    BY KnownAmong
  <2>2. Knowledge!ToSet(items) \subseteq KnownChunks
    BY DEF Knowledge!ToSet
  <2> HIDE DEF new
  <2> QED
    BY <2>1, <2>2
<1> HIDE DEF new
<1>2. s \o new \in Seq(KnownChunks)
  BY <1>1
<1>3. /\ DOMAIN (s \o new) = 1..(Len(s) + Len(new)) /\ Len(s) \in Nat /\ Len(new) \in Nat
      /\ DOMAIN s = 1..Len(s) /\ DOMAIN new = 1..Len(new)
  BY <1>1
<1>4. /\ \A i \in DOMAIN s : (s \o new)[i] = s[i] /\ i \in DOMAIN (s \o new)
      /\ \A i \in DOMAIN new : (s \o new)[Len(s) + i] = new[i] /\ Len(s) + i \in DOMAIN (s \o new)
      /\ \A i \in DOMAIN (s \o new) : i \in DOMAIN s \/ (i - Len(s) \in DOMAIN new /\ (s \o new)[i] = new[i - Len(s)])
  BY <1>1, <1>3
<1>5. Knowledge!ToSet(s \o new) = Knowledge!ToSet(s) \cup Knowledge!ToSet(new)
  <2> DEFINE t == s \o new
  <2> HIDE DEF t
  <2>1. \A x \in Knowledge!ToSet(t) : x \in Knowledge!ToSet(s) \cup Knowledge!ToSet(new)
    <3> TAKE x \in Knowledge!ToSet(t)
    <3>1. PICK i \in DOMAIN t : t[i] = x
      BY DEF Knowledge!ToSet
    <3> QED
      BY <1>4, <3>1 DEF Knowledge!ToSet, t
  <2>2. \A x \in Knowledge!ToSet(s) : x \in Knowledge!ToSet(t)
    BY <1>4 DEF Knowledge!ToSet, t
  <2>3. ASSUME NEW x \in Knowledge!ToSet(new) PROVE x \in Knowledge!ToSet(t)
    <3>1. PICK i \in DOMAIN new : new[i] = x
      BY DEF Knowledge!ToSet
    <3>2. t[Len(s) + i] = x /\ Len(s) + i \in DOMAIN t
      BY <1>4, <3>1 DEF t
    <3> QED
      BY <3>2 DEF Knowledge!ToSet
  <2> QED
    BY <2>1, <2>2, <2>3 DEF t
<1>6. Knowledge!Grown(s, items) = s \o new
  BY DEF Knowledge!Grown, new
<1> QED
  BY <1>1, <1>2, <1>5, <1>6

\* A batch of bodies replaces excerpts: no text becomes less, a whole one stays.
LEMMA KnownReads ==
    ASSUME KnownTyped, KnownShown, NEW items \in Seq(KnownChunks), NEW batch,
           batch.got \subseteq Knowledge!ToSet(items) \ complete, batch.whole \subseteq batch.got,
           complete' = complete \cup batch.whole,
           ledger' = Knowledge!Grown(ledger, items),
           text' = Knowledge!Recorded(items, batch),
           delivered' = [c \in KnownChunks |->
             IF c \in Knowledge!ToSet(items)
               THEN Knowledge!Better(delivered[c], Knowledge!Displayed(c, batch)) ELSE delivered[c]]
    PROVE  /\ KnownShown' /\ text' \in [KnownChunks -> KnownLevels]
           /\ complete' \subseteq KnownChunks /\ ledger' \in Seq(KnownChunks)
<1>1. Knowledge!ToSet(items) \subseteq KnownChunks
  BY DEF Knowledge!ToSet
<1>2. \A c \in KnownChunks : text[c] \in KnownLevels /\ delivered[c] = text[c]
  BY DEF KnownTyped, KnownShown
<1>3. \A c \in KnownChunks : text'[c] =
         IF c \in batch.got THEN Knowledge!Displayed(c, batch)
         ELSE IF c \in Knowledge!ToSet(items) /\ text[c] = "none" THEN "excerpt" ELSE text[c]
  BY DEF Knowledge!Recorded
<1>4. \A c : Knowledge!Displayed(c, batch) =
         IF c \in batch.whole THEN "body" ELSE IF c \in batch.got THEN "part" ELSE "excerpt"
  BY DEF Knowledge!Displayed
<1>5. \A c \in KnownChunks : delivered'[c] =
         IF c \in Knowledge!ToSet(items)
           THEN Knowledge!Better(text[c], Knowledge!Displayed(c, batch)) ELSE text[c]
  BY <1>2
<1>6. \A c \in KnownChunks : delivered'[c] = text'[c]
  <2> TAKE c \in KnownChunks
  <2>1. CASE c \notin Knowledge!ToSet(items)
    BY <1>3, <1>5, <2>1
  <2>2. CASE c \in batch.got
    <3>1. text[c] # "body"
      BY <2>2 DEF KnownShown
    <3>2. text[c] \in {"none", "excerpt", "part"} /\ Knowledge!Displayed(c, batch) \in {"part", "body"}
      BY <1>2, <1>4, <2>2, <3>1 DEF KnownLevels
    <3> QED
      BY <1>3, <1>5, <2>2, <3>2, KnownBetter
  <2>3. CASE c \in Knowledge!ToSet(items) \ batch.got
    <3>1. Knowledge!Displayed(c, batch) = "excerpt"
      BY <1>4, <2>3
    <3>2. CASE text[c] = "none"
      BY <1>3, <1>5, <2>3, <3>1, <3>2, KnownBetter DEF KnownLevels
    <3>3. CASE text[c] \in {"excerpt", "part", "body"}
      BY <1>3, <1>5, <2>3, <3>1, <3>3, KnownBetter
    <3> QED
      BY <1>2, <3>2, <3>3 DEF KnownLevels
  <2> QED
    BY <2>1, <2>2, <2>3
<1>7. text' \in [KnownChunks -> KnownLevels]
  <2>1. \A c \in KnownChunks : text'[c] \in KnownLevels
    BY <1>2, <1>3, <1>4 DEF KnownLevels
  <2>2. text' = [c \in KnownChunks |-> text'[c]]
    BY DEF Knowledge!Recorded
  <2> QED
    BY <2>1, <2>2
<1>8. delivered' = text'
  <2>1. delivered' = [c \in KnownChunks |-> delivered'[c]]
    OBVIOUS
  <2> QED
    BY <1>6, <1>7, <2>1
<1>9. complete' = {c \in KnownChunks : text'[c] = "body"}
  <2>1. complete = {c \in KnownChunks : text[c] = "body"}
    BY DEF KnownShown
  <2>2. \A c \in KnownChunks : text'[c] = "body" <=> c \in complete \/ c \in batch.whole
    BY <1>3, <1>4, <2>1
  <2> QED
    BY <1>1, <2>1, <2>2
<1>10. /\ ledger' \in Seq(KnownChunks)
       /\ Knowledge!ToSet(ledger') = Knowledge!ToSet(ledger) \cup Knowledge!ToSet(items)
  <2>1. ledger \in Seq(KnownChunks)
    BY DEF KnownTyped
  <2> QED
    BY <2>1, KnownGrows
<1>11. Knowledge!ToSet(ledger') = {c \in KnownChunks : text'[c] # "none"}
  <2>1. Knowledge!ToSet(ledger) = {c \in KnownChunks : text[c] # "none"}
    BY DEF KnownShown
  <2>2. \A c \in KnownChunks : text'[c] # "none" <=> text[c] # "none" \/ c \in Knowledge!ToSet(items)
    BY <1>3, <1>4
  <2> QED
    BY <1>1, <1>10, <2>1, <2>2
<1>12. KnownShown'
  BY <1>8, <1>9, <1>11 DEF KnownShown
<1> QED
  BY <1>7, <1>9, <1>10, <1>12

\* What is read at once with a search was listed by it, and is not complete.
LEMMA KnownAutomatic ==
    ASSUME Knowledge!KnowledgeConstants, NEW r \in KnownReplies
    PROVE  LET items == IF Knowledge!FloorDrops(r) THEN <<>> ELSE Knowledge!Prefix(r.hits)
               named == IF Knowledge!FloorDrops(r) THEN Knowledge!Prefix(r.hits) ELSE items
           IN /\ items \in Seq(KnownChunks) /\ named \in Seq(KnownChunks)
              /\ Knowledge!ToSet(Knowledge!Automatic(r)) \subseteq Knowledge!ToSet(items) \ complete
<1> DEFINE prefix == Knowledge!Prefix(r.hits)
           strong == Knowledge!Strong(r)
           unread == KnownChunks \ (complete \cup tried)
<1>1. MaxKnownIds \in Nat /\ r.hits \in Seq(KnownChunks)
  BY DEF Knowledge!KnowledgeConstants
<1>2. prefix \in Seq(KnownChunks)
  BY <1>1, KnownPrefix
<1>3. Knowledge!ToSet(<<>>) = {} /\ <<>> \in Seq(KnownChunks)
  BY DEF Knowledge!ToSet
<1>4. strong \in Seq(KnownChunks)
  <2>1. Knowledge!Among(prefix, r.above) \in Seq(KnownChunks)
    BY <1>2, KnownAmong
  <2> QED
    BY <1>3, <2>1 DEF Knowledge!Strong
<1>5. /\ Knowledge!ToSet(strong) \subseteq Knowledge!ToSet(prefix)
      /\ Knowledge!FloorDrops(r) => Knowledge!ToSet(strong) = {}
  <2>1. Knowledge!ToSet(Knowledge!Among(prefix, r.above)) \subseteq Knowledge!ToSet(prefix)
    BY <1>2, KnownAmong
  <2> QED
    BY <1>3, <2>1 DEF Knowledge!Strong
<1> HIDE DEF strong, prefix
<1>6. /\ Knowledge!Among(strong, unread) \in Seq(KnownChunks)
      /\ Knowledge!ToSet(Knowledge!Among(strong, unread)) = Knowledge!ToSet(strong) \cap unread
  <2> HIDE DEF unread
  <2> QED
    BY <1>4, KnownAmong
<1>7. Knowledge!ToSet(Knowledge!Prefix(Knowledge!Among(strong, unread))) \subseteq Knowledge!ToSet(strong) \cap unread
  <2> HIDE DEF unread
  <2> QED
    BY <1>1, <1>6, KnownPrefix
<1>8. Knowledge!Automatic(r) = Knowledge!Prefix(Knowledge!Among(strong, unread))
  BY DEF Knowledge!Automatic, strong
<1>9. Knowledge!ToSet(Knowledge!Automatic(r)) \subseteq
        Knowledge!ToSet(IF Knowledge!FloorDrops(r) THEN <<>> ELSE Knowledge!Prefix(r.hits)) \ complete
  BY <1>5, <1>7, <1>8 DEF prefix
<1> QED
  BY <1>2, <1>3, <1>9 DEF prefix

\* A search that is answered from the record, or not at all, shows nothing new.
LEMMA KnownUnchanged ==
    ASSUME KnownInv, MaxSearches \in Nat, searches < MaxSearches, searches' = searches + 1,
           question' \in KnownQueries \cup {"none"},
           UNCHANGED <<turnNo, memory, row, ledger, text, capability, complete, replayable,
                       returned, delivered>>
    PROVE  KnownInv'
<1>1. KnownTyped'
  <2>1. capability' \in [KnownChunks -> 0..searches']
    BY DEF KnownInv, KnownTyped
  <2> QED
    BY <2>1 DEF KnownInv, KnownTyped
<1>2. KnownShown'
  BY DEF KnownInv, KnownShown
<1>3. KnownAhead' /\ KnownCurrent'
  BY DEF KnownInv, KnownTyped, KnownAhead, KnownCurrent, Knowledge!CapabilityIsCurrent
<1> QED
  BY <1>1, <1>2, <1>3 DEF KnownInv

\* An explicit read: bodies come, and a capability that is refused is gone.
LEMMA KnownReadStep ==
    ASSUME Knowledge!KnowledgeConstants, KnownInv, NEW asked \in Knowledge!Requests, Knowledge!ReadChunk(asked)
    PROVE  KnownInv'
<1> DEFINE ids == Knowledge!Prefix(asked)
           held == {c \in Knowledge!ToSet(ids) : ~Knowledge!Repeated(c) /\ capability[c] # 0}
<1> DEFINE goneBy(out)      == Knowledge!Expired(capability, {s \in DOMAIN out : out[s] = "invalid"})
           bodies(came, cut) == Knowledge!Deliver(ids, came, cut)
           texts(came, cut)  == Knowledge!Among(ids, bodies(came, cut).got)
           effect(out, came, cut) ==
             /\ capability' = [c \in KnownChunks |-> IF c \in goneBy(out) THEN 0 ELSE capability[c]]
             /\ replayable' = Knowledge!Withdrawn(goneBy(out))
             /\ complete' = complete \cup bodies(came, cut).whole
             /\ ledger' = Knowledge!Grown(ledger, texts(came, cut))
             /\ text' = Knowledge!Recorded(texts(came, cut), bodies(came, cut))
             /\ delivered' = [c \in KnownChunks |-> IF c \in bodies(came, cut).got
                  THEN Knowledge!Better(delivered[c], Knowledge!Displayed(c, bodies(came, cut)))
                  ELSE delivered[c]]
<1>1. \E out \in [Knowledge!SearchesOf(held, capability) -> Knowledge!Outcomes] :
        \E came \in SUBSET Knowledge!Answering(held, capability, out) :
          \E cut \in SUBSET came : effect(out, came, cut)
  BY DEF Knowledge!ReadChunk
<1> HIDE DEF effect
<1>2. PICK out, came, cut : effect(out, came, cut)
  BY <1>1
<1>3. /\ UNCHANGED <<turnNo, question, searches, memory, row, returned>> /\ MaxKnownIds \in Nat
  BY DEF Knowledge!ReadChunk, Knowledge!KnowledgeConstants
<1>4. asked \in Seq(KnownChunks)
  <2>1. PICK n \in 1..MaxKnownIds : asked \in [1..n -> KnownChunks]
    BY DEF Knowledge!Requests
  <2> QED
    BY <1>3, <2>1
<1>5. ids \in Seq(KnownChunks)
  BY <1>3, <1>4, KnownPrefix
<1> DEFINE gone  == goneBy(out)
           batch == bodies(came, cut)
           read  == texts(came, cut)
<1>6. batch.got \subseteq Knowledge!ToSet(ids) \ complete /\ batch.whole \subseteq batch.got
  <2> HIDE DEF ids
  <2> QED
    BY KnownDelivers DEF bodies
<1>7. read \in Seq(KnownChunks) /\ Knowledge!ToSet(read) = batch.got
  <2> HIDE DEF ids, bodies
  <2>1. read \in Seq(KnownChunks) /\ Knowledge!ToSet(read) = Knowledge!ToSet(ids) \cap batch.got
    BY <1>5, KnownAmong
  <2> QED
    BY <1>6, <2>1
<1>8. /\ capability' = [c \in KnownChunks |-> IF c \in gone THEN 0 ELSE capability[c]]
      /\ replayable' = Knowledge!Withdrawn(gone)
      /\ complete' = complete \cup batch.whole
      /\ ledger' = Knowledge!Grown(ledger, read)
      /\ text' = Knowledge!Recorded(read, batch)
      /\ delivered' = [c \in KnownChunks |-> IF c \in batch.got
           THEN Knowledge!Better(delivered[c], Knowledge!Displayed(c, batch)) ELSE delivered[c]]
  BY <1>2 DEF effect
<1> HIDE DEF ids, batch, read, gone, goneBy, bodies, texts
<1>9. delivered' = [c \in KnownChunks |-> IF c \in Knowledge!ToSet(read)
           THEN Knowledge!Better(delivered[c], Knowledge!Displayed(c, batch)) ELSE delivered[c]]
  BY <1>7, <1>8
<1>10. batch.got \subseteq Knowledge!ToSet(read) \ complete
  BY <1>6, <1>7
<1>11. /\ KnownShown' /\ text' \in [KnownChunks -> KnownLevels]
       /\ complete' \subseteq KnownChunks /\ ledger' \in Seq(KnownChunks)
  BY <1>6, <1>7, <1>8, <1>9, <1>10, KnownReads DEF KnownInv
<1>12. /\ DOMAIN replayable' = {q \in DOMAIN replayable : replayable[q].shows \cap gone = {}}
       /\ \A q \in DOMAIN replayable' : replayable'[q] = replayable[q]
  BY <1>8 DEF Knowledge!Withdrawn
<1>13. \A c \in KnownChunks : capability'[c] = IF c \in gone THEN 0 ELSE capability[c]
  BY <1>8
<1>14. KnownTyped'
  <2>1. capability' \in [KnownChunks -> 0..searches']
    BY <1>3, <1>8 DEF KnownInv, KnownTyped
  <2>2. \A q \in DOMAIN replayable' : q \in KnownQueries /\ replayable'[q].shows \subseteq KnownChunks
    BY <1>12 DEF KnownInv, KnownTyped
  <2> QED
    BY <1>3, <1>11, <2>1, <2>2 DEF KnownInv, KnownTyped
<1>15. KnownAhead'
  BY <1>3 DEF KnownInv, KnownAhead
<1>16. KnownCurrent'
  <2>1. \A c \in KnownChunks : capability'[c] # 0 => capability'[c] = capability[c]
    BY <1>13
  <2>2. ASSUME NEW q \in DOMAIN replayable', replayable'[q].keyed, NEW c \in replayable'[q].shows
        PROVE  capability'[c] # 0
    <3>1. q \in DOMAIN replayable /\ replayable'[q] = replayable[q] /\ c \notin gone /\ c \in KnownChunks
      BY <1>12, <2>2 DEF KnownInv, KnownTyped
    <3>2. capability[c] # 0
      BY <2>2, <3>1 DEF KnownInv, KnownCurrent, Knowledge!CapabilityIsCurrent
    <3> QED
      BY <1>13, <3>1, <3>2
  <2> QED
    BY <1>3, <2>1, <2>2 DEF KnownInv, KnownCurrent, Knowledge!CapabilityIsCurrent
<1> QED
  BY <1>11, <1>14, <1>15, <1>16 DEF KnownInv

\* A search that is answered: its capability replaces older ones, and only an
\* answer all of whose bodies came is kept for an identical call.
LEMMA KnownAnswers ==
    ASSUME Knowledge!KnowledgeConstants, KnownInv, searches < MaxSearches, searches' = searches + 1,
           question' \in KnownQueries \cup {"none"}, UNCHANGED <<turnNo, memory, row>>,
           NEW q \in KnownQueries, NEW r \in KnownReplies, Knowledge!SearchAnswered(q, r)
    PROVE  KnownInv'
<1> DEFINE items == IF Knowledge!FloorDrops(r) THEN <<>> ELSE Knowledge!Prefix(r.hits)
           named == IF Knowledge!FloorDrops(r) THEN Knowledge!Prefix(r.hits) ELSE items
           cap   == Knowledge!Capabilities(r, named)
           auto  == Knowledge!Automatic(r)
           held  == {c \in Knowledge!ToSet(auto) : cap[c] # 0}
           goneBy(out)      == Knowledge!Expired(cap, {s \in DOMAIN out : out[s] = "invalid"})
           bodies(came, cut) == Knowledge!TakeBodies(auto, came, cut)
           whole(out, came, cut) == Knowledge!Reusable(auto, held, out, bodies(came, cut))
           record(gone) == [p \in DOMAIN Knowledge!Withdrawn(gone) \cup {q} |->
                              IF p = q THEN [shows |-> Knowledge!ToSet(named), keyed |-> ~r.empty]
                              ELSE replayable[p]]
           effect(out, came, cut) ==
             /\ capability' = [c \in KnownChunks |-> IF c \in goneBy(out) THEN 0 ELSE cap[c]]
             /\ complete' = complete \cup bodies(came, cut).whole
             /\ ledger' = Knowledge!Grown(ledger, items)
             /\ text' = Knowledge!Recorded(items, bodies(came, cut))
             /\ delivered' = [c \in KnownChunks |-> IF c \in Knowledge!ToSet(items)
                  THEN Knowledge!Better(delivered[c], Knowledge!Displayed(c, bodies(came, cut)))
                  ELSE delivered[c]]
             /\ replayable' = IF ~whole(out, came, cut) THEN Knowledge!Withdrawn(goneBy(out))
                              ELSE record(goneBy(out))
<1>1. \E out \in [Knowledge!SearchesOf(held, cap) -> Knowledge!Outcomes] :
        \E came \in SUBSET Knowledge!Answering(held, cap, out) :
          \E cut \in SUBSET came : effect(out, came, cut)
  BY DEF Knowledge!SearchAnswered
<1>2. returned' = [returned EXCEPT ![searches + 1] = IF r.empty THEN {} ELSE Knowledge!ToSet(named)]
  BY DEF Knowledge!SearchAnswered
<1>3. /\ items \in Seq(KnownChunks) /\ named \in Seq(KnownChunks)
      /\ Knowledge!ToSet(auto) \subseteq Knowledge!ToSet(items) \ complete
  BY KnownAutomatic
<1> HIDE DEF effect
<1>4. PICK out, came, cut : effect(out, came, cut)
  BY <1>1
<1> DEFINE gone  == goneBy(out)
           batch == bodies(came, cut)
<1>5. batch.got \subseteq Knowledge!ToSet(auto) /\ batch.whole \subseteq batch.got
  <2> HIDE DEF auto
  <2> QED
    BY KnownTakes
<1>6. Knowledge!ToSet(named) \subseteq KnownChunks
  <2> HIDE DEF named
  <2> QED
    BY <1>3 DEF Knowledge!ToSet
<1>7. \A c \in KnownChunks : cap[c] =
         IF ~r.empty /\ c \in Knowledge!ToSet(named) THEN searches + 1 ELSE capability[c]
  <2>0. r.empty \in BOOLEAN /\ searches \in Nat
    BY DEF Knowledge!KnowledgeConstants, KnownInv, KnownTyped
  <2> HIDE DEF named
  <2> QED
    BY <2>0 DEF Knowledge!Capabilities, Knowledge!SearchId
<1>8. whole(out, came, cut) => gone = {}
  <2>1. whole(out, came, cut) => \A s \in DOMAIN out : out[s] # "invalid"
    <3> HIDE DEF auto, held, bodies
    <3> QED
      BY DEF Knowledge!Reusable
  <2> HIDE DEF cap, auto, held, bodies
  <2> QED
    BY <2>1 DEF Knowledge!Expired
<1>9. \A p : p \in DOMAIN Knowledge!Withdrawn(gone) <=> p \in DOMAIN replayable /\ replayable[p].shows \cap gone = {}
  BY DEF Knowledge!Withdrawn
<1>10. \A p \in DOMAIN Knowledge!Withdrawn(gone) : Knowledge!Withdrawn(gone)[p] = replayable[p]
  BY DEF Knowledge!Withdrawn
<1>11. /\ capability' = [c \in KnownChunks |-> IF c \in gone THEN 0 ELSE cap[c]]
       /\ complete' = complete \cup batch.whole
       /\ ledger' = Knowledge!Grown(ledger, items)
       /\ text' = Knowledge!Recorded(items, batch)
       /\ delivered' = [c \in KnownChunks |-> IF c \in Knowledge!ToSet(items)
            THEN Knowledge!Better(delivered[c], Knowledge!Displayed(c, batch)) ELSE delivered[c]]
       /\ replayable' = IF ~whole(out, came, cut) THEN Knowledge!Withdrawn(gone) ELSE record(gone)
  BY <1>4 DEF effect
<1> HIDE DEF items, cap, auto, held, goneBy, bodies, batch, gone, whole
<1>12. \A p \in DOMAIN replayable' :
         \/ p \in DOMAIN replayable /\ replayable[p].shows \cap gone = {} /\ replayable'[p] = replayable[p]
         \/ gone = {} /\ p = q /\ replayable'[p] = [shows |-> Knowledge!ToSet(named), keyed |-> ~r.empty]
  <2> HIDE DEF named
  <2>1. CASE whole(out, came, cut)
    BY <1>8, <1>9, <1>10, <1>11, <2>1
  <2>2. CASE ~whole(out, came, cut)
    BY <1>9, <1>10, <1>11, <2>2
  <2> QED
    BY <2>1, <2>2
<1> HIDE DEF named, record
<1>13. batch.got \subseteq Knowledge!ToSet(items) \ complete
  BY <1>3, <1>5
<1>14. /\ KnownShown' /\ text' \in [KnownChunks -> KnownLevels]
       /\ complete' \subseteq KnownChunks /\ ledger' \in Seq(KnownChunks)
  BY <1>3, <1>5, <1>11, <1>13, KnownReads DEF KnownInv
<1>15. \A c \in KnownChunks : capability'[c] = IF c \in gone THEN 0 ELSE cap[c]
  BY <1>11
<1>16. searches \in Nat /\ MaxSearches \in Nat /\ searches + 1 \in 1..MaxSearches
  BY DEF KnownInv, KnownTyped, Knowledge!KnowledgeConstants
<1>17. \A c \in KnownChunks : capability[c] \in 0..searches
  BY DEF KnownInv, KnownTyped
<1>18. \A s \in 1..MaxSearches :
         returned'[s] = IF s = searches + 1 THEN IF r.empty THEN {} ELSE Knowledge!ToSet(named) ELSE returned[s]
  BY <1>2, <1>16 DEF KnownInv, KnownTyped
<1>19. KnownTyped'
  <2>1. capability' \in [KnownChunks -> 0..searches']
    <3>1. \A c \in KnownChunks : capability'[c] \in 0..searches'
      BY <1>7, <1>15, <1>16, <1>17
    <3>2. capability' = [c \in KnownChunks |-> capability'[c]]
      BY <1>11
    <3> QED
      BY <3>1, <3>2
  <2>2. \A p \in DOMAIN replayable' : p \in KnownQueries /\ replayable'[p].shows \subseteq KnownChunks
    BY <1>6, <1>12 DEF KnownInv, KnownTyped
  <2>3. returned' \in [1..MaxSearches -> SUBSET KnownChunks]
    BY <1>2, <1>6, <1>16 DEF KnownInv, KnownTyped
  <2>4. searches' \in 0..MaxSearches
    BY <1>16
  <2> QED
    BY <1>14, <2>1, <2>2, <2>3, <2>4 DEF KnownInv, KnownTyped
<1>20. KnownAhead'
  BY <1>16, <1>18 DEF KnownInv, KnownAhead
<1>21. KnownCurrent'
  <2>1. ASSUME NEW c \in KnownChunks, capability'[c] # 0
        PROVE  /\ c \in returned'[capability'[c]]
               /\ \A s \in capability'[c] + 1..MaxSearches : c \notin returned'[s]
    <3>1. capability'[c] = cap[c]
      BY <1>15, <2>1
    <3>2. CASE ~r.empty /\ c \in Knowledge!ToSet(named)
      <4>1. capability'[c] = searches + 1
        BY <1>7, <3>1, <3>2
      <4>2. \A s \in searches + 2..MaxSearches : returned'[s] = {}
        BY <1>16, <1>18 DEF KnownInv, KnownAhead
      <4> QED
        BY <1>16, <1>18, <3>2, <4>1, <4>2
    <3>3. CASE r.empty \/ c \notin Knowledge!ToSet(named)
      <4>1. capability'[c] = capability[c] /\ capability[c] \in 1..searches
        BY <1>7, <1>16, <1>17, <2>1, <3>1, <3>3
      <4>2. /\ c \in returned[capability[c]]
            /\ \A s \in capability[c] + 1..MaxSearches : c \notin returned[s]
        BY <2>1, <4>1 DEF KnownInv, KnownCurrent, Knowledge!CapabilityIsCurrent
      <4>3. returned'[capability[c]] = returned[capability[c]]
        BY <1>16, <1>18, <4>1
      <4>4. ASSUME NEW s \in capability[c] + 1..MaxSearches PROVE c \notin returned'[s]
        BY <1>16, <1>18, <3>3, <4>1, <4>2
      <4> QED
        BY <4>1, <4>2, <4>3, <4>4
    <3> QED
      BY <3>2, <3>3
  <2>2. ASSUME NEW p \in DOMAIN replayable', replayable'[p].keyed, NEW c \in replayable'[p].shows
        PROVE  capability'[c] # 0
    <3>1. CASE p \in DOMAIN replayable /\ replayable[p].shows \cap gone = {} /\ replayable'[p] = replayable[p]
      <4>1. c \in KnownChunks /\ c \notin gone /\ capability[c] # 0
        BY <2>2, <3>1 DEF KnownInv, KnownTyped, KnownCurrent, Knowledge!CapabilityIsCurrent
      <4> QED
        BY <1>7, <1>15, <1>16, <4>1
    <3>2. CASE gone = {} /\ p = q /\ replayable'[p] = [shows |-> Knowledge!ToSet(named), keyed |-> ~r.empty]
      <4>0. replayable'[p].shows = Knowledge!ToSet(named) /\ replayable'[p].keyed = ~r.empty
        BY <3>2
      <4>1. c \in Knowledge!ToSet(named) /\ ~r.empty /\ c \in KnownChunks /\ c \notin gone
        BY <1>6, <2>2, <3>2, <4>0
      <4> QED
        BY <1>7, <1>15, <1>16, <4>1
    <3> QED
      BY <1>12, <3>1, <3>2
  <2> QED
    BY <2>1, <2>2 DEF KnownCurrent, Knowledge!CapabilityIsCurrent
<1> QED
  BY <1>14, <1>19, <1>20, <1>21 DEF KnownInv

\* Every step keeps the invariant.
LEMMA KnownSearchStep ==
    ASSUME Knowledge!KnowledgeConstants, KnownInv, NEW q \in KnownQueries, Knowledge!SearchKnowledge(q)
    PROVE  KnownInv'
<1>1. /\ searches < MaxSearches /\ searches' = searches + 1 /\ MaxSearches \in Nat
      /\ UNCHANGED <<turnNo, memory, row>> /\ question' \in KnownQueries \cup {"none"}
  BY DEF Knowledge!SearchKnowledge, KnownInv, KnownTyped, Knowledge!KnowledgeConstants
<1>2. CASE UNCHANGED <<ledger, text, capability, complete, tried, replayable, returned, delivered>>
  BY <1>1, <1>2, KnownUnchanged
<1>3. CASE \E r \in KnownReplies : Knowledge!SearchAnswered(q, r)
  BY <1>1, <1>3, KnownAnswers
<1> QED
  BY <1>2, <1>3 DEF Knowledge!SearchKnowledge, Knowledge!SearchUnavailable

LEMMA KnownStep ==
    ASSUME Knowledge!KnowledgeConstants, KnownInv, [Knowledge!Next]_Knowledge!vars
    PROVE  KnownInv'
<1>1. CASE UNCHANGED Knowledge!vars
  BY <1>1 DEF Knowledge!vars, KnownInv, KnownTyped, KnownShown, KnownAhead, KnownCurrent,
              Knowledge!CapabilityIsCurrent
<1>2. CASE \E q \in KnownQueries : Knowledge!SearchKnowledge(q)
  BY <1>2, KnownSearchStep
<1>3. CASE \E asked \in Knowledge!Requests : Knowledge!ReadChunk(asked)
  BY <1>3, KnownReadStep
<1>4. ASSUME NEW answer \in {Knowledge!Answered(cites, forged, platform) :
                              cites \in SUBSET KnownChunks, forged \in BOOLEAN, platform \in BOOLEAN},
             Knowledge!EndTurn(answer)
      PROVE  KnownInv'
  <2>1. answer \in KnownMemories
    BY KnownRemembers DEF KnownInv
  <2> QED
    BY <1>4, <2>1, KnownEnds
<1> QED
  BY <1>1, <1>2, <1>3, <1>4 DEF Knowledge!Next

\* The component alone: evidence is what was shown, capabilities are current, memory is dated.
THEOREM KnowledgeGrounded ==
    ASSUME Knowledge!KnowledgeConstants
    PROVE  Knowledge!Spec => []Knowledge!KnowledgeIsGrounded
<1>1. Knowledge!Init => KnownInv
  BY KnownStarts
<1>2. KnownInv /\ [Knowledge!Next]_Knowledge!vars => KnownInv'
  BY KnownStep
<1>3. KnownInv => Knowledge!KnowledgeIsGrounded
  BY KnownGrounds
<1> QED
  BY <1>1, <1>2, <1>3, PTL DEF Knowledge!Spec

\* A step of the composition is one of the component, or leaves it alone.
LEMMA KnowledgeAlone ==
    ASSUME [TurnNext]_<<part, vars, partVars>>
    PROVE  [Knowledge!Next]_Knowledge!vars
<1>1. CASE Step("agent", Next, partVars)
  BY <1>1 DEF Step, partVars, knowledgeVars, Knowledge!vars
<1>2. CASE Step("knowledge", Knowledge!Next, <<vars, historyVars>>)
  BY <1>2 DEF Step
<1>3. CASE Step("history", History!Next, <<vars, knowledgeVars>>)
  BY <1>3 DEF Step, knowledgeVars, Knowledge!vars
<1>4. CASE UNCHANGED <<part, vars, partVars>>
  BY <1>4 DEF partVars, knowledgeVars, Knowledge!vars
<1> QED
  BY <1>1, <1>2, <1>3, <1>4 DEF TurnNext

\* What may be cited was shown in this turn, what is read is read with the search
\* that returned it, what is remembered keeps the date of its turn (search_knowledge.go,
\* read_chunk.go, verified_evidence_ledger.go).
THEOREM KnowledgeStaysGrounded == TurnSpec => []KnowledgeIsGrounded
<1>1. TurnInit => Knowledge!Init
  BY DEF TurnInit
<1>2. [TurnNext]_<<part, vars, partVars>> => [Knowledge!Next]_Knowledge!vars
  BY KnowledgeAlone
<1>3. TurnSpec => Knowledge!Spec
  BY <1>1, <1>2, PTL DEF TurnSpec, Knowledge!Spec
<1>4. Knowledge!Spec => []Knowledge!KnowledgeIsGrounded
  BY TurnAssumption, KnowledgeGrounded DEF TurnAssumption
<1> QED
  BY <1>3, <1>4, PTL DEF KnowledgeIsGrounded

-----------------------------------------------------------------------------
(* What an engine replays, for any scripts, rows and budgets.  A request is  *)
(* made of pieces that are each paired and begin with a question: projected  *)
(* transcripts (PastProjectedPaired), plain exchanges, and the current turn. *)
(* Pieces stay paired when joined, and so does a part that does not begin    *)
(* with a result.  The invariant says, beside the types, that every exchange *)
(* to be replayed is one of these (PastPairs) and that the messages of a     *)
(* turn end with its question and whole rounds (PastTurn).                   *)

\* Positions are listed upwards, each of them once.
IsAscending(is, positions, n) ==
  /\ is \in Seq(1..n)
  /\ {is[k] : k \in DOMAIN is} = positions
  /\ \A k, l \in DOMAIN is : k < l => is[k] < is[l]

\* A greater position is listed last.
LEMMA PastAscendingAppended ==
    ASSUME NEW n \in Nat, NEW P \in SUBSET (1..n), NEW is, IsAscending(is, P, n), NEW i \in 1..n,
           \A j \in P : j < i
    PROVE  IsAscending(Append(is, i), P \cup {i}, n)
<1> DEFINE t == Append(is, i)
<1>0. is \in Seq(1..n) /\ {is[k] : k \in DOMAIN is} = P
  BY DEF IsAscending
<1>1. /\ t \in Seq(1..n) /\ DOMAIN t = 1..(Len(is) + 1) /\ DOMAIN is = 1..Len(is) /\ Len(is) \in Nat
      /\ t[Len(is) + 1] = i
  BY <1>0
<1>2. \A k \in DOMAIN is : t[k] = is[k] /\ t[k] \in P /\ is[k] < i
  BY <1>0
<1> HIDE DEF t
<1>3. {t[k] : k \in DOMAIN t} = P \cup {i}
  <2>1. \A k \in DOMAIN t : k \in DOMAIN is \/ k = Len(is) + 1
    BY <1>1
  <2>2. {t[k] : k \in DOMAIN t} \subseteq P \cup {i}
    BY <1>1, <1>2, <2>1
  <2>3. ASSUME NEW p \in P PROVE p \in {t[k] : k \in DOMAIN t}
    <3>1. PICK k \in DOMAIN is : is[k] = p
      BY <1>0
    <3> QED
      BY <1>1, <1>2, <3>1
  <2>4. i \in {t[k] : k \in DOMAIN t}
    BY <1>1
  <2> QED
    BY <2>2, <2>3, <2>4
<1>4. ASSUME NEW k \in DOMAIN t, NEW l \in DOMAIN t, k < l PROVE t[k] < t[l]
  <2>1. k \in DOMAIN is
    BY <1>1, <1>4
  <2>2. CASE l \in DOMAIN is
    BY <1>2, <1>4, <2>1, <2>2 DEF IsAscending
  <2>3. CASE l = Len(is) + 1
    BY <1>1, <1>2, <2>1, <2>3
  <2> QED
    BY <1>1, <2>2, <2>3
<1> QED
  BY <1>1, <1>3, <1>4 DEF IsAscending, t

\* The listing of the positions (Selections) is that.
LEMMA PastAscending ==
    ASSUME NEW A, NEW s \in Seq(A), NEW P \in SUBSET DOMAIN s
    PROVE  IsAscending(History!Ascending(s, P), P, Len(s))
<1> DEFINE N   == Len(s)
           idx == [i \in DOMAIN s |-> i]
           f   == CHOOSE f : KnownKept(f, idx, P, N)
<1>0. N \in Nat /\ DOMAIN s = 1..N /\ Len(idx) = N
  OBVIOUS
<1>1. KnownKept(f, idx, P, N)
  BY <1>0, KnownKeptExists
<1>2. History!Ascending(s, P) = f[N]
  BY <1>0 DEF History!Ascending, History!Among, KnownKept
<1>i. \A i \in 1..N : idx[i] = i
  BY <1>0
<1> HIDE DEF f, idx, N
<1> DEFINE ok(n) == IsAscending(f[n], {j \in P : j <= n}, N)
           H     == {n \in 0..N : ok(n)}
<1>3. ok(0)
  <2>1. f[0] = <<>>
    BY <1>0, <1>1 DEF KnownKept
  <2>2. {j \in P : j <= 0} = {}
    BY <1>0
  <2>3. IsAscending(<<>>, {}, N)
    BY DEF IsAscending
  <2> QED
    BY <2>1, <2>2, <2>3
<1>4. ASSUME NEW n \in 1..N, ok(n - 1) PROVE ok(n)
  <2>0. n \in 0..N /\ n # 0 /\ n \in Nat
    BY <1>0
  <2>1. f[n] = IF n \in P THEN Append(f[n - 1], n) ELSE f[n - 1]
    BY <1>1, <1>i, <2>0 DEF KnownKept
  <2>2. CASE n \in P
    <3>1. {j \in P : j <= n} = {j \in P : j <= n - 1} \cup {n}
      BY <1>0, <2>2
    <3> DEFINE Q == {j \in P : j <= n - 1}
    <3>2. Q \in SUBSET (1..N) /\ \A j \in Q : j < n
      BY <1>0
    <3>3. IsAscending(f[n - 1], Q, N)
      BY <1>4
    <3> HIDE DEF Q
    <3>4. IsAscending(Append(f[n - 1], n), Q \cup {n}, N)
      BY <1>0, <3>2, <3>3, PastAscendingAppended
    <3> QED
      BY <2>1, <2>2, <3>1, <3>4 DEF Q
  <2>3. CASE n \notin P
    <3>1. {j \in P : j <= n} = {j \in P : j <= n - 1}
      BY <1>0, <2>3
    <3> QED
      BY <1>4, <2>1, <2>3, <3>1
  <2> QED
    BY <2>2, <2>3
<1> HIDE DEF ok
<1>5. 0 \in H /\ H \in SUBSET Nat
  BY <1>0, <1>3
<1>6. \A n \in 1..N : n - 1 \in H => n \in H
  BY <1>0, <1>4
<1> HIDE DEF H
<1>7. 0..N \subseteq H
  BY <1>0, <1>5, <1>6, KnownInRow
<1>8. N \in H
  BY <1>0, <1>7
<1>9. IsAscending(f[N], {j \in P : j <= N}, N)
  BY <1>8 DEF H, ok
<1>10. {j \in P : j <= N} = P
  BY <1>0
<1> QED
  BY <1>2, <1>9, <1>10 DEF N

\* Between two positions that follow each other in the list there is none.
LEMMA PastConsecutive ==
    ASSUME NEW n \in Nat, NEW P \in SUBSET (1..n), NEW is, IsAscending(is, P, n),
           NEW k \in DOMAIN is, NEW p \in P
    PROVE  /\ p < is[k] => \E l \in 1..(k - 1) : is[l] = p
           /\ is[k] < p => \E l \in (k + 1)..Len(is) : is[l] = p
<1>1. PICK l \in DOMAIN is : is[l] = p
  BY DEF IsAscending
<1>2. /\ DOMAIN is = 1..Len(is) /\ Len(is) \in Nat /\ is[k] \in 1..n /\ is[l] \in 1..n
      /\ (k < l => is[k] < is[l]) /\ (l < k => is[l] < is[k])
  BY DEF IsAscending
<1> QED
  BY <1>1, <1>2

\* The greatest and the least of a bounded set of numbers.
LEMMA PastGreatest ==
    ASSUME NEW n \in Nat, NEW S \in SUBSET (0..n), S # {}
    PROVE  History!Max(S) \in S /\ \A j \in S : j <= History!Max(S)
<1>1. Knowledge!Max(S) \in S
  BY KnownGreatest
<1>2. \E m \in S : \A j \in S : m >= j
  <2> DEFINE T == {n - i : i \in S}
  <2>0. \A i \in S : n - i \in Nat
    OBVIOUS
  <2>e. PICK e \in S : TRUE
    OBVIOUS
  <2>1. T \in SUBSET Nat /\ n - e \in T
    BY <2>0
  <2> HIDE DEF T
  <2>2. PICK m \in T : \A k \in T : m <= k
    BY <2>1, KnownLeast
  <2>3. PICK i \in S : m = n - i
    BY DEF T
  <2>4. \A j \in S : n - j \in T
    BY DEF T
  <2>5. \A j \in S : m <= n - j
    BY <2>2, <2>4
  <2> QED
    BY <2>3, <2>5
<1>3. History!Max(S) \in S /\ \A j \in S : History!Max(S) >= j
  BY <1>2 DEF History!Max
<1> QED
  BY <1>3

\* The least of some numbers is one of them.
LEMMA PastLeast ==
    ASSUME NEW S \in SUBSET Nat, S # {}
    PROVE  History!Min(S) \in S /\ \A j \in S : History!Min(S) <= j
<1>1. \E m \in S : \A j \in S : m <= j
  BY KnownLeast
<1> QED
  BY <1>1 DEF History!Min

\* The run of results behind a position, and where it ends.
PastRun(s, i, e) ==
  /\ e \in i..Len(s)
  /\ \A k \in (i + 1)..e : s[k].role = "tool"
  /\ e = Len(s) \/ s[e + 1].role # "tool"

\* The results right behind a message end in one place, which RunEnd names.
LEMMA PastRunEnds ==
    ASSUME NEW A, NEW s \in Seq(A), NEW i \in 1..Len(s)
    PROVE  /\ PastRun(s, i, History!RunEnd(s, i))
           /\ \A e : PastRun(s, i, e) => e = History!RunEnd(s, i)
<1> DEFINE S == {j \in i..Len(s) : \A k \in (i + 1)..j : History!IsTool(s[k])}
           m == History!RunEnd(s, i)
<1>0. Len(s) \in Nat
  OBVIOUS
<1>1. S \in SUBSET (0..Len(s)) /\ i \in S
  BY <1>0
<1>2. m = History!Max(S)
  BY DEF History!RunEnd
<1>3. \A j : j \in S <=> j \in i..Len(s) /\ \A k \in (i + 1)..j : s[k].role = "tool"
  BY DEF History!IsTool
<1> HIDE DEF S, m
<1>4. m \in S /\ \A j \in S : j <= m
  BY <1>0, <1>1, <1>2, PastGreatest
<1>5. m = Len(s) \/ s[m + 1].role # "tool"
  <2> SUFFICES ASSUME m # Len(s), s[m + 1].role = "tool" PROVE FALSE
    OBVIOUS
  <2>1. m \in i..Len(s) /\ m + 1 \in i..Len(s)
    BY <1>0, <1>3, <1>4
  <2>2. \A k \in (i + 1)..(m + 1) : k \in (i + 1)..m \/ k = m + 1
    BY <2>1
  <2>3. m + 1 \in S
    BY <1>3, <1>4, <2>1, <2>2
  <2> QED
    BY <1>4, <2>1, <2>3
<1>6. PastRun(s, i, m)
  BY <1>3, <1>4, <1>5 DEF PastRun
<1>7. ASSUME NEW e, PastRun(s, i, e) PROVE e = m
  <2>1. e \in S /\ e <= m /\ e \in i..Len(s) /\ m \in i..Len(s)
    BY <1>3, <1>4, <1>7 DEF PastRun
  <2>2. CASE e < m
    <3>1. e + 1 \in (i + 1)..m /\ e # Len(s)
      BY <1>0, <2>1, <2>2
    <3> QED
      BY <1>6, <1>7, <3>1 DEF PastRun
  <2> QED
    BY <1>0, <2>1, <2>2
<1> QED
  BY <1>6, <1>7 DEF m

\* What a call needs and a result needs, with the ends of the runs named.
PastCall(s, i, e) ==
  s[i].calls # <<>> =>
    /\ {s[i].calls[j].id : j \in DOMAIN s[i].calls} = {s[k].id : k \in (i + 1)..e}
    /\ Len(s[i].calls) = e - i
PastPaired(s) ==
  \A i \in 1..Len(s) :
    /\ \E e \in Nat : PastRun(s, i, e) /\ PastCall(s, i, e)
    /\ s[i].role = "tool" =>
         \E k \in 1..(i - 1) : s[k].calls # <<>> /\ \E e \in Nat : PastRun(s, k, e) /\ i <= e

\* PastPaired says of a sequence, without sets and maxima, what WellPaired says.
LEMMA PastPairing ==
    ASSUME NEW A, NEW s \in Seq(A)
    PROVE  PastPaired(s) <=> History!WellPaired(s)
<1>0. DOMAIN s = 1..Len(s) /\ Len(s) \in Nat
  OBVIOUS
<1>1. \A i \in 1..Len(s) : History!RunEnd(s, i) \in Nat /\ PastRun(s, i, History!RunEnd(s, i))
                           /\ \A e : PastRun(s, i, e) => e = History!RunEnd(s, i)
  <2> TAKE i \in 1..Len(s)
  <2>1. PastRun(s, i, History!RunEnd(s, i)) /\ \A e : PastRun(s, i, e) => e = History!RunEnd(s, i)
    BY PastRunEnds
  <2>2. History!RunEnd(s, i) \in i..Len(s)
    BY <2>1 DEF PastRun
  <2> QED
    BY <1>0, <2>1, <2>2
<1>2. ASSUME NEW i \in 1..Len(s)
      PROVE  (\E e \in Nat : PastRun(s, i, e) /\ PastCall(s, i, e)) <=> PastCall(s, i, History!RunEnd(s, i))
  BY <1>1
<1>3. ASSUME NEW i \in 1..Len(s)
      PROVE  (\E k \in 1..(i - 1) : s[k].calls # <<>> /\ \E e \in Nat : PastRun(s, k, e) /\ i <= e)
             <=> (\E k \in 1..(i - 1) : s[k].calls # <<>> /\ History!RunEnd(s, k) >= i)
  <2>1. \A k \in 1..(i - 1) : k \in 1..Len(s)
    BY <1>0
  <2>2. \A k \in 1..(i - 1) : (\E e \in Nat : PastRun(s, k, e) /\ i <= e) <=> History!RunEnd(s, k) >= i
    BY <1>0, <1>1, <2>1
  <2> QED
    BY <2>2
<1>4. History!WellPaired(s) <=>
        \A i \in 1..Len(s) :
          /\ PastCall(s, i, History!RunEnd(s, i))
          /\ s[i].role = "tool" => \E k \in 1..(i - 1) : s[k].calls # <<>> /\ History!RunEnd(s, k) >= i
  BY <1>0 DEF History!WellPaired, History!IsTool, PastCall
<1> QED
  BY <1>2, <1>3, <1>4 DEF PastPaired

\* What pairs stays paired with something behind it that is not a result.
LEMMA PastJoined ==
    ASSUME NEW A, NEW a \in Seq(A), NEW b \in Seq(A), PastPaired(a), PastPaired(b),
           b # <<>> => b[1].role # "tool"
    PROVE  PastPaired(a \o b)
<1> DEFINE t == a \o b
           n == Len(a)
<1>0. /\ n \in Nat /\ Len(b) \in Nat /\ Len(t) = n + Len(b) /\ t \in Seq(A)
      /\ \A i \in 1..n : t[i] = a[i]
      /\ \A i \in 1..Len(b) : t[n + i] = b[i]
  OBVIOUS
<1>1. Len(b) > 0 => t[n + 1].role # "tool"
  BY <1>0
<1> HIDE DEF t, n
<1>n. n = Len(a)
  BY DEF n
<1>2. ASSUME NEW i \in 1..n, NEW e \in Nat, PastRun(a, i, e) PROVE PastRun(t, i, e)
  <2>1. e \in i..n
    BY <1>2, <1>n DEF PastRun
  <2>2. \A k \in (i + 1)..e : t[k].role = "tool"
    BY <1>0, <1>2, <2>1 DEF PastRun
  <2>3. e = Len(t) \/ t[e + 1].role # "tool"
    <3>1. CASE e = n
      BY <1>0, <1>1, <3>1
    <3>2. CASE e # n
      <4>1. e + 1 \in 1..n /\ a[e + 1].role # "tool"
        BY <1>0, <1>2, <1>n, <2>1, <3>2 DEF PastRun
      <4> QED
        BY <1>0, <4>1
    <3> QED
      BY <3>1, <3>2
  <2> QED
    BY <1>0, <2>1, <2>2, <2>3 DEF PastRun
<1>3. ASSUME NEW i \in 1..Len(b), NEW e \in Nat, PastRun(b, i, e) PROVE PastRun(t, n + i, n + e)
  <2>1. e \in i..Len(b)
    BY <1>3 DEF PastRun
  <2>2. ASSUME NEW k \in (n + i + 1)..(n + e) PROVE t[k].role = "tool"
    <3>1. k - n \in (i + 1)..e /\ k - n \in 1..Len(b) /\ k = n + (k - n)
      BY <1>0, <2>1
    <3>2. t[k] = b[k - n]
      BY <1>0, <3>1
    <3> QED
      BY <1>3, <3>1, <3>2 DEF PastRun
  <2>3. n + e = Len(t) \/ t[n + e + 1].role # "tool"
    <3>1. CASE e = Len(b)
      BY <1>0, <3>1
    <3>2. CASE e # Len(b)
      <4>1. e + 1 \in 1..Len(b) /\ b[e + 1].role # "tool"
        BY <1>0, <1>3, <2>1, <3>2 DEF PastRun
      <4>2. n + e + 1 = n + (e + 1)
        BY <1>0
      <4> QED
        BY <1>0, <4>1, <4>2
    <3> QED
      BY <3>1, <3>2
  <2>4. n + e \in (n + i)..Len(t)
    BY <1>0, <2>1
  <2>5. \A k \in (n + i + 1)..(n + e) : t[k].role = "tool"
    BY <2>2
  <2> QED
    BY <2>3, <2>4, <2>5 DEF PastRun
<1> DEFINE ok(i) ==
       /\ \E e \in Nat : PastRun(t, i, e) /\ PastCall(t, i, e)
       /\ t[i].role = "tool" =>
            \E k \in 1..(i - 1) : t[k].calls # <<>> /\ \E e \in Nat : PastRun(t, k, e) /\ i <= e
<1>4. ASSUME NEW i \in 1..n PROVE ok(i)
  <2>1. PICK e \in Nat : PastRun(a, i, e) /\ PastCall(a, i, e)
    BY <1>n DEF PastPaired
  <2>2. e \in i..n /\ \A k \in (i + 1)..e : t[k] = a[k]
    BY <1>0, <1>n, <2>1 DEF PastRun
  <2>3. PastCall(t, i, e)
    <3>1. {t[k].id : k \in (i + 1)..e} = {a[k].id : k \in (i + 1)..e}
      BY <2>2
    <3>2. t[i] = a[i]
      BY <1>0
    <3> QED
      BY <2>1, <3>1, <3>2 DEF PastCall
  <2>4. ASSUME t[i].role = "tool"
        PROVE  \E k \in 1..(i - 1) : t[k].calls # <<>> /\ \E f \in Nat : PastRun(t, k, f) /\ i <= f
    <3>1. a[i].role = "tool"
      BY <1>0, <2>4
    <3>2. PICK k \in 1..(i - 1), f \in Nat : a[k].calls # <<>> /\ PastRun(a, k, f) /\ i <= f
      BY <1>n, <3>1 DEF PastPaired
    <3>3. k \in 1..n /\ t[k] = a[k]
      BY <1>0, <3>2
    <3> QED
      BY <1>2, <3>2, <3>3
  <2> QED
    BY <1>2, <2>1, <2>3, <2>4
<1>5. ASSUME NEW i \in 1..Len(b) PROVE ok(n + i)
  <2>1. PICK e \in Nat : PastRun(b, i, e) /\ PastCall(b, i, e)
    BY DEF PastPaired
  <2>2. e \in i..Len(b) /\ n + e \in Nat
    BY <1>0, <2>1 DEF PastRun
  <2>3. PastCall(t, n + i, n + e)
    <3>1. {t[k].id : k \in (n + i + 1)..(n + e)} = {b[k].id : k \in (i + 1)..e}
      <4>1. ASSUME NEW k \in (n + i + 1)..(n + e) PROVE t[k].id \in {b[l].id : l \in (i + 1)..e}
        <5>1. k - n \in (i + 1)..e /\ k - n \in 1..Len(b) /\ k = n + (k - n)
          BY <1>0, <2>2
        <5> QED
          BY <1>0, <5>1
      <4>2. ASSUME NEW k \in (i + 1)..e PROVE b[k].id \in {t[l].id : l \in (n + i + 1)..(n + e)}
        <5>1. n + k \in (n + i + 1)..(n + e) /\ k \in 1..Len(b)
          BY <1>0, <2>2
        <5> QED
          BY <1>0, <5>1
      <4> QED
        BY <4>1, <4>2
    <3>2. t[n + i] = b[i] /\ n + e - (n + i) = e - i
      BY <1>0, <2>2
    <3>3. ASSUME t[n + i].calls # <<>>
          PROVE  /\ {t[n + i].calls[j].id : j \in DOMAIN t[n + i].calls} = {b[k].id : k \in (i + 1)..e}
                 /\ Len(t[n + i].calls) = e - i
      BY <2>1, <3>2, <3>3 DEF PastCall
    <3> DEFINE c == n + i
               f == n + e
               S == {b[k].id : k \in (i + 1)..e}
    <3>4. f - c = e - i
      BY <1>0, <2>2
    <3>7. {t[k].id : k \in (c + 1)..f} = S
      BY <3>1, Zenon
    <3>5. t[c].calls # <<>> =>
            /\ {t[c].calls[j].id : j \in DOMAIN t[c].calls} = S
            /\ Len(t[c].calls) = e - i
      BY <3>3
    <3> HIDE DEF c, f, S
    <3>6. PastCall(t, c, f)
      BY <3>4, <3>5, <3>7 DEF PastCall
    <3> QED
      BY <3>6 DEF c, f
  <2>4. ASSUME t[n + i].role = "tool"
        PROVE  \E k \in 1..((n + i) - 1) : t[k].calls # <<>> /\ \E f \in Nat : PastRun(t, k, f) /\ n + i <= f
    <3>1. b[i].role = "tool"
      BY <1>0, <2>4
    <3>2. PICK k \in 1..(i - 1), f \in Nat : b[k].calls # <<>> /\ PastRun(b, k, f) /\ i <= f
      BY <3>1 DEF PastPaired
    <3>3. k \in 1..Len(b) /\ t[n + k] = b[k] /\ n + k \in 1..((n + i) - 1) /\ n + f \in Nat /\ n + i <= n + f
      BY <1>0, <3>2
    <3>4. PastRun(t, n + k, n + f)
      BY <1>3, <3>2, <3>3
    <3> QED
      BY <3>2, <3>3, <3>4
  <2>5. PastRun(t, n + i, n + e)
    BY <1>3, <2>1
  <2>6. \E f \in Nat : PastRun(t, n + i, f) /\ PastCall(t, n + i, f)
    BY <2>2, <2>3, <2>5, Zenon
  <2> QED
    BY <2>4, <2>6, SMTT(20)
<1>6. ASSUME NEW i \in 1..Len(t) PROVE i \in 1..n \/ (i - n \in 1..Len(b) /\ i = n + (i - n))
  BY <1>0
<1>7. PastPaired(t)
  <2>1. \A i \in 1..n : ok(i)
    BY <1>4
  <2>2. \A i \in 1..Len(b) : ok(n + i)
    BY <1>5
  <2> HIDE DEF ok
  <2>3. \A i \in 1..Len(t) : ok(i)
    <3> TAKE i \in 1..Len(t)
    <3>1. CASE i \in 1..n
      BY <2>1, <3>1
    <3>2. CASE i - n \in 1..Len(b) /\ i = n + (i - n)
      <4> DEFINE j == i - n
      <4>1. j \in 1..Len(b) /\ n + j = i
        BY <3>2
      <4> HIDE DEF j
      <4>2. ok(n + j)
        BY <2>2, <4>1
      <4> QED
        BY <4>1, <4>2
    <3> QED
      BY <1>6, <3>1, <3>2
  <2> QED
    BY <2>3 DEF PastPaired, ok
<1> QED
  BY <1>7 DEF t

\* A part that neither begins with a result nor stops before one stays paired.
LEMMA PastPart ==
    ASSUME NEW A, NEW s \in Seq(A), PastPaired(s), NEW a \in 1..Len(s), NEW b \in a..Len(s),
           s[a].role # "tool", b = Len(s) \/ s[b + 1].role # "tool"
    PROVE  PastPaired(SubSeq(s, a, b))
<1> DEFINE t == SubSeq(s, a, b)
           d == a - 1
<1>0. /\ Len(s) \in Nat /\ d \in Nat /\ a = d + 1 /\ b \in Nat /\ Len(t) = b - d
      /\ \A i \in 1..Len(t) : t[i] = s[d + i]
  OBVIOUS
<1> HIDE DEF t, d
<1>1. ASSUME NEW i \in 1..Len(t), NEW e \in Nat, PastRun(s, d + i, e)
      PROVE  e \in (d + i)..b /\ e - d \in Nat /\ PastRun(t, i, e - d)
  <2>1. e \in (d + i)..Len(s)
    BY <1>1 DEF PastRun
  <2>2. e <= b
    <3> SUFFICES ASSUME e > b PROVE FALSE
      BY <1>0, <2>1
    <3>1. b + 1 \in (d + i + 1)..e /\ b # Len(s)
      BY <1>0, <2>1
    <3> QED
      BY <1>1, <3>1 DEF PastRun
  <2>3. ASSUME NEW k \in (i + 1)..(e - d) PROVE t[k].role = "tool"
    <3>1. d + k \in (d + i + 1)..e /\ k \in 1..Len(t)
      BY <1>0, <2>1, <2>2
    <3> QED
      BY <1>0, <1>1, <3>1 DEF PastRun
  <2>4. e - d = Len(t) \/ t[e - d + 1].role # "tool"
    <3>1. CASE e = b
      BY <1>0, <3>1
    <3>2. CASE e # b
      <4>1. e # Len(s) /\ s[e + 1].role # "tool"
        BY <1>0, <1>1, <2>1, <2>2, <3>2 DEF PastRun
      <4>2. e - d + 1 \in 1..Len(t) /\ d + (e - d + 1) = e + 1
        BY <1>0, <2>1, <2>2, <3>2
      <4> QED
        BY <1>0, <4>1, <4>2
    <3> QED
      BY <3>1, <3>2
  <2>5. e - d \in i..Len(t)
    BY <1>0, <2>1, <2>2
  <2>6. \A k \in (i + 1)..(e - d) : t[k].role = "tool"
    BY <2>3
  <2>7. PastRun(t, i, e - d)
    BY <2>4, <2>5, <2>6 DEF PastRun
  <2>8. e \in (d + i)..b /\ e - d \in Nat
    BY <1>0, <2>1, <2>2
  <2> QED
    BY <2>7, <2>8
<1>2. ASSUME NEW i \in 1..Len(t)
      PROVE  \E e \in Nat : PastRun(t, i, e) /\ PastCall(t, i, e)
  <2>0. d + i \in 1..Len(s)
    BY <1>0
  <2>1. PICK e \in Nat : PastRun(s, d + i, e) /\ PastCall(s, d + i, e)
    BY <2>0 DEF PastPaired
  <2>2. e \in (d + i)..b /\ e - d \in Nat /\ PastRun(t, i, e - d)
    BY <1>1, <2>1
  <2>3. {t[k].id : k \in (i + 1)..(e - d)} = {s[k].id : k \in (d + i + 1)..e}
    <3>1. ASSUME NEW k \in (i + 1)..(e - d) PROVE t[k].id \in {s[l].id : l \in (d + i + 1)..e}
      <4>1. d + k \in (d + i + 1)..e /\ k \in 1..Len(t)
        BY <1>0, <2>2
      <4> QED
        BY <1>0, <4>1
    <3>2. ASSUME NEW k \in (d + i + 1)..e PROVE s[k].id \in {t[l].id : l \in (i + 1)..(e - d)}
      <4>1. k - d \in (i + 1)..(e - d) /\ k - d \in 1..Len(t) /\ d + (k - d) = k
        BY <1>0, <2>2
      <4>2. t[k - d] = s[k]
        BY <1>0, <4>1
      <4> QED
        BY <4>1, <4>2
    <3> QED
      BY <3>1, <3>2
  <2>4. t[i] = s[d + i] /\ e - d - i = e - (d + i)
    BY <1>0, <2>2
  <2>5. PastCall(t, i, e - d)
    BY <2>1, <2>3, <2>4 DEF PastCall
  <2> QED
    BY <2>2, <2>5
<1>3. ASSUME NEW i \in 1..Len(t), t[i].role = "tool"
      PROVE  \E k \in 1..(i - 1) : t[k].calls # <<>> /\ \E e \in Nat : PastRun(t, k, e) /\ i <= e
  <2>0. d + i \in 1..Len(s) /\ s[d + i].role = "tool"
    BY <1>0, <1>3
  <2> DEFINE c == d + i
  <2> HIDE DEF c
  <2>b. c \in 1..Len(s) /\ s[c].role = "tool"
    BY <2>0 DEF c
  <2>c. PICK k \in 1..(c - 1) : s[k].calls # <<>> /\ \E e \in Nat : PastRun(s, k, e) /\ c <= e
    BY <2>b DEF PastPaired
  <2>a. c - 1 = (d + i) - 1 /\ c = d + i
    BY DEF c
  <2>1. PICK e \in Nat : s[k].calls # <<>> /\ PastRun(s, k, e) /\ d + i <= e /\ k \in 1..((d + i) - 1)
    BY <2>a, <2>c
  <2>2. k >= a
    <3> SUFFICES ASSUME k < a PROVE FALSE
      BY <1>0, <2>1
    <3>1. a \in (k + 1)..e
      BY <1>0, <2>1
    <3> QED
      BY <2>1, <3>1 DEF PastRun
  <2> DEFINE j == k - d
  <2>3. j \in 1..(i - 1) /\ j \in 1..Len(t) /\ d + j = k
    BY <1>0, <2>0, <2>1, <2>2
  <2> HIDE DEF j
  <2>4. e - d \in Nat /\ PastRun(t, j, e - d) /\ i <= e - d
    BY <1>0, <1>1, <2>1, <2>3
  <2>5. t[j] = s[k]
    BY <1>0, <2>3
  <2> QED
    BY <2>1, <2>3, <2>4, <2>5
<1>4. PastPaired(t)
  BY <1>2, <1>3 DEF PastPaired
<1> QED
  BY <1>4 DEF t

\* A set that is numbered without repetition has as many elements as numbers.
LEMMA PastCounted ==
    ASSUME NEW a \in Nat, NEW b \in Nat, a <= b, NEW T, NEW f \in [(a + 1)..b -> T],
           \A k, l \in (a + 1)..b : f[k] = f[l] => k = l,
           \A x \in T : \E k \in (a + 1)..b : f[k] = x
    PROVE  Cardinality(T) = b - a
<1> DEFINE S == (a + 1)..b
<1>1. IsFiniteSet(S) /\ Cardinality(S) = b - a
  <2>1. a + 1 \in Int /\ b \in Int
    OBVIOUS
  <2>2. IsFiniteSet(S) /\ Cardinality(S) = IF a + 1 > b THEN 0 ELSE (b - (a + 1)) + 1
    BY <2>1, FS_Interval
  <2> QED
    BY <2>2
<1>2. f \in Bijection(S, T)
  <2> HIDE DEF S
  <2> QED
    BY Fun_IsBij DEF S
<1> HIDE DEF S
<1>3. ExistsBijection(S, T)
  BY <1>2, Fun_ExistsBij
<1> QED
  BY <1>1, <1>3, FS_Bijection

\* What a projection keeps: the parts of ProjectTranscript.
PastDeclares(t, i, id) ==
  /\ \E j \in DOMAIN t[i].calls : t[i].calls[j].id = id
  /\ \A k \in 1..(i - 1) : \A l \in DOMAIN t[k].calls : t[k].calls[l].id # id
PastAnswered(t, i, id) ==
  /\ PastDeclares(t, i, id)
  /\ \E k \in (i + 1)..History!RunEnd(t, i) : t[k].id = id
  /\ \A k \in DOMAIN t : \A l \in DOMAIN t[k].calls :
       t[k].calls[l].id = id => t[k].calls[l].valid
PastFirst(t, i) ==
  {j \in DOMAIN t[i].calls : /\ PastAnswered(t, i, t[i].calls[j].id)
                             /\ \A l \in 1..(j - 1) : t[i].calls[l].id # t[i].calls[j].id}
PastCalls(t, i) == History!Picked(t[i].calls, PastFirst(t, i))
PastStays(t, i) ==
  IF History!IsTool(t[i])
    THEN \E d \in 1..(i - 1) :
           /\ PastAnswered(t, d, t[i].id)
           /\ \A k \in (d + 1)..(i - 1) : History!IsTool(t[k]) => t[k].id # t[i].id
    ELSE t[i].role = "assistant" => t[i].body.name # "" \/ PastCalls(t, i) # <<>>
PastStay(t) == {i \in DOMAIN t : PastStays(t, i)}
PastKept(t) == History!Ascending(t, PastStay(t))

\* What the projection of a transcript is, part by part.
LEMMA PastProjection ==
    ASSUME NEW t
    PROVE  History!ProjectTranscript(t) =
             IF History!validTranscriptStructure(t)
               THEN [n \in DOMAIN PastKept(t) |->
                       [t[PastKept(t)[n]] EXCEPT !.calls = PastCalls(t, PastKept(t)[n])]]
               ELSE <<>>
  BY DEF History!ProjectTranscript, PastKept, PastStay, PastStays, PastCalls, PastFirst, PastAnswered,
         PastDeclares, History!None

\* The calls kept of a message: one for each id that is answered.
PastIds(t, i) == {t[i].calls[j].id : j \in PastFirst(t, i)}

\* The calls that are kept are those of the ids that are kept, each once.
LEMMA PastCallIds ==
    ASSUME NEW t \in Seq(History!Messages), NEW i \in 1..Len(t)
    PROVE  /\ PastCalls(t, i) \in Seq(History!ToolCalls)
           /\ {PastCalls(t, i)[j].id : j \in DOMAIN PastCalls(t, i)} = PastIds(t, i)
           /\ Cardinality(PastIds(t, i)) = Len(PastCalls(t, i))
<1> DEFINE c  == t[i].calls
           P  == PastFirst(t, i)
           js == History!Ascending(c, P)
           cs == PastCalls(t, i)
           n  == Len(js)
<1>1. c \in Seq(History!ToolCalls) /\ P \in SUBSET DOMAIN c
  <2>1. t[i] \in History!Messages
    OBVIOUS
  <2> QED
    BY <2>1 DEF History!Messages, PastFirst
<1>2. \A j, k \in P : c[j].id = c[k].id => j = k
  <2> SUFFICES ASSUME NEW j \in P, NEW k \in P, c[j].id = c[k].id, j < k PROVE FALSE
    BY <1>1
  <2>1. j \in 1..(k - 1)
    BY <1>1
  <2> QED
    BY <2>1 DEF PastFirst
<1>3. cs = [x \in DOMAIN js |-> c[js[x]]]
  BY DEF PastCalls, History!Picked, History!At
<1>4. PastIds(t, i) = {c[j].id : j \in P}
  BY DEF PastIds
<1> HIDE DEF c, P
<1>5. IsAscending(js, P, Len(c))
  BY <1>1, PastAscending
<1> HIDE DEF js, cs
<1>6. /\ js \in Seq(1..Len(c)) /\ {js[k] : k \in DOMAIN js} = P
      /\ \A k, l \in DOMAIN js : k < l => js[k] < js[l]
  BY <1>5 DEF IsAscending
<1>7. n \in Nat /\ DOMAIN js = 1..n /\ DOMAIN c = 1..Len(c) /\ \A x \in 1..n : js[x] \in DOMAIN c /\ js[x] \in P
  BY <1>1, <1>6
<1> HIDE DEF n
<1>8. cs \in Seq(History!ToolCalls) /\ Len(cs) = n /\ DOMAIN cs = 1..n /\ \A x \in 1..n : cs[x] = c[js[x]]
  <2>1. \A x \in 1..n : c[js[x]] \in History!ToolCalls
    BY <1>1, <1>7
  <2> QED
    BY <1>3, <1>7, <2>1
<1>9. {cs[x].id : x \in DOMAIN cs} = PastIds(t, i)
  <2>1. \A x \in 1..n : cs[x].id \in PastIds(t, i)
    BY <1>4, <1>7, <1>8
  <2>2. ASSUME NEW j \in P PROVE \E x \in 1..n : cs[x].id = c[j].id
    <3>1. PICK x \in 1..n : js[x] = j
      BY <1>6, <1>7
    <3> QED
      BY <1>8, <3>1
  <2>3. \A id \in PastIds(t, i) : \E x \in 1..n : cs[x].id = id
    BY <1>4, <2>2
  <2> QED
    BY <1>8, <2>1, <2>3
<1>10. Cardinality(PastIds(t, i)) = n
  <2> DEFINE T == PastIds(t, i)
             f == [x \in (0 + 1)..n |-> cs[x].id]
  <2>1. \A x \in (0 + 1)..n : f[x] = cs[x].id /\ x \in 1..n
    OBVIOUS
  <2>2. f \in [(0 + 1)..n -> T]
    BY <1>8, <1>9
  <2>3. \A x \in T : \E k \in (0 + 1)..n : f[k] = x
    BY <1>8, <1>9
  <2>4. \A k, l \in (0 + 1)..n : f[k] = f[l] => k = l
    <3> SUFFICES ASSUME NEW k \in 1..n, NEW l \in 1..n, cs[k].id = cs[l].id PROVE k = l
      BY <2>1
    <3>1. js[k] = js[l]
      BY <1>2, <1>7, <1>8
    <3>2. js[k] \in Nat /\ js[l] \in Nat /\ k \in DOMAIN js /\ l \in DOMAIN js
      BY <1>6, <1>7
    <3>3. ~(k < l) /\ ~(l < k)
      BY <1>6, <3>1, <3>2
    <3> QED
      BY <1>7, <3>3
  <2> HIDE DEF f, T
  <2> DEFINE z == 0
  <2>6. /\ f \in [(z + 1)..n -> T] /\ \A x \in T : \E k \in (z + 1)..n : f[k] = x
        /\ \A k, l \in (z + 1)..n : f[k] = f[l] => k = l
    BY <2>2, <2>3, <2>4
  <2>7. z \in Nat /\ n \in Nat /\ z <= n /\ n - z = n
    BY <1>7
  <2> HIDE DEF z
  <2>5. Cardinality(T) = n
    BY <2>6, <2>7, PastCounted
  <2> QED
    BY <1>7, <2>5 DEF T
<1> QED
  BY <1>8, <1>9, <1>10 DEF cs

\* An id that is answered is one of them, and its message stays.
LEMMA PastDeclarer ==
    ASSUME NEW t \in Seq(History!Messages), History!validTranscriptStructure(t),
           NEW d \in 1..Len(t)
    PROVE  /\ PastIds(t, d) = {id \in Nat : PastAnswered(t, d, id)}
           /\ PastIds(t, d) # {} => t[d].role = "assistant" /\ PastCalls(t, d) # <<>> /\ PastStays(t, d)
           /\ PastIds(t, d) = {} => PastCalls(t, d) = <<>>
<1> DEFINE c == t[d].calls
<1>0. t[d] \in History!Messages
  OBVIOUS
<1>a. c \in Seq(History!ToolCalls)
  BY <1>0 DEF History!Messages
<1> HIDE DEF c
<1>1. c \in Seq(History!ToolCalls) /\ Len(c) \in Nat /\ DOMAIN c = 1..Len(c)
  BY <1>a
<1>2. \A j \in DOMAIN c : c[j].id \in Nat
  <2>1. \A j \in DOMAIN c : c[j] \in History!ToolCalls
    BY <1>1
  <2> QED
    BY <2>1 DEF History!ToolCalls
<1> USE DEF c
<1>3. ASSUME NEW id \in Nat, PastAnswered(t, d, id) PROVE id \in PastIds(t, d)
  <2> DEFINE J == {j \in DOMAIN c : c[j].id = id}
  <2>1. J \in SUBSET Nat /\ J # {}
    BY <1>1, <1>3 DEF PastAnswered, PastDeclares
  <2> HIDE DEF J
  <2>2. PICK j \in J : \A k \in J : j <= k
    BY <2>1, KnownLeast
  <2>3. j \in DOMAIN c /\ c[j].id = id /\ \A l \in 1..(j - 1) : c[l].id # id
    <3>1. j \in 1..Len(c) /\ c[j].id = id
      BY <1>1, <2>2 DEF J
    <3>2. ASSUME NEW l \in 1..(j - 1) PROVE c[l].id # id
      <4>1. l \in DOMAIN c /\ l < j
        BY <1>1, <3>1
      <4> QED
        BY <1>1, <2>2, <3>1, <4>1 DEF J
    <3> QED
      BY <1>1, <3>1, <3>2
  <2>4. j \in PastFirst(t, d)
    BY <1>3, <2>3 DEF PastFirst
  <2> QED
    BY <2>3, <2>4 DEF PastIds
<1>4. PastIds(t, d) = {id \in Nat : PastAnswered(t, d, id)}
  <2>1. ASSUME NEW j \in PastFirst(t, d) PROVE c[j].id \in Nat /\ PastAnswered(t, d, c[j].id)
    BY <1>2 DEF PastFirst
  <2> QED
    BY <1>3, <2>1 DEF PastIds
<1>5. ASSUME PastIds(t, d) # {}
      PROVE  t[d].role = "assistant" /\ PastCalls(t, d) # <<>> /\ PastStays(t, d)
  <2>1. c # <<>>
    BY <1>1, <1>5 DEF PastIds, PastFirst
  <2>2. t[d].role = "assistant"
    BY <2>1 DEF History!validTranscriptStructure
  <2>3. PastCalls(t, d) # <<>>
    <3> DEFINE cs == PastCalls(t, d)
    <3>1. {cs[j].id : j \in DOMAIN cs} = PastIds(t, d)
      BY PastCallIds
    <3> HIDE DEF cs
    <3>2. DOMAIN cs # {}
      BY <1>5, <3>1
    <3> QED
      BY <3>2 DEF cs
  <2> QED
    BY <2>2, <2>3 DEF PastStays, History!IsTool
<1>6. ASSUME PastIds(t, d) = {} PROVE PastCalls(t, d) = <<>>
  <2> DEFINE cs == PastCalls(t, d)
  <2>1. cs \in Seq(History!ToolCalls) /\ {cs[j].id : j \in DOMAIN cs} = PastIds(t, d)
    BY PastCallIds
  <2> HIDE DEF cs
  <2>2. DOMAIN cs = {}
    BY <1>6, <2>1
  <2>3. cs = <<>>
    BY <2>1, <2>2
  <2> QED
    BY <2>3 DEF cs
<1> QED
  BY <1>4, <1>5, <1>6

\* A result that stays lies in the run of the message that declared its call, and is
\* the first there of its id.
LEMMA PastOwner ==
    ASSUME NEW t \in Seq(History!Messages), History!validTranscriptStructure(t),
           NEW k \in 1..Len(t), t[k].role = "tool", PastStays(t, k)
    PROVE  \E d \in 1..(k - 1) :
             /\ t[d].role = "assistant" /\ PastStays(t, d) /\ PastCalls(t, d) # <<>>
             /\ t[k].id \in PastIds(t, d) /\ k <= History!RunEnd(t, d)
             /\ \A l \in (d + 1)..(k - 1) : t[l].id # t[k].id
<1>1. PICK d \in 1..(k - 1) :
        /\ PastAnswered(t, d, t[k].id)
        /\ \A l \in (d + 1)..(k - 1) : t[l].role = "tool" => t[l].id # t[k].id
  BY DEF PastStays, History!IsTool
<1> DEFINE e == History!RunEnd(t, d)
<1>2. d \in 1..Len(t) /\ Len(t) \in Nat
  OBVIOUS
<1>3. e \in d..Len(t) /\ \A l \in (d + 1)..e : t[l].role = "tool"
  BY <1>2, PastRunEnds DEF PastRun
<1>4. PICK a \in (d + 1)..e : t[a].id = t[k].id
  BY <1>1 DEF PastAnswered
<1> HIDE DEF e
<1>5. k <= e
  <2> SUFFICES ASSUME k > e PROVE FALSE
    BY <1>2, <1>3
  <2>1. a \in (d + 1)..(k - 1) /\ t[a].role = "tool"
    BY <1>2, <1>3
  <2> QED
    BY <1>1, <1>4, <2>1
<1>6. \A l \in (d + 1)..(k - 1) : t[l].id # t[k].id
  <2>1. \A l \in (d + 1)..(k - 1) : l \in (d + 1)..e
    BY <1>2, <1>3, <1>5
  <2> QED
    BY <1>1, <1>3, <2>1
<1>7. t[k].id \in Nat
  <2>1. t[k] \in History!Messages
    OBVIOUS
  <2> QED
    BY <2>1 DEF History!Messages
<1>8. t[k].id \in PastIds(t, d)
  BY <1>1, <1>2, <1>7, PastDeclarer
<1>9. t[d].role = "assistant" /\ PastStays(t, d) /\ PastCalls(t, d) # <<>>
  BY <1>2, <1>8, PastDeclarer
<1> QED
  BY <1>5, <1>6, <1>8, <1>9 DEF e

\* What a projection consists of.
LEMMA PastProjected ==
    ASSUME NEW t \in Seq(History!Messages), History!validTranscriptStructure(t),
           NEW r, r = History!ProjectTranscript(t), NEW kept, kept = PastKept(t)
    PROVE  /\ r \in Seq(History!Messages) /\ Len(r) = Len(kept)
           /\ IsAscending(kept, PastStay(t), Len(t))
           /\ \A m \in 1..Len(r) : /\ r[m].role = t[kept[m]].role /\ r[m].id = t[kept[m]].id
                                   /\ r[m].calls = PastCalls(t, kept[m])
                                   /\ kept[m] \in 1..Len(t) /\ PastStays(t, kept[m])
<1>1. PastStay(t) \in SUBSET DOMAIN t
  BY DEF PastStay
<1>2. IsAscending(kept, PastStay(t), Len(t))
  BY <1>1, PastAscending DEF PastKept
<1>3. kept \in Seq(1..Len(t)) /\ {kept[k] : k \in DOMAIN kept} = PastStay(t)
  BY <1>2 DEF IsAscending
<1>4. /\ Len(kept) \in Nat /\ DOMAIN kept = 1..Len(kept)
      /\ \A m \in 1..Len(kept) : kept[m] \in 1..Len(t) /\ kept[m] \in PastStay(t)
  BY <1>3
<1>5. \A m \in 1..Len(kept) : PastStays(t, kept[m]) /\ t[kept[m]] \in History!Messages
  BY <1>4 DEF PastStay
<1> DEFINE one(k) == [t[k] EXCEPT !.calls = PastCalls(t, k)]
<1>6. ASSUME NEW k \in 1..Len(t)
      PROVE  one(k) \in History!Messages /\ one(k).role = t[k].role /\ one(k).id = t[k].id
             /\ one(k).calls = PastCalls(t, k)
  <2>1. t[k] \in History!Messages
    OBVIOUS
  <2>2. PastCalls(t, k) \in Seq(History!ToolCalls)
    BY PastCallIds
  <2> DEFINE S == Seq(History!ToolCalls)
             c == PastCalls(t, k)
  <2>3. c \in S
    BY <2>2
  <2> HIDE DEF S, c
  <2>4. [t[k] EXCEPT !.calls = c] \in History!Messages
    BY <2>1, <2>3 DEF History!Messages, S
  <2>5. LET m == [t[k] EXCEPT !.calls = c] IN m.role = t[k].role /\ m.id = t[k].id /\ m.calls = c
    BY <2>1 DEF History!Messages
  <2> QED
    BY <2>4, <2>5 DEF c
<1> HIDE DEF one
<1>7. r = [m \in DOMAIN kept |-> one(kept[m])]
  BY PastProjection DEF one
<1>8. \A m \in 1..Len(kept) : r[m] = one(kept[m])
  BY <1>4, <1>7
<1>9. r \in Seq(History!Messages) /\ Len(r) = Len(kept)
  BY <1>4, <1>6, <1>7
<1> QED
  BY <1>2, <1>4, <1>5, <1>6, <1>8, <1>9

\* What is projected is paired, whatever the transcript was.
LEMMA PastProjectedPaired ==
    ASSUME NEW t \in Seq(History!Messages)
    PROVE  History!ProjectTranscript(t) \in Seq(History!Messages) /\ PastPaired(History!ProjectTranscript(t))
<1>1. CASE ~History!validTranscriptStructure(t)
  <2>1. History!ProjectTranscript(t) = <<>>
    BY <1>1, PastProjection
  <2> QED
    BY <2>1 DEF PastPaired
<1>2. CASE History!validTranscriptStructure(t)
  <2> DEFINE r    == History!ProjectTranscript(t)
             kept == PastKept(t)
             L    == Len(r)
             n    == Len(t)
             End(m) == History!RunEnd(t, kept[m])
  <2>a. /\ r \in Seq(History!Messages) /\ Len(r) = Len(kept) /\ IsAscending(kept, PastStay(t), n)
        /\ \A m \in 1..L : /\ r[m].role = t[kept[m]].role /\ r[m].id = t[kept[m]].id
                           /\ r[m].calls = PastCalls(t, kept[m])
                           /\ kept[m] \in 1..n /\ PastStays(t, kept[m])
    BY <1>2, PastProjected
  <2> HIDE DEF r, kept
  <2>b. L \in Nat /\ n \in Nat /\ DOMAIN kept = 1..L
    BY <2>a DEF IsAscending
  <2>c. /\ \A k, l \in 1..L : k < l => kept[k] < kept[l]
        /\ \A p \in 1..n : PastStays(t, p) => \E m \in 1..L : kept[m] = p
    <3>1. \A k, l \in DOMAIN kept : k < l => kept[k] < kept[l]
      BY <2>a DEF IsAscending
    <3>2. ASSUME NEW p \in 1..n, PastStays(t, p) PROVE \E m \in 1..L : kept[m] = p
      <4>1. p \in PastStay(t)
        BY <3>2 DEF PastStay
      <4>2. {kept[m] : m \in DOMAIN kept} = PastStay(t)
        BY <2>a DEF IsAscending
      <4> QED
        BY <2>b, <4>1, <4>2
    <3> QED
      BY <2>b, <3>1, <3>2
  <2>d. \A k, l \in 1..L : kept[k] < kept[l] => k < l
    <3> TAKE k, l \in 1..L
    <3>1. kept[k] \in Nat /\ kept[l] \in Nat /\ k \in Nat /\ l \in Nat
      BY <2>a
    <3>2. l < k => kept[l] < kept[k]
      BY <2>c
    <3> QED
      BY <3>1, <3>2
  <2> HIDE DEF L, n
  <2>e. \A m \in 1..L : End(m) \in kept[m]..n /\ \A k \in (kept[m] + 1)..End(m) : t[k].role = "tool"
    BY <2>a, PastRunEnds DEF PastRun, n
  <2> HIDE DEF End
  <2>1. ASSUME NEW l \in 1..L, r[l].role = "tool"
        PROVE  \E q \in 1..(l - 1) :
                 /\ r[q].role = "assistant" /\ r[q].calls # <<>> /\ kept[l] <= End(q)
                 /\ r[l].id \in PastIds(t, kept[q])
                 /\ \A x \in (q + 1)..(l - 1) : r[x].id # r[l].id
    <3> DEFINE k == kept[l]
    <3>1. k \in 1..n /\ t[k].role = "tool" /\ PastStays(t, k) /\ r[l].id = t[k].id
      BY <2>1, <2>a
    <3> HIDE DEF k
    <3>2. PICK d \in 1..(k - 1) :
             /\ t[d].role = "assistant" /\ PastStays(t, d) /\ PastCalls(t, d) # <<>>
             /\ t[k].id \in PastIds(t, d) /\ k <= History!RunEnd(t, d)
             /\ \A x \in (d + 1)..(k - 1) : t[x].id # t[k].id
      BY <1>2, <3>1, PastOwner DEF n
    <3>3. PICK q \in 1..L : kept[q] = d
      BY <2>b, <2>c, <3>1, <3>2
    <3>4. q \in 1..(l - 1)
      <4>1. kept[q] < kept[l]
        BY <2>b, <3>1, <3>2, <3>3 DEF k
      <4> QED
        BY <2>b, <2>d, <4>1
    <3>5. ASSUME NEW x \in (q + 1)..(l - 1) PROVE r[x].id # r[l].id
      <4>1. x \in 1..L /\ kept[q] < kept[x] /\ kept[x] < kept[l]
        BY <2>b, <2>c, <3>4
      <4>2. kept[x] \in (d + 1)..(k - 1)
        BY <2>a, <3>1, <3>3, <4>1 DEF k
      <4> QED
        BY <2>a, <3>1, <3>2, <4>1, <4>2
    <3>6. r[q].role = "assistant" /\ r[q].calls # <<>> /\ kept[l] <= End(q) /\ r[l].id \in PastIds(t, kept[q])
      BY <2>a, <3>1, <3>2, <3>3 DEF End, k
    <3> QED
      BY <3>4, <3>5, <3>6
  <2>2. ASSUME NEW q \in 1..L, NEW e \in Nat, PastRun(r, q, e), NEW l \in (q + 1)..L, kept[l] <= End(q)
        PROVE  l <= e
    <3> SUFFICES ASSUME l > e PROVE FALSE
      BY <2>b
    <3>1. e \in q..L /\ e # L /\ r[e + 1].role # "tool"
      BY <2>2, <2>b DEF PastRun, L
    <3> DEFINE x == e + 1
    <3>2. x \in 1..L /\ q < x /\ x <= l /\ l \in 1..L
      BY <2>b, <3>1
    <3> HIDE DEF x
    <3>3. kept[q] < kept[x] /\ kept[x] <= kept[l] /\ kept[x] \in 1..n /\ kept[q] \in 1..n /\ kept[l] \in 1..n
      <4>1. kept[x] \in 1..n /\ kept[q] \in 1..n /\ kept[l] \in 1..n
        BY <2>a, <3>2
      <4>2. x = l \/ kept[x] < kept[l]
        BY <2>b, <2>c, <3>2
      <4> QED
        BY <2>c, <3>2, <4>1, <4>2
    <3>4. kept[x] \in (kept[q] + 1)..End(q)
      BY <2>2, <2>b, <2>e, <3>3
    <3>5. t[kept[x]].role = "tool"
      BY <2>e, <3>4
    <3> QED
      BY <2>a, <3>1, <3>2, <3>5 DEF x
  <2>3. ASSUME NEW m \in 1..L PROVE \E e \in Nat : PastRun(r, m, e)
    <3>1. PastRun(r, m, History!RunEnd(r, m))
      BY <2>a, PastRunEnds DEF L
    <3>2. History!RunEnd(r, m) \in Nat
      BY <2>b, <3>1 DEF PastRun, L
    <3> QED
      BY <3>1, <3>2
  <2>4. ASSUME NEW m \in 1..L, r[m].role = "tool"
        PROVE  \E q \in 1..(m - 1) : r[q].calls # <<>> /\ \E e \in Nat : PastRun(r, q, e) /\ m <= e
    <3>1. PICK q \in 1..(m - 1) : r[q].calls # <<>> /\ kept[m] <= End(q)
      BY <2>1, <2>4
    <3>2. q \in 1..L /\ m \in (q + 1)..L
      BY <2>b, <3>1
    <3>3. PICK e \in Nat : PastRun(r, q, e)
      BY <2>3, <3>2
    <3>4. m <= e
      BY <2>2, <3>1, <3>2, <3>3
    <3> QED
      BY <3>1, <3>3, <3>4
  <2>5. ASSUME NEW m \in 1..L, NEW e \in Nat, PastRun(r, m, e), r[m].calls # <<>>
        PROVE  PastCall(r, m, e)
    <3> DEFINE i == kept[m]
               I == PastIds(t, i)
               c == r[m].calls
    <3>1. e \in m..L /\ \A l \in (m + 1)..e : r[l].role = "tool"
      BY <2>5 DEF PastRun, L
    <3>a. i \in 1..n /\ c = PastCalls(t, i)
      BY <2>a
    <3> HIDE DEF c
    <3>b. /\ {PastCalls(t, i)[j].id : j \in DOMAIN PastCalls(t, i)} = I
          /\ Cardinality(I) = Len(PastCalls(t, i))
      BY <3>a, PastCallIds DEF n
    <3>2. i \in 1..n /\ {c[j].id : j \in DOMAIN c} = I /\ Cardinality(I) = Len(c)
      BY <3>a, <3>b
    <3>3. /\ t[i].role = "assistant"
          /\ \A id \in I : PastAnswered(t, i, id)
      BY <1>2, <2>5, <2>a, <3>2, PastDeclarer DEF n
    <3>r. r[m].role = "assistant"
      BY <2>a, <3>3
    <3> HIDE DEF I
    <3>4. ASSUME NEW l \in (m + 1)..e
          PROVE  r[l].id \in I /\ \A x \in (m + 1)..(l - 1) : r[x].id # r[l].id
      <4>1. l \in 1..L /\ r[l].role = "tool" /\ m < l
        BY <2>b, <3>1
      <4>2. PICK q \in 1..(l - 1) :
                 /\ r[q].role = "assistant" /\ kept[l] <= End(q)
                 /\ r[l].id \in PastIds(t, kept[q])
                 /\ \A x \in (q + 1)..(l - 1) : r[x].id # r[l].id
        BY <2>1, <4>1
      <4>3. q <= m
        <5> SUFFICES ASSUME q > m PROVE FALSE
          BY <2>b, <4>1
        <5>1. q \in (m + 1)..e
          BY <2>b, <3>1, <4>1
        <5> QED
          BY <3>1, <4>2, <5>1
      <4>4. q = m
        <5> SUFFICES ASSUME q < m PROVE FALSE
          BY <2>b, <4>1, <4>3
        <5>1. q \in 1..L /\ kept[q] < kept[m] /\ kept[m] < kept[l]
          BY <2>b, <2>c, <4>1
        <5>2. End(q) \in kept[q]..n /\ \A k \in (kept[q] + 1)..End(q) : t[k].role = "tool"
          BY <2>e, <5>1
        <5>3. kept[q] \in 1..n /\ kept[m] \in 1..n /\ kept[l] \in 1..n
          BY <2>a, <2>b, <4>1, <5>1
        <5>4. kept[m] \in (kept[q] + 1)..End(q)
          <6> HIDE DEF End
          <6>1. End(q) \in Nat
            BY <2>b, <5>2, <5>3
          <6> QED
            BY <4>2, <5>1, <5>3, <6>1
        <5> QED
          BY <3>3, <5>2, <5>4
      <4> QED
        BY <4>2, <4>4 DEF I
    <3>5. ASSUME NEW id \in I PROVE \E l \in (m + 1)..e : r[l].id = id
      <4> DEFINE K == {k \in (i + 1)..End(m) : t[k].id = id}
      <4>1. K # {} /\ K \in SUBSET Nat
        BY <2>b, <2>e, <3>2, <3>3 DEF PastAnswered, End
      <4> HIDE DEF K
      <4>2. PICK k \in K : \A x \in K : k <= x
        BY <4>1, KnownLeast
      <4>3. k \in (i + 1)..End(m) /\ t[k].id = id /\ i \in Nat /\ End(m) \in Nat /\ End(m) <= n
        BY <2>b, <2>e, <3>2, <4>2 DEF K
      <4>4. k \in 1..n /\ i \in 1..(k - 1) /\ t[k].role = "tool"
        BY <2>b, <2>e, <3>2, <4>3
      <4>5. ASSUME NEW x \in (i + 1)..(k - 1) PROVE t[x].id # t[k].id
        <5>1. x \in (i + 1)..End(m) /\ x < k
          BY <4>3, <4>4
        <5> QED
          BY <4>2, <4>3, <4>4, <5>1 DEF K
      <4>6. PastStays(t, k)
        BY <3>3, <4>3, <4>4, <4>5 DEF PastStays, History!IsTool
      <4>7. PICK l \in 1..L : kept[l] = k
        BY <2>c, <4>4, <4>6
      <4>8. l \in (m + 1)..L
        <5>1. kept[m] < kept[l]
          BY <4>3, <4>7
        <5> QED
          BY <2>b, <2>d, <5>1
      <4>9. l \in (m + 1)..e
        <5>1. kept[l] <= End(m)
          BY <4>3, <4>7
        <5>2. l <= e
          BY <2>2, <2>5, <4>8, <5>1
        <5> QED
          BY <2>b, <4>8, <5>2
      <4> QED
        BY <2>a, <4>3, <4>7, <4>9
    <3>6. Cardinality(I) = e - m
      <4> DEFINE f == [l \in (m + 1)..e |-> r[l].id]
      <4>1. f \in [(m + 1)..e -> I] /\ \A id \in I : \E l \in (m + 1)..e : f[l] = id
        BY <3>4, <3>5
      <4>2. \A k, l \in (m + 1)..e : f[k] = f[l] => k = l
        <5> SUFFICES ASSUME NEW k \in (m + 1)..e, NEW l \in (m + 1)..e, k < l, r[k].id = r[l].id PROVE FALSE
          BY <3>1
        <5>1. k \in (m + 1)..(l - 1)
          BY <2>b, <3>1
        <5> QED
          BY <3>4, <5>1
      <4> HIDE DEF f
      <4>3. m \in Nat /\ m <= e
        BY <2>b, <3>1
      <4> QED
        BY <4>1, <4>2, <4>3, PastCounted
    <3>7. {r[l].id : l \in (m + 1)..e} = I
      BY <3>4, <3>5
    <3> QED
      BY <3>2, <3>6, <3>7 DEF PastCall, c
  <2>6. PastPaired(r)
    <3>1. ASSUME NEW m \in 1..L PROVE \E e \in Nat : PastRun(r, m, e) /\ PastCall(r, m, e)
      <4>1. PICK e \in Nat : PastRun(r, m, e)
        BY <2>3
      <4>2. PastCall(r, m, e)
        BY <2>5, <4>1 DEF PastCall
      <4> QED
        BY <4>1, <4>2
    <3> QED
      BY <2>4, <3>1 DEF PastPaired, L
  <2> QED
    BY <2>6, <2>a DEF r
<1> QED
  BY <1>1, <1>2

\* The concatenation, one piece after the other.
PastFlat(f, s, n) == f = [i \in 1..n |-> IF i = 1 THEN s[i] ELSE f[i - 1] \o s[i]]

\* The recursion by which a concatenation is defined has a solution.
LEMMA PastFlatExists ==
    ASSUME NEW s, NEW n \in Nat
    PROVE  \E f : PastFlat(f, s, n)
<1> DEFINE H == {m \in Nat : \E f : PastFlat(f, s, m)}
<1>1. 0 \in H
  <2>1. PastFlat([i \in 1..0 |-> <<>>], s, 0)
    BY DEF PastFlat
  <2> QED
    BY <2>1
<1>2. ASSUME NEW m \in 1..n, m - 1 \in H PROVE m \in H
  <2>1. PICK f : PastFlat(f, s, m - 1)
    BY <1>2
  <2> DEFINE new == IF m = 1 THEN s[m] ELSE f[m - 1] \o s[m]
             g   == [i \in 1..m |-> IF i = m THEN new ELSE f[i]]
  <2>2. \A i \in 1..m : i # m => g[i] = f[i]
    OBVIOUS
  <2>3. \A i \in 2..m : g[i - 1] = f[i - 1]
    OBVIOUS
  <2>4. \A i \in 1..(m - 1) : f[i] = IF i = 1 THEN s[i] ELSE f[i - 1] \o s[i]
    BY <2>1 DEF PastFlat
  <2>5. g[m] = IF m = 1 THEN s[m] ELSE f[m - 1] \o s[m]
    OBVIOUS
  <2>6. DOMAIN g = 1..m /\ g = [i \in 1..m |-> g[i]]
    OBVIOUS
  <2> HIDE DEF g, new
  <2>7. \A i \in 1..m : g[i] = IF i = 1 THEN s[i] ELSE g[i - 1] \o s[i]
    <3> TAKE i \in 1..m
    <3>0. i # 1 => i \in 2..m
      OBVIOUS
    <3>1. CASE i = m
      BY <3>0, <3>1, <2>5, <2>3
    <3>2. CASE i # m
      <4>1. i \in 1..(m - 1)
        BY <3>2
      <4> QED
        BY <3>0, <3>2, <4>1, <2>2, <2>3, <2>4
    <3> QED
      BY <3>1, <3>2
  <2>8. PastFlat(g, s, m)
    BY <2>6, <2>7 DEF PastFlat
  <2> QED
    BY <2>8
<1> HIDE DEF H
<1>3. 0..n \subseteq H
  <2>1. H \in SUBSET Nat
    BY DEF H
  <2>2. \A m \in 1..n : m - 1 \in H => m \in H
    BY <1>2
  <2> QED
    BY <1>1, <2>1, <2>2, KnownInRow
<1>4. n \in H
  BY <1>3
<1> QED
  BY <1>4 DEF H

\* What does not begin with a result.
PastBegins(s) == s # <<>> => s[1].role # "tool"

\* A concatenation is of the type of its pieces, and is paired if they are and none
\* begins with a result.
LEMMA PastFlattened ==
    ASSUME NEW A, NEW s \in Seq(Seq(A))
    PROVE  /\ History!FlattenSeq(s) \in Seq(A)
           /\ (\A i \in 1..Len(s) : PastPaired(s[i]) /\ PastBegins(s[i])) =>
                PastPaired(History!FlattenSeq(s))
<1> DEFINE n == Len(s)
           f == CHOOSE f : PastFlat(f, s, n)
<1>0. n \in Nat /\ \A i \in 1..n : s[i] \in Seq(A)
  OBVIOUS
<1>1. PastFlat(f, s, n)
  BY <1>0, PastFlatExists
<1>2. CASE n = 0
  <2>1. History!FlattenSeq(s) = <<>>
    BY <1>2 DEF History!FlattenSeq
  <2> QED
    BY <2>1 DEF PastPaired
<1>3. CASE n # 0
  <2>1. History!FlattenSeq(s) = f[n]
    BY <1>3 DEF History!FlattenSeq, PastFlat
  <2> HIDE DEF f, n
  <2> DEFINE legal == \A i \in 1..n : PastPaired(s[i]) /\ PastBegins(s[i])
             H == {m \in 0..n : m # 0 => f[m] \in Seq(A) /\ (legal => PastPaired(f[m]))}
  <2>2. ASSUME NEW m \in 1..n, m - 1 \in H PROVE m \in H
    <3>1. s[m] \in Seq(A) /\ (legal => PastPaired(s[m]) /\ PastBegins(s[m]))
      BY <1>0
    <3>2. CASE m = 1
      <4>1. f[m] = s[m]
        BY <1>1, <3>2 DEF PastFlat
      <4> QED
        BY <1>0, <3>1, <4>1
    <3>3. CASE m # 1
      <4>1. f[m] = f[m - 1] \o s[m]
        BY <1>1, <3>3 DEF PastFlat
      <4> DEFINE a == f[m - 1]
                 b == s[m]
      <4>2. a \in Seq(A) /\ (legal => PastPaired(a)) /\ b \in Seq(A) /\ (legal => PastPaired(b) /\ PastBegins(b))
        BY <1>0, <2>2, <3>1, <3>3
      <4> HIDE DEF a, b, legal
      <4>3. a \o b \in Seq(A)
        BY <4>2
      <4>4. legal => PastPaired(a \o b)
        <5> HAVE legal
        <5>1. PastPaired(a) /\ PastPaired(b) /\ (b # <<>> => b[1].role # "tool")
          BY <4>2 DEF PastBegins
        <5> QED
          BY <4>2, <5>1, PastJoined
      <4>5. f[m] = a \o b
        BY <4>1 DEF a, b
      <4>6. f[m] \in Seq(A) /\ (legal => PastPaired(f[m]))
        BY <4>3, <4>4, <4>5, Zenon
      <4> QED
        BY <1>0, <4>6
    <3> QED
      BY <3>2, <3>3
  <2>3. 0 \in H /\ H \in SUBSET Nat
    BY <1>0
  <2> HIDE DEF H, legal
  <2>4. \A m \in 1..n : m - 1 \in H => m \in H
    BY <2>2
  <2>5. n \in H
    <3>1. 0..n \subseteq H
      BY <1>0, <2>3, <2>4, KnownInRow
    <3> QED
      BY <1>0, <3>1
  <2>6. f[n] \in Seq(A) /\ (legal => PastPaired(f[n]))
    BY <1>3, <2>5 DEF H
  <2> QED
    BY <2>1, <2>6 DEF legal, n
<1> QED
  BY <1>2, <1>3

\* The last question of a sequence.
PastQuestion(s, a) ==
  a \in 1..Len(s) /\ s[a].role = "user" /\ \A i \in (a + 1)..Len(s) : s[i].role # "user"

\* The last question is where the current turn starts.
LEMMA PastStart ==
    ASSUME NEW A, NEW s \in Seq(A), NEW a, PastQuestion(s, a)
    PROVE  History!currentTurnStart(s) = a
<1> DEFINE S == {0} \cup {i \in DOMAIN s : s[i].role = "user"}
           n == Len(s)
           m == History!currentTurnStart(s)
<1>1. n \in Nat /\ DOMAIN s = 1..n /\ S \in SUBSET (0..n) /\ S # {}
  OBVIOUS
<1>2. m = History!Max(S)
  BY DEF History!currentTurnStart
<1>3. a \in S /\ a \in 1..n /\ \A i \in (a + 1)..n : i \notin S
  BY DEF PastQuestion
<1> HIDE DEF S, m, n
<1>4. m \in S /\ \A i \in S : i <= m
  BY <1>1, <1>2, PastGreatest
<1>5. m \in 0..n /\ a <= m
  BY <1>1, <1>3, <1>4
<1>6. ~(a < m)
  BY <1>1, <1>3, <1>4, <1>5
<1> QED
  BY <1>1, <1>3, <1>5, <1>6 DEF m

\* What is cut of a request is in the past of its question or whole calls behind it.
LEMMA PastTrimmed ==
    ASSUME NEW A, NEW s \in Seq(A), PastPaired(s), NEW a, PastQuestion(s, a), s[a].calls = <<>>
    PROVE  LET r == History!trimAssembledRequest(s) IN
           /\ r \in Seq(A) /\ PastPaired(r)
           /\ \E i \in 1..Len(r) : r[i] = s[a]
<1> DEFINE n == Len(s)
           r == History!trimAssembledRequest(s)
<1>0. n \in Nat /\ a \in 1..n /\ s[a].role = "user"
  BY DEF PastQuestion
<1>1. History!currentTurnStart(s) = a
  BY PastStart
<1>2. \E F, C \in SUBSET Nat :
        /\ \A i \in F : i \in 1..a /\ s[i].role = "user"
        /\ \A c \in C : c \in (a + 1)..n /\ s[c].role # "tool"
        /\ r = s \/ r = SubSeq(s, History!Min({a} \cup F), a) \o SubSeq(s, History!Min({n + 1} \cup C), n)
  <2> DEFINE Fits(x, y) == History!Total(SubSeq(s, x, a)) + History!Total(SubSeq(s, y, n)) <= Request
             F  == {i \in 1..a : s[i].role = "user" /\ Fits(i, a + 1)}
             lo == History!Min({a} \cup F)
             C  == {c \in (a + 1)..n : ~(s[c].role = "tool") /\ Fits(lo, c)}
             hi == History!Min({n + 1} \cup C)
  <2>1. r = IF History!Total(s) <= Request THEN s ELSE SubSeq(s, lo, a) \o SubSeq(s, hi, n)
    BY <1>1 DEF History!trimAssembledRequest, History!IsTool
  <2> HIDE DEF Fits
  <2>2. F \in SUBSET Nat /\ \A i \in F : i \in 1..a /\ s[i].role = "user"
    BY <1>0
  <2>3. C \in SUBSET Nat /\ \A c \in C : c \in (a + 1)..n /\ s[c].role # "tool"
    BY <1>0
  <2> HIDE DEF F, C, r
  <2> QED
    BY <2>1, <2>2, <2>3
<1>3. CASE r = s
  BY <1>0, <1>3
<1>4. CASE r # s
  <2>1. PICK F, C \in SUBSET Nat :
          /\ \A i \in F : i \in 1..a /\ s[i].role = "user"
          /\ \A c \in C : c \in (a + 1)..n /\ s[c].role # "tool"
          /\ r = SubSeq(s, History!Min({a} \cup F), a) \o SubSeq(s, History!Min({n + 1} \cup C), n)
    BY <1>2, <1>4
  <2>a. /\ F \in SUBSET Nat /\ \A i \in F : i \in 1..a /\ s[i].role = "user"
        /\ C \in SUBSET Nat /\ \A c \in C : c \in (a + 1)..n /\ s[c].role # "tool"
        /\ a \in Nat /\ n + 1 \in Nat
    BY <1>0, <2>1
  <2> DEFINE x == History!Min({a} \cup F)
             y == History!Min({n + 1} \cup C)
             p == SubSeq(s, x, a)
             q == SubSeq(s, y, n)
  <2>2. x \in 1..a /\ s[x].role = "user"
    <3>1. {a} \cup F \in SUBSET Nat /\ {a} \cup F # {}
      BY <2>a
    <3>2. x \in {a} \cup F
      BY <3>1, PastLeast
    <3> HIDE DEF x
    <3>3. x = a \/ x \in F
      BY <3>2
    <3>4. CASE x = a
      BY <1>0, <3>4
    <3>5. CASE x \in F
      BY <2>a, <3>5
    <3> QED
      BY <3>3, <3>4, <3>5
  <2>3. y = n + 1 \/ (y \in (a + 1)..n /\ s[y].role # "tool")
    <3>1. {n + 1} \cup C \in SUBSET Nat /\ {n + 1} \cup C # {}
      BY <2>a
    <3>2. y \in {n + 1} \cup C
      BY <3>1, PastLeast
    <3> QED
      BY <2>1, <3>2
  <2> HIDE DEF x, y, n
  <2>4. a = n \/ s[a + 1].role # "tool"
    <3> SUFFICES ASSUME a # n, s[a + 1].role = "tool" PROVE FALSE
      OBVIOUS
    <3> DEFINE b == a + 1
    <3>1. b \in 1..n /\ s[b].role = "tool"
      BY <1>0
    <3> HIDE DEF b
    <3>2. PICK k \in 1..(b - 1) : s[k].calls # <<>> /\ \E e \in Nat : PastRun(s, k, e) /\ b <= e
      BY <3>1 DEF PastPaired, n
    <3>3. PICK e \in Nat : PastRun(s, k, e) /\ b <= e
      BY <3>2
    <3>4. k < a
      BY <1>0, <3>2 DEF b
    <3>5. a \in (k + 1)..e
      BY <1>0, <3>2, <3>3, <3>4 DEF b
    <3> QED
      BY <1>0, <3>3, <3>5 DEF PastRun
  <2>5. p \in Seq(A) /\ PastPaired(p) /\ Len(p) = (a - x) + 1 /\ Len(p) \in Nat /\ p[Len(p)] = s[a]
    <3>1. p \in Seq(A) /\ Len(p) = (a - x) + 1 /\ \A i \in 1..Len(p) : p[i] = s[(x + i) - 1]
      BY <1>0, <2>2 DEF n
    <3>2. PastPaired(p)
      <4>1. x \in 1..n /\ a \in x..n /\ s[x].role # "tool"
        BY <1>0, <2>2
      <4> QED
        BY <2>4, <4>1, PastPart DEF n
    <3>3. Len(p) \in 1..Len(p) /\ (x + Len(p)) - 1 = a
      BY <1>0, <2>2, <3>1
    <3>4. p[Len(p)] = s[a]
      BY <3>1, <3>3
    <3>5. Len(p) \in Nat
      BY <1>0, <2>2, <3>1
    <3> HIDE DEF p
    <3> QED
      BY <3>1, <3>2, <3>4, <3>5
  <2>6. q \in Seq(A) /\ PastPaired(q) /\ (q # <<>> => q[1].role # "tool")
    <3>1. CASE y = n + 1
      <4>1. q = <<>>
        BY <1>0, <3>1 DEF n
      <4> QED
        BY <4>1 DEF PastPaired
    <3>2. CASE y \in (a + 1)..n /\ s[y].role # "tool"
      <4>1. y \in 1..n /\ n \in y..n
        BY <1>0, <3>2
      <4>2. PastPaired(q)
        BY <3>2, <4>1, PastPart DEF n
      <4>3. q \in Seq(A) /\ q[1] = s[y]
        BY <1>0, <4>1 DEF n
      <4> QED
        BY <3>2, <4>2, <4>3
    <3> QED
      BY <2>3, <3>1, <3>2
  <2> HIDE DEF p, q
  <2>7. PastPaired(p \o q)
    BY <2>5, <2>6, PastJoined
  <2>8. p \o q \in Seq(A) /\ Len(p) \in 1..Len(p \o q) /\ (p \o q)[Len(p)] = s[a]
    <3>1. Len(p) \in 1..Len(p)
      BY <1>0, <2>2, <2>5
    <3> QED
      BY <2>5, <2>6, <3>1
  <2>9. r = p \o q
    BY <2>1 DEF p, q, x, y
  <2> HIDE DEF r
  <2> QED
    BY <2>7, <2>8, <2>9 DEF r
<1> QED
  BY <1>3, <1>4

PastRecords == [user : History!Bodies, answer : History!Bodies, transcript : Seq(History!Messages)]
PastRows    == [user : History!Bodies, status : {"none", "ok", "interrupted"}, answer : History!Bodies,
                transcript : Seq(History!Messages), undelivered : History!Bodies]

\* An exchange as it is replayed: with no detail or with one that is paired.
PastPairs == {p \in [user : History!Bodies, turn : Nat, detail : Seq(History!Messages),
                     answer : History!Bodies] : PastPaired(p.detail)}

\* The texts of the component are texts.
LEMMA PastTexts ==
  /\ History!Empty \in History!Bodies
  /\ \A n \in Nat : History!Text("completion", n) \in History!Bodies
  /\ \A n \in Nat : History!Text("display", n) \in History!Bodies
  /\ \A n \in Nat : History!Text("aborted", n) \in History!Bodies
  /\ \A b \in History!Bodies, n \in Nat :
       History!Question(b, n) \in History!Messages /\ History!Answer(b, n) \in History!Messages
  /\ \A m \in History!Messages : m.body \in History!Bodies /\ m.turn \in Nat
<1>1. <<>> \in Seq(History!ToolCalls)
  OBVIOUS
<1>2. \A b \in History!Bodies, n \in Nat :
       History!Question(b, n) \in History!Messages /\ History!Answer(b, n) \in History!Messages
  <2> DEFINE B == History!Bodies
             C == Seq(History!ToolCalls)
             R == [role : {"user", "assistant", "tool", "system"}, body : B, calls : C, id : Nat,
                   kind : History!Kinds, turn : Nat]
  <2> HIDE DEF B, C
  <2>1. <<>> \in C
    BY <1>1 DEF C
  <2>2. \A b \in B, n \in Nat :
          /\ [role |-> "user", body |-> b, calls |-> <<>>, id |-> 0, kind |-> "plain", turn |-> n]
               \in R
          /\ [role |-> "assistant", body |-> b, calls |-> <<>>, id |-> 0, kind |-> "plain", turn |-> n]
               \in R
    BY <2>1 DEF History!Kinds
  <2> QED
    BY <2>2 DEF B, C, History!Question, History!Answer, History!Message, History!Messages
<1>3. \A m \in History!Messages : m.body \in History!Bodies /\ m.turn \in Nat
  BY DEF History!Messages
<1>4. /\ History!Empty \in History!Bodies
      /\ \A n \in Nat : /\ History!Text("completion", n) \in History!Bodies
                        /\ History!Text("display", n) \in History!Bodies
                        /\ History!Text("aborted", n) \in History!Bodies
  BY TurnAssumption DEF History!HistoryConstants, History!Empty, History!Text, History!Bodies
<1> QED
  BY <1>2, <1>3, <1>4

\* The newest entries are entries, and no more than there were.
LEMMA PastNewest ==
    ASSUME NEW A, NEW s \in Seq(A), NEW costs, NEW budget
    PROVE  /\ History!Newest(s, costs, budget) \in Seq(A)
           /\ Len(History!Newest(s, costs, budget)) <= Len(s)
<1> DEFINE n == Len(s)
<1>0. n \in Nat /\ DOMAIN s = 1..n
  OBVIOUS
<1>1. \E S \in SUBSET (1..n) :
        History!Newest(s, costs, budget) = IF s = <<>> THEN s ELSE SubSeq(s, History!Min({n} \cup S), n)
  <2> DEFINE cost == CHOOSE c : c = [i \in 1..(n + 1) |-> IF i > n THEN 0 ELSE costs[i] + c[i + 1]]
             S    == {i \in DOMAIN s : cost[i] <= budget}
  <2>1. History!Newest(s, costs, budget) = IF s = <<>> THEN s ELSE SubSeq(s, History!Min({n} \cup S), n)
    BY DEF History!Newest
  <2> HIDE DEF cost
  <2>2. S \in SUBSET (1..n)
    BY <1>0
  <2> HIDE DEF S
  <2> QED
    BY <2>1, <2>2
<1>2. CASE s = <<>>
  BY <1>0, <1>1, <1>2
<1>3. CASE s # <<>>
  <2>1. PICK S \in SUBSET (1..n) : History!Newest(s, costs, budget) = SubSeq(s, History!Min({n} \cup S), n)
    BY <1>1, <1>3
  <2>2. n \in 1..n
    BY <1>3
  <2>3. {n} \cup S \in SUBSET Nat /\ {n} \cup S # {} /\ {n} \cup S \subseteq 1..n
    <3>1. S \subseteq 1..n
      BY <2>1
    <3> HIDE DEF n
    <3> QED
      BY <1>0, <2>2, <3>1
  <2> DEFINE m == History!Min({n} \cup S)
  <2>4. m \in 1..n
    BY <2>3, PastLeast
  <2> HIDE DEF m
  <2>5. SubSeq(s, m, n) \in Seq(A) /\ Len(SubSeq(s, m, n)) <= n
    BY <1>0, <2>4
  <2> QED
    BY <2>1, <2>5 DEF m
<1> QED
  BY <1>2, <1>3

\* A selection of a sequence is a sequence of the same things.
LEMMA PastPicked ==
    ASSUME NEW A, NEW s \in Seq(A), NEW P \in SUBSET DOMAIN s
    PROVE  History!Picked(s, P) \in Seq(A)
<1> DEFINE is == History!Ascending(s, P)
<1>1. is \in Seq(1..Len(s))
  BY PastAscending DEF IsAscending
<1>2. History!Picked(s, P) = [n \in DOMAIN is |-> s[is[n]]]
  BY DEF History!Picked, History!At
<1> HIDE DEF is
<1>3. \A n \in DOMAIN is : s[is[n]] \in A
  BY <1>1
<1> QED
  BY <1>1, <1>2, <1>3

\* What has a question has a turn.
PastAsked(s) == \E i \in 1..Len(s) : s[i].role = "user"

\* The current turn is part of the messages and ends with them.
LEMMA PastCurrentTurn ==
    ASSUME NEW A, NEW s \in Seq(A)
    PROVE  /\ History!CurrentTurn(s) \in Seq(A)
           /\ PastAsked(s) =>
                 /\ History!CurrentTurn(s) # <<>>
                 /\ \E a \in 1..Len(s) : PastQuestion(s, a) /\ History!currentTurnStart(s) = a
                 /\ History!Last(History!CurrentTurn(s)) = s[Len(s)]
<1> DEFINE S == {0} \cup {i \in DOMAIN s : s[i].role = "user"}
           n == Len(s)
           m == History!currentTurnStart(s)
<1>1. n \in Nat /\ DOMAIN s = 1..n /\ S \in SUBSET (0..n) /\ S # {}
  OBVIOUS
<1>2. m = History!Max(S)
  BY DEF History!currentTurnStart
<1>3. \A i : i \in S <=> i = 0 \/ (i \in 1..n /\ s[i].role = "user")
  BY <1>1
<1> HIDE DEF S, m, n
<1>4. m \in S /\ \A i \in S : i <= m
  BY <1>1, <1>2, PastGreatest
<1>5. History!CurrentTurn(s) = IF m = 0 THEN <<>> ELSE SubSeq(s, m, n)
  BY DEF History!CurrentTurn, m, n
<1>6. m # 0 => m \in 1..n /\ SubSeq(s, m, n) \in Seq(A) /\ SubSeq(s, m, n) # <<>>
               /\ History!Last(SubSeq(s, m, n)) = s[n]
  <2> SUFFICES ASSUME m # 0
               PROVE  m \in 1..n /\ SubSeq(s, m, n) \in Seq(A) /\ SubSeq(s, m, n) # <<>>
                      /\ History!Last(SubSeq(s, m, n)) = s[n]
    OBVIOUS
  <2>1. m \in 1..n
    BY <1>1, <1>3, <1>4
  <2>2. /\ SubSeq(s, m, n) \in Seq(A) /\ Len(SubSeq(s, m, n)) = (n - m) + 1
        /\ SubSeq(s, m, n)[(n - m) + 1] = s[n]
    BY <1>1, <2>1 DEF n
  <2>3. (n - m) + 1 # 0
    BY <1>1, <2>1
  <2> QED
    BY <2>1, <2>2, <2>3 DEF History!Last
<1>7. ASSUME PastAsked(s) PROVE m # 0 /\ PastQuestion(s, m)
  <2>1. PICK i \in 1..n : i \in S
    BY <1>3, <1>7 DEF PastAsked, n
  <2>2. m # 0
    BY <1>1, <1>4, <2>1
  <2>3. m \in 1..n /\ s[m].role = "user"
    BY <1>3, <1>4, <2>2
  <2>4. ASSUME NEW j \in (m + 1)..n PROVE s[j].role # "user"
    <3>1. j \in 1..n /\ m < j
      BY <1>1, <2>3
    <3> QED
      BY <1>1, <1>3, <1>4, <2>3, <3>1
  <2> QED
    BY <2>2, <2>3, <2>4 DEF PastQuestion, n
<1> QED
  BY <1>5, <1>6, <1>7 DEF m, n

\* The transcript of a turn is a sequence of messages.
LEMMA PastBuilt ==
    ASSUME NEW s \in Seq(History!Messages)
    PROVE  History!buildTranscriptV1(s) \in Seq(History!Messages)
<1>1. MsgCap \in Nat
  BY TurnAssumption DEF History!HistoryConstants
<1>2. ASSUME NEW m \in History!Messages PROVE History!boundContent(m) \in History!Messages
  <2> DEFINE b == [m.body EXCEPT !.size = MsgCap, !.cut = TRUE]
  <2>1. b \in History!Bodies
    <3>1. m.body \in History!Bodies
      BY DEF History!Messages
    <3> QED
      BY <1>1, <3>1 DEF History!Bodies
  <2>2. [m EXCEPT !.body.size = MsgCap, !.body.cut = TRUE] = [m EXCEPT !.body = b]
    BY DEF History!Messages, History!Bodies
  <2> HIDE DEF b
  <2>3. [m EXCEPT !.body = b] \in History!Messages
    BY <2>1 DEF History!Messages
  <2> QED
    BY <2>2, <2>3 DEF History!boundContent
<1> DEFINE t == [i \in DOMAIN s |-> History!boundContent(s[i])]
<1>3. t \in Seq(History!Messages)
  <2>1. \A i \in DOMAIN s : s[i] \in History!Messages
    OBVIOUS
  <2>2. \A i \in DOMAIN s : History!boundContent(s[i]) \in History!Messages
    BY <1>2, <2>1
  <2> QED
    BY <2>2
<1> HIDE DEF t
<1>4. History!shedRoundsToBudget(t) \in Seq(History!Messages)
  <2>1. \E gone : History!shedRoundsToBudget(t) = History!Without(t, gone)
    BY DEF History!shedRoundsToBudget
  <2>2. PICK gone : History!shedRoundsToBudget(t) = History!Without(t, gone)
    BY <2>1
  <2> DEFINE P == {i \in DOMAIN t : \A d \in gone : i \notin d..History!RunEnd(t, d)}
  <2>3. History!Without(t, gone) = History!Picked(t, P)
    BY DEF History!Without
  <2>4. P \in SUBSET DOMAIN t
    OBVIOUS
  <2> HIDE DEF P
  <2> QED
    BY <1>3, <2>2, <2>3, <2>4, PastPicked
<1>5. History!buildTranscriptV1(s) = History!shedRoundsToBudget(t) \/ History!buildTranscriptV1(s) = <<>>
  BY Zenon DEF History!buildTranscriptV1, History!None, t
<1>6. <<>> \in Seq(History!Messages)
  OBVIOUS
<1> QED
  BY <1>4, <1>5, <1>6, Zenon

\* The end of a turn: what is recorded of it, and that its question is still there.
PastCapturedAs(e) ==
  /\ e.messages \in Seq(History!Messages) /\ PastAsked(e.messages)
  /\ e.recent \in Seq(PastRecords) /\ e.transcript \in Seq(History!Messages)

\* A turn that ends leaves messages with its question and a record of it.
LEMMA PastCaptured ==
    ASSUME NEW s \in Seq(History!Messages), PastAsked(s), NEW records \in Seq(PastRecords), NEW n \in Nat
    PROVE  PastCapturedAs(History!captureTurnTranscript(s, records, n))
<1> DEFINE closed == IF History!IsPlain(History!Last(s)) THEN s
                     ELSE Append(s, History!Answer(History!Empty, n))
           now    == History!CurrentTurn(closed)
           built  == History!buildTranscriptV1(now)
           r      == History!Record(Head(now).body, History!Last(now).body, built)
           e      == History!captureTurnTranscript(s, records, n)
<1>1. closed \in Seq(History!Messages) /\ PastAsked(closed)
  <2> DEFINE m == History!Answer(History!Empty, n)
             t == Append(s, m)
  <2>1. m \in History!Messages
    BY PastTexts
  <2> HIDE DEF m
  <2>2. t \in Seq(History!Messages) /\ Len(t) = Len(s) + 1 /\ Len(s) \in Nat /\ \A i \in 1..Len(s) : t[i] = s[i]
    BY <2>1
  <2> HIDE DEF t
  <2>3. PastAsked(t)
    BY <2>2 DEF PastAsked
  <2> QED
    BY <2>2, <2>3 DEF t, m
<1> HIDE DEF closed
<1>2. now \in Seq(History!Messages) /\ now # <<>>
  BY <1>1, PastCurrentTurn
<1>3. built \in Seq(History!Messages)
  BY <1>2, PastBuilt
<1>4. Head(now).body \in History!Bodies /\ History!Last(now).body \in History!Bodies
  <2> HIDE DEF now
  <2>1. Head(now) \in History!Messages /\ History!Last(now) \in History!Messages
    BY <1>2 DEF History!Last
  <2> QED
    BY <2>1, PastTexts
<1> HIDE DEF now, built
<1>5. r \in PastRecords
  BY <1>3, <1>4 DEF History!Record, PastRecords
<1>6. e = [messages |-> closed, transcript |-> built, recent |-> History!recordTurns(Append(records, r))]
  BY DEF History!captureTurnTranscript, closed, now, built
<1> HIDE DEF r, e
<1>7. History!recordTurns(Append(records, r)) \in Seq(PastRecords)
  <2>1. Append(records, r) \in Seq(PastRecords)
    BY <1>5
  <2> QED
    BY <2>1, PastNewest DEF History!recordTurns
<1>8. PastCapturedAs(e)
  BY <1>1, <1>3, <1>6, <1>7 DEF PastCapturedAs
<1> QED
  BY <1>8 DEF e

\* So does one whose answer is taken back.
LEMMA PastInterrupted ==
    ASSUME NEW e, PastCapturedAs(e), NEW n \in Nat
    PROVE  PastCapturedAs(History!MarkLastTurnInterrupted(e, n))
<1> DEFINE s    == e.messages
           now  == History!CurrentTurn(s)
           base == IF History!IsPlain(History!Last(now)) THEN History!Front(s) ELSE s
           t    == Append(base, History!Answer(History!Empty, n))
<1>1. s \in Seq(History!Messages) /\ PastAsked(s) /\ e.recent \in Seq(PastRecords)
  BY DEF PastCapturedAs
<1>2. History!Last(now) = s[Len(s)]
  BY <1>1, PastCurrentTurn
<1>3. base \in Seq(History!Messages) /\ PastAsked(base)
  <2> HIDE DEF s
  <2>1. PICK i \in 1..Len(s) : s[i].role = "user"
    BY <1>1 DEF PastAsked
  <2>2. CASE ~History!IsPlain(History!Last(now))
    BY <1>1, <2>2
  <2>3. CASE History!IsPlain(History!Last(now))
    <3>1. i # Len(s)
      BY <1>2, <2>1, <2>3 DEF History!IsPlain
    <3>2. Len(s) \in Nat /\ Len(s) # 0 /\ i \in 1..(Len(s) - 1)
      BY <1>1, <2>1, <3>1
    <3> DEFINE f == SubSeq(s, 1, Len(s) - 1)
    <3>3. f \in Seq(History!Messages) /\ Len(f) = Len(s) - 1 /\ \A j \in 1..(Len(s) - 1) : f[j] = s[j]
      BY <1>1, <3>2
    <3>4. base = f
      BY <2>3 DEF History!Front
    <3> HIDE DEF f, base
    <3> QED
      BY <2>1, <3>2, <3>3, <3>4 DEF PastAsked
  <2> QED
    BY <2>2, <2>3
<1> HIDE DEF base
<1>4. t \in Seq(History!Messages) /\ PastAsked(t)
  <2> DEFINE m == History!Answer(History!Empty, n)
  <2>1. m \in History!Messages
    BY PastTexts
  <2> HIDE DEF m
  <2>2. Append(base, m) \in Seq(History!Messages) /\ Len(Append(base, m)) = Len(base) + 1 /\ Len(base) \in Nat
        /\ \A i \in 1..Len(base) : Append(base, m)[i] = base[i]
    BY <1>3, <2>1
  <2>3. t = Append(base, m)
    BY DEF m
  <2> HIDE DEF t
  <2> QED
    BY <1>3, <2>2, <2>3 DEF PastAsked
<1>5. ASSUME NEW mine
      PROVE  (IF e.recent # <<>> /\ mine THEN History!Front(e.recent) ELSE e.recent) \in Seq(PastRecords)
  <2> DEFINE q == e.recent
  <2> HIDE DEF q
  <2>1. q \in Seq(PastRecords)
    BY <1>1 DEF q
  <2>2. q # <<>> => History!Front(q) \in Seq(PastRecords)
    BY <2>1 DEF History!Front
  <2>3. (IF q # <<>> /\ mine THEN History!Front(q) ELSE q) \in Seq(PastRecords)
    BY <2>1, <2>2
  <2> QED
    BY <2>3 DEF q
<1> DEFINE mine == /\ History!Last(e.recent).user = Head(now).body
                   /\ History!Last(e.recent).answer = History!Last(now).body
           records == IF e.recent # <<>> /\ mine THEN History!Front(e.recent) ELSE e.recent
<1>6. History!MarkLastTurnInterrupted(e, n) = History!captureTurnTranscript(t, records, n)
  BY DEF History!MarkLastTurnInterrupted, base
<1> HIDE DEF mine
<1>7. records \in Seq(PastRecords)
  BY <1>5
<1> HIDE DEF records, t
<1> QED
  BY <1>4, <1>6, <1>7, PastCaptured

\* Between turns the history keeps a part of its messages.
LEMMA PastTrimHistory ==
    ASSUME NEW s \in Seq(History!Messages)
    PROVE  History!trimHistory(s) \in Seq(History!Messages)
<1> DEFINE P     == {i \in DOMAIN s : ~History!IsTool(s[i]) /\ s[i].calls = <<>>}
           plain == History!Picked(s, P)
           fits  == {i \in DOMAIN plain :
                       History!Total(SubSeq(plain, i, Len(plain))) <= 2 * Replay}
<1>1. plain \in Seq(History!Messages)
  <2>1. P \in SUBSET DOMAIN s
    OBVIOUS
  <2> HIDE DEF P
  <2> QED
    BY <2>1, PastPicked
<1>2. History!trimHistory(s) = IF fits = {} THEN plain ELSE SubSeq(plain, History!Min(fits), Len(plain))
  BY DEF History!trimHistory
<1> HIDE DEF plain
<1>3. fits \subseteq 1..Len(plain) /\ fits \in SUBSET Nat
  BY <1>1
<1> HIDE DEF fits
<1>4. fits # {} => History!Min(fits) \in 1..Len(plain)
  BY <1>3, PastLeast
<1>5. \A m \in 1..Len(plain) : SubSeq(plain, m, Len(plain)) \in Seq(History!Messages)
  BY <1>1
<1> QED
  BY <1>1, <1>2, <1>4, <1>5

\* What is rebuilt from the rows is of the same types.
LEMMA PastRehydrated ==
    ASSUME NEW rs \in Seq(PastRows)
    PROVE  /\ History!RehydrateHistory(rs).messages \in Seq(History!Messages)
           /\ History!RehydrateHistory(rs).recent \in Seq(PastRecords)
<1> DEFINE loaded == History!loadRecentHistory(rs)
           first  == Len(rs) - Len(loaded)
           turns  == [n \in DOMAIN loaded |->
                        <<History!Question(loaded[n].user, first + n),
                          History!Answer(History!Restored(loaded[n]), first + n)>>]
           made   == [n \in DOMAIN loaded |->
                        History!Record(loaded[n].user, History!Restored(loaded[n]),
                                       History!transcriptFromRow(loaded[n]))]
<1>1. loaded \in Seq(PastRows) /\ Len(loaded) <= Len(rs)
  BY PastNewest DEF History!loadRecentHistory
<1>2. ASSUME NEW r \in PastRows
      PROVE  /\ History!Restored(r) \in History!Bodies
             /\ History!transcriptFromRow(r) \in Seq(History!Messages)
             /\ r.user \in History!Bodies
  <2> DEFINE t == History!ProjectTranscript(r.transcript)
             wrote == {i \in DOMAIN t : History!IsPlain(t[i])}
  <2>1. r.transcript \in Seq(History!Messages) /\ r.answer \in History!Bodies /\ r.user \in History!Bodies
    BY DEF PastRows
  <2>2. t \in Seq(History!Messages)
    BY <2>1, PastProjectedPaired
  <2>3. History!Restored(r) = IF r.status # "ok" THEN History!Empty
                              ELSE IF ~History!DisplayProjected(t) THEN r.answer
                              ELSE IF wrote = {} THEN History!Text("completion", 1)
                              ELSE t[History!Max(wrote)].body
    BY DEF History!Restored
  <2> HIDE DEF t
  <2>4. Len(t) \in Nat /\ DOMAIN t = 1..Len(t) /\ wrote \in SUBSET (0..Len(t)) /\ wrote \subseteq DOMAIN t
    BY <2>2
  <2> HIDE DEF wrote
  <2>5. wrote # {} => t[History!Max(wrote)].body \in History!Bodies
    <3> SUFFICES ASSUME wrote # {} PROVE t[History!Max(wrote)].body \in History!Bodies
      OBVIOUS
    <3>1. History!Max(wrote) \in wrote
      BY <2>4, PastGreatest
    <3>2. t[History!Max(wrote)] \in History!Messages
      BY <2>2, <2>4, <3>1
    <3> QED
      BY <3>2, PastTexts
  <2>6. History!Restored(r) \in History!Bodies
    BY <2>1, <2>3, <2>5, PastTexts
  <2>7. History!transcriptFromRow(r) = r.transcript \/ History!transcriptFromRow(r) = <<>>
    BY DEF History!transcriptFromRow, History!None
  <2>8. <<>> \in Seq(History!Messages)
    OBVIOUS
  <2> QED
    BY <2>1, <2>6, <2>7, <2>8, Zenon
<1>3. History!RehydrateHistory(rs) = [messages |-> History!FlattenSeq(turns), recent |-> History!recordTurns(made)]
  BY DEF History!RehydrateHistory
<1> HIDE DEF loaded
<1>4. \A n \in DOMAIN loaded : loaded[n] \in PastRows /\ first + n \in Nat
  BY <1>1
<1> HIDE DEF first
<1>5. made \in Seq(PastRecords)
  <2>1. ASSUME NEW n \in DOMAIN loaded
        PROVE  History!Record(loaded[n].user, History!Restored(loaded[n]), History!transcriptFromRow(loaded[n]))
                 \in PastRecords
    <3> DEFINE a == loaded[n].user
               b == History!Restored(loaded[n])
               c == History!transcriptFromRow(loaded[n])
    <3>1. a \in History!Bodies /\ b \in History!Bodies /\ c \in Seq(History!Messages)
      BY <1>2, <1>4
    <3> HIDE DEF a, b, c
    <3>2. History!Record(a, b, c) \in PastRecords
      BY <3>1 DEF History!Record, PastRecords
    <3> QED
      BY <3>2 DEF a, b, c
  <2> QED
    BY <1>1, <2>1
<1>6. turns \in Seq(Seq(History!Messages))
  <2>1. ASSUME NEW n \in DOMAIN loaded
        PROVE  <<History!Question(loaded[n].user, first + n),
                 History!Answer(History!Restored(loaded[n]), first + n)>> \in Seq(History!Messages)
    <3> DEFINE a == History!Question(loaded[n].user, first + n)
               b == History!Answer(History!Restored(loaded[n]), first + n)
    <3>1. a \in History!Messages /\ b \in History!Messages
      BY <1>2, <1>4, PastTexts
    <3> HIDE DEF a, b
    <3>2. <<a, b>> \in Seq(History!Messages)
      BY <3>1
    <3> QED
      BY <3>2 DEF a, b
  <2> DEFINE piece(n) == <<History!Question(loaded[n].user, first + n),
                           History!Answer(History!Restored(loaded[n]), first + n)>>
             Q == Seq(History!Messages)
  <2>2. \A n \in DOMAIN loaded : piece(n) \in Q
    BY <2>1
  <2>3. turns = [n \in 1..Len(loaded) |-> piece(n)] /\ DOMAIN loaded = 1..Len(loaded) /\ Len(loaded) \in Nat
    BY <1>1
  <2> HIDE DEF piece, Q, turns
  <2>4. turns \in Seq(Q)
    BY <2>2, <2>3
  <2> QED
    BY <2>4 DEF Q
<1> HIDE DEF made, turns
<1>7. History!FlattenSeq(turns) \in Seq(History!Messages)
  BY <1>6, PastFlattened
<1>8. History!recordTurns(made) \in Seq(PastRecords)
  BY <1>5, PastNewest DEF History!recordTurns
<1> QED
  BY <1>3, <1>7, <1>8

\* An exchange of a history, before its record is looked up.
PastPlain == [user : History!Bodies, turn : Nat, detail : {<<>>}, answer : History!Bodies]

\* The exchanges of a history, without their tool work.
LEMMA PastPairsOf ==
    ASSUME NEW s \in Seq(History!Messages)
    PROVE  History!Pairs(s) \in Seq(PastPlain)
<1> DEFINE S      == {i \in DOMAIN s : s[i].role = "user"}
           asked  == History!Ascending(s, S)
           Next_(n)  == IF n = Len(asked) THEN Len(s) ELSE asked[n + 1] - 1
           Plain_(n) == {k \in asked[n]..Next_(n) : History!IsPlain(s[k])}
           one(n) == [user |-> s[asked[n]].body, turn |-> s[asked[n]].turn, detail |-> <<>>,
                      answer |-> IF Plain_(n) = {} THEN History!Empty ELSE s[History!Min(Plain_(n))].body]
<1>1. asked \in Seq(1..Len(s))
  <2>1. S \in SUBSET DOMAIN s
    OBVIOUS
  <2> HIDE DEF S
  <2> QED
    BY <2>1, PastAscending DEF IsAscending
<1>2. History!Pairs(s) = [n \in DOMAIN asked |-> one(n)]
  BY DEF History!Pairs, History!None
<1> HIDE DEF asked
<1>3. DOMAIN asked = 1..Len(asked) /\ Len(asked) \in Nat /\ Len(s) \in Nat /\ \A n \in DOMAIN asked : asked[n] \in 1..Len(s)
  BY <1>1
<1>4. ASSUME NEW n \in DOMAIN asked PROVE one(n) \in PastPlain
  <2> DEFINE P == Plain_(n)
  <2>1. s[asked[n]] \in History!Messages
    BY <1>3
  <2>2. P \subseteq 1..Len(s)
    <3>1. Next_(n) <= Len(s) /\ Next_(n) \in Int
      <4>1. CASE n = Len(asked)
        BY <1>3, <4>1
      <4>2. CASE n # Len(asked)
        <5>1. n + 1 \in DOMAIN asked
          BY <1>3, <4>2
        <5>2. asked[n + 1] \in 1..Len(s)
          BY <1>3, <5>1
        <5> QED
          BY <1>3, <4>2, <5>2
      <4> QED
        BY <4>1, <4>2
    <3>2. asked[n] \in 1..Len(s)
      BY <1>3
    <3> HIDE DEF Next_
    <3> QED
      BY <1>3, <3>1, <3>2
  <2> HIDE DEF P, Plain_
  <2>3. P # {} => s[History!Min(P)] \in History!Messages
    <3> SUFFICES ASSUME P # {} PROVE s[History!Min(P)] \in History!Messages
      OBVIOUS
    <3>1. History!Min(P) \in P
      BY <1>3, <2>2, PastLeast
    <3>2. History!Min(P) \in 1..Len(s)
      BY <2>2, <3>1
    <3> QED
      BY <3>2
  <2> DEFINE a == IF P = {} THEN History!Empty ELSE s[History!Min(P)].body
  <2>4. a \in History!Bodies
    BY <2>3, PastTexts
  <2>5. s[asked[n]].body \in History!Bodies /\ s[asked[n]].turn \in Nat
    BY <2>1, PastTexts
  <2>6. one(n) = [user |-> s[asked[n]].body, turn |-> s[asked[n]].turn, detail |-> <<>>, answer |-> a]
    BY DEF P
  <2> HIDE DEF a, one
  <2> QED
    BY <2>4, <2>5, <2>6 DEF PastPlain
<1> HIDE DEF one
<1> QED
  BY <1>2, <1>3, <1>4

\* With its record, its detail is what is projected of it.
LEMMA PastAttached ==
    ASSUME NEW pairs \in Seq(PastPlain), NEW records \in Seq(PastRecords)
    PROVE  History!attachRecordedTranscripts(pairs, records) \in Seq(PastPairs)
<1> DEFINE Alike(s, i) == {j \in DOMAIN s : History!Key(s[j]) = History!Key(pairs[i])}
           upTo(i) == {j \in Alike(pairs, i) : j <= i}
           same(i) == History!Picked(records, Alike(records, i))
           at(i)   == Len(History!Picked(pairs, upTo(i)))
           one(i)  == IF at(i) <= Len(same(i))
                        THEN [pairs[i] EXCEPT !.detail =
                                History!ProjectTranscript(same(i)[at(i)].transcript)]
                        ELSE pairs[i]
<1>1. History!attachRecordedTranscripts(pairs, records) = [i \in DOMAIN pairs |-> one(i)]
  BY DEF History!attachRecordedTranscripts
<1>2. ASSUME NEW i \in DOMAIN pairs PROVE one(i) \in PastPairs
  <2> DEFINE p == pairs[i]
             q == same(i)
             k == at(i)
             d == History!ProjectTranscript(q[k].transcript)
  <2>1. q \in Seq(PastRecords)
    <3>1. Alike(records, i) \in SUBSET DOMAIN records
      OBVIOUS
    <3> HIDE DEF Alike
    <3> QED
      BY <3>1, PastPicked
  <2>2. k \in Nat /\ k # 0
    <3> DEFINE P == upTo(i)
    <3>1. P \in SUBSET DOMAIN pairs /\ i \in P
      OBVIOUS
    <3> HIDE DEF P
    <3> DEFINE is == History!Ascending(pairs, P)
    <3>2. is \in Seq(1..Len(pairs)) /\ {is[x] : x \in DOMAIN is} = P
      <4>1. IsAscending(is, P, Len(pairs))
        BY <3>1, PastAscending
      <4> HIDE DEF is
      <4> QED
        BY <4>1 DEF IsAscending
    <3>3. History!Picked(pairs, P) = [n \in DOMAIN is |-> pairs[is[n]]]
      BY DEF History!Picked, History!At
    <3> HIDE DEF is
    <3>4. Len(History!Picked(pairs, P)) = Len(is)
      BY <3>2, <3>3
    <3>5. DOMAIN is # {}
      BY <3>1, <3>2
    <3>6. Len(is) \in Nat /\ Len(is) # 0
      BY <3>2, <3>5
    <3>7. k = Len(History!Picked(pairs, P))
      BY DEF P
    <3> HIDE DEF at
    <3> QED
      BY <3>4, <3>6, <3>7
  <2>3. one(i) = IF k <= Len(q) THEN [p EXCEPT !.detail = d] ELSE p
    OBVIOUS
  <2>4. p \in PastPlain
    OBVIOUS
  <2> HIDE DEF p, q, k, one
  <2>5. CASE k <= Len(q)
    <3>1. k \in 1..Len(q)
      BY <2>1, <2>2, <2>5
    <3>2. q[k] \in PastRecords
      BY <2>1, <3>1
    <3>3. q[k].transcript \in Seq(History!Messages)
      BY <3>2 DEF PastRecords
    <3>4. d \in Seq(History!Messages) /\ PastPaired(d)
      BY <3>3, PastProjectedPaired
    <3> HIDE DEF d
    <3>5. [p EXCEPT !.detail = d] \in [user : History!Bodies, turn : Nat, detail : Seq(History!Messages),
                                       answer : History!Bodies]
      BY <2>4, <3>4 DEF PastPlain
    <3>6. [p EXCEPT !.detail = d].detail = d
      BY <2>4 DEF PastPlain
    <3> QED
      BY <2>3, <2>5, <3>4, <3>5, <3>6 DEF PastPairs
  <2>6. CASE ~(k <= Len(q))
    <3>1. p.detail = <<>> /\ <<>> \in Seq(History!Messages)
      BY <2>4 DEF PastPlain
    <3>2. p \in [user : History!Bodies, turn : Nat, detail : Seq(History!Messages), answer : History!Bodies]
      BY <2>4, <3>1 DEF PastPlain
    <3>3. PastPaired(<<>>)
      BY DEF PastPaired
    <3> QED
      BY <2>3, <2>6, <3>1, <3>2, <3>3 DEF PastPairs
  <2> QED
    BY <2>5, <2>6
<1> HIDE DEF one
<1> QED
  BY <1>1, <1>2

\* A budget takes details or whole exchanges away.
LEMMA PastBudgeted ==
    ASSUME NEW pairs \in Seq(PastPairs)
    PROVE  History!budgetReplayedPairs(pairs) \in Seq(PastPairs)
<1>1. \A costs : History!Newest(pairs, costs, Replay) \in Seq(PastPairs)
  BY PastNewest
<1>2. ASSUME NEW p \in PastPairs PROVE [p EXCEPT !.detail = <<>>] \in PastPairs
  <2>1. <<>> \in Seq(History!Messages)
    OBVIOUS
  <2>2. [p EXCEPT !.detail = <<>>] \in [user : History!Bodies, turn : Nat, detail : Seq(History!Messages),
                                        answer : History!Bodies]
    BY <2>1 DEF PastPairs
  <2>3. PastPaired(<<>>) /\ [p EXCEPT !.detail = <<>>].detail = <<>>
    BY DEF PastPaired, PastPairs
  <2> QED
    BY <2>2, <2>3 DEF PastPairs
<1>3. \E costs, fits :
        History!budgetReplayedPairs(pairs) = History!Newest(pairs, costs, Replay)
        \/ History!budgetReplayedPairs(pairs) =
             [i \in DOMAIN pairs |-> IF fits[i] THEN pairs[i] ELSE [pairs[i] EXCEPT !.detail = <<>>]]
  <2> DEFINE extra == [i \in DOMAIN pairs |-> History!RenderedRunes(pairs[i]) - History!PlainRunes(pairs[i])]
             plain == History!FoldLeft(LAMBDA n, p : n + History!PlainRunes(p), 0, pairs)
             left == CHOOSE f : f = [i \in 1..(Len(pairs) + 1) |->
                        IF i > Len(pairs) THEN plain
                        ELSE IF f[i + 1] + extra[i] <= Replay THEN f[i + 1] + extra[i] ELSE f[i + 1]]
             fits  == [i \in DOMAIN pairs |-> History!transcriptReplaysCompletePair(pairs[i])
                                              /\ left[i + 1] + extra[i] <= Replay]
             costs == [i \in DOMAIN pairs |-> History!RenderedRunes(pairs[i])]
  <2>1. History!budgetReplayedPairs(pairs) =
          IF plain > Replay THEN History!Newest(pairs, costs, Replay)
          ELSE [i \in DOMAIN pairs |->
                  IF History!transcriptReplaysCompletePair(pairs[i]) /\ left[i + 1] + extra[i] <= Replay
                    THEN pairs[i] ELSE [pairs[i] EXCEPT !.detail = <<>>]]
    BY DEF History!budgetReplayedPairs, History!None
  <2>2. [i \in DOMAIN pairs |->
                  IF History!transcriptReplaysCompletePair(pairs[i]) /\ left[i + 1] + extra[i] <= Replay
                    THEN pairs[i] ELSE [pairs[i] EXCEPT !.detail = <<>>]]
        = [i \in DOMAIN pairs |-> IF fits[i] THEN pairs[i] ELSE [pairs[i] EXCEPT !.detail = <<>>]]
    <3> HIDE DEF left, extra
    <3> QED
      OBVIOUS
  <2> HIDE DEF fits, costs, plain, left, extra
  <2> QED
    BY <2>1, <2>2
<1>4. PICK costs, fits :
        History!budgetReplayedPairs(pairs) = History!Newest(pairs, costs, Replay)
        \/ History!budgetReplayedPairs(pairs) =
             [i \in DOMAIN pairs |-> IF fits[i] THEN pairs[i] ELSE [pairs[i] EXCEPT !.detail = <<>>]]
  BY <1>3
<1> DEFINE cut == [i \in DOMAIN pairs |-> IF fits[i] THEN pairs[i] ELSE [pairs[i] EXCEPT !.detail = <<>>]]
<1>5. cut \in Seq(PastPairs)
  <2>1. \A i \in DOMAIN pairs : pairs[i] \in PastPairs
    OBVIOUS
  <2> DEFINE one(i) == IF fits[i] THEN pairs[i] ELSE [pairs[i] EXCEPT !.detail = <<>>]
  <2>2. \A i \in DOMAIN pairs : one(i) \in PastPairs
    BY <1>2, <2>1
  <2>3. cut = [i \in DOMAIN pairs |-> one(i)]
    OBVIOUS
  <2> HIDE DEF one, cut
  <2> QED
    BY <2>2, <2>3
<1> HIDE DEF cut
<1> QED
  BY <1>1, <1>4, <1>5 DEF cut

\* What is replayed is made of such exchanges.
LEMMA PastCompiled ==
    ASSUME NEW s \in Seq(History!Messages), NEW records \in Seq(PastRecords)
    PROVE  History!recentConversationPairs(s, records) \in Seq(PastPairs)
  BY PastPairsOf, PastAttached, PastBudgeted DEF History!recentConversationPairs

\* An exchange is replayed as messages that are paired and begin with its question.
LEMMA PastReplayed ==
    ASSUME NEW p \in PastPairs
    PROVE  /\ History!Replayed(p) \in Seq(History!Messages)
           /\ PastPaired(History!Replayed(p)) /\ PastBegins(History!Replayed(p))
<1> DEFINE u == History!Question(p.user, p.turn)
           a == History!Answer(p.answer, p.turn)
<1>1. u \in History!Messages /\ a \in History!Messages
  <2>1. p.user \in History!Bodies /\ p.answer \in History!Bodies /\ p.turn \in Nat
    BY DEF PastPairs
  <2> QED
    BY <2>1, PastTexts
<1>2. u.role = "user" /\ a.role = "assistant" /\ u.calls = <<>> /\ a.calls = <<>>
  BY DEF History!Question, History!Answer, History!Message
<1>3. \/ History!transcriptReplaysCompletePair(p) /\ History!Replayed(p) = p.detail
      \/ History!Replayed(p) = <<u>>
      \/ History!Replayed(p) = <<u, a>>
  BY DEF History!Replayed
<1> HIDE DEF u, a
<1>4. CASE History!transcriptReplaysCompletePair(p) /\ History!Replayed(p) = p.detail
  <2>1. p.detail \in Seq(History!Messages) /\ PastPaired(p.detail)
    BY DEF PastPairs
  <2>2. p.detail # <<>> /\ Head(p.detail).role = "user"
    BY <1>4 DEF History!transcriptReplaysCompletePair, History!None
  <2>3. p.detail[1].role = "user"
    BY <2>1, <2>2
  <2> QED
    BY <1>4, <2>1, <2>3 DEF PastBegins
<1>5. ASSUME NEW s \in Seq(History!Messages), \A i \in 1..Len(s) : s[i].role # "tool" /\ s[i].calls = <<>>
      PROVE  PastPaired(s) /\ PastBegins(s)
  <2>1. ASSUME NEW i \in 1..Len(s) PROVE PastRun(s, i, i) /\ PastCall(s, i, i) /\ i \in Nat
    <3>1. i \in i..Len(s) /\ (i + 1)..i = {}
      OBVIOUS
    <3>2. i # Len(s) => i + 1 \in 1..Len(s)
      OBVIOUS
    <3> QED
      BY <1>5, <3>1, <3>2 DEF PastRun, PastCall
  <2>2. s # <<>> => 1 \in 1..Len(s)
    OBVIOUS
  <2> QED
    BY <1>5, <2>1, <2>2 DEF PastPaired, PastBegins
<1>6. CASE History!Replayed(p) = <<u>>
  <2> DEFINE s == <<u>>
  <2>1. s \in Seq(History!Messages) /\ Len(s) = 1 /\ s[1] = u
    BY <1>1
  <2> HIDE DEF s
  <2>2. \A i \in 1..Len(s) : s[i].role # "tool" /\ s[i].calls = <<>>
    BY <1>2, <2>1
  <2>3. PastPaired(s) /\ PastBegins(s)
    BY <1>5, <2>1, <2>2
  <2> QED
    BY <1>6, <2>1, <2>3 DEF s
<1>7. CASE History!Replayed(p) = <<u, a>>
  <2> DEFINE s == <<u, a>>
  <2>1. s \in Seq(History!Messages) /\ Len(s) = 2 /\ s[1] = u /\ s[2] = a
    BY <1>1
  <2> HIDE DEF s
  <2>2. \A i \in 1..Len(s) : s[i].role # "tool" /\ s[i].calls = <<>>
    BY <1>2, <2>1
  <2>3. PastPaired(s) /\ PastBegins(s)
    BY <1>5, <2>1, <2>2
  <2> QED
    BY <1>7, <2>1, <2>3 DEF s
<1> QED
  BY <1>3, <1>4, <1>6, <1>7

\* The turn at hand, from its question on.
PastTurn(s, a, n) ==
  /\ PastQuestion(s, a) /\ s[a].calls = <<>> /\ s[a].turn = n
  /\ PastPaired(SubSeq(s, a, Len(s)))

\* What is compiled of replayed exchanges and the turn at hand is a legal request.
LEMMA PastRequest ==
    ASSUME NEW s \in Seq(History!Messages), NEW pairs \in Seq(PastPairs), NEW n, NEW a, PastTurn(s, a, n)
    PROVE  LET sent == History!trimAssembledRequest(History!messagesFromAgentContext(s, pairs)) IN
           /\ History!WellPaired(sent)
           /\ \E i \in DOMAIN sent : sent[i].role = "user" /\ sent[i].turn = n
<1> DEFINE pieces == [k \in DOMAIN pairs |-> History!Replayed(pairs[k])]
           past   == History!FlattenSeq(pieces)
           now    == SubSeq(s, a, Len(s))
           all    == past \o now
           sent   == History!trimAssembledRequest(all)
           c      == Len(past) + 1
<1>1. /\ pieces \in Seq(Seq(History!Messages))
      /\ \A k \in 1..Len(pieces) : PastPaired(pieces[k]) /\ PastBegins(pieces[k])
  <2> DEFINE one(k) == History!Replayed(pairs[k])
             Q == Seq(History!Messages)
  <2>1. \A k \in DOMAIN pairs : one(k) \in Q /\ PastPaired(one(k)) /\ PastBegins(one(k))
    BY PastReplayed
  <2>2. pieces = [k \in 1..Len(pairs) |-> one(k)] /\ DOMAIN pairs = 1..Len(pairs) /\ Len(pairs) \in Nat
    OBVIOUS
  <2> HIDE DEF one, Q, pieces
  <2>3. pieces \in Seq(Q) /\ Len(pieces) = Len(pairs) /\ \A k \in 1..Len(pieces) : pieces[k] = one(k)
    BY <2>1, <2>2
  <2> QED
    BY <2>1, <2>2, <2>3 DEF Q
<1> HIDE DEF pieces
<1>2. past \in Seq(History!Messages) /\ PastPaired(past)
  BY <1>1, PastFlattened
<1> HIDE DEF past
<1>3. /\ a \in 1..Len(s) /\ s[a].role = "user" /\ \A i \in (a + 1)..Len(s) : s[i].role # "user"
      /\ s[a].calls = <<>> /\ s[a].turn = n /\ PastPaired(now)
  BY DEF PastTurn, PastQuestion
<1>4. /\ now \in Seq(History!Messages) /\ Len(now) = (Len(s) - a) + 1
      /\ \A i \in 1..Len(now) : now[i] = s[(a + i) - 1]
  BY <1>3
<1>5. now # <<>> /\ now[1] = s[a] /\ Len(now) \in Nat /\ 1 \in 1..Len(now)
  <2> HIDE DEF now
  <2>1. a \in Nat /\ Len(s) \in Nat /\ a <= Len(s)
    BY <1>3
  <2>2. Len(now) \in Nat /\ 1 \in 1..Len(now) /\ (a + 1) - 1 = a
    BY <1>4, <2>1
  <2>3. now[1] = s[(a + 1) - 1]
    BY <1>4, <2>2
  <2>4. now # <<>>
    BY <1>4, <2>2
  <2> QED
    BY <2>2, <2>3, <2>4
<1>6. ASSUME NEW i \in 2..Len(now) PROVE now[i].role # "user"
  <2>1. (a + i) - 1 \in (a + 1)..Len(s) /\ i \in 1..Len(now)
    BY <1>3, <1>4
  <2> QED
    BY <1>3, <1>4, <2>1
<1> HIDE DEF now
<1>7. all \in Seq(History!Messages) /\ PastPaired(all)
  <2>1. now # <<>> => now[1].role # "tool"
    BY <1>3, <1>5
  <2> QED
    BY <1>2, <1>3, <1>4, <2>1, PastJoined
<1>8. PastQuestion(all, c) /\ all[c] = s[a]
  <2>1. /\ Len(past) \in Nat /\ Len(all) = Len(past) + Len(now)
        /\ \A i \in 1..Len(now) : all[Len(past) + i] = now[i]
    <3>1. past \in Seq(History!Messages) /\ now \in Seq(History!Messages)
      BY <1>2, <1>4
    <3> QED
      BY <3>1
  <2>2. c \in 1..Len(all) /\ all[c] = s[a]
    BY <1>5, <2>1
  <2>3. ASSUME NEW i \in (c + 1)..Len(all) PROVE all[i].role # "user"
    <3> DEFINE k == i - Len(past)
    <3>1. k \in 2..Len(now) /\ k \in 1..Len(now) /\ Len(past) + k = i
      BY <1>5, <2>1
    <3> HIDE DEF k, all
    <3> QED
      BY <1>6, <2>1, <3>1
  <2> HIDE DEF all, c
  <2> QED
    BY <1>3, <2>2, <2>3 DEF PastQuestion
<1> HIDE DEF all, c
<1>9. sent \in Seq(History!Messages) /\ PastPaired(sent) /\ \E i \in 1..Len(sent) : sent[i] = s[a]
  <2>1. all[c].calls = <<>>
    BY <1>3, <1>8
  <2> QED
    BY <1>7, <1>8, <2>1, PastTrimmed
<1>10. History!messagesFromAgentContext(s, pairs) = all
  <2>1. History!currentTurnStart(s) = a
    BY <1>3, PastStart DEF PastQuestion
  <2>2. a # 0
    BY <1>3
  <2>3. History!CurrentTurn(s) = now
    BY <2>1, <2>2 DEF History!CurrentTurn, now
  <2> QED
    BY <2>3 DEF History!messagesFromAgentContext, all, past, pieces
<1> HIDE DEF sent
<1>11. History!WellPaired(sent)
  BY <1>9, PastPairing
<1>12. \E i \in DOMAIN sent : sent[i].role = "user" /\ sent[i].turn = n
  BY <1>3, <1>9
<1> QED
  BY <1>10, <1>11, <1>12 DEF sent

PastTyped ==
  /\ historyStage \in {"idle", "turn"}
  /\ messages \in Seq(History!Messages) /\ recent \in Seq(PastRecords) /\ rows \in Seq(PastRows)
  /\ view \in Seq(PastPairs)
  /\ script \in [rounds : Seq(History!Rounds), answer : History!Bodies, shown : BOOLEAN]

\* In a turn the messages end with it, and its row is the last.
PastInTurn ==
  historyStage = "turn" => rows # <<>> /\ \E a \in 1..Len(messages) : PastTurn(messages, a, Len(rows))

PastInv == PastTyped /\ PastInTurn

\* The invariant makes every request legal.
LEMMA PastLegal ==
    ASSUME PastInv
    PROVE  History!RequestIsLegal
<1> SUFFICES ASSUME historyStage = "turn"
             PROVE  LET sent == History!trimAssembledRequest(History!messagesFromAgentContext(messages, view)) IN
                    /\ History!WellPaired(sent)
                    /\ \E i \in DOMAIN sent : sent[i].role = "user" /\ sent[i].turn = Len(rows)
  BY DEF History!RequestIsLegal
<1>1. PICK a \in 1..Len(messages) : PastTurn(messages, a, Len(rows))
  BY DEF PastInv, PastInTurn
<1>2. messages \in Seq(History!Messages) /\ view \in Seq(PastPairs)
  BY DEF PastInv, PastTyped
<1> QED
  BY <1>1, <1>2, PastRequest

\* It holds of a session without turns,
LEMMA PastStarts ==
    ASSUME History!Init
    PROVE  PastInv
<1>1. /\ historyStage = "idle" /\ messages = <<>> /\ recent = <<>> /\ rows = <<>> /\ view = <<>>
      /\ script = [rounds |-> <<>>, answer |-> History!Empty, shown |-> FALSE]
  BY DEF History!Init
<1>2. script \in [rounds : Seq(History!Rounds), answer : History!Bodies, shown : BOOLEAN]
  <2> DEFINE Q == Seq(History!Rounds)
  <2>1. <<>> \in Q
    OBVIOUS
  <2> HIDE DEF Q
  <2>2. script \in [rounds : Q, answer : History!Bodies, shown : BOOLEAN]
    BY <1>1, <2>1, PastTexts
  <2> QED
    BY <2>2 DEF Q
<1> QED
  BY <1>1, <1>2 DEF PastInv, PastTyped, PastInTurn

\* A turn begins with its question.
LEMMA PastBegun ==
    ASSUME NEW h \in Seq(History!Messages), NEW u \in History!Bodies, NEW n \in Nat
    PROVE  LET s == Append(h, History!Question(u, n)) IN
           s \in Seq(History!Messages) /\ \E a \in 1..Len(s) : PastTurn(s, a, n)
<1> DEFINE q == History!Question(u, n)
           s == Append(h, q)
           a == Len(h) + 1
<1>1. q \in History!Messages
  BY PastTexts
<1>2. q.role = "user" /\ q.calls = <<>> /\ q.turn = n
  BY DEF History!Question, History!Message
<1> HIDE DEF q
<1>3. s \in Seq(History!Messages) /\ Len(s) = a /\ a \in Nat /\ a \in 1..a /\ s[a] = q
  BY <1>1
<1> DEFINE t == SubSeq(s, a, Len(s))
<1>4. t \in Seq(History!Messages) /\ Len(t) = 1 /\ t[1] = q
  <2> HIDE DEF s, a
  <2>1. Len(t) = (a - a) + 1 /\ t[1] = s[(a + 1) - 1] /\ t \in Seq(History!Messages)
    BY <1>3
  <2>2. (a - a) + 1 = 1 /\ (a + 1) - 1 = a
    BY <1>3
  <2> QED
    BY <1>3, <2>1, <2>2
<1> HIDE DEF t, s, a
<1>5. PastPaired(t)
  <2>1. PastRun(t, 1, 1) /\ PastCall(t, 1, 1)
    BY <1>2, <1>4 DEF PastRun, PastCall
  <2>2. \A i \in 1..Len(t) : i = 1
    BY <1>4
  <2> QED
    BY <1>2, <1>4, <2>1, <2>2 DEF PastPaired
<1>6. PastQuestion(s, a)
  BY <1>2, <1>3 DEF PastQuestion
<1>7. PastTurn(s, a, n)
  BY <1>2, <1>3, <1>5, <1>6 DEF PastTurn, t
<1> QED
  BY <1>3, <1>7 DEF s, q

\* Sequences of the same members in the same order.
LEMMA PastSame ==
    ASSUME NEW A, NEW s \in Seq(A), NEW t \in Seq(A), Len(s) = Len(t), \A i \in 1..Len(s) : s[i] = t[i]
    PROVE  s = t
<1>1. s = [i \in 1..Len(s) |-> s[i]] /\ t = [i \in 1..Len(t) |-> t[i]]
  OBVIOUS
<1> QED
  BY <1>1

\* The places of a concatenation.
LEMMA PastConcat ==
    ASSUME NEW A, NEW s \in Seq(A), NEW t \in Seq(A), NEW v, v = s \o t
    PROVE  /\ v \in Seq(A) /\ Len(v) = Len(s) + Len(t)
           /\ Len(s) \in Nat /\ Len(t) \in Nat
           /\ \A i \in 1..Len(s) : v[i] = s[i]
           /\ \A i \in 1..Len(t) : v[Len(s) + i] = t[i]
  OBVIOUS

\* Concatenation is associative.
LEMMA PastAssociative ==
    ASSUME NEW A, NEW s \in Seq(A), NEW t \in Seq(A), NEW u \in Seq(A)
    PROVE  (s \o t) \o u = s \o (t \o u)
<1> DEFINE x == t \o u
           y == s \o t
           v == s \o x
           w == y \o u
<1>0. x = t \o u /\ y = s \o t /\ v = s \o x /\ w = y \o u
  OBVIOUS
<1> HIDE DEF v, w, x, y
<1>1. /\ x \in Seq(A) /\ Len(x) = Len(t) + Len(u)
      /\ \A i \in 1..Len(t) : x[i] = t[i]
      /\ \A i \in 1..Len(u) : x[Len(t) + i] = u[i]
  BY <1>0, PastConcat
<1>2. /\ y \in Seq(A) /\ Len(y) = Len(s) + Len(t)
      /\ \A i \in 1..Len(s) : y[i] = s[i]
      /\ \A i \in 1..Len(t) : y[Len(s) + i] = t[i]
  BY <1>0, PastConcat
<1>a. x \in Seq(A) /\ y \in Seq(A) /\ v = s \o x /\ w = y \o u
  BY <1>0, <1>1, <1>2
<1>3. /\ v \in Seq(A) /\ Len(v) = Len(s) + Len(x)
      /\ \A i \in 1..Len(s) : v[i] = s[i]
      /\ \A i \in 1..Len(x) : v[Len(s) + i] = x[i]
  BY <1>a, PastConcat
<1>4. /\ w \in Seq(A) /\ Len(w) = Len(y) + Len(u)
      /\ \A i \in 1..Len(y) : w[i] = y[i]
      /\ \A i \in 1..Len(u) : w[Len(y) + i] = u[i]
  BY <1>a, PastConcat
<1>5. Len(s) \in Nat /\ Len(t) \in Nat /\ Len(u) \in Nat
  OBVIOUS
<1>6. Len(v) = Len(w)
  BY <1>1, <1>2, <1>3, <1>4, <1>5
<1>7. ASSUME NEW i \in 1..Len(v) PROVE v[i] = w[i]
  <2>1. CASE i \in 1..Len(s)
    <3>1. i \in 1..Len(y)
      BY <1>2, <1>5, <2>1
    <3> QED
      BY <1>2, <1>3, <1>4, <2>1, <3>1
  <2>2. CASE i - Len(s) \in 1..Len(t)
    <3> DEFINE k == i - Len(s)
    <3>1. k \in 1..Len(t) /\ k \in 1..Len(x) /\ Len(s) + k = i /\ i \in 1..Len(y)
      BY <1>1, <1>2, <1>5, <2>2
    <3> HIDE DEF k
    <3> QED
      BY <1>1, <1>2, <1>3, <1>4, <3>1
  <2>3. CASE i - Len(y) \in 1..Len(u)
    <3> DEFINE k == i - Len(y)
    <3>1. /\ k \in 1..Len(u) /\ Len(t) + k \in 1..Len(x) /\ Len(s) + (Len(t) + k) = i
          /\ Len(y) + k = i
      BY <1>1, <1>2, <1>5, <2>3
    <3> HIDE DEF k
    <3>2. v[i] = x[Len(t) + k]
      BY <1>3, <3>1
    <3> QED
      BY <1>1, <1>4, <3>1, <3>2
  <2> QED
    BY <1>1, <1>2, <1>3, <1>5, <2>1, <2>2, <2>3
<1>8. v = w
  <2>1. \A i \in 1..Len(v) : v[i] = w[i]
    BY <1>7
  <2> QED
    BY <1>3, <1>4, <1>6, <2>1, PastSame
<1> QED
  BY <1>8 DEF v, w, x, y

\* A round adds calls and their results.
LEMMA PastRounded ==
    ASSUME NEW s \in Seq(History!Messages), NEW n \in Nat, NEW made \in History!Rounds,
           NEW a, PastTurn(s, a, n)
    PROVE  LET t == s \o <<History!Message("assistant", made.say, made.calls, 0, "plain", n)>>
                      \o [j \in DOMAIN made.calls |->
                            History!Message("tool", made.results[j], <<>>, made.calls[j].id,
                                            made.calls[j].kind, n)]
           IN t \in Seq(History!Messages) /\ \E b \in 1..Len(t) : PastTurn(t, b, n)
<1> DEFINE M     == History!Messages
           calls == made.calls
           m     == History!Message("assistant", made.say, calls, 0, "plain", n)
           tool(j) == History!Message("tool", made.results[j], <<>>, calls[j].id, calls[j].kind, n)
           tools == [j \in DOMAIN calls |-> tool(j)]
           b     == <<m>> \o tools
           t     == s \o b
           c     == Len(calls)
<1>1. /\ calls \in Seq(History!ToolCalls) /\ made.say \in History!Bodies
      /\ made.results \in Seq(History!Bodies) /\ Len(made.results) = c /\ c \in Nat /\ DOMAIN calls = 1..c
  <2>1. /\ made \in [say : History!Bodies, calls : Seq(History!ToolCalls), results : Seq(History!Bodies)]
        /\ Len(made.results) = Len(made.calls)
    BY DEF History!Rounds
  <2> QED
    BY <2>1
<1>2. m \in M /\ m.role = "assistant" /\ m.calls = calls
  <2> DEFINE C == Seq(History!ToolCalls)
             say == made.say
  <2>1. calls \in C /\ say \in History!Bodies
    BY <1>1
  <2> HIDE DEF C, calls, say
  <2>2. [role |-> "assistant", body |-> say, calls |-> calls, id |-> 0, kind |-> "plain", turn |-> n]
          \in [role : {"user", "assistant", "tool", "system"}, body : History!Bodies, calls : C, id : Nat,
               kind : {"plain", "billing", "support"}, turn : Nat]
    BY <2>1
  <2> QED
    BY <2>2 DEF History!Message, History!Messages, History!Kinds, C, say
<1>3. ASSUME NEW j \in 1..c
      PROVE  tool(j) \in M /\ tool(j).role = "tool" /\ tool(j).calls = <<>> /\ tool(j).id = calls[j].id
  <2> DEFINE C == Seq(History!ToolCalls)
             body == made.results[j]
             one == calls[j]
  <2>1. <<>> \in C /\ body \in History!Bodies /\ one \in History!ToolCalls
    BY <1>1
  <2>2. one.id \in Nat /\ one.kind \in History!Kinds
    BY <2>1 DEF History!ToolCalls
  <2> HIDE DEF C, body, one
  <2>3. [role |-> "tool", body |-> body, calls |-> <<>>, id |-> one.id, kind |-> one.kind, turn |-> n]
          \in [role : {"user", "assistant", "tool", "system"}, body : History!Bodies, calls : C, id : Nat,
               kind : History!Kinds, turn : Nat]
    BY <2>1, <2>2
  <2> QED
    BY <2>3 DEF History!Message, History!Messages, C, body, one
<1> HIDE DEF m, tool, calls, c, M
<1>4. tools \in Seq(M) /\ Len(tools) = c /\ \A j \in 1..c : tools[j] = tool(j)
  BY <1>1, <1>3
<1> HIDE DEF tools
<1>5. b \in Seq(M) /\ Len(b) = 1 + c /\ b[1] = m /\ \A j \in 1..c : b[1 + j] = tool(j)
  <2>1. <<m>> \in Seq(M) /\ Len(<<m>>) = 1 /\ <<m>>[1] = m
    BY <1>2
  <2> DEFINE one == <<m>>
  <2> HIDE DEF one
  <2>2. one \in Seq(M) /\ Len(one) = 1 /\ one[1] = m
    BY <2>1 DEF one
  <2>3. one \o tools \in Seq(M) /\ Len(one \o tools) = 1 + c /\ (one \o tools)[1] = m
        /\ \A j \in 1..c : (one \o tools)[1 + j] = tools[j]
    <3>1. tools \in Seq(M) /\ one \in Seq(M) /\ Len(one) = 1 /\ Len(tools) = c /\ one[1] = m /\ 1 \in 1..1
      BY <1>4, <2>2
    <3> DEFINE v == one \o tools
    <3>2. v = one \o tools /\ one \in Seq(M) /\ tools \in Seq(M)
      BY <3>1
    <3> HIDE DEF v
    <3>3. /\ v \in Seq(M) /\ Len(v) = Len(one) + Len(tools)
          /\ \A i \in 1..Len(one) : v[i] = one[i]
          /\ \A j \in 1..Len(tools) : v[Len(one) + j] = tools[j]
      BY <3>2, PastConcat
    <3>4. /\ v \in Seq(M) /\ Len(v) = 1 + c /\ v[1] = m
          /\ \A j \in 1..c : v[1 + j] = tools[j]
      BY <3>1, <3>3
    <3> QED
      BY <3>4 DEF v
  <2> QED
    BY <1>4, <2>3 DEF one
<1> HIDE DEF b
<1>6. /\ \A i \in 2..(1 + c) : b[i].role = "tool" /\ b[i].calls = <<>>
      /\ {b[k].id : k \in 2..(1 + c)} = {calls[j].id : j \in 1..c}
  <2>1. ASSUME NEW i \in 2..(1 + c) PROVE i - 1 \in 1..c /\ b[i] = tool(i - 1)
    <3> DEFINE j == i - 1
    <3>1. j \in 1..c /\ 1 + j = i
      BY <1>1
    <3> HIDE DEF j
    <3>2. b[1 + j] = tool(j)
      BY <1>5, <3>1
    <3> QED
      BY <3>1, <3>2 DEF j
  <2>2. \A i \in 2..(1 + c) : b[i].role = "tool" /\ b[i].calls = <<>> /\ b[i].id = calls[i - 1].id
    BY <1>3, <2>1
  <2>3. \A j \in 1..c : 1 + j \in 2..(1 + c) /\ b[1 + j].id = calls[j].id
    BY <1>1, <1>3, <1>5
  <2> QED
    BY <2>1, <2>2, <2>3
<1>7. PastPaired(b)
  <2> DEFINE e == 1 + c
  <2>0. e \in Nat /\ Len(b) = e
    BY <1>1, <1>5
  <2>1. PastRun(b, 1, e) /\ PastCall(b, 1, e)
    <3>1. PastRun(b, 1, e)
      BY <1>1, <1>5, <1>6 DEF PastRun
    <3>2. b[1].calls = calls /\ e - 1 = c /\ Len(calls) = c
      BY <1>1, <1>2, <1>5 DEF c
    <3>3. {b[k].id : k \in 2..e} = {calls[j].id : j \in 1..c}
      BY <1>6
    <3>4. {b[k].id : k \in (1 + 1)..e} = {calls[j].id : j \in DOMAIN calls}
      <4>1. 1 + 1 = 2 /\ DOMAIN calls = 1..c
        BY <1>1
      <4> HIDE DEF e
      <4> QED
        BY <3>3, <4>1
    <3> QED
      BY <3>1, <3>2, <3>4 DEF PastCall
  <2>2. ASSUME NEW i \in 2..e
        PROVE  PastRun(b, i, e) /\ PastCall(b, i, e) /\ b[1].calls # <<>> /\ i <= e /\ 1 \in 1..(i - 1)
    <3>1. PastRun(b, i, e)
      BY <1>6, <2>0 DEF PastRun
    <3>2. b[i].calls = <<>>
      BY <1>6
    <3>3. b[1].calls # <<>>
      <4>1. Len(calls) # 0
        BY <1>1 DEF c
      <4> QED
        BY <1>2, <1>5, <4>1
    <3> QED
      BY <2>0, <3>1, <3>2, <3>3 DEF PastCall
  <2>3. b[1].role # "tool"
    BY <1>2, <1>5
  <2>4. \A i \in 1..Len(b) : i = 1 \/ i \in 2..e
    BY <2>0
  <2> HIDE DEF e
  <2>5. \A i \in 1..Len(b) : PastRun(b, i, e) /\ PastCall(b, i, e)
    BY <2>1, <2>2, <2>4
  <2>6. \A i \in 1..Len(b) : b[i].role = "tool" =>
           \E k \in 1..(i - 1) : b[k].calls # <<>> /\ PastRun(b, k, e) /\ i <= e
    BY <2>1, <2>2, <2>3, <2>4
  <2> QED
    BY <2>0, <2>5, <2>6 DEF PastPaired
<1>8. /\ a \in 1..Len(s) /\ s[a].role = "user" /\ \A i \in (a + 1)..Len(s) : s[i].role # "user"
      /\ s[a].calls = <<>> /\ s[a].turn = n /\ PastPaired(SubSeq(s, a, Len(s))) /\ Len(s) \in Nat /\ s \in Seq(M)
  BY DEF PastTurn, PastQuestion, M
<1>9. /\ t \in Seq(M) /\ Len(t) = Len(s) + Len(b)
      /\ \A i \in 1..Len(s) : t[i] = s[i]
      /\ \A i \in 1..Len(b) : t[Len(s) + i] = b[i]
  BY <1>5, <1>8
<1> HIDE DEF t
<1> DEFINE now == SubSeq(s, a, Len(s))
           then == SubSeq(t, a, Len(t))
<1>10. then = now \o b
  <2>1. now \in Seq(M) /\ Len(now) = (Len(s) - a) + 1 /\ \A i \in 1..Len(now) : now[i] = s[(a + i) - 1]
    BY <1>8
  <2>2. then \in Seq(M) /\ Len(then) = (Len(t) - a) + 1 /\ \A i \in 1..Len(then) : then[i] = t[(a + i) - 1]
    BY <1>1, <1>5, <1>8, <1>9
  <2> HIDE DEF now, then
  <2> DEFINE u == now \o b
  <2>3. now \in Seq(M) /\ b \in Seq(M) /\ u = now \o b
    BY <1>5, <2>1
  <2> HIDE DEF u
  <2>4. /\ u \in Seq(M) /\ Len(u) = Len(now) + Len(b)
        /\ \A i \in 1..Len(now) : u[i] = now[i]
        /\ \A i \in 1..Len(b) : u[Len(now) + i] = b[i]
    BY <2>3, PastConcat
  <2>5. Len(b) \in Nat /\ Len(now) \in Nat /\ a \in Nat /\ Len(then) = Len(u)
    BY <1>1, <1>5, <1>8, <1>9, <2>1, <2>2, <2>4
  <2>6. ASSUME NEW i \in 1..Len(u) PROVE then[i] = u[i]
    <3>1. CASE i \in 1..Len(now)
      <4>1. (a + i) - 1 \in 1..Len(s) /\ i \in 1..Len(then)
        BY <1>8, <2>1, <2>5, <3>1
      <4> QED
        BY <1>9, <2>1, <2>2, <2>4, <3>1, <4>1
    <3>2. CASE i \notin 1..Len(now)
      <4> DEFINE k == i - Len(now)
      <4>1. k \in 1..Len(b) /\ Len(now) + k = i /\ (a + i) - 1 = Len(s) + k /\ i \in 1..Len(then)
        BY <1>8, <2>1, <2>4, <2>5, <3>2
      <4> HIDE DEF k
      <4>2. u[i] = b[k]
        BY <2>4, <4>1
      <4>3. then[i] = t[Len(s) + k]
        BY <2>2, <4>1
      <4> QED
        BY <1>9, <4>1, <4>2, <4>3
    <3> QED
      BY <3>1, <3>2
  <2>7. then = u
    BY <2>2, <2>4, <2>5, <2>6, PastSame
  <2> QED
    BY <2>7 DEF u
<1>11. PastPaired(then)
  <2>1. now \in Seq(M) /\ PastPaired(now)
    BY <1>8
  <2>2. b # <<>> => b[1].role # "tool"
    BY <1>2, <1>5
  <2> HIDE DEF now, then
  <2>3. PastPaired(now \o b)
    BY <1>5, <1>7, <2>1, <2>2, PastJoined
  <2> QED
    BY <1>10, <2>3
<1>12. PastQuestion(t, a) /\ t[a] = s[a]
  <2>1. a \in 1..Len(t) /\ t[a] = s[a]
    BY <1>1, <1>5, <1>8, <1>9
  <2>2. ASSUME NEW i \in (a + 1)..Len(t) PROVE t[i].role # "user"
    <3>1. CASE i <= Len(s)
      BY <1>8, <1>9, <3>1
    <3>2. CASE i > Len(s)
      <4> DEFINE k == i - Len(s)
      <4>0. Len(b) = 1 + c /\ c \in Nat /\ Len(s) \in Nat /\ Len(t) = Len(s) + Len(b)
            /\ a \in 1..Len(s)
        BY <1>1, <1>5, <1>8, <1>9
      <4>1. k \in 1..Len(b) /\ Len(s) + k = i /\ (k = 1 \/ k \in 2..(1 + c))
        BY <3>2, <4>0
      <4> HIDE DEF k
      <4>2. t[i] = b[k]
        BY <1>9, <4>1
      <4> QED
        BY <1>2, <1>5, <1>6, <4>1, <4>2
    <3> QED
      BY <1>8, <3>1, <3>2
  <2> QED
    BY <1>8, <2>1, <2>2 DEF PastQuestion
<1>13. a \in 1..Len(t) /\ PastTurn(t, a, n)
  BY <1>8, <1>11, <1>12 DEF PastTurn, PastQuestion
<1>14. t = (s \o <<m>>) \o tools
  <2> DEFINE one == <<m>>
  <2>1. one \in Seq(M) /\ tools \in Seq(M) /\ s \in Seq(M)
    BY <1>2, <1>4, <1>8
  <2> HIDE DEF one
  <2>2. s \o (one \o tools) = (s \o one) \o tools
    BY <2>1, PastAssociative
  <2> QED
    BY <2>2 DEF t, b, one
<1> QED
  BY <1>9, <1>13, <1>14 DEF m, tools, tool, calls, M

\* A write of the row, or its failure.
LEMMA PastPersisted ==
    ASSUME rows \in Seq(PastRows), rows # <<>>, NEW r \in PastRows, NEW t \in Seq(History!Messages),
           History!Persist(r, t)
    PROVE  rows' \in Seq(PastRows)
<1> DEFINE q == [r EXCEPT !.transcript = t]
           f == History!Front(rows)
<1>1. q \in PastRows
  <2> DEFINE S == Seq(History!Messages)
  <2>1. t \in S
    OBVIOUS
  <2> HIDE DEF S
  <2>2. q \in [user : History!Bodies, status : {"none", "ok", "interrupted"}, answer : History!Bodies,
               transcript : S, undelivered : History!Bodies]
    BY <2>1 DEF PastRows, S
  <2> QED
    BY <2>2 DEF PastRows, S
<1>2. f \in Seq(PastRows)
  BY DEF History!Front
<1> HIDE DEF q, f
<1>3. Append(f, q) \in Seq(PastRows) /\ Append(f, r) \in Seq(PastRows)
  BY <1>1, <1>2
<1>4. rows' = Append(f, q) \/ rows' = rows \/ rows' = Append(f, r)
  BY DEF History!Persist, f, q
<1> QED
  BY <1>3, <1>4

\* A turn that ends leaves what it recorded.
LEMMA PastClosed ==
    ASSUME PastTyped, rows \in Seq(PastRows), rows # <<>>,
           NEW e, PastCapturedAs(e), History!Closed(e), NEW r \in PastRows,
           History!Persist(r, e.transcript)
    PROVE  PastInv'
<1>1. /\ messages' = e.messages /\ recent' = e.recent /\ historyStage' = "idle" /\ view' = <<>>
      /\ script' = [rounds |-> <<>>, answer |-> History!Empty, shown |-> FALSE]
  BY DEF History!Closed
<1>2. /\ e.messages \in Seq(History!Messages) /\ e.recent \in Seq(PastRecords)
      /\ e.transcript \in Seq(History!Messages)
  BY DEF PastCapturedAs
<1>3. rows' \in Seq(PastRows)
  BY <1>2, PastPersisted
<1>4. script' \in [rounds : Seq(History!Rounds), answer : History!Bodies, shown : BOOLEAN]
  <2> DEFINE Q == Seq(History!Rounds)
  <2>1. <<>> \in Q
    OBVIOUS
  <2> HIDE DEF Q
  <2>2. script' \in [rounds : Q, answer : History!Bodies, shown : BOOLEAN]
    BY <1>1, <2>1, PastTexts
  <2> QED
    BY <2>2 DEF Q
<1>5. view' \in Seq(PastPairs)
  BY <1>1
<1> QED
  BY <1>1, <1>2, <1>3, <1>4, <1>5 DEF PastInv, PastTyped, PastInTurn

\* The row of a turn is changed to another row.
LEMMA PastLastRow ==
    ASSUME rows \in Seq(PastRows), rows # <<>>
    PROVE  /\ History!Last(rows) \in PastRows
           /\ \A b \in History!Bodies, u \in History!Bodies, st \in {"ok", "interrupted"} :
                [History!Last(rows) EXCEPT !.status = st, !.answer = b, !.undelivered = u] \in PastRows
           /\ \A b \in History!Bodies :
                [History!Last(rows) EXCEPT !.status = "ok", !.answer = b] \in PastRows
<1> DEFINE r == History!Last(rows)
<1>1. r \in PastRows
  BY DEF History!Last
<1> HIDE DEF r
<1> DEFINE S == Seq(History!Messages)
           R == [user : History!Bodies, status : {"none", "ok", "interrupted"}, answer : History!Bodies,
                 transcript : S, undelivered : History!Bodies]
<1>2. PastRows = R
  BY DEF PastRows
<1> HIDE DEF S
<1>3. \A b \in History!Bodies, u \in History!Bodies, st \in {"ok", "interrupted"} :
         [r EXCEPT !.status = st, !.answer = b, !.undelivered = u] \in R
  BY <1>1, <1>2
<1>4. \A b \in History!Bodies : [r EXCEPT !.status = "ok", !.answer = b] \in R
  BY <1>1, <1>2
<1> HIDE DEF R
<1> QED
  BY <1>1, <1>2, <1>3, <1>4 DEF r

\* In a turn: what its steps start from.
LEMMA PastHere ==
    ASSUME PastInv, historyStage = "turn"
    PROVE  /\ rows \in Seq(PastRows) /\ rows # <<>> /\ Len(rows) \in Nat
           /\ messages \in Seq(History!Messages) /\ recent \in Seq(PastRecords)
           /\ PastAsked(messages) /\ script.answer \in History!Bodies
<1>1. PICK a \in 1..Len(messages) : PastTurn(messages, a, Len(rows))
  BY DEF PastInv, PastInTurn
<1>2. PastAsked(messages)
  BY <1>1 DEF PastTurn, PastQuestion, PastAsked
<1>3. PastTyped /\ rows # <<>>
  BY DEF PastInv, PastInTurn
<1> QED
  BY <1>2, <1>3 DEF PastTyped

\* A turn with its answer still has its question.
LEMMA PastAnsweredTurn ==
    ASSUME PastInv, historyStage = "turn"
    PROVE  History!Answered \in Seq(History!Messages) /\ PastAsked(History!Answered)
<1> DEFINE m == History!Answer(script.answer, Len(rows))
           s == History!Answered
<1>1. m \in History!Messages /\ s = Append(messages, m) /\ messages \in Seq(History!Messages)
  BY PastHere, PastTexts DEF History!Answered
<1> HIDE DEF m, s
<1>2. s \in Seq(History!Messages) /\ Len(s) = Len(messages) + 1 /\ Len(messages) \in Nat
      /\ \A i \in 1..Len(messages) : s[i] = messages[i]
  BY <1>1
<1>3. PastAsked(messages)
  BY PastHere
<1> QED
  BY <1>2, <1>3 DEF PastAsked, s

\* A turn that is answered,
LEMMA PastFinish ==
    ASSUME PastInv, History!Finish
    PROVE  PastInv'
<1> DEFINE e == History!captureTurnTranscript(History!Answered, recent, Len(rows))
           shown == IF script.shown THEN History!Text("display", 1) ELSE script.answer
           r == [History!Last(rows) EXCEPT !.status = "ok", !.answer = shown]
<1>0. historyStage = "turn" /\ History!Closed(e) /\ History!Persist(r, e.transcript)
  BY DEF History!Finish
<1>1. /\ rows \in Seq(PastRows) /\ rows # <<>> /\ Len(rows) \in Nat
      /\ recent \in Seq(PastRecords) /\ script.answer \in History!Bodies /\ PastTyped
  BY <1>0, PastHere DEF PastInv
<1>2. PastCapturedAs(e)
  BY <1>0, <1>1, PastAnsweredTurn, PastCaptured
<1>3. shown \in History!Bodies
  BY <1>1, PastTexts
<1> HIDE DEF e, shown
<1>4. r \in PastRows
  BY <1>1, <1>3, PastLastRow
<1> HIDE DEF r
<1> QED
  BY <1>0, <1>1, <1>2, <1>4, PastClosed

\* or not, leaves nothing of itself to send.
LEMMA PastInterrupt ==
    ASSUME PastInv, History!Interrupt
    PROVE  PastInv'
<1>0. historyStage = "turn"
  BY DEF History!Interrupt
<1>1. /\ rows \in Seq(PastRows) /\ rows # <<>> /\ Len(rows) \in Nat /\ messages \in Seq(History!Messages)
      /\ recent \in Seq(PastRecords) /\ PastAsked(messages) /\ PastTyped
  BY <1>0, PastHere DEF PastInv
<1> DEFINE End(s) == History!MarkLastTurnInterrupted(
                       History!captureTurnTranscript(s, recent, Len(rows)), Len(rows))
           Unsent(s) == IF History!IsPlain(History!Last(s)) THEN History!Last(s).body ELSE History!Empty
           R(s) == [History!Last(rows) EXCEPT !.status = "interrupted", !.answer = History!Text("aborted", 1),
                                              !.undelivered = Unsent(s)]
<1>2. PICK s \in {messages} \cup (IF script.rounds = <<>> THEN {History!Answered} ELSE {}) :
         History!Closed(End(s)) /\ History!Persist(R(s), End(s).transcript)
  BY DEF History!Interrupt
<1>3. s \in Seq(History!Messages) /\ PastAsked(s)
  BY <1>0, <1>1, <1>2, PastAnsweredTurn
<1>4. PastCapturedAs(End(s))
  BY <1>1, <1>3, PastCaptured, PastInterrupted
<1>5. Unsent(s) \in History!Bodies
  <2>1. Len(s) \in 1..Len(s)
    BY <1>3 DEF PastAsked
  <2>2. History!Last(s) \in History!Messages
    BY <1>3, <2>1 DEF History!Last
  <2> QED
    BY <2>2, PastTexts
<1> HIDE DEF End, Unsent
<1>6. R(s) \in PastRows
  BY <1>1, <1>5, PastLastRow, PastTexts
<1> HIDE DEF R
<1> QED
  BY <1>1, <1>2, <1>4, <1>6, PastClosed

\* A turn that begins is its question, behind what is replayed.
LEMMA PastBegin ==
    ASSUME PastInv, History!BeginTurn
    PROVE  PastInv'
<1>1. PICK u \in HistoryUsers, w \in HistoryScripts :
        /\ view' = History!recentConversationPairs(messages, recent)
        /\ messages' = Append(History!trimHistory(messages), History!Question(u, Len(rows) + 1))
        /\ rows' = Append(rows, History!Row(u)) /\ script' = w
  BY DEF History!BeginTurn
<1>2. historyStage' = "turn" /\ recent' = recent
  BY DEF History!BeginTurn
<1>3. PastTyped /\ rows \in Seq(PastRows) /\ Len(rows) \in Nat
  BY DEF PastInv, PastTyped
<1>4. u \in History!Bodies /\ w \in [rounds : Seq(History!Rounds), answer : History!Bodies, shown : BOOLEAN]
  BY TurnAssumption DEF History!HistoryConstants
<1>5. view' \in Seq(PastPairs)
  BY <1>1, <1>3, PastCompiled DEF PastTyped
<1>6. History!trimHistory(messages) \in Seq(History!Messages)
  BY <1>3, PastTrimHistory DEF PastTyped
<1>7. /\ messages' \in Seq(History!Messages)
      /\ \E a \in 1..Len(messages') : PastTurn(messages', a, Len(rows) + 1)
  <2>1. Len(rows) + 1 \in Nat
    BY <1>3
  <2> QED
    BY <1>1, <1>4, <1>6, <2>1, PastBegun
<1>8. History!Row(u) \in PastRows
  <2> DEFINE S == Seq(History!Messages)
  <2>1. <<>> \in S
    OBVIOUS
  <2> HIDE DEF S
  <2>2. History!Row(u) \in [user : History!Bodies, status : {"none", "ok", "interrupted"},
                            answer : History!Bodies, transcript : S, undelivered : History!Bodies]
    BY <1>4, <2>1, PastTexts DEF History!Row, History!None
  <2> QED
    BY <2>2 DEF PastRows, S
<1>9. rows' \in Seq(PastRows) /\ Len(rows') = Len(rows) + 1 /\ rows' # <<>>
  <2> DEFINE r == History!Row(u)
  <2>1. r \in PastRows /\ rows' = Append(rows, r)
    BY <1>1, <1>8
  <2> HIDE DEF r
  <2> QED
    BY <1>3, <2>1
<1>10. PastTyped'
  BY <1>1, <1>2, <1>3, <1>4, <1>5, <1>7, <1>9 DEF PastTyped
<1>11. PastInTurn'
  BY <1>7, <1>9 DEF PastInTurn
<1> QED
  BY <1>10, <1>11 DEF PastInv

\* A round adds calls and a result of each.
LEMMA PastRound ==
    ASSUME PastInv, History!Round
    PROVE  PastInv'
<1> DEFINE made == Head(script.rounds)
<1>0. /\ historyStage = "turn" /\ script.rounds # <<>>
      /\ messages' = messages
           \o <<History!Message("assistant", made.say, made.calls, 0, "plain", Len(rows))>>
           \o [j \in DOMAIN made.calls |->
                 History!Message("tool", made.results[j], <<>>, made.calls[j].id, made.calls[j].kind, Len(rows))]
      /\ script' = [script EXCEPT !.rounds = Tail(script.rounds)]
      /\ UNCHANGED <<historyStage, recent, rows, view>>
  BY DEF History!Round
<1>1. /\ PastTyped /\ Len(rows) \in Nat /\ messages \in Seq(History!Messages)
      /\ script \in [rounds : Seq(History!Rounds), answer : History!Bodies, shown : BOOLEAN]
  BY DEF PastInv, PastTyped
<1>2. made \in History!Rounds /\ script' \in [rounds : Seq(History!Rounds), answer : History!Bodies, shown : BOOLEAN]
  <2> DEFINE rs == script.rounds
             Q == Seq(History!Rounds)
  <2>1. rs \in Seq(History!Rounds) /\ rs # <<>>
    BY <1>0, <1>1
  <2>2. Head(rs) \in History!Rounds /\ Tail(rs) \in Q
    <3> HIDE DEF rs
    <3> QED
      BY <2>1
  <2>3. script \in [rounds : Q, answer : History!Bodies, shown : BOOLEAN]
    BY <1>1
  <2> DEFINE rest == Tail(rs)
  <2>4. script' = [script EXCEPT !.rounds = rest] /\ rest \in Q
    BY <1>0, <2>2
  <2> HIDE DEF Q, rest
  <2>5. script' \in [rounds : Q, answer : History!Bodies, shown : BOOLEAN]
    BY <2>3, <2>4
  <2> QED
    BY <2>2, <2>5 DEF Q
<1>3. PICK a \in 1..Len(messages) : PastTurn(messages, a, Len(rows))
  BY <1>0 DEF PastInv, PastInTurn
<1> HIDE DEF made
<1>4. messages' \in Seq(History!Messages) /\ \E b \in 1..Len(messages') : PastTurn(messages', b, Len(rows))
  BY <1>0, <1>1, <1>2, <1>3, PastRounded
<1>5. rows # <<>>
  BY <1>0 DEF PastInv, PastInTurn
<1>6. PastTyped'
  BY <1>0, <1>1, <1>2, <1>4 DEF PastTyped
<1>7. PastInTurn'
  BY <1>0, <1>4, <1>5 DEF PastInTurn
<1> QED
  BY <1>6, <1>7 DEF PastInv

\* A row is not sent.
LEMMA PastForeign ==
    ASSUME PastInv, History!ForeignRow
    PROVE  PastInv'
<1>1. PICK i \in DOMAIN rows, t \in HistoryForeign : rows' = [rows EXCEPT ![i].transcript = t]
  BY DEF History!ForeignRow
<1>2. historyStage = "idle" /\ UNCHANGED <<historyStage, messages, recent, view, script>>
  BY DEF History!ForeignRow
<1>3. t \in Seq(History!Messages)
  BY TurnAssumption DEF History!HistoryConstants
<1>4. rows \in Seq(PastRows)
  BY DEF PastInv, PastTyped
<1>5. [rows[i] EXCEPT !.transcript = t] \in PastRows
  <2> DEFINE S == Seq(History!Messages)
             R == [user : History!Bodies, status : {"none", "ok", "interrupted"}, answer : History!Bodies,
                   transcript : S, undelivered : History!Bodies]
  <2>1. PastRows = R
    BY DEF PastRows
  <2>2. rows[i] \in R
    <3>1. rows[i] \in PastRows
      BY <1>1, <1>4
    <3> QED
      BY <2>1, <3>1
  <2>4. t \in S
    BY <1>3
  <2> HIDE DEF S
  <2>3. [rows[i] EXCEPT !.transcript = t] \in R
    BY <2>2, <2>4
  <2> QED
    BY <2>1, <2>3
<1>6. rows' = [rows EXCEPT ![i] = [rows[i] EXCEPT !.transcript = t]]
  BY <1>1
<1> DEFINE r == [rows[i] EXCEPT !.transcript = t]
<1>7. rows' = [rows EXCEPT ![i] = r] /\ r \in PastRows
  BY <1>5, <1>6
<1> HIDE DEF r
<1>8. rows' \in Seq(PastRows)
  BY <1>4, <1>7
<1> QED
  BY <1>2, <1>8 DEF PastInv, PastTyped, PastInTurn

\* What is made from rows is replayed like what was remembered.
LEMMA PastRebuild ==
    ASSUME PastInv, History!Rebuild
    PROVE  PastInv'
<1>1. rows \in Seq(PastRows)
  BY DEF PastInv, PastTyped
<1>2. messages' \in Seq(History!Messages) /\ recent' \in Seq(PastRecords)
  BY <1>1, PastRehydrated DEF History!Rebuild
<1>3. historyStage = "idle" /\ UNCHANGED <<historyStage, rows, view, script>>
  BY DEF History!Rebuild
<1> QED
  BY <1>2, <1>3 DEF PastInv, PastTyped, PastInTurn

\* and is kept by every step.
LEMMA PastStep ==
    ASSUME PastInv, [History!Next]_History!vars
    PROVE  PastInv'
<1>1. CASE UNCHANGED History!vars
  BY <1>1 DEF History!vars, PastInv, PastTyped, PastInTurn
<1> QED
  BY <1>1, PastRebuild, PastBegin, PastRound, PastFinish, PastInterrupt, PastForeign DEF History!Next

\* Whatever the rows hold and whatever had to be cut, the calls and results of a request
\* are paired and its question is there (canonical_transcript.go, prompt_assembly.go).
THEOREM RequestStaysLegal == History!Spec => []History!RequestIsLegal
<1>1. History!Init => PastInv
  BY PastStarts
<1>2. PastInv /\ [History!Next]_History!vars => PastInv'
  BY PastStep
<1>3. PastInv => History!RequestIsLegal
  BY PastLegal
<1> QED
  BY <1>1, <1>2, <1>3, PTL DEF History!Spec

\* A step of the composition is one of the component, or leaves it alone.
LEMMA HistoryAlone ==
    ASSUME [TurnNext]_<<part, vars, partVars>>
    PROVE  [History!Next]_History!vars
<1>1. CASE Step("agent", Next, partVars)
  BY <1>1 DEF Step, partVars, historyVars, History!vars
<1>2. CASE Step("knowledge", Knowledge!Next, <<vars, historyVars>>)
  BY <1>2 DEF Step, historyVars, History!vars
<1>3. CASE Step("history", History!Next, <<vars, knowledgeVars>>)
  BY <1>3 DEF Step
<1>4. CASE UNCHANGED <<part, vars, partVars>>
  BY <1>4 DEF partVars, historyVars, History!vars
<1> QED
  BY <1>1, <1>2, <1>3, <1>4 DEF TurnNext

\* The steps of the composition as steps of the turn alone.
LEMMA TurnAlone ==
    ASSUME [TurnNext]_<<part, vars, partVars>>
    PROVE  [Next]_vars
<1>1. CASE Step("agent", Next, partVars)
  BY <1>1 DEF Step
<1>2. CASE Step("knowledge", Knowledge!Next, <<vars, historyVars>>)
  BY <1>2 DEF Step
<1>3. CASE Step("history", History!Next, <<vars, knowledgeVars>>)
  BY <1>3 DEF Step
<1>4. CASE UNCHANGED <<part, vars, partVars>>
  BY <1>4
<1> QED
  BY <1>1, <1>2, <1>3, <1>4 DEF TurnNext

\* No call of a turn is left open where its reply is made, and no request of the
\* session holds a call without its result or a result without its call (engine.go,
\* canonical_transcript.go, prompt_assembly.go).
THEOREM ConversationStaysLegal == TurnSpec => []ConversationIsLegal
<1>1. TurnInit => Init /\ History!Init
  BY DEF TurnInit
<1>2. [TurnNext]_<<part, vars, partVars>> => [Next]_vars /\ [History!Next]_History!vars
  BY TurnAlone, HistoryAlone
<1>3. TurnSpec => Spec /\ History!Spec
  BY <1>1, <1>2, PTL DEF TurnSpec, Spec, History!Spec
<1> QED
  BY <1>3, TranscriptClosed, RequestStaysLegal, PTL DEF ConversationIsLegal
=============================================================================
