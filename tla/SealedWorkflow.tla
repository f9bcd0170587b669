---------------------------- MODULE SealedWorkflow ----------------------------
(***************************************************************************)
(* The workflow engine of internal/workflow (engine.go, execution_seal.go) *)
(* for any definition: a list of tool calls, resolve steps and             *)
(* confirmation gates.                                                     *)
(*                                                                         *)
(* Business parameters are abstracted to what the user chooses and to the  *)
(* draft a gate promotes beside it; the result of a step is the choice it  *)
(* was computed from.  A call either gives a result or does not: upstream  *)
(* errors, rejections by CheckResult and batches with no success are one   *)
(* outcome, and a batch with some success gives a result.                  *)
(***************************************************************************)
EXTENDS Integers, Sequences, FiniteSets

CONSTANTS Definitions,  \* workflow definitions, as sequences of steps
          Choices,      \* values of the business parameters
          NoValue,      \* nil: no result, no seal, no card
          MaxEdits      \* maxConfirmEdits

\* A Step.  `skip` is 0 without SkipIf, the step's own index, or the gate whose
\* SkipIf it shares; `rewrites` if its BuildArgs, CheckResult or Resolve may write
\* Params; `reads` is 0 or the step whose result it works on; `promotes` is 0 or
\* the step whose result PromoteOnConfirm copies; `from` is RevalidateFrom.
Steps == [type : {"tool", "batch", "resolve", "confirm"}, skip : Nat, optional : BOOLEAN,
          rewrites : BOOLEAN, mutates : BOOLEAN, polls : BOOLEAN, reads : Nat,
          promotes : Nat, mode : {"plain", "edit", "continue"}, from : Nat]

Gates(d) == {j \in 1..Len(d) : d[j].type = "confirm"}

\* The first step whose result the card of gate g rests on.
Root(d, g) == IF d[g].from # 0 THEN d[g].from ELSE d[g].promotes

IsLast(d, g) == g \in Gates(d) /\ \A h \in Gates(d) : h <= g

\* What a card shows is computed from its root on, with no gate and no write to
\* Params in between.
ChainOfCard(d, g) ==
    /\ d[g].promotes # 0 => d[g].promotes >= Root(d, g) /\ d[g].mode # "continue"
    /\ Root(d, g) # 0 => ~d[g].rewrites
    /\ Root(d, g) # 0 => \A j \in Root(d, g)..(g - 1) :
        /\ d[j].type # "confirm" /\ ~d[j].rewrites
        /\ d[j].reads = 0 \/ d[j].reads >= Root(d, g)

\* What the definitions of the repository keep to: a write follows every gate, is
\* skipped when the last gate is, and is neither polled nor optional; only the last
\* gate re-asks.
WellFormed(d) ==
    /\ d # <<>>
    /\ \A j \in 1..Len(d) :
        /\ d[j].skip \in {0, j} \/ (d[j].skip < j /\ d[j].skip \in Gates(d))
        /\ d[j].reads < j /\ d[j].promotes < j /\ d[j].from < j
        /\ d[j].mutates =>
            /\ d[j].type = "tool" /\ ~d[j].polls /\ ~d[j].optional
            /\ \E g \in Gates(d) : IsLast(d, g) /\ g < j /\ d[g].skip \in {0, d[j].skip}
    /\ \A g \in Gates(d) :
        /\ d[g].skip = 0 \/ (d[g].skip = g /\ (IsLast(d, g) => Gates(d) = {g}))
        /\ d[g].mode = "edit" => IsLast(d, g) /\ (d[g].from = 0 => d[g].promotes = 0)
        /\ d[g].from # 0 => d[g].mode = "edit"
        /\ ChainOfCard(d, g)

Params == [choice : Choices, draft : Choices \cup {NoValue}]
Presented == [gate : Nat, choice : Choices, shown : Choices \cup {NoValue}, editable : BOOLEAN]

ASSUME WorkflowAssumption ==
    /\ \A d \in Definitions : d \in Seq(Steps) /\ WellFormed(d)
    /\ NoValue \notin Choices /\ NoValue \notin Params /\ NoValue \notin Presented
    /\ MaxEdits \in Nat

VARIABLES def,        \* the definition that Run executes
          at,         \* the step it is at
          back,       \* the gate that revalidateFrom returns to, or 0
          pc,         \* where in the step it is
          status,     \* how the run ended
          authorized, \* Failure.ExecutionAuthorized
          params,     \* wfCtx.Params
          results,    \* wfCtx.StepResults: the choice each result was computed from
          sealed,     \* wfCtx.sealed
          skipped,    \* the steps SkipIf skipped
          edits,      \* the edits submitted at the current gate
          card,       \* the last card presented
          cards,      \* history variable: the number of cards presented
          agreed,     \* history variable: the card the user said yes to
          tampered,   \* history variable: a step wrote Params under a seal
          attempts    \* history variable: calls made by each mutating step

control == <<at, back, pc, status, authorized>>
cardVars == <<edits, card, cards>>
vars == <<def, control, params, results, sealed, skipped, cardVars, agreed, tampered, attempts>>

Here == def[at]

TypeOK ==
    /\ def \in Definitions
    /\ at \in 1..Len(def)
    /\ back \in {0} \cup Gates(def)
    /\ pc \in {"step", "call", "gate", "asking", "passing", "done"}
    /\ status \in {"running", "succeeded", "failed", "unverified"}
    /\ authorized \in BOOLEAN
    /\ params \in Params
    /\ results \in [1..Len(def) -> Choices \cup {NoValue}]
    /\ sealed \in Params \cup {NoValue}
    /\ skipped \subseteq 1..Len(def)
    /\ edits \in 0..MaxEdits
    /\ card \in Presented \cup {NoValue}
    /\ cards \in Nat
    /\ agreed \in Presented \cup {NoValue}
    /\ tampered \in BOOLEAN
    /\ attempts \in [1..Len(def) -> Nat]

Init ==
    /\ def \in Definitions
    /\ at = 1
    /\ back = 0
    /\ pc = "step"
    /\ status = "running"
    /\ authorized = FALSE
    /\ params \in {p \in Params : p.draft = NoValue}
    /\ results = [j \in 1..Len(def) |-> NoValue]
    /\ sealed = NoValue
    /\ skipped = {}
    /\ edits = 0
    /\ card = NoValue
    /\ cards = 0
    /\ agreed = NoValue
    /\ tampered = FALSE
    /\ attempts = [j \in 1..Len(def) |-> 0]

-----------------------------------------------------------------------------
(* How a step ends.                                                          *)

\* confirmGateUnpassed: a failing gate has not authorized itself.
GateAhead(i) == \E j \in i..Len(def) : def[j].type = "confirm"

\* recordStepFailure; a step that fails in a revalidation fails its gate.
Fail(reason) ==
    /\ pc' = "done"
    /\ status' = reason
    /\ authorized' = (sealed # NoValue /\ ~GateAhead(IF back = 0 THEN at ELSE back))
    /\ UNCHANGED <<at, back>>

Goto(l) ==
    /\ pc' = l
    /\ UNCHANGED <<at, back, status, authorized>>

\* The next step, the gate when its revalidation is complete, or success.
Advance ==
    /\ UNCHANGED authorized
    /\ IF at = Len(def) THEN pc' = "done" /\ status' = "succeeded" /\ UNCHANGED <<at, back>>
       ELSE /\ at' = at + 1
            /\ back' = IF at + 1 = back THEN 0 ELSE back
            /\ pc' = IF at + 1 = back THEN "gate" ELSE "step"
            /\ UNCHANGED status

\* Params once the step's own code ran.
Rewritten == IF Here.rewrites THEN {[params EXCEPT !.choice = c] : c \in Choices} ELSE {params}

Rewrite(p) ==
    /\ params' = p
    /\ tampered' = (tampered \/ (sealed # NoValue /\ p # params))

\* The choice that step j works from: Params, or the result it reads.
Input(j) == IF def[j].reads = 0 THEN params.choice ELSE results[def[j].reads]

-----------------------------------------------------------------------------
(* Run and its steps.                                                        *)

\* The context is cancelled, which a revalidation does not look at, or SkipIf fails.
Stop ==
    /\ pc = "step"
    /\ ~(back # 0 /\ Here.skip = 0)
    /\ Fail("failed")
    /\ UNCHANGED <<def, params, results, sealed, skipped, cardVars, agreed, tampered, attempts>>

Skip ==
    /\ pc = "step"
    /\ Here.skip \in skipped \cup {at}
    /\ skipped' = skipped \cup {at}
    /\ Advance
    /\ UNCHANGED <<def, params, results, sealed, cardVars, agreed, tampered, attempts>>

\* SkipIf lets the step run.
Runs(types) ==
    /\ pc = "step"
    /\ Here.type \in types
    /\ Here.skip \notin skipped \ {at}

\* runResolveStep: a resolve step that wrote Params fails.
Resolve ==
    /\ Runs({"resolve"})
    /\ \E p \in Rewritten :
        /\ Rewrite(p)
        /\ \/ /\ p = params /\ Input(at) # NoValue
              /\ results' = [results EXCEPT ![at] = Input(at)]
              /\ Advance
           \/ Fail("failed") /\ UNCHANGED results
    /\ UNCHANGED <<def, sealed, skipped, cardVars, agreed, attempts>>

\* MUTANT: the parameters are not compared with the contract.
Unverified(p) == TRUE

\* verifySealedContract: with no seal, anything goes.
Verified(p) == sealed = NoValue \/ p = sealed

\* MUTANT: every step is taken for an optional one.
NoResultIgnored == Advance

\* A step that gave no result: only an optional one lets the run go on.
NoResult == IF Here.optional THEN Advance ELSE Fail("failed")

\* BuildArgs or BuildArgsBatch, then the check of the seal.
Build ==
    /\ Runs({"tool", "batch"})
    /\ \E p \in Rewritten :
        /\ Rewrite(p)
        /\ \/ NoResult
           \/ Input(at) # NoValue /\ (IF Verified(p) THEN Goto("call") ELSE Fail("unverified"))
    /\ UNCHANGED <<def, results, sealed, skipped, cardVars, agreed, attempts>>

Attempted == IF Here.mutates THEN [attempts EXCEPT ![at] = @ + 1] ELSE attempts

\* The call is answered and CheckResult accepts.
Succeed ==
    /\ pc = "call"
    /\ \E p \in Rewritten : Rewrite(p)
    /\ results' = [results EXCEPT ![at] = Input(at)]
    /\ attempts' = Attempted
    /\ Advance
    /\ UNCHANGED <<def, sealed, skipped, cardVars, agreed>>

\* An error or a rejection; a batch stores its outcomes before it is rejected.  A
\* poll that runs out of time fails the run even when its step is optional.
CallFails ==
    /\ pc = "call"
    /\ \E p \in Rewritten : Rewrite(p)
    /\ results' \in {results} \cup (IF Here.type = "batch" THEN {[results EXCEPT ![at] = Input(at)]} ELSE {})
    /\ attempts' = Attempted
    /\ NoResult \/ (Here.polls /\ Fail("failed"))
    /\ UNCHANGED <<def, sealed, skipped, cardVars, agreed>>

\* CheckResult reports a pending state and the poll has time left.
Pending ==
    /\ pc = "call"
    /\ Here.polls /\ Here.type = "tool"
    /\ \E p \in Rewritten : Rewrite(p)
    /\ attempts' = Attempted
    /\ Goto("call")
    /\ UNCHANGED <<def, results, sealed, skipped, cardVars, agreed>>

-----------------------------------------------------------------------------
(* runConfirmStep and revalidateFrom.                                        *)

\* Entering a gate voids what the gates before it sealed.
EnterGate ==
    /\ Runs({"confirm"})
    /\ sealed' = NoValue
    /\ agreed' = NoValue
    /\ tampered' = FALSE
    /\ edits' = 0
    /\ Goto("gate")
    /\ UNCHANGED <<def, params, results, skipped, card, cards, attempts>>

\* What the card of the current gate says beside the parameters.
Shown == IF Here.promotes = 0 THEN NoValue ELSE results[Here.promotes]

\* The card and the promotion fail when the result they copy is missing.
HasDraft == Here.promotes # 0 => results[Here.promotes] # NoValue

\* The largest number of cards of a run, MaxConfirmationsPerWorkflowTurn.
MaxCards == Cardinality(Gates(def)) + MaxEdits

\* The card, and the form unless it cannot be built or the client has none.
ShowCard ==
    /\ pc = "gate"
    /\ HasDraft
    /\ \E p \in Rewritten, e \in {FALSE, Here.mode # "plain"} :
        /\ Rewrite(p)
        /\ card' = [gate |-> at, choice |-> p.choice, shown |-> Shown, editable |-> e]
    /\ cards' = IF cards > MaxCards THEN cards ELSE cards + 1
    /\ Goto("asking")
    /\ UNCHANGED <<def, results, sealed, skipped, edits, agreed, attempts>>

\* A yes to the card as it is.
Approve ==
    /\ pc = "asking"
    /\ ~(card.editable /\ Here.mode = "continue")
    /\ agreed' = card
    /\ Goto("passing")
    /\ UNCHANGED <<def, params, results, sealed, skipped, cardVars, tampered, attempts>>

\* A form of a guided step: the choice made, or the form's defaults, is the answer.
Choose ==
    /\ pc = "asking"
    /\ card.editable /\ Here.mode = "continue"
    /\ \E c \in Choices :
        /\ params' = [params EXCEPT !.choice = c]
        /\ agreed' = [card EXCEPT !.choice = c]
    /\ Goto("passing")
    /\ UNCHANGED <<def, results, sealed, skipped, cardVars, tampered, attempts>>

\* MUTANT: the results of the last round are left where they are.
DiscardedNothing == results

\* revalidateFrom discards the results it is going to compute again.
Discarded == [j \in DOMAIN results |-> IF j \in Here.from..(at - 1) THEN NoValue ELSE results[j]]

MayEdit == edits < MaxEdits

\* MUTANT: the rounds of editing are not counted.
Edited == edits

\* The count of edits submitted at this gate.
EditCount == edits + 1

\* Overrides to an editable card: everything it rests on is computed again, and the
\* user is asked again.
Edit ==
    /\ pc = "asking"
    /\ card.editable /\ Here.mode = "edit"
    /\ MayEdit
    /\ edits' = EditCount
    /\ \E c \in Choices : params' = [params EXCEPT !.choice = c]
    /\ IF Here.from = 0 THEN Goto("gate") /\ UNCHANGED results
       ELSE /\ results' = Discarded
            /\ at' = Here.from
            /\ back' = at
            /\ pc' = "step"
            /\ UNCHANGED <<status, authorized>>
    /\ UNCHANGED <<def, sealed, skipped, card, cards, agreed, tampered, attempts>>

\* A no, silence, one edit too many, or an error of the card or of its promotion.
GateFails ==
    /\ pc \in {"gate", "asking", "passing"}
    /\ pc = "passing" => Here.promotes # 0 \/ Here.mode = "continue"
    /\ Fail("failed")
    /\ UNCHANGED <<def, params, results, sealed, skipped, cardVars, agreed, tampered, attempts>>

\* Params with what PromoteOnConfirm copies into it.
Promoted == IF Here.promotes = 0 THEN params ELSE [params EXCEPT !.draft = results[Here.promotes]]

\* The gate is passed: promote, then seal.
Pass ==
    /\ pc = "passing"
    /\ HasDraft
    /\ params' = Promoted
    /\ sealed' = Promoted
    /\ Advance
    /\ UNCHANGED <<def, results, skipped, cardVars, agreed, tampered, attempts>>

Next ==
    \/ Stop \/ Skip \/ Resolve \/ Build \/ Succeed \/ CallFails \/ Pending
    \/ EnterGate \/ ShowCard \/ Approve \/ Choose \/ Edit \/ GateFails \/ Pass

Spec == Init /\ [][Next]_vars

\* Run is one goroutine; the timer of a card ends the wait for an answer, and the
\* deadline of a poll the wait for a state.
Fairness == WF_vars(Next) /\ WF_vars(Succeed \/ CallFails)

FairSpec == Spec /\ Fairness

-----------------------------------------------------------------------------
(* Properties.                                                               *)

\* A mutating call is made only after the last gate of its definition said yes, and
\* on the parameters and the draft of the card it said yes to, whatever edits,
\* revalidations and rewrites lie before it.
ExecutesWhatWasConfirmed ==
    pc = "call" /\ Here.mutates =>
        /\ agreed # NoValue
        /\ IsLast(def, agreed.gate)
        /\ params.choice = agreed.choice
        /\ agreed.shown # NoValue => params.draft = agreed.shown

\* A card never rests on a result computed from parameters the user has replaced.
CardIsFresh ==
    pc = "asking" /\ Root(def, at) # 0 =>
        \A j \in Root(def, at)..(at - 1) : results[j] \in {NoValue, params.choice}

\* A confirmed write is sent once: no retry, no poll, no revalidation repeats it.
SingleAttempt == \A j \in 1..Len(def) : attempts[j] <= 1

\* A run that succeeds, and so counts as a committed mutation, has made every write
\* that it did not skip, and under an approval.
SuccessMeansWritten ==
    status = "succeeded" =>
        \A j \in 1..Len(def) : def[j].mutates /\ j \notin skipped =>
            agreed # NoValue /\ attempts[j] = 1 /\ results[j] # NoValue

\* The contract check fails a run only when a step wrote Params under a seal: edits
\* and promotions, which the user asked for, never do.
EditsAreNotTampering == status = "unverified" => tampered

\* The failure record says "authorized" exactly when the last gate was passed.
AuthorizedIffConfirmed ==
    status \in {"failed", "unverified"} =>
        (authorized <=> (agreed # NoValue /\ IsLast(def, agreed.gate) /\ at > agreed.gate))

\* MaxConfirmationsPerWorkflowTurn bounds the cards of a run.
CardBudget == cards <= MaxCards

\* Every run ends.
Termination == <>(pc = "done")

=============================================================================
