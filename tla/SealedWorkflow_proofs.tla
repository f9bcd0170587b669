------------------------ MODULE SealedWorkflow_proofs ------------------------
(* Proofs about SealedWorkflow, for every set of well-formed definitions.    *)
EXTENDS SealedWorkflow, FiniteSetTheorems, WellFoundedInduction, TLAPS

-----------------------------------------------------------------------------
(* The inductive invariant.                                                  *)

AtGate == pc \in {"gate", "asking", "passing"}

\* Where the run can be: gates are handled at gates, a revalidation runs inside its
\* range, and a call has its input and was not skipped.
Control ==
    /\ pc = "done" <=> status # "running"
    /\ back # 0 => /\ def[back].mode = "edit" /\ def[back].from # 0
                   /\ def[back].from <= at /\ at < back
                   /\ ~AtGate
    /\ AtGate => at \in Gates(def)
    /\ pc = "call" =>
        /\ def[at].type \in {"tool", "batch"}
        /\ def[at].skip # at => def[at].skip \notin skipped
        /\ def[at].reads # 0 => results[def[at].reads] # NoValue
    /\ \A j \in skipped : def[j].skip # 0

\* What card c says of the gate the run is at.
Says(c) ==
    /\ c \in Presented
    /\ c.gate = at
    /\ c.choice = params.choice
    /\ c.shown = IF def[at].promotes = 0 THEN NoValue ELSE results[def[at].promotes]

\* A contract exists from a passed gate to the next one, and is what its card said.
Consent ==
    /\ AtGate \/ (back # 0 /\ pc # "done") => sealed = NoValue
    /\ pc \in {"gate", "asking"} \/ (back # 0 /\ pc # "done") => agreed = NoValue
    /\ pc = "asking" => Says(card)
    /\ pc = "passing" => Says(agreed)
    /\ agreed # NoValue /\ pc \notin {"passing", "done"} => sealed # NoValue
    /\ sealed # NoValue =>
        /\ agreed \in Presented
        /\ agreed.gate \in Gates(def)
        /\ pc # "done" => agreed.gate < at
        /\ sealed.choice = agreed.choice
        /\ agreed.shown # NoValue => sealed.draft = agreed.shown

\* The last gate behind the run was passed, or skipped.
Covered ==
    pc # "done" => \A g \in Gates(def) :
        IsLast(def, g) /\ g < at => (sealed # NoValue /\ agreed.gate = g) \/ g \in skipped

\* Params leave the contract only by a rewrite, and a call that was let through is
\* still on the contract.
Faithful ==
    /\ sealed # NoValue /\ ~tampered => params = sealed
    /\ pc = "call" /\ ~def[at].polls /\ sealed # NoValue => params = sealed

\* No write ahead of the run was attempted, and each one behind it was, once.
Attempts ==
    /\ \A j \in 1..Len(def) :
        /\ attempts[j] <= 1
        /\ attempts[j] = 1 => def[j].mutates /\ (pc # "done" => j < at)
    /\ \A j \in 1..Len(def) :
        def[j].mutates /\ j \notin skipped /\ (status = "succeeded" \/ (pc # "done" /\ j < at)) =>
            agreed # NoValue /\ attempts[j] = 1 /\ results[j] # NoValue

\* Nothing ahead of the run has a result, and the results behind it that the next
\* card rests on are those of the present parameters.
Fresh ==
    pc # "done" =>
        /\ \A j \in at..Len(def) : results[j] = NoValue
        /\ \A g \in Gates(def) : Root(def, g) # 0 /\ Root(def, g) <= at /\ at <= g =>
            \A j \in Root(def, g)..(at - 1) : results[j] \in {NoValue, params.choice}

IInv ==
    /\ TypeOK /\ Control /\ Consent /\ Covered /\ Faithful /\ Attempts /\ Fresh
    /\ AuthorizedIffConfirmed /\ EditsAreNotTampering

-----------------------------------------------------------------------------
(* Definitions.                                                              *)

\* What a definition is made of.
LEMMA StepTypes ==
    ASSUME NEW d \in Definitions
    PROVE  /\ Len(d) \in Nat /\ Len(d) >= 1
           /\ \A j \in 1..Len(d) :
                /\ d[j].type \in {"tool", "batch", "resolve", "confirm"}
                /\ d[j].mode \in {"plain", "edit", "continue"}
                /\ d[j].skip \in Nat /\ d[j].reads \in Nat /\ d[j].promotes \in Nat /\ d[j].from \in Nat
                /\ d[j].reads < j /\ d[j].promotes < j /\ d[j].from < j
<1>1. d \in Seq(Steps) /\ d # <<>>
  BY WorkflowAssumption DEF WellFormed
<1>2. Len(d) \in Nat /\ Len(d) >= 1 /\ \A j \in 1..Len(d) : d[j] \in Steps
  BY <1>1
<1>3. \A j \in 1..Len(d) : d[j].reads < j /\ d[j].promotes < j /\ d[j].from < j
  BY WorkflowAssumption DEF WellFormed
<1>4. ASSUME NEW j \in 1..Len(d)
      PROVE  /\ d[j].type \in {"tool", "batch", "resolve", "confirm"}
             /\ d[j].mode \in {"plain", "edit", "continue"}
             /\ d[j].skip \in Nat /\ d[j].reads \in Nat /\ d[j].promotes \in Nat /\ d[j].from \in Nat
  BY <1>2 DEF Steps
<1> QED
  BY <1>2, <1>3, <1>4

\* A mutating step is a tool call behind every gate, neither optional nor polled.
LEMMA WriteFacts ==
    ASSUME NEW d \in Definitions, NEW j \in 1..Len(d), d[j].mutates
    PROVE  /\ d[j].type = "tool" /\ ~d[j].polls /\ ~d[j].optional
           /\ \E g \in Gates(d) : IsLast(d, g) /\ g < j /\ d[g].skip \in {0, d[j].skip}
           /\ \A g \in Gates(d) : g < j
<1>1. WellFormed(d)
  BY WorkflowAssumption
<1>2. /\ d[j].type = "tool" /\ ~d[j].polls /\ ~d[j].optional
      /\ \E g \in Gates(d) : IsLast(d, g) /\ g < j /\ d[g].skip \in {0, d[j].skip}
  BY <1>1 DEF WellFormed
<1> QED
  BY <1>2, StepTypes DEF IsLast, Gates

\* What a gate promises of itself and of the steps before it.
LEMMA GateFacts ==
    ASSUME NEW d \in Definitions, NEW g \in Gates(d)
    PROVE  /\ g \in 1..Len(d) /\ d[g].type = "confirm"
           /\ d[g].skip = 0 \/ (d[g].skip = g /\ (IsLast(d, g) => Gates(d) = {g}))
           /\ d[g].mode = "edit" => IsLast(d, g) /\ (d[g].from = 0 => d[g].promotes = 0)
           /\ d[g].from # 0 => d[g].mode = "edit"
           /\ Root(d, g) \in Nat /\ Root(d, g) < g
           /\ d[g].mode = "continue" => Root(d, g) = 0
           /\ d[g].promotes # 0 => d[g].promotes >= Root(d, g)
           /\ Root(d, g) # 0 => ~d[g].rewrites
           /\ Root(d, g) # 0 => \A j \in Root(d, g)..(g - 1) :
                /\ d[j].type # "confirm" /\ ~d[j].rewrites
                /\ d[j].reads = 0 \/ d[j].reads >= Root(d, g)
<1>1. WellFormed(d)
  BY WorkflowAssumption
<1>2. g \in 1..Len(d) /\ d[g].type = "confirm"
  BY DEF Gates
<1>3. ChainOfCard(d, g)
  BY <1>1 DEF WellFormed
<1> QED
  BY <1>1, <1>2, <1>3, StepTypes DEF WellFormed, ChainOfCard, Root

\* A set of positions that is not empty has a last one.
LEMMA Maximum ==
    ASSUME NEW n \in Nat, NEW S \in SUBSET (1..n), S # {}
    PROVE  \E m \in S : \A k \in S : k <= m
<1> DEFINE T == {n - k : k \in S}
<1> DEFINE R == {ss \in Nat \X Nat : ss[1] < ss[2]}
<1>1. T \subseteq Nat
  OBVIOUS
<1>2. T # {}
  <2>1. PICK k \in S : TRUE
    OBVIOUS
  <2>2. n - k \in T
    OBVIOUS
  <2> QED
    BY <2>2
<1>3. IsWellFoundedOn(R, Nat)
  BY NatLessThanWellFounded DEF OpToRel
<1>4. PICK x \in T : \A y \in T : ~(<<y, x>> \in R)
  <2> HIDE DEF T, R
  <2> QED
    BY <1>1, <1>2, <1>3, WFMin
<1>5. PICK m \in S : x = n - m
  BY <1>4
<1>6. \A k \in S : ~(n - k < x)
  <2> TAKE k \in S
  <2>1. n - k \in T /\ n - k \in Nat /\ x \in Nat
    BY <1>4
  <2> QED
    BY <1>4, <2>1
<1>7. \A k \in S : k <= m
  BY <1>5, <1>6
<1> QED
  BY <1>7

\* A definition with a gate has a last one.
LEMMA LastGateExists ==
    ASSUME NEW d \in Definitions, Gates(d) # {}
    PROVE  \E g \in Gates(d) : IsLast(d, g)
<1>1. Gates(d) \in SUBSET (1..Len(d)) /\ Len(d) \in Nat
  BY StepTypes DEF Gates
<1> QED
  BY <1>1, Maximum DEF IsLast

-----------------------------------------------------------------------------
(* Type correctness.                                                         *)

\* How a step ends keeps the control variables typed.
LEMMA ControlTyped ==
    ASSUME TypeOK, NEW reason \in {"failed", "unverified"}, NEW l \in {"call", "gate", "asking", "passing"}
    PROVE  Advance \/ Goto(l) \/ Fail(reason) =>
              /\ at' \in 1..Len(def)
              /\ back' \in {0} \cup Gates(def)
              /\ pc' \in {"step", "call", "gate", "asking", "passing", "done"}
              /\ status' \in {"running", "succeeded", "failed", "unverified"}
              /\ authorized' \in BOOLEAN
<1>1. Len(def) \in Nat /\ at \in 1..Len(def)
  BY StepTypes DEF TypeOK
<1>2. CASE Advance
  BY <1>1, <1>2 DEF Advance, TypeOK
<1>3. CASE Goto(l)
  BY <1>3 DEF Goto, TypeOK
<1>4. CASE Fail(reason)
  BY <1>4 DEF Fail, TypeOK
<1> QED
  BY <1>2, <1>3, <1>4

\* What a step's own code may write keeps Params typed.
LEMMA RewriteTyped ==
    ASSUME TypeOK, NEW p \in Rewritten
    PROVE  p \in Params /\ (Rewrite(p) => params' \in Params /\ tampered' \in BOOLEAN)
<1>1. params \in Params
  BY DEF TypeOK
<1>2. p \in Params
  BY <1>1 DEF Rewritten, Params
<1>3. Rewrite(p) => tampered' \in BOOLEAN
  BY Zenon DEF Rewrite, TypeOK
<1> QED
  BY <1>2, <1>3 DEF Rewrite

\* The input of a step is a choice, or missing.
LEMMA InputTyped ==
    ASSUME TypeOK
    PROVE  Input(at) \in Choices \cup {NoValue}
<1>1. params.choice \in Choices
  BY DEF TypeOK, Params
<1>2. def[at].reads # 0 => def[at].reads \in 1..Len(def)
  BY StepTypes DEF TypeOK
<1> QED
  BY <1>1, <1>2 DEF Input, TypeOK

\* Promotion copies a result into the draft.
LEMMA PromotedTyped ==
    ASSUME TypeOK
    PROVE  Promoted \in Params
<1>1. Here.promotes # 0 => results[Here.promotes] \in Choices \cup {NoValue}
  BY StepTypes DEF Here, TypeOK
<1>2. params \in Params
  BY DEF TypeOK
<1> QED
  BY <1>1, <1>2 DEF Promoted, Params

\* Every action keeps the types.
LEMMA TypeStep == IInv /\ [Next]_vars => TypeOK'
<1> SUFFICES ASSUME IInv, [Next]_vars
             PROVE  TypeOK'
  OBVIOUS
<1> USE DEF IInv
<1>0. Len(def) \in Nat /\ at \in 1..Len(def) /\ Gates(def) \subseteq 1..Len(def)
  BY StepTypes DEF TypeOK, Gates
<1>1. CASE Stop
  BY <1>1, ControlTyped DEF Stop, cardVars, TypeOK
<1>2. CASE Skip
  BY <1>2, <1>0, ControlTyped DEF Skip, cardVars, TypeOK
<1>3. CASE Resolve
  <2>1. PICK p \in Rewritten :
            /\ Rewrite(p)
            /\ \/ /\ p = params /\ Input(at) # NoValue
                  /\ results' = [results EXCEPT ![at] = Input(at)]
                  /\ Advance
               \/ Fail("failed") /\ UNCHANGED results
    BY <1>3 DEF Resolve
  <2>2. results' \in [1..Len(def) -> Choices \cup {NoValue}]
    BY <2>1, InputTyped DEF TypeOK
  <2> QED
    BY <1>3, <2>1, <2>2, ControlTyped, RewriteTyped DEF Resolve, cardVars, TypeOK
<1>4. CASE Build
  <2>1. PICK p \in Rewritten :
            /\ Rewrite(p)
            /\ Advance \/ Goto("call") \/ Fail("failed") \/ Fail("unverified")
    BY <1>4 DEF Build, NoResult
  <2> QED
    BY <1>4, <2>1, ControlTyped, RewriteTyped DEF Build, cardVars, TypeOK
<1>5. CASE Succeed
  <2>1. PICK p \in Rewritten : Rewrite(p)
    BY <1>5 DEF Succeed
  <2>2. results' \in [1..Len(def) -> Choices \cup {NoValue}] /\ attempts' \in [1..Len(def) -> Nat]
    BY <1>5, InputTyped DEF Succeed, Attempted, TypeOK
  <2> QED
    BY <1>5, <2>1, <2>2, ControlTyped, RewriteTyped DEF Succeed, cardVars, TypeOK
<1>6. CASE CallFails
  <2>1. PICK p \in Rewritten : Rewrite(p)
    BY <1>6 DEF CallFails
  <2>2. results' \in [1..Len(def) -> Choices \cup {NoValue}] /\ attempts' \in [1..Len(def) -> Nat]
    <3>1. [results EXCEPT ![at] = Input(at)] \in [1..Len(def) -> Choices \cup {NoValue}]
      BY InputTyped DEF TypeOK
    <3>2. results' = results \/ results' = [results EXCEPT ![at] = Input(at)]
      BY <1>6 DEF CallFails
    <3>3. attempts' \in [1..Len(def) -> Nat]
      BY <1>6 DEF CallFails, Attempted, TypeOK
    <3> QED
      BY <3>1, <3>2, <3>3 DEF TypeOK
  <2>3. Advance \/ Fail("failed")
    BY <1>6 DEF CallFails, NoResult
  <2> QED
    BY <1>6, <2>1, <2>2, <2>3, ControlTyped, RewriteTyped DEF CallFails, cardVars, TypeOK
<1>7. CASE Pending
  <2>1. PICK p \in Rewritten : Rewrite(p)
    BY <1>7 DEF Pending
  <2>2. attempts' \in [1..Len(def) -> Nat]
    BY <1>7 DEF Pending, Attempted, TypeOK
  <2> QED
    BY <1>7, <2>1, <2>2, ControlTyped, RewriteTyped DEF Pending, cardVars, TypeOK
<1>8. CASE EnterGate
  <2>1. edits' \in 0..MaxEdits
    BY <1>8, WorkflowAssumption DEF EnterGate
  <2>2. Goto("gate")
    BY <1>8 DEF EnterGate
  <2> QED
    BY <1>8, <2>1, <2>2, ControlTyped DEF EnterGate, TypeOK
<1>9. CASE ShowCard
  <2>1. PICK p \in Rewritten, e \in {FALSE, Here.mode # "plain"} :
            /\ Rewrite(p)
            /\ card' = [gate |-> at, choice |-> p.choice, shown |-> Shown, editable |-> e]
    BY <1>9 DEF ShowCard
  <2>2. Shown \in Choices \cup {NoValue}
    BY <1>0, StepTypes DEF Shown, Here, TypeOK
  <2>3. p \in Params
    BY <2>1, RewriteTyped
  <2>4. card' \in Presented
    <3>1. p.choice \in Choices /\ e \in BOOLEAN
      BY <2>1, <2>3 DEF Params
    <3> QED
      BY <2>1, <2>2, <3>1, <1>0 DEF Presented
  <2>5. cards' \in Nat
    BY <1>9 DEF ShowCard, TypeOK
  <2> QED
    BY <1>9, <2>1, <2>4, <2>5, ControlTyped, RewriteTyped DEF ShowCard, TypeOK
<1>10. CASE Approve
  <2>1. card \in Presented
    BY <1>10 DEF Approve, Control, Consent, Says
  <2> QED
    BY <1>10, <2>1, ControlTyped DEF Approve, cardVars, TypeOK
<1>11. CASE Choose
  <2>1. card \in Presented
    BY <1>11 DEF Choose, Control, Consent, Says
  <2>2. params' \in Params /\ agreed' \in Presented
    BY <1>11, <2>1 DEF Choose, TypeOK, Params, Presented
  <2> QED
    BY <1>11, <2>2, ControlTyped DEF Choose, cardVars, TypeOK
<1>12. CASE Edit
  <2>1. params' \in Params
    BY <1>12 DEF Edit, TypeOK, Params
  <2>2. edits' \in 0..MaxEdits
    BY <1>12, WorkflowAssumption DEF Edit, EditCount, MayEdit, TypeOK
  <2>3. at \in Gates(def)
    BY <1>12 DEF Edit, Control, AtGate
  <2>4. CASE Here.from = 0
    BY <1>12, <2>1, <2>2, <2>4, ControlTyped DEF Edit, TypeOK
  <2>5. CASE Here.from # 0
    <3>1. at' = Here.from /\ at' \in 1..Len(def)
      BY <1>12, <2>5, <1>0, StepTypes DEF Edit, Here, TypeOK
    <3>2. results' \in [1..Len(def) -> Choices \cup {NoValue}]
      BY <1>12, <2>5 DEF Edit, Discarded, TypeOK
    <3> QED
      BY <1>12, <2>1, <2>2, <2>3, <2>5, <3>1, <3>2 DEF Edit, TypeOK
  <2> QED
    BY <2>4, <2>5
<1>13. CASE GateFails
  BY <1>13, ControlTyped DEF GateFails, cardVars, TypeOK
<1>14. CASE Pass
  <2> QED
    BY <1>14, PromotedTyped, ControlTyped DEF Pass, cardVars, TypeOK
<1>15. CASE UNCHANGED vars
  BY <1>15 DEF vars, control, cardVars, TypeOK, Gates
<1> QED
  BY <1>1, <1>2, <1>3, <1>4, <1>5, <1>6, <1>7, <1>8, <1>9, <1>10, <1>11, <1>12, <1>13, <1>14, <1>15 DEF Next

-----------------------------------------------------------------------------
(* Control.                                                                  *)

\* Indices of the definition that is run.
LEMMA Indices ==
    ASSUME TypeOK
    PROVE  /\ def \in Definitions
           /\ Len(def) \in Nat
           /\ at \in 1..Len(def)
           /\ Gates(def) \subseteq 1..Len(def)
           /\ back \in {0} \cup Gates(def)
  BY StepTypes DEF TypeOK, Gates

\* A step that ends leaves the run in a proper place.
LEMMA ControlMoves ==
    ASSUME IInv, pc # "done", UNCHANGED def, \A j \in skipped' : def[j].skip # 0,
           Advance \/ Fail("failed") \/ Fail("unverified")
    PROVE  Control'
<1> USE DEF IInv
<1>1. CASE Advance
  <2>1. CASE at = Len(def)
    BY <1>1, <2>1, Indices DEF Advance, Control, AtGate
  <2>2. CASE at # Len(def)
    <3>1. at' = at + 1 /\ status' = status
      BY <1>1, <2>2 DEF Advance
    <3>2. CASE at + 1 = back
      BY <1>1, <2>2, <3>1, <3>2, Indices DEF Advance, Control, AtGate
    <3>3. CASE at + 1 # back
      <4>1. back' = back /\ pc' = "step"
        BY <1>1, <2>2, <3>3 DEF Advance
      <4>2. back # 0 => at' < back /\ def[back].from <= at'
        <5>1. back # 0 => back \in 1..Len(def) /\ at < back /\ def[back].from <= at
          BY Indices DEF Control
        <5>2. back # 0 => def[back].from \in Nat
          BY <5>1, Indices, StepTypes
        <5> QED
          BY <3>1, <3>3, <5>1, <5>2, Indices
      <4> QED
        BY <3>1, <4>1, <4>2 DEF Control, AtGate
    <3> QED
      BY <3>2, <3>3
  <2> QED
    BY <2>1, <2>2
<1>2. CASE Fail("failed") \/ Fail("unverified")
  BY <1>2 DEF Fail, Control, AtGate
<1> QED
  BY <1>1, <1>2

\* Every action keeps Control.
LEMMA ControlStep == IInv /\ [Next]_vars => Control'
<1> SUFFICES ASSUME IInv, [Next]_vars
             PROVE  Control'
  OBVIOUS
<1> USE DEF IInv
<1>0. \A j \in skipped : def[j].skip # 0
  BY DEF Control
<1>1. CASE Stop
  BY <1>0, <1>1, ControlMoves DEF Stop
<1>2. CASE Skip
  <2>1. Here.skip # 0
    BY <1>0, <1>2, Indices DEF Skip, Here, TypeOK
  <2>2. \A j \in skipped' : def[j].skip # 0
    BY <1>0, <1>2, <2>1 DEF Skip, Here
  <2> QED
    BY <1>2, <2>2, ControlMoves DEF Skip
<1>3. CASE Resolve
  BY <1>0, <1>3, ControlMoves DEF Resolve, Runs
<1>4. CASE Build
  <2>1. CASE Goto("call")
    <3>1. def[at].reads # 0 => results[def[at].reads] # NoValue
      BY <1>4, <2>1 DEF Build, Input, NoResult, Goto, Advance, Fail
    <3>2. def[at].type \in {"tool", "batch"} /\ (def[at].skip # at => def[at].skip \notin skipped)
      BY <1>4 DEF Build, Runs, Here
    <3>3. UNCHANGED <<def, results, skipped>>
      BY <1>4 DEF Build
    <3> QED
      BY <1>4, <2>1, <3>1, <3>2, <3>3 DEF Build, Runs, Goto, Control, AtGate
  <2>2. CASE Advance \/ Fail("failed") \/ Fail("unverified")
    BY <1>0, <1>4, <2>2, ControlMoves DEF Build, Runs
  <2> QED
    BY <1>4, <2>1, <2>2 DEF Build, NoResult
<1>5. CASE Succeed
  BY <1>0, <1>5, ControlMoves DEF Succeed
<1>6. CASE CallFails
  BY <1>0, <1>6, ControlMoves DEF CallFails, NoResult
<1>7. CASE Pending
  BY <1>7 DEF Pending, Goto, Control, AtGate
<1>8. CASE EnterGate
  <2>1. at \in Gates(def)
    BY <1>8, Indices DEF EnterGate, Runs, Here, Gates
  <2>2. back = 0
    <3> SUFFICES ASSUME back # 0
                 PROVE  FALSE
      OBVIOUS
    <3>1. back \in Gates(def) /\ def[back].from # 0 /\ def[back].from <= at /\ at < back
      BY Indices DEF Control
    <3>2. at \in Root(def, back)..(back - 1)
      BY <3>1, Indices, StepTypes DEF Root
    <3> QED
      BY <2>1, <3>1, <3>2, GateFacts, Indices DEF Root
  <2> QED
    BY <1>8, <2>1, <2>2 DEF EnterGate, Runs, Goto, Control, AtGate
<1>9. CASE ShowCard
  BY <1>9 DEF ShowCard, Goto, Control, AtGate
<1>10. CASE Approve
  BY <1>10 DEF Approve, Goto, Control, AtGate
<1>11. CASE Choose
  BY <1>11 DEF Choose, Goto, Control, AtGate
<1>12. CASE Edit
  <2>1. at \in Gates(def) /\ back = 0
    BY <1>12 DEF Edit, Control, AtGate
  <2>2. CASE Here.from = 0
    BY <1>12, <2>2 DEF Edit, Goto, Control, AtGate
  <2>3. CASE Here.from # 0
    <3>1. Here.from \in Nat /\ Here.from < at
      BY Indices, StepTypes DEF Here
    <3> QED
      BY <1>12, <2>1, <2>3, <3>1, Indices DEF Edit, Control, AtGate, Here
  <2> QED
    BY <2>2, <2>3
<1>13. CASE GateFails
  BY <1>0, <1>13, ControlMoves DEF GateFails
<1>14. CASE Pass
  BY <1>0, <1>14, ControlMoves DEF Pass
<1>15. CASE UNCHANGED vars
  BY <1>15 DEF vars, control, cardVars, Control, AtGate, Gates
<1> QED
  BY <1>1, <1>2, <1>3, <1>4, <1>5, <1>6, <1>7, <1>8, <1>9, <1>10, <1>11, <1>12, <1>13, <1>14, <1>15 DEF Next

-----------------------------------------------------------------------------
(* Consent.                                                                  *)

\* What ShowCard presents is the parameters and the draft at that moment.
LEMMA CardShown ==
    ASSUME TypeOK, ShowCard
    PROVE  /\ card' \in Presented
           /\ card'.gate = at
           /\ card'.choice = params'.choice
           /\ card'.shown = Shown
<1>1. PICK p \in Rewritten, e \in {FALSE, Here.mode # "plain"} :
          /\ Rewrite(p)
          /\ card' = [gate |-> at, choice |-> p.choice, shown |-> Shown, editable |-> e]
  BY DEF ShowCard
<1>2. Shown \in Choices \cup {NoValue}
  BY Indices, StepTypes DEF Shown, Here, TypeOK
<1>3. p \in Params /\ params' = p
  BY <1>1, RewriteTyped DEF Rewrite
<1>4. p.choice \in Choices /\ e \in BOOLEAN
  BY <1>3 DEF Params
<1> QED
  BY <1>1, <1>2, <1>3, <1>4, Indices DEF Presented

\* A step outside the gates that ends leaves the consent as it is.
LEMMA ConsentMoves ==
    ASSUME IInv, pc \in {"step", "call"}, UNCHANGED <<def, sealed, agreed>>,
           Advance \/ Fail("failed") \/ Fail("unverified")
    PROVE  Consent'
<1> USE DEF IInv
<1>0. sealed # NoValue => agreed \in Presented /\ agreed.gate \in 1..Len(def) /\ agreed.gate < at
  BY Indices DEF Consent
<1>1. CASE Advance
  <2>1. at' \in Nat /\ at <= at'
    BY <1>1, Indices DEF Advance
  <2>2. pc' \in {"step", "gate", "done"} /\ (pc' = "gate" => back # 0) /\ (back' # 0 => back # 0)
    BY <1>1, Indices DEF Advance, Control
  <2>3. sealed # NoValue => agreed.gate < at'
    BY <1>0, <2>1, Indices
  <2> QED
    BY <2>2, <2>3 DEF Consent, AtGate, Gates
<1>2. CASE Fail("failed") \/ Fail("unverified")
  BY <1>2 DEF Fail, Consent, AtGate, Gates
<1> QED
  BY <1>1, <1>2

\* Every action keeps Consent.
LEMMA ConsentStep == IInv /\ [Next]_vars => Consent'
<1> SUFFICES ASSUME IInv, [Next]_vars
             PROVE  Consent'
  OBVIOUS
<1> USE DEF IInv
<1>1. CASE Stop
  BY <1>1, ConsentMoves DEF Stop
<1>2. CASE Skip
  BY <1>2, ConsentMoves DEF Skip
<1>3. CASE Resolve
  BY <1>3, ConsentMoves DEF Resolve, Runs
<1>4. CASE Build
  <2>1. CASE Goto("call")
    BY <1>4, <2>1 DEF Build, Runs, Goto, Consent, AtGate, Gates
  <2>2. CASE Advance \/ Fail("failed") \/ Fail("unverified")
    BY <1>4, <2>2, ConsentMoves DEF Build, Runs
  <2> QED
    BY <1>4, <2>1, <2>2 DEF Build, NoResult
<1>5. CASE Succeed
  BY <1>5, ConsentMoves DEF Succeed
<1>6. CASE CallFails
  BY <1>6, ConsentMoves DEF CallFails, NoResult
<1>7. CASE Pending
  BY <1>7 DEF Pending, Goto, Consent, AtGate, Gates
<1>8. CASE EnterGate
  BY <1>8 DEF EnterGate, Goto, Consent, AtGate
<1>9. CASE ShowCard
  <2>1. Says(card)'
    BY <1>9, CardShown DEF ShowCard, Goto, Shown, Here, Says
  <2> QED
    BY <1>9, <2>1 DEF ShowCard, Goto, Consent, AtGate, Gates
<1>10. CASE Approve
  <2>1. Says(agreed)'
    BY <1>10 DEF Approve, Goto, Consent, Says
  <2> QED
    BY <1>10, <2>1 DEF Approve, Goto, Consent, Control, AtGate, Gates
<1>11. CASE Choose
  <2>1. PICK c \in Choices : params' = [params EXCEPT !.choice = c] /\ agreed' = [card EXCEPT !.choice = c]
    BY <1>11 DEF Choose
  <2>2. Says(card) /\ params \in Params
    BY <1>11 DEF Choose, Consent, TypeOK
  <2>3. params'.choice = c /\ agreed' \in Presented /\ agreed'.choice = c
            /\ agreed'.gate = card.gate /\ agreed'.shown = card.shown
    BY <2>1, <2>2 DEF Says, Presented, Params
  <2>4. Says(agreed)'
    BY <1>11, <2>2, <2>3 DEF Choose, Goto, Says
  <2> QED
    BY <1>11, <2>4 DEF Choose, Goto, Consent, Control, AtGate, Gates
<1>12. CASE Edit
  <2>1. sealed' = NoValue /\ agreed' = NoValue
    BY <1>12 DEF Edit, Consent, AtGate
  <2>2. pc' \in {"gate", "step"}
    BY <1>12 DEF Edit, Goto
  <2> QED
    BY <2>1, <2>2 DEF Consent
<1>13. CASE GateFails
  <2>1. sealed' = NoValue /\ pc' = "done"
    BY <1>13 DEF GateFails, Fail, Consent, AtGate
  <2> QED
    BY <2>1 DEF Consent, AtGate
<1>14. CASE Pass
  <2>1. Says(agreed) /\ params \in Params /\ at \in Gates(def) /\ back = 0
    BY <1>14 DEF Pass, Control, Consent, TypeOK, AtGate
  <2>2. agreed'  = agreed /\ sealed' = Promoted /\ def' = def
    BY <1>14 DEF Pass
  <2>3. Promoted.choice = params.choice /\ (Here.promotes # 0 => Promoted.draft = results[Here.promotes])
    BY <2>1 DEF Promoted, Params
  <2>4. Promoted # NoValue
    BY PromotedTyped, WorkflowAssumption
  <2>5. agreed.shown # NoValue => Promoted.draft = agreed.shown
    BY <2>1, <2>3 DEF Says, Here
  <2>6. pc' \in {"step", "done"} /\ back' = 0 /\ (pc' # "done" => at' = at + 1)
    BY <1>14, <2>1, Indices DEF Pass, Advance
  <2> QED
    BY <2>1, <2>2, <2>3, <2>4, <2>5, <2>6, Indices DEF Consent, Says, AtGate
<1>15. CASE UNCHANGED vars
  BY <1>15 DEF vars, control, cardVars, Consent, Says, AtGate, Gates
<1> QED
  BY <1>1, <1>2, <1>3, <1>4, <1>5, <1>6, <1>7, <1>8, <1>9, <1>10, <1>11, <1>12, <1>13, <1>14, <1>15 DEF Next

-----------------------------------------------------------------------------
(* The last gate, the contract and the failure record.                       *)

\* A step that is no gate, or is a skipped one, leaves the last gate covered.
LEMMA CoveredMoves ==
    ASSUME IInv, UNCHANGED <<def, sealed, agreed>>, skipped \subseteq skipped', pc # "done",
           at \in Gates(def) => at \in skipped',
           Advance \/ Fail("failed") \/ Fail("unverified")
    PROVE  Covered'
<1> SUFFICES ASSUME pc' # "done", NEW g \in Gates(def), IsLast(def, g), g < at'
             PROVE  (sealed # NoValue /\ agreed.gate = g) \/ g \in skipped'
  BY DEF Covered, Gates, IsLast
<1>1. Advance /\ at' = at + 1
  BY DEF Advance, Fail
<1>2. CASE g = at
  BY <1>2
<1>3. CASE g # at
  BY <1>1, <1>3, Indices DEF IInv, Covered
<1> QED
  BY <1>2, <1>3

\* At a gate no last gate lies behind.
LEMMA NoLastGateBehind ==
    ASSUME TypeOK, at \in Gates(def), NEW g \in Gates(def), IsLast(def, g)
    PROVE  ~(g < at)
  BY Indices DEF IsLast

\* Every action keeps Covered.
LEMMA CoveredStep == IInv /\ [Next]_vars => Covered'
<1> SUFFICES ASSUME IInv, [Next]_vars
             PROVE  Covered'
  OBVIOUS
<1> USE DEF IInv
<1>0. \A j \in 1..Len(def) : def[j].type # "confirm" => j \notin Gates(def)
  BY DEF Gates
<1>1. CASE Stop
  BY <1>1 DEF Stop, Fail, Covered
<1>2. CASE Skip
  BY <1>2, CoveredMoves DEF Skip
<1>3. CASE Resolve
  <2>1. at \notin Gates(def)
    BY <1>0, <1>3, Indices DEF Resolve, Runs, Here
  <2> QED
    BY <1>3, <2>1, CoveredMoves DEF Resolve, Runs
<1>4. CASE Build
  <2>1. at \notin Gates(def)
    BY <1>0, <1>4, Indices DEF Build, Runs, Here
  <2>2. CASE Goto("call")
    BY <1>4, <2>2 DEF Build, Runs, Goto, Covered, Gates, IsLast
  <2>3. CASE Advance \/ Fail("failed") \/ Fail("unverified")
    BY <1>4, <2>1, <2>3, CoveredMoves DEF Build, Runs
  <2> QED
    BY <1>4, <2>2, <2>3 DEF Build, NoResult
<1>5. CASE Succeed
  <2>1. at \notin Gates(def)
    BY <1>0, <1>5, Indices DEF Succeed, Control
  <2> QED
    BY <1>5, <2>1, CoveredMoves DEF Succeed
<1>6. CASE CallFails
  <2>1. at \notin Gates(def)
    BY <1>0, <1>6, Indices DEF CallFails, Control
  <2> QED
    BY <1>6, <2>1, CoveredMoves DEF CallFails, NoResult
<1>7. CASE Pending
  BY <1>7 DEF Pending, Goto, Covered, Gates, IsLast
<1>8. CASE EnterGate
  <2>1. at \in Gates(def) /\ at' = at /\ def' = def
    BY <1>8, Indices DEF EnterGate, Runs, Here, Gates, Goto
  <2> QED
    BY <2>1, NoLastGateBehind DEF Covered, Gates, IsLast
<1>9. CASE ShowCard \/ Approve \/ Choose
  <2>1. at \in Gates(def) /\ at' = at /\ def' = def
    BY <1>9 DEF ShowCard, Approve, Choose, Goto, Control, AtGate
  <2> QED
    BY <2>1, NoLastGateBehind DEF Covered, Gates, IsLast
<1>10. CASE Edit
  <2>1. at \in Gates(def) /\ def' = def
    BY <1>10 DEF Edit, Control, AtGate
  <2>2. at' \in Nat /\ at' <= at
    BY <1>10, Indices, StepTypes DEF Edit, Goto, Here
  <2>3. \A g \in Gates(def) : IsLast(def, g) => ~(g < at')
    BY <2>1, <2>2, NoLastGateBehind, Indices
  <2> QED
    BY <2>1, <2>3 DEF Covered, Gates, IsLast
<1>11. CASE GateFails
  BY <1>11 DEF GateFails, Fail, Covered
<1>12. CASE Pass
  <2>1. at \in Gates(def) /\ sealed' # NoValue /\ agreed'.gate = at /\ def' = def
    BY <1>12, PromotedTyped, WorkflowAssumption DEF Pass, Control, AtGate, Consent, Says
  <2>2. pc' # "done" => at' = at + 1
    BY <1>12 DEF Pass, Advance
  <2>3. \A g \in Gates(def) : pc' # "done" /\ IsLast(def, g) /\ g < at' => g = at
    BY <2>1, <2>2, NoLastGateBehind, Indices
  <2> QED
    BY <2>1, <2>3 DEF Covered, Gates, IsLast
<1>13. CASE UNCHANGED vars
  BY <1>13 DEF vars, control, cardVars, Covered, Gates, IsLast
<1> QED
  BY <1>1, <1>2, <1>3, <1>4, <1>5, <1>6, <1>7, <1>8, <1>9, <1>10, <1>11, <1>12, <1>13 DEF Next

\* A rewrite under a seal is on record.
LEMMA RewriteFaithful ==
    ASSUME Faithful, NEW p, Rewrite(p)
    PROVE  sealed # NoValue /\ ~tampered' => params' = sealed
  BY DEF Faithful, Rewrite

\* Every action keeps Faithful.
LEMMA FaithfulStep == IInv /\ [Next]_vars => Faithful'
<1> SUFFICES ASSUME IInv, [Next]_vars
             PROVE  Faithful'
  OBVIOUS
<1> USE DEF IInv
<1>1. CASE Stop \/ Skip \/ GateFails
  BY <1>1 DEF Stop, Skip, GateFails, Fail, Advance, Faithful
<1>2. CASE Resolve
  BY <1>2, RewriteFaithful DEF Resolve, Fail, Advance, Faithful
<1>3. CASE Build
  <2>1. PICK p \in Rewritten :
            /\ Rewrite(p)
            /\ NoResult \/ (Input(at) # NoValue /\ (IF Verified(p) THEN Goto("call") ELSE Fail("unverified")))
    BY <1>3 DEF Build
  <2>2. sealed # NoValue /\ ~tampered' => params' = sealed
    BY <2>1, RewriteFaithful
  <2>3. pc' = "call" /\ sealed # NoValue => params' = sealed
    BY <2>1 DEF NoResult, Advance, Fail, Goto, Verified, Rewrite
  <2> QED
    BY <1>3, <2>2, <2>3 DEF Build, Faithful
<1>4. CASE Succeed
  BY <1>4, RewriteFaithful DEF Succeed, Advance, Faithful
<1>5. CASE CallFails
  BY <1>5, RewriteFaithful DEF CallFails, NoResult, Advance, Fail, Faithful
<1>6. CASE Pending
  BY <1>6, RewriteFaithful DEF Pending, Goto, Here, Faithful
<1>7. CASE EnterGate
  BY <1>7 DEF EnterGate, Faithful
<1>8. CASE ShowCard \/ Approve \/ Choose \/ Edit
  <2>1. sealed' = NoValue
    BY <1>8 DEF ShowCard, Approve, Choose, Edit, Consent, AtGate
  <2> QED
    BY <2>1 DEF Faithful
<1>9. CASE Pass
  BY <1>9 DEF Pass, Advance, Faithful
<1>10. CASE UNCHANGED vars
  BY <1>10 DEF vars, control, cardVars, Faithful
<1> QED
  BY <1>1, <1>2, <1>3, <1>4, <1>5, <1>6, <1>7, <1>8, <1>9, <1>10 DEF Next

\* Every action keeps EditsAreNotTampering.
LEMMA TamperingStep == IInv /\ [Next]_vars => EditsAreNotTampering'
<1> SUFFICES ASSUME IInv, [Next]_vars, status' = "unverified"
             PROVE  tampered'
  BY DEF EditsAreNotTampering
<1> USE DEF IInv
<1>1. CASE Build
  <2>1. PICK p \in Rewritten : Rewrite(p) /\ ~Verified(p)
    BY <1>1 DEF Build, Runs, NoResult, Advance, Goto, Fail, Control
  <2>2. sealed # NoValue /\ params' # sealed
    BY <2>1 DEF Verified, Rewrite
  <2> QED
    BY <2>1, <2>2, RewriteFaithful
<1>2. CASE UNCHANGED vars
  BY <1>2 DEF vars, control, EditsAreNotTampering
<1>3. CASE Next /\ ~Build
  <2>1. status = "running" /\ status' # "unverified"
    BY <1>3 DEF Next, Stop, Skip, Resolve, Runs, Succeed, CallFails, Pending, NoResult, EnterGate,
                ShowCard, Approve, Choose, Edit, GateFails, Pass, Advance, Goto, Fail, Control
  <2> QED
    BY <2>1
<1> QED
  BY <1>1, <1>2, <1>3

\* A failure records an authorization exactly when the last gate was passed.
LEMMA FailAuthority ==
    ASSUME IInv, pc # "done", UNCHANGED <<def, agreed>>, Fail("failed") \/ Fail("unverified")
    PROVE  AuthorizedIffConfirmed'
<1> USE DEF IInv
<1>1. at' = at /\ authorized' = (sealed # NoValue /\ ~GateAhead(IF back = 0 THEN at ELSE back))
  BY DEF Fail
<1>2. ASSUME sealed # NoValue, ~GateAhead(IF back = 0 THEN at ELSE back)
      PROVE  agreed # NoValue /\ IsLast(def, agreed.gate) /\ at > agreed.gate
  <2>1. agreed \in Presented /\ agreed.gate \in Gates(def) /\ agreed.gate < at
    BY <1>2 DEF Consent
  <2>2. PICK l \in Gates(def) : IsLast(def, l)
    BY <2>1, LastGateExists, Indices
  <2>3. back = 0
    BY <1>2 DEF Consent
  <2>4. l < at
    BY <1>2, <2>3, Indices DEF GateAhead, Gates
  <2>5. agreed.gate = l \/ l \in skipped
    BY <2>2, <2>4 DEF Covered
  <2>6. l \in skipped => Gates(def) = {l}
    BY <2>2, GateFacts, Indices DEF Control
  <2> QED
    BY <2>1, <2>2, <2>5, <2>6, WorkflowAssumption, Indices
<1>3. ASSUME agreed # NoValue, IsLast(def, agreed.gate), at > agreed.gate
      PROVE  sealed # NoValue /\ ~GateAhead(IF back = 0 THEN at ELSE back)
  <2>1. agreed.gate \in 1..Len(def)
    BY <1>3, Indices DEF IsLast
  <2>2. pc # "passing"
    BY <1>3, <2>1, Indices DEF Consent, Says
  <2>3. sealed # NoValue /\ back = 0
    BY <1>3, <2>2 DEF Consent
  <2>4. ~GateAhead(at)
    <3> SUFFICES ASSUME NEW j \in at..Len(def), def[j].type = "confirm"
                 PROVE  FALSE
      BY DEF GateAhead
    <3>1. j \in Gates(def)
      BY Indices DEF Gates
    <3> QED
      BY <1>3, <2>1, <3>1, Indices DEF IsLast
  <2> QED
    BY <2>3, <2>4
<1>4. AuthorizedIffConfirmed' <=> (status' \in {"failed", "unverified"} =>
        (authorized' <=> (agreed # NoValue /\ IsLast(def, agreed.gate) /\ at > agreed.gate)))
  BY <1>1 DEF AuthorizedIffConfirmed, IsLast, Gates
<1> QED
  BY <1>1, <1>2, <1>3, <1>4

\* Every action keeps AuthorizedIffConfirmed.
LEMMA AuthorityStep == IInv /\ [Next]_vars => AuthorizedIffConfirmed'
<1> SUFFICES ASSUME IInv, [Next]_vars
             PROVE  AuthorizedIffConfirmed'
  OBVIOUS
<1>1. CASE UNCHANGED vars
  BY <1>1 DEF IInv, vars, control, AuthorizedIffConfirmed, IsLast, Gates
<1>2. CASE Next /\ status' \notin {"failed", "unverified"}
  BY <1>2 DEF AuthorizedIffConfirmed
<1>3. CASE Next /\ status' \in {"failed", "unverified"}
  <2>1. pc # "done" /\ status = "running"
    BY <1>3 DEF IInv, Control, Next, Stop, Skip, Resolve, Build, Runs, Succeed, CallFails, Pending,
                EnterGate, ShowCard, Approve, Choose, Edit, GateFails, Pass
  <2>2. UNCHANGED <<def, agreed>> /\ (Fail("failed") \/ Fail("unverified"))
    BY <1>3, <2>1 DEF Next, Stop, Skip, Resolve, Build, Succeed, CallFails, Pending, NoResult, EnterGate,
                      ShowCard, Approve, Choose, Edit, GateFails, Pass, Advance, Goto
  <2> QED
    BY <2>1, <2>2, FailAuthority
<1> QED
  BY <1>1, <1>2, <1>3

-----------------------------------------------------------------------------
(* Writes.                                                                   *)

\* A step that ends keeps the account of writes, if its own is right.
LEMMA AttemptsMoves ==
    ASSUME IInv, pc # "done", UNCHANGED def, skipped \subseteq skipped',
           agreed # NoValue => agreed' # NoValue,
           \A j \in 1..Len(def) : j # at => attempts'[j] = attempts[j] /\ results'[j] = results[j],
           attempts'[at] = attempts[at] \/ (def[at].mutates /\ attempts'[at] = attempts[at] + 1),
           Fail("failed") \/ Fail("unverified") \/
             (Advance /\ (def[at].mutates /\ at \notin skipped' =>
                            agreed' # NoValue /\ attempts'[at] = 1 /\ results'[at] # NoValue))
    PROVE  Attempts'
<1> USE DEF IInv
<1>0. /\ attempts[at] = 0
      /\ \A j \in 1..Len(def) : attempts[j] \in Nat
      /\ status = "running"
  <2>1. \A j \in 1..Len(def) : attempts[j] \in Nat
    BY DEF TypeOK
  <2>2. attempts[at] <= 1 /\ attempts[at] # 1
    BY Indices DEF Attempts
  <2> QED
    BY <2>1, <2>2, Indices DEF Control
<1>1. ASSUME NEW j \in 1..Len(def)
      PROVE  attempts'[j] <= 1 /\ (attempts'[j] = 1 => def[j].mutates)
  <2>1. CASE j = at
    BY <1>0, <2>1
  <2>2. CASE j # at
    BY <2>2 DEF Attempts
  <2> QED
    BY <2>1, <2>2
<1>2. CASE Fail("failed") \/ Fail("unverified")
  BY <1>1, <1>2 DEF Fail, Attempts
<1>3. CASE Advance
  <2>1. /\ pc' # "done" => at' = at + 1
        /\ status' = "succeeded" => at = Len(def) /\ pc' = "done"
    BY <1>0, <1>3 DEF Advance
  <2>2. ASSUME NEW j \in 1..Len(def), attempts'[j] = 1, pc' # "done"
        PROVE  j < at'
    <3>1. j = at \/ j < at
      BY <2>2 DEF Attempts
    <3> QED
      BY <2>1, <2>2, <3>1, Indices
  <2>3. ASSUME NEW j \in 1..Len(def), def[j].mutates, j \notin skipped',
               status' = "succeeded" \/ (pc' # "done" /\ j < at')
        PROVE  agreed' # NoValue /\ attempts'[j] = 1 /\ results'[j] # NoValue
    <3>1. j = at \/ j < at
      BY <2>1, <2>3, Indices
    <3>2. CASE j = at
      BY <1>3, <2>3, <3>2 DEF Fail, Advance
    <3>3. CASE j < at
      BY <2>3, <3>3, Indices DEF Attempts
    <3> QED
      BY <3>1, <3>2, <3>3
  <2> QED
    BY <1>1, <2>2, <2>3 DEF Attempts
<1> QED
  BY <1>2, <1>3

\* A gate touches no account: every write lies ahead of it.
LEMMA AttemptsAtGate ==
    ASSUME IInv, pc # "done", at \in Gates(def), UNCHANGED <<def, attempts, status>>,
           skipped \subseteq skipped', at' \in Nat, at' <= at, pc' # "done"
    PROVE  Attempts'
<1> USE DEF IInv
<1>1. status' = "running"
  BY DEF Control
<1>2. \A j \in 1..Len(def) : def[j].mutates => at < j
  BY WriteFacts, Indices
<1>3. \A j \in 1..Len(def) : attempts[j] <= 1 /\ attempts[j] # 1
  BY <1>2, Indices DEF Attempts
<1> QED
  BY <1>1, <1>2, <1>3, Indices DEF Attempts

\* Before a write is sent, the last gate was passed.
LEMMA WriteIsSealed ==
    ASSUME IInv, pc = "call", def[at].mutates
    PROVE  /\ sealed # NoValue /\ agreed # NoValue
           /\ agreed \in Presented /\ agreed.gate \in Gates(def) /\ IsLast(def, agreed.gate)
           /\ params = sealed
<1> USE DEF IInv
<1>1. PICK g \in Gates(def) : IsLast(def, g) /\ g < at /\ def[g].skip \in {0, def[at].skip}
  BY WriteFacts, Indices
<1>2. g \notin skipped
  <2> SUFFICES ASSUME g \in skipped
               PROVE  FALSE
    OBVIOUS
  <2>1. def[g].skip = g
    BY GateFacts, Indices DEF Control
  <2>2. def[at].skip = g /\ g # at
    BY <1>1, <2>1, Indices
  <2> QED
    BY <2>2 DEF Control
<1>3. sealed # NoValue /\ agreed.gate = g
  BY <1>1, <1>2 DEF Covered
<1>4. agreed # NoValue /\ agreed \in Presented
  BY <1>3, WorkflowAssumption DEF Consent
<1>5. ~def[at].polls
  BY WriteFacts, Indices
<1> QED
  BY <1>1, <1>3, <1>4, <1>5 DEF Faithful

\* Every action keeps Attempts.
LEMMA AttemptsStep == IInv /\ [Next]_vars => Attempts'
<1> SUFFICES ASSUME IInv, [Next]_vars
             PROVE  Attempts'
  OBVIOUS
<1> USE DEF IInv
<1>0. at \in 1..Len(def) /\ DOMAIN attempts = 1..Len(def) /\ DOMAIN results = 1..Len(def)
  BY Indices DEF TypeOK
<1>1. CASE Stop \/ GateFails
  BY <1>1, AttemptsMoves DEF Stop, GateFails
<1>2. CASE Skip
  BY <1>2, AttemptsMoves DEF Skip
<1>3. CASE Resolve
  <2>1. ~def[at].mutates
    BY <1>3, WriteFacts, Indices DEF Resolve, Runs, Here
  <2>2. pc # "done" /\ UNCHANGED <<def, agreed, attempts, skipped>> /\ (Advance \/ Fail("failed"))
    BY <1>3 DEF Resolve, Runs
  <2>3. \A j \in 1..Len(def) : j # at => results'[j] = results[j]
    BY <1>0, <1>3 DEF Resolve
  <2> QED
    BY <2>1, <2>2, <2>3, AttemptsMoves
<1>4. CASE Build
  <2>1. pc # "done" /\ UNCHANGED <<def, agreed, attempts, skipped, results>>
    BY <1>4 DEF Build, Runs
  <2>2. CASE Goto("call")
    BY <2>1, <2>2 DEF Goto, Attempts
  <2>3. CASE Fail("failed") \/ Fail("unverified")
    BY <2>1, <2>3, AttemptsMoves
  <2>4. CASE Advance /\ Here.optional
    <3>1. ~def[at].mutates
      BY <2>4, WriteFacts, Indices DEF Here
    <3> QED
      BY <2>1, <2>4, <3>1, AttemptsMoves
  <2> QED
    BY <1>4, <2>2, <2>3, <2>4 DEF Build, NoResult
<1>5. CASE Succeed
  <2>1. pc = "call" /\ UNCHANGED <<def, agreed, skipped>> /\ Advance
    BY <1>5 DEF Succeed
  <2>2. \A j \in 1..Len(def) : j # at => attempts'[j] = attempts[j] /\ results'[j] = results[j]
    BY <1>0, <1>5 DEF Succeed, Attempted
  <2>3. attempts'[at] = IF def[at].mutates THEN attempts[at] + 1 ELSE attempts[at]
    BY <1>0, <1>5 DEF Succeed, Attempted, Here
  <2>4. attempts[at] = 0
    <3>1. attempts[at] \in Nat
      BY <1>0 DEF TypeOK
    <3> QED
      BY <1>0, <2>1, <3>1 DEF Attempts
  <2>5. results'[at] # NoValue
    <3>1. results'[at] = Input(at)
      BY <1>0, <1>5 DEF Succeed
    <3>2. params.choice # NoValue
      BY WorkflowAssumption DEF TypeOK, Params
    <3> QED
      BY <2>1, <3>1, <3>2 DEF Input, Control
  <2>6. def[at].mutates => agreed' # NoValue
    BY <2>1, WriteIsSealed
  <2> QED
    BY <2>1, <2>2, <2>3, <2>4, <2>5, <2>6, AttemptsMoves
<1>6. CASE CallFails
  <2>1. pc = "call" /\ UNCHANGED <<def, agreed, skipped>>
    BY <1>6 DEF CallFails
  <2>2. \A j \in 1..Len(def) : j # at => attempts'[j] = attempts[j] /\ results'[j] = results[j]
    BY <1>0, <1>6 DEF CallFails, Attempted
  <2>3. attempts'[at] = IF def[at].mutates THEN attempts[at] + 1 ELSE attempts[at]
    BY <1>0, <1>6 DEF CallFails, Attempted, Here
  <2>4. CASE Fail("failed")
    BY <2>1, <2>2, <2>3, <2>4, AttemptsMoves
  <2>5. CASE Advance /\ Here.optional
    <3>1. ~def[at].mutates
      BY <2>5, WriteFacts, Indices DEF Here
    <3> QED
      BY <2>1, <2>2, <2>3, <2>5, <3>1, AttemptsMoves
  <2> QED
    BY <1>6, <2>4, <2>5 DEF CallFails, NoResult
<1>7. CASE Pending
  <2>1. ~def[at].mutates
    BY <1>7, WriteFacts, Indices DEF Pending, Here
  <2> QED
    BY <1>7, <2>1 DEF Pending, Attempted, Here, Goto, Attempts
<1>8. CASE EnterGate
  <2>1. at \in Gates(def)
    BY <1>8, Indices DEF EnterGate, Runs, Here, Gates
  <2> QED
    BY <1>8, <2>1, AttemptsAtGate, Indices DEF EnterGate, Runs, Goto
<1>9. CASE ShowCard \/ Approve \/ Choose
  <2>1. at \in Gates(def)
    BY <1>9 DEF ShowCard, Approve, Choose, Control, AtGate
  <2> QED
    BY <1>9, <2>1, AttemptsAtGate, Indices DEF ShowCard, Approve, Choose, Goto
<1>10. CASE Edit
  <2>1. at \in Gates(def)
    BY <1>10 DEF Edit, Control, AtGate
  <2>2. at' \in Nat /\ at' <= at /\ status' = status /\ pc' # "done"
    BY <1>10, Indices, StepTypes DEF Edit, Goto, Here
  <2> QED
    BY <1>10, <2>1, <2>2, AttemptsAtGate DEF Edit
<1>11. CASE Pass
  <2>1. at \in Gates(def)
    BY <1>11 DEF Pass, Control, AtGate
  <2>2. ~def[at].mutates
    BY <2>1, WriteFacts, GateFacts, Indices
  <2> QED
    BY <1>11, <2>2, AttemptsMoves DEF Pass
<1>12. CASE UNCHANGED vars
  BY <1>12 DEF vars, control, cardVars, Attempts
<1> QED
  BY <1>1, <1>2, <1>3, <1>4, <1>5, <1>6, <1>7, <1>8, <1>9, <1>10, <1>11, <1>12 DEF Next

-----------------------------------------------------------------------------
(* Results.                                                                  *)

\* A step that ends keeps the results fresh.
LEMMA FreshMoves ==
    ASSUME IInv, pc # "done", UNCHANGED def,
           \A j \in 1..Len(def) : j # at => results'[j] = results[j],
           results'[at] \in {results[at], Input(at)},
           params'.choice = params.choice \/ (def[at].rewrites /\ at \notin Gates(def)),
           Advance \/ Fail("failed") \/ Fail("unverified")
    PROVE  Fresh'
<1> USE DEF IInv
<1>1. CASE Fail("failed") \/ Fail("unverified") \/ at = Len(def)
  BY <1>1 DEF Fail, Advance, Fresh
<1>2. CASE Advance /\ at # Len(def)
  <2>1. at' = at + 1
    BY <1>2 DEF Advance
  <2>2. \A j \in at'..Len(def) : results'[j] = NoValue
    BY <2>1, Indices DEF Fresh
  <2>3. ASSUME NEW g \in Gates(def), Root(def, g) # 0, Root(def, g) <= at', at' <= g,
               NEW j \in Root(def, g)..(at' - 1)
        PROVE  results'[j] \in {NoValue, params'.choice}
    <3>1. Root(def, g) \in Nat /\ g \in 1..Len(def)
      BY GateFacts, Indices
    <3>2. at \in Root(def, g)..(g - 1)
      BY <2>1, <2>3, <3>1, Indices
    <3>3. ~def[at].rewrites /\ (def[at].reads = 0 \/ def[at].reads >= Root(def, g))
      BY <2>3, <3>2, GateFacts, Indices
    <3>4. \A k \in Root(def, g)..(at - 1) : results[k] \in {NoValue, params.choice}
      BY <2>3, <3>1, <3>2, Indices DEF Fresh
    <3>5. results[at] = NoValue
      BY Indices DEF Fresh
    <3>6. Input(at) \in {NoValue, params.choice}
      <4>1. CASE def[at].reads = 0
        BY <4>1 DEF Input
      <4>2. CASE def[at].reads # 0
        <5>1. def[at].reads \in Root(def, g)..(at - 1)
          BY <3>1, <3>3, <4>2, Indices, StepTypes
        <5> QED
          BY <3>4, <4>2, <5>1 DEF Input
      <4> QED
        BY <4>1, <4>2
    <3>7. CASE j = at
      BY <3>3, <3>5, <3>6, <3>7
    <3>8. CASE j # at
      <4>1. j \in Root(def, g)..(at - 1) /\ j \in 1..Len(def)
        BY <2>1, <2>3, <3>1, <3>8, Indices
      <4> QED
        BY <3>3, <3>4, <3>8, <4>1
    <3> QED
      BY <3>7, <3>8
  <2> QED
    BY <2>2, <2>3 DEF Fresh, Gates, Root
<1> QED
  BY <1>1, <1>2

\* So does one that stays, unless it writes the parameters of a card.
LEMMA FreshStays ==
    ASSUME IInv, pc # "done", UNCHANGED <<def, at, results>>,
           params'.choice = params.choice
             \/ def[at].rewrites \/ (at \in Gates(def) /\ def[at].mode = "continue")
    PROVE  Fresh'
<1> USE DEF IInv
<1>1. \A j \in at..Len(def) : results[j] = NoValue
  BY DEF Fresh
<1>2. ASSUME NEW g \in Gates(def), Root(def, g) # 0, Root(def, g) <= at, at <= g
      PROVE  params'.choice = params.choice
  <2>1. CASE at = g
    BY <1>2, <2>1, GateFacts, Indices
  <2>2. CASE at # g
    <3>1. at \in Root(def, g)..(g - 1)
      BY <1>2, <2>2, GateFacts, Indices
    <3> QED
      BY <1>2, <3>1, GateFacts, Indices
  <2> QED
    BY <2>1, <2>2
<1>3. ASSUME NEW g \in Gates(def), Root(def, g) # 0, Root(def, g) <= at, at <= g
      PROVE  \A j \in Root(def, g)..(at - 1) : results[j] \in {NoValue, params'.choice}
  BY <1>2, <1>3 DEF Fresh
<1> QED
  BY <1>1, <1>3 DEF Fresh, Gates, Root

\* A rewrite leaves the choice alone unless the step may write Params.
LEMMA RewriteChoice ==
    ASSUME NEW p \in Rewritten, Rewrite(p)
    PROVE  params'.choice = params.choice \/ def[at].rewrites
  BY DEF Rewritten, Rewrite, Here

\* Every action keeps Fresh.
LEMMA FreshStep == IInv /\ [Next]_vars => Fresh'
<1> SUFFICES ASSUME IInv, [Next]_vars
             PROVE  Fresh'
  OBVIOUS
<1> USE DEF IInv
<1>0. at \in 1..Len(def) /\ DOMAIN results = 1..Len(def) /\ params \in Params
  BY Indices DEF TypeOK
<1>1. CASE Stop \/ GateFails
  BY <1>1 DEF Stop, GateFails, Fail, Fresh
<1>2. CASE Skip
  BY <1>2, FreshMoves DEF Skip
<1>3. CASE Resolve
  <2>1. PICK p \in Rewritten :
            /\ Rewrite(p)
            /\ \/ /\ p = params /\ Input(at) # NoValue
                  /\ results' = [results EXCEPT ![at] = Input(at)]
                  /\ Advance
               \/ Fail("failed") /\ UNCHANGED results
    BY <1>3 DEF Resolve
  <2>2. CASE Fail("failed")
    BY <2>2 DEF Fail, Fresh
  <2>3. CASE Advance /\ p = params /\ results' = [results EXCEPT ![at] = Input(at)]
    BY <1>0, <1>3, <2>1, <2>3, FreshMoves DEF Resolve, Runs, Rewrite
  <2> QED
    BY <2>1, <2>2, <2>3
<1>4. CASE Build
  <2>1. PICK p \in Rewritten : Rewrite(p)
    BY <1>4 DEF Build
  <2>2. pc # "done" /\ UNCHANGED <<def, results>> /\ at \notin Gates(def)
    BY <1>4 DEF Build, Runs, Here, Gates
  <2>3. CASE Goto("call")
    BY <2>1, <2>2, <2>3, RewriteChoice, FreshStays DEF Goto
  <2>4. CASE Advance \/ Fail("failed") \/ Fail("unverified")
    BY <2>1, <2>2, <2>4, RewriteChoice, FreshMoves
  <2> QED
    BY <1>4, <2>3, <2>4 DEF Build, NoResult
<1>5. CASE Succeed \/ CallFails
  <2>1. PICK p \in Rewritten : Rewrite(p)
    BY <1>5 DEF Succeed, CallFails
  <2>2. pc = "call" /\ UNCHANGED def /\ at \notin Gates(def)
    BY <1>5 DEF Succeed, CallFails, Control, Gates
  <2>3. results' = results \/ results' = [results EXCEPT ![at] = Input(at)]
    BY <1>5 DEF Succeed, CallFails
  <2>4. Advance \/ Fail("failed")
    BY <1>5 DEF Succeed, CallFails, NoResult
  <2> QED
    BY <1>0, <2>1, <2>2, <2>3, <2>4, RewriteChoice, FreshMoves
<1>6. CASE Pending
  <2>1. PICK p \in Rewritten : Rewrite(p)
    BY <1>6 DEF Pending
  <2> QED
    BY <1>6, <2>1, RewriteChoice, FreshStays DEF Pending, Goto
<1>7. CASE EnterGate \/ Approve
  BY <1>7, FreshStays DEF EnterGate, Runs, Approve, Goto
<1>8. CASE ShowCard
  <2>1. PICK p \in Rewritten : Rewrite(p)
    BY <1>8 DEF ShowCard
  <2> QED
    BY <1>8, <2>1, RewriteChoice, FreshStays DEF ShowCard, Goto
<1>9. CASE Choose
  BY <1>9, FreshStays DEF Choose, Goto, Here, Control, AtGate
<1>10. CASE Edit
  <2>1. at \in Gates(def) /\ def' = def /\ def[at].mode = "edit"
    BY <1>10 DEF Edit, Control, AtGate, Here
  <2>2. \A g \in Gates(def) : g <= at
    BY <2>1, GateFacts, Indices DEF IsLast
  <2>3. CASE def[at].from = 0
    <3>1. Root(def, at) = 0
      BY <2>1, <2>3, GateFacts, Indices DEF Root
    <3>2. at' = at /\ results' = results
      BY <1>10, <2>3 DEF Edit, Goto, Here
    <3>3. \A g \in Gates(def) : at <= g => Root(def, g) = 0
      BY <2>2, <3>1, Indices
    <3>4. \A j \in at..Len(def) : results[j] = NoValue
      BY <1>10 DEF Edit, Fresh
    <3> QED
      BY <2>1, <3>2, <3>3, <3>4 DEF Fresh, Gates, Root
  <2>4. CASE def[at].from # 0
    <3>1. at' = def[at].from /\ results' = Discarded
      BY <1>10, <2>4 DEF Edit, Here
    <3>2. def[at].from \in Nat /\ def[at].from < at /\ Root(def, at) = def[at].from
      BY <2>4, Indices, StepTypes DEF Root
    <3>3. \A j \in at'..Len(def) : results'[j] = NoValue
      <4>1. \A j \in at..Len(def) : results[j] = NoValue
        BY <1>10 DEF Edit, Fresh
      <4> QED
        BY <1>0, <2>4, <3>1, <3>2, <4>1, Indices DEF Discarded, Here
    <3>4. ASSUME NEW g \in Gates(def), Root(def, g) # 0, Root(def, g) <= at', at' <= g
          PROVE  \A j \in Root(def, g)..(at' - 1) : results'[j] \in {NoValue, params'.choice}
      <4>1. g = at
        <5>1. g \in 1..Len(def) /\ g <= at /\ def[g].type = "confirm"
          BY <2>2, GateFacts, Indices
        <5>2. g \notin Root(def, at)..(at - 1)
          BY <2>1, <2>4, <3>2, <5>1, GateFacts, Indices
        <5> QED
          BY <3>1, <3>2, <3>4, <5>1, <5>2, Indices
      <4> QED
        BY <3>1, <3>2, <3>4, <4>1
    <3> QED
      BY <2>1, <3>3, <3>4 DEF Fresh, Gates, Root
  <2> QED
    BY <2>3, <2>4
<1>11. CASE Pass
  <2>1. params'.choice = params.choice
    BY <1>0, <1>11 DEF Pass, Promoted, Params
  <2> QED
    BY <1>11, <2>1, FreshMoves DEF Pass
<1>12. CASE UNCHANGED vars
  BY <1>12 DEF vars, control, cardVars, Fresh, Gates, Root
<1> QED
  BY <1>1, <1>2, <1>3, <1>4, <1>5, <1>6, <1>7, <1>8, <1>9, <1>10, <1>11, <1>12 DEF Next

-----------------------------------------------------------------------------
(* Cards.                                                                    *)

\* The gates before position k.
Behind(k) == {g \in Gates(def) : g < k}

\* The gate the run is at or revalidates for, or else the step it is at.
Position == IF back = 0 THEN at ELSE back

\* Each gate behind the run had one card, the last one its edits besides, and the
\* present one a card for each edit.
Cards ==
    /\ CardBudget
    /\ edits # 0 /\ pc # "done" /\ (AtGate \/ back # 0) => IsLast(def, Position)
    /\ pc # "done" /\ ~AtGate /\ back = 0 =>
        cards <= Cardinality(Behind(at)) + (IF \E g \in Behind(at) : IsLast(def, g) THEN MaxEdits ELSE 0)
    /\ pc # "done" /\ (AtGate \/ back # 0) =>
        cards <= Cardinality(Behind(Position)) + edits + (IF pc \in {"asking", "passing"} THEN 1 ELSE 0)

\* Counting the gates behind a position.
LEMMA BehindCounts ==
    ASSUME TypeOK, NEW k \in Nat
    PROVE  /\ Cardinality(Behind(k)) \in Nat /\ Cardinality(Gates(def)) \in Nat
           /\ Cardinality(Behind(k)) <= Cardinality(Gates(def))
           /\ Cardinality(Behind(k)) <= Cardinality(Behind(k + 1))
           /\ k \in Gates(def) => /\ Cardinality(Behind(k + 1)) = Cardinality(Behind(k)) + 1
                                  /\ Cardinality(Behind(k)) < Cardinality(Gates(def))
<1>1. IsFiniteSet(Gates(def)) /\ Gates(def) \subseteq 1..Len(def)
  <2>1. IsFiniteSet(1..Len(def)) /\ Gates(def) \subseteq 1..Len(def)
    BY Indices, FS_Interval
  <2> QED
    BY <2>1, FS_Subset
<1>2. /\ Behind(k) \subseteq Behind(k + 1)
      /\ Behind(k + 1) \subseteq Gates(def)
      /\ Behind(k) \subseteq Gates(def)
  BY <1>1, Indices DEF Behind
<1>3. IsFiniteSet(Behind(k)) /\ IsFiniteSet(Behind(k + 1))
  BY <1>1, <1>2, FS_Subset
<1>4. /\ Cardinality(Behind(k)) \in Nat /\ Cardinality(Gates(def)) \in Nat
      /\ Cardinality(Behind(k)) <= Cardinality(Behind(k + 1))
      /\ Cardinality(Behind(k + 1)) <= Cardinality(Gates(def))
      /\ Cardinality(Behind(k + 1)) \in Nat
  BY <1>1, <1>2, <1>3, FS_Subset, FS_CardinalityType
<1>5. ASSUME k \in Gates(def)
      PROVE  Cardinality(Behind(k + 1)) = Cardinality(Behind(k)) + 1
  <2>1. Behind(k + 1) = Behind(k) \cup {k} /\ k \notin Behind(k)
    BY <1>1, <1>5, Indices DEF Behind
  <2> QED
    BY <1>3, <2>1, FS_AddElement
<1> QED
  BY <1>4, <1>5

\* A step outside the gates that ends presents no card.
LEMMA CardsMoves ==
    ASSUME IInv, Cards, pc \in {"step", "call"}, UNCHANGED <<def, edits, cards>>,
           Advance \/ Fail("failed") \/ Fail("unverified")
    PROVE  Cards'
<1> USE DEF IInv
<1>0. CardBudget'
  BY DEF Cards, CardBudget, MaxCards, Gates
<1>1. CASE Fail("failed") \/ Fail("unverified") \/ at = Len(def)
  BY <1>0, <1>1 DEF Fail, Advance, Cards, AtGate
<1>2. CASE Advance /\ at # Len(def)
  <2>1. at' = at + 1 /\ pc' \in {"step", "gate"} /\ pc' # "done"
    BY <1>2 DEF Advance
  <2>2. CASE back = 0
    <3>1. back' = 0 /\ pc' = "step"
      BY <1>2, <2>2, Indices DEF Advance
    <3>2. /\ Cardinality(Behind(at)) <= Cardinality(Behind(at + 1))
          /\ Cardinality(Behind(at)) \in Nat /\ Cardinality(Behind(at + 1)) \in Nat
      BY BehindCounts, Indices
    <3>3. Behind(at) \subseteq Behind(at + 1)
      BY Indices DEF Behind
    <3>4. cards <= Cardinality(Behind(at)) + (IF \E g \in Behind(at) : IsLast(def, g) THEN MaxEdits ELSE 0)
      BY <2>2 DEF Cards, AtGate
    <3>5. cards <= Cardinality(Behind(at + 1)) + (IF \E g \in Behind(at + 1) : IsLast(def, g) THEN MaxEdits ELSE 0)
      BY <3>2, <3>3, <3>4, WorkflowAssumption DEF TypeOK
    <3>6. Behind(at + 1) = Behind(at)' /\ \A g : IsLast(def, g) <=> IsLast(def, g)'
      BY <2>1 DEF Behind, IsLast, Gates
    <3> QED
      BY <1>0, <2>1, <3>1, <3>5, <3>6 DEF Cards, AtGate
  <2>3. CASE back # 0
    <3>1. Position' = Position /\ (AtGate' \/ back' # 0) /\ ~(pc' \in {"asking", "passing"})
      BY <1>2, <2>1, <2>3 DEF Advance, Position, AtGate
    <3>2. Behind(Position) = Behind(Position)' /\ (IsLast(def, Position) <=> IsLast(def, Position)')
      BY <3>1 DEF Behind, IsLast, Gates
    <3>3. /\ edits # 0 => IsLast(def, Position)
          /\ cards <= Cardinality(Behind(Position)) + edits + 0
      BY <2>3 DEF Cards
    <3> QED
      BY <1>0, <3>1, <3>2, <3>3 DEF Cards, AtGate
  <2> QED
    BY <2>2, <2>3
<1> QED
  BY <1>1, <1>2

\* Every action keeps Cards.
LEMMA CardsStep == IInv /\ Cards /\ [Next]_vars => Cards'
<1> SUFFICES ASSUME IInv, Cards, [Next]_vars
             PROVE  Cards'
  OBVIOUS
<1> USE DEF IInv
<1>0. /\ cards \in Nat /\ edits \in Nat /\ edits <= MaxEdits /\ MaxEdits \in Nat
      /\ AtGate => Position = at /\ back = 0 /\ at \in Gates(def)
  BY WorkflowAssumption DEF TypeOK, Position, Control
<1>1. CASE Stop
  BY <1>1, CardsMoves DEF Stop, cardVars
<1>2. CASE Skip
  BY <1>2, CardsMoves DEF Skip, cardVars
<1>3. CASE Resolve
  BY <1>3, CardsMoves DEF Resolve, Runs, cardVars
<1>4. CASE Build
  <2>1. CASE Goto("call")
    <3>1. UNCHANGED <<def, at, back, edits, cards>> /\ pc = "step" /\ pc' = "call"
      BY <1>4, <2>1 DEF Build, Runs, Goto, cardVars
    <3> QED
      BY <3>1 DEF Cards, CardBudget, MaxCards, AtGate, Position, Behind, IsLast, Gates
  <2>2. CASE Advance \/ Fail("failed") \/ Fail("unverified")
    BY <1>4, <2>2, CardsMoves DEF Build, Runs, cardVars
  <2> QED
    BY <1>4, <2>1, <2>2 DEF Build, NoResult
<1>5. CASE Succeed
  BY <1>5, CardsMoves DEF Succeed, cardVars
<1>6. CASE CallFails
  BY <1>6, CardsMoves DEF CallFails, NoResult, cardVars
<1>7. CASE Pending
  <2>1. UNCHANGED <<def, at, back, edits, cards>> /\ pc = "call" /\ pc' = "call"
    BY <1>7 DEF Pending, Goto, cardVars
  <2> QED
    BY <2>1 DEF Cards, CardBudget, MaxCards, AtGate, Position, Behind, IsLast, Gates
<1>8. CASE EnterGate
  <2>1. UNCHANGED <<def, at, back, cards>> /\ edits' = 0 /\ pc = "step" /\ pc' = "gate"
    BY <1>8 DEF EnterGate, Runs, Goto
  <2>2. at \in Gates(def) /\ at \in Nat
    BY <1>8, Indices DEF EnterGate, Runs, Here, Gates
  <2>3. back = 0
    BY <1>8, ControlStep DEF EnterGate, Goto, Control, AtGate
  <2>4. \A g \in Behind(at) : ~IsLast(def, g)
    BY <2>2, NoLastGateBehind DEF Behind
  <2>5. cards <= Cardinality(Behind(at)) + 0
    BY <2>1, <2>3, <2>4 DEF Cards, AtGate
  <2>6. CardBudget' /\ Position' = at /\ Behind(Position)' = Behind(at)
    BY <2>1, <2>3 DEF Cards, CardBudget, MaxCards, Position, Behind, Gates
  <2>7. Cardinality(Behind(at)) \in Nat
    BY <2>2, BehindCounts
  <2>8. cards' <= Cardinality(Behind(Position)') + edits' + 0
    BY <1>0, <2>1, <2>5, <2>6, <2>7
  <2> QED
    BY <2>1, <2>6, <2>8 DEF Cards, AtGate
<1>9. CASE ShowCard
  <2>1. UNCHANGED <<def, at, back, edits>> /\ pc = "gate" /\ pc' = "asking" /\ cards' <= cards + 1
    BY <1>9, <1>0 DEF ShowCard, Goto
  <2>2. at \in Gates(def) /\ Position = at /\ at \in Nat
    BY <1>0, <2>1, Indices DEF AtGate
  <2>3. cards <= Cardinality(Behind(at)) + edits + 0 /\ (edits # 0 => IsLast(def, at))
    BY <2>1, <2>2 DEF Cards, AtGate
  <2>4. /\ Cardinality(Behind(at)) \in Nat /\ Cardinality(Gates(def)) \in Nat
        /\ Cardinality(Behind(at)) < Cardinality(Gates(def))
    BY <2>2, BehindCounts
  <2>5. cards' \in Nat
    BY <1>9, <1>0 DEF ShowCard
  <2>6. CardBudget' /\ cards' <= Cardinality(Behind(at)) + edits + 1
    BY <1>0, <2>1, <2>3, <2>4, <2>5 DEF CardBudget, MaxCards, Gates
  <2>7. Position' = at /\ Behind(Position)' = Behind(at) /\ (IsLast(def, at) <=> IsLast(def, Position)')
    BY <2>1, <2>2 DEF Position, Behind, Gates, IsLast
  <2> QED
    BY <2>1, <2>3, <2>6, <2>7 DEF Cards, AtGate
<1>10. CASE Approve \/ Choose
  <2>1. UNCHANGED <<def, at, back, edits, cards>> /\ pc = "asking" /\ pc' = "passing"
    BY <1>10 DEF Approve, Choose, Goto, cardVars
  <2> QED
    BY <2>1 DEF Cards, CardBudget, MaxCards, AtGate, Position, Behind, IsLast, Gates
<1>11. CASE Edit
  <2>1. /\ at \in Gates(def) /\ Position = at /\ def' = def /\ cards' = cards
        /\ edits' = edits + 1 /\ pc = "asking"
    BY <1>0, <1>11 DEF Edit, AtGate, EditCount
  <2>2. IsLast(def, at)
    BY <1>11, <2>1, GateFacts, Indices DEF Edit, Here
  <2>3. cards <= Cardinality(Behind(at)) + edits + 1
    BY <2>1 DEF Cards, AtGate
  <2>4. Position' = at /\ pc' \in {"gate", "step"} /\ (AtGate' \/ back' # 0)
    <3>1. CASE Here.from = 0
      BY <1>0, <1>11, <2>1, <3>1 DEF Edit, Goto, Position, AtGate
    <3>2. CASE Here.from # 0
      <4>1. back' = at /\ at # 0 /\ pc' = "step"
        BY <1>11, <3>2, Indices DEF Edit
      <4> QED
        BY <4>1 DEF Position
    <3> QED
      BY <3>1, <3>2
  <2>5. Behind(Position)' = Behind(at) /\ IsLast(def, Position)' /\ CardBudget'
    BY <2>1, <2>2, <2>4 DEF Behind, IsLast, Gates, Cards, CardBudget, MaxCards
  <2>6. Cardinality(Behind(at)) \in Nat
    BY <2>1, BehindCounts, Indices
  <2>7. cards' <= Cardinality(Behind(at)) + edits' + 0
    BY <1>0, <2>1, <2>3, <2>6
  <2> QED
    BY <2>4, <2>5, <2>7 DEF Cards, AtGate
<1>12. CASE GateFails
  BY <1>12 DEF GateFails, Fail, cardVars, Cards, CardBudget, MaxCards, AtGate, Gates
<1>13. CASE Pass
  <2>1. /\ at \in Gates(def) /\ Position = at /\ at \in Nat /\ back = 0
        /\ UNCHANGED <<def, cards, edits>> /\ pc = "passing"
    BY <1>0, <1>13, Indices DEF Pass, AtGate, cardVars
  <2>2. cards <= Cardinality(Behind(at)) + edits + 1 /\ (edits # 0 => IsLast(def, at))
    BY <2>1 DEF Cards, AtGate
  <2>3. /\ Cardinality(Behind(at)) \in Nat
        /\ Cardinality(Behind(at + 1)) = Cardinality(Behind(at)) + 1
    BY <2>1, BehindCounts
  <2>4. CardBudget'
    BY <2>1 DEF Cards, CardBudget, MaxCards, Gates
  <2>5. CASE pc' = "done"
    BY <2>4, <2>5 DEF Cards, AtGate
  <2>6. CASE pc' # "done"
    <3>1. at' = at + 1 /\ back' = 0 /\ pc' = "step"
      BY <1>13, <2>1, <2>6, Indices DEF Pass, Advance
    <3>2. Behind(at)' = Behind(at + 1) /\ at \in Behind(at + 1) /\ (IsLast(def, at) <=> IsLast(def', at))
      BY <2>1, <3>1 DEF Behind, IsLast, Gates
    <3>3. edits # 0 => \E g \in Behind(at)' : IsLast(def', g)
      BY <2>2, <3>2
    <3>4. cards' <= Cardinality(Behind(at)') + (IF \E g \in Behind(at)' : IsLast(def', g) THEN MaxEdits ELSE 0)
      BY <1>0, <2>1, <2>2, <2>3, <3>2, <3>3
    <3> QED
      BY <2>4, <3>1, <3>4 DEF Cards, AtGate
  <2> QED
    BY <2>5, <2>6
<1>14. CASE UNCHANGED vars
  BY <1>14 DEF vars, control, cardVars, Cards, CardBudget, MaxCards, AtGate, Position, Behind, IsLast, Gates
<1> QED
  BY <1>1, <1>2, <1>3, <1>4, <1>5, <1>6, <1>7, <1>8, <1>9, <1>10, <1>11, <1>12, <1>13, <1>14 DEF Next

-----------------------------------------------------------------------------
(* The theorems.                                                             *)

\* The invariant holds at the start.
LEMMA InitInvariant == Init => IInv
<1> SUFFICES ASSUME Init
             PROVE  IInv
  OBVIOUS
<1>1. TypeOK
  <2>1. def \in Definitions /\ at \in 1..Len(def) /\ 0 \in 0..MaxEdits
    BY StepTypes, WorkflowAssumption DEF Init
  <2>2. params \in Params
    BY DEF Init
  <2>3. results \in [1..Len(def) -> Choices \cup {NoValue}] /\ attempts \in [1..Len(def) -> Nat]
    BY DEF Init
  <2> QED
    BY <2>1, <2>2, <2>3 DEF Init, TypeOK
<1>2. Control /\ Consent /\ Covered /\ Faithful
  BY StepTypes DEF Init, Control, Consent, Covered, Faithful, AtGate, Gates
<1>3. Attempts
  BY StepTypes DEF Init, Attempts
<1>4. Fresh
  BY StepTypes, GateFacts DEF Init, Fresh
<1>5. AuthorizedIffConfirmed /\ EditsAreNotTampering
  BY DEF Init, AuthorizedIffConfirmed, EditsAreNotTampering
<1> QED
  BY <1>1, <1>2, <1>3, <1>4, <1>5 DEF IInv

\* The invariant of every run.
LEMMA Invariant == Spec => []IInv
<1>1. IInv /\ [Next]_vars => IInv'
  BY TypeStep, ControlStep, ConsentStep, CoveredStep, FaithfulStep, TamperingStep, AuthorityStep,
     AttemptsStep, FreshStep DEF IInv
<1> QED
  BY InitInvariant, <1>1, PTL DEF Spec

\* The engine's variables keep their types.
THEOREM WorkflowTyped == Spec => []TypeOK
<1>1. IInv => TypeOK
  BY DEF IInv
<1> QED
  BY Invariant, <1>1, PTL

\* What executes is what the user confirmed.
THEOREM ConfirmedIsExecuted == Spec => []ExecutesWhatWasConfirmed
<1>1. IInv => ExecutesWhatWasConfirmed
  <2> SUFFICES ASSUME IInv, pc = "call", def[at].mutates
               PROVE  /\ agreed # NoValue
                      /\ IsLast(def, agreed.gate)
                      /\ params.choice = agreed.choice
                      /\ agreed.shown # NoValue => params.draft = agreed.shown
    BY DEF ExecutesWhatWasConfirmed, Here
  <2> QED
    BY WriteIsSealed DEF IInv, Consent
<1> QED
  BY Invariant, <1>1, PTL

\* A card rests on results of the parameters it shows.
THEOREM CardsAreFresh == Spec => []CardIsFresh
<1>1. IInv => CardIsFresh
  <2> SUFFICES ASSUME IInv, pc = "asking", Root(def, at) # 0
               PROVE  \A j \in Root(def, at)..(at - 1) : results[j] \in {NoValue, params.choice}
    BY DEF CardIsFresh
  <2>1. at \in Gates(def)
    BY DEF IInv, Control, AtGate
  <2>2. Root(def, at) <= at
    BY <2>1, GateFacts, Indices DEF IInv
  <2> QED
    BY <2>1, <2>2, Indices DEF IInv, Fresh
<1> QED
  BY Invariant, <1>1, PTL

\* No confirmed write is sent twice.
THEOREM WritesAreSingle == Spec => []SingleAttempt
<1>1. IInv => SingleAttempt
  BY DEF IInv, Attempts, SingleAttempt
<1> QED
  BY Invariant, <1>1, PTL

\* A run that reports success has made its writes, under an approval.
THEOREM SuccessIsWritten == Spec => []SuccessMeansWritten
<1>1. IInv => SuccessMeansWritten
  BY DEF IInv, Attempts, SuccessMeansWritten
<1> QED
  BY Invariant, <1>1, PTL

\* Only a write to Params under a seal fails the contract.
THEOREM OnlyTamperingUnverified == Spec => []EditsAreNotTampering
<1>1. IInv => EditsAreNotTampering
  BY DEF IInv
<1> QED
  BY Invariant, <1>1, PTL

\* The failure record tells an approval from a card on the way to it.
THEOREM AuthorizationRecorded == Spec => []AuthorizedIffConfirmed
<1>1. IInv => AuthorizedIffConfirmed
  BY DEF IInv
<1> QED
  BY Invariant, <1>1, PTL

\* A run asks at most once per gate, and MaxEdits times more.
THEOREM CardsBounded == Spec => []CardBudget
<1>1. Init => Cards
  <2> SUFFICES ASSUME Init
               PROVE  Cards
    OBVIOUS
  <2>1. TypeOK
    BY InitInvariant DEF IInv
  <2>2. Cardinality(Behind(at)) \in Nat /\ Cardinality(Gates(def)) \in Nat
    BY <2>1, BehindCounts, Indices
  <2> QED
    BY <2>2, WorkflowAssumption DEF Init, Cards, CardBudget, MaxCards, AtGate
<1>2. Cards => CardBudget
  BY DEF Cards
<1> QED
  BY <1>1, <1>2, Invariant, CardsStep, PTL DEF Spec

=============================================================================
