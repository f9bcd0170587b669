------------------------------ MODULE MCLiveness ------------------------------
(***************************************************************************)
(* What must eventually happen, in five components that share nothing      *)
(* here: `part` is chosen at the start, the steps are those of that        *)
(* component, under its own fairness, and the variables of the others      *)
(* keep their first value.  The module extends the chat session, which is  *)
(* the part "session".  The instances are small, and have no symmetry.     *)
(***************************************************************************)
EXTENDS ChatSession, Sequences

CONSTANTS r1, r2, r3, k1, e1, e2,    \* of the pool
          t1, t2, o1, c1,            \* of the broker (t2 posts); t1 and t2 also tools of a harness
          i1,                        \* an invocation of the harness
          p1, p2,                    \* choices of a workflow
          Nothing

VARIABLES part,
  items, ahead, leases, touched, holder, known, poolPc, key, heldEntry, loaded, stored,
  churned, suspect, poolClock,
  owner, live, turnPc, card, asker, form, cardOutcome, pending, chan, step, frame, claim, told,
  runPc, inv, rows, reader, seen, outcome, how, child, fault, tool, out, stdin, slots, owned,
  guest, tracked, runs, uses, entries, reached, missed, strayed,
  def, at, back, stepPc, status, authorized, params, results, sealed, skipped, edits, gateCard,
  cards, agreed, tampered, attempts

poolVars   == <<items, ahead, leases, touched, holder, known, poolPc, key, heldEntry, loaded,
                stored, churned, suspect, poolClock>>
brokerVars == <<owner, live, turnPc, card, asker, form, cardOutcome, pending, chan, step,
                frame, claim, told>>
runVars    == <<runPc, inv, rows, reader, seen, outcome, how, child, fault, tool, out, stdin,
                slots, owned, guest, tracked, runs, uses, entries, reached, missed, strayed>>
flowVars   == <<def, at, back, stepPc, status, authorized, params, results, sealed, skipped,
                edits, gateCard, cards, agreed, tampered, attempts>>
allVars    == <<part, poolVars, brokerVars, vars, runVars, flowVars>>

Pool    == INSTANCE EnginePool WITH pc <- poolPc, held <- heldEntry, clock <- poolClock,
             Requests <- {r1, r2, r3}, Keys <- {k1}, Entries <- {e1, e2}, NoEntry <- Nothing,
             NoRequest <- Nothing, Capacity <- 1, IdleTTL <- 1, MaxClock <- 1, MaxTurns <- 1
Broker  == INSTANCE ConfirmBroker WITH pc <- turnPc, outcome <- cardOutcome,
             Turns <- {t1}, Posts <- {t2}, Owners <- {o1}, Cards <- {c1},
             NoTurn <- Nothing, NoCard <- Nothing, NoFrame <- Nothing
Run     == INSTANCE SshRun WITH pc <- runPc,
             Invocations <- {i1}, Tools <- {t1, t2}, Nobody <- Nothing,
             MaxJobs <- 1, MaxRuns <- 1, MaxUses <- 2, PipeSize <- 2

\* The definitions are data: the instance that gives them runs none.
Data    == INSTANCE WorkflowDefinitions WITH pc <- stepPc, card <- gateCard,
             Definitions <- {}, Choices <- {p1, p2}, NoValue <- Nothing, MaxEdits <- 3
Flow    == INSTANCE SealedWorkflow WITH pc <- stepPc, card <- gateCard,
             Definitions <- Data!registeredWorkflows \cup {Data!guided},
             Choices <- {p1, p2}, NoValue <- Nothing, MaxEdits <- 3

LiveInit ==
  /\ part \in {"pool", "broker", "session", "run", "workflow"}
  /\ Init /\ Pool!Init /\ Broker!Init /\ Run!Init /\ Flow!Init
  /\ part = "session" \/ row = [version |-> 0, jobs |-> {}, schema |-> "current", count |-> 0]
  /\ part = "workflow" \/ (def = Data!StopInstanceDef /\ params.choice = p1)

LiveNext ==
  \/ part = "pool"    /\ Pool!Next   /\ UNCHANGED <<part, brokerVars, vars, runVars, flowVars>>
  \/ part = "broker"  /\ Broker!Next /\ UNCHANGED <<part, poolVars, vars, runVars, flowVars>>
  \/ part = "session" /\ Next        /\ UNCHANGED <<part, poolVars, brokerVars, runVars, flowVars>>
  \/ part = "run"     /\ Run!Next    /\ UNCHANGED <<part, poolVars, brokerVars, vars, flowVars>>
  \/ part = "workflow" /\ Flow!Next /\ UNCHANGED <<part, poolVars, brokerVars, vars, runVars>>

(* The fairness of each module, demanded only in its part: see Fairness there. *)
LiveFairness ==
  /\ \A r \in {r1, r2, r3} : /\ WF_poolVars(part = "pool" /\ Pool!Step(r))
                             /\ SF_poolVars(part = "pool" /\ Pool!Acquire(r))
  /\ WF_brokerVars(part = "broker" /\ Broker!TurnStep(t1))
  /\ \A h \in {t1, t2} : WF_brokerVars(part = "broker" /\ Broker!HandlerStep(h))
  /\ \A r \in Requests : /\ WF_vars(part = "session" /\ TurnStep(r))
                         /\ SF_vars(part = "session" /\ Lease(r))
  /\ WF_runVars(part = "run" /\ Run!Serve)
  /\ WF_runVars(part = "run" /\ Run!Main)
  /\ \A t \in {t1, t2} : WF_runVars(part = "run" /\ Run!Work(t))
  /\ WF_flowVars(part = "workflow" /\ Flow!Next)
  /\ WF_flowVars(part = "workflow" /\ (Flow!Succeed \/ Flow!CallFails))

LiveSpec == LiveInit /\ [][LiveNext]_allVars /\ LiveFairness

-----------------------------------------------------------------------------
(* One more is EveryTurnEnds of ChatSession.                               *)

(* A request for an engine gets it or an error (EnginePool). *)
EveryLeaseServed == part = "pool" => Pool!EveryLeaseServed

(* An answer given on the card's own socket settles it, timer or not (ConfirmBroker). *)
OwnAnswerSettles == part = "broker" => Broker!OwnAnswerSettles

(* The supervisor's run of a harness ends, but for the hazards it names (SshRun). *)
RunsEnd == part = "run" => Run!RunsEnd

(* Every run of a workflow ends, whatever is edited and revalidated (SealedWorkflow). *)
WorkflowTerminates == part = "workflow" => Flow!Termination
=============================================================================
