----------------------------- MODULE MCSessionRuns -----------------------------
(***************************************************************************)
(* A session and the runs it makes in guests, in parts that share nothing  *)
(* here: the runs themselves, which this module extends, and the requests  *)
(* of a session against its rows, whose cursors are those of the runs'     *)
(* background jobs.  `part` is chosen at the start, the steps are those of *)
(* that component, and the variables of the other keep their first value.  *)
(***************************************************************************)
EXTENDS SshRun, TLC

CONSTANTS Requests, Pair, Seeded, NoRequest, MaxTurns, Extra, MaxFaults

VARIABLES part,
  row, users, answer, late, requestPc, sess, lease, engine, job, ran, forgotten, overtaken,
  faults

sessionVars == <<row, users, answer, late, requestPc, sess, lease, engine, job, ran,
                 forgotten, overtaken, faults>>

\* Two requests that both run, on any row; and a race of all for the last turn.
Session == INSTANCE ChatSession WITH pc <- requestPc, Requests <- Pair,
             MaxTurns <- Cardinality(Pair)
Race    == INSTANCE ChatSession WITH pc <- requestPc

ASSUME SessionsAssumption == Session!SessionAssumption /\ Race!SessionAssumption

\* The part that is not chosen starts in one of its initial states; the race starts on a fresh row.
SessionRunsInit ==
  /\ part \in {"run", "session", "race"}
  /\ Init
  /\ IF part = "race" THEN Race!Init ELSE Session!Init
  /\ part = "session" \/ row = [version |-> 0, jobs |-> {}, schema |-> "current", count |-> 0]

SessionRunsNext ==
  /\ UNCHANGED part
  /\ \/ part = "run" /\ Next /\ UNCHANGED sessionVars
     \/ part = "session" /\ Session!Next /\ UNCHANGED vars
     \/ part = "race" /\ Race!Next /\ UNCHANGED vars

SessionRunsSpec == SessionRunsInit /\ [][SessionRunsNext]_<<part, vars, sessionVars>>

\* Invocations, tool calls and jobs only differ by identity.
IdSymmetry == Permutations(Invocations) \cup Permutations(Tools) \cup Permutations(Jobs)

-----------------------------------------------------------------------------
(* The properties of a session: see ChatSession.                           *)

LaunchNotForgotten  == Session!LaunchNotForgotten
TurnBudget          == part = "race" => Race!TurnBudget
ForeignRowUntouched == Session!ForeignRowUntouched
CursorOutlivesJob   == Session!CursorOutlivesJob
=============================================================================
