------------------------------ MODULE GuestEntry ------------------------------
(***************************************************************************)
(* The way into an instance, seen from the conversation: the account is    *)
(* asked for the target, an address is chosen, facts are collected, the    *)
(* run is recorded and the harness works; and what the tool result, the    *)
(* stored reply and the next turn say about a run that broke off.  What    *)
(* the harness does is SshRun's; here it starts commands that settle later *)
(* and may be killed at any moment.                                        *)
(*                                                                         *)
(* A run is its number in the turn, an account of it the number of its     *)
(* settled commands, a background job the instance it runs in.             *)
(***************************************************************************)
EXTENDS Integers, Sequences, FiniteSets

CONSTANTS
  Instances,
  MaxTurns, MaxRuns,  \* bounds: turns of the session, runs of a turn
  MaxSteps,           \* bound: commands of a run
  MaxFeed             \* maxInstanceOpsStepEvents

\* buildSSHOpsService: translation candidates need the internal rewrite.
Policies == {"advertised", "internal", "prefix"}

VARIABLES
  policy,                    \* which addresses this deployment may dial
  turn, stage,
  run, target,               \* the last run of the turn and its instance
  advertised, host,          \* its login command, the address dialled
  found, facts,              \* what the platform reported, and what is made of it for the harness
  begun, settled, feed, connected,
  jobs,                      \* PersistedInstanceOpsJobs
  reports,                   \* the runs whose report is among the tool results of this turn
  told,                      \* the last tool result
  pending, included,         \* the interruption notice, and whether the reply contains it
  untold                     \* the run interrupted at work that was noted last, until the user has it

request == <<turn, run, target, policy>>
lookup  == <<advertised, host>>
context == <<found, facts>>
work    == <<begun, settled, feed, connected>>
record  == <<reports, told, pending, included>>
vars    == <<request, stage, lookup, context, work, jobs, record, untold>>

None     == [run |-> 0, steps |-> 0]
Nothing  == [catalogKey |-> "none", catalog |-> {}, monitor |-> "none", known |-> {}, coverage |-> {}]
Unasked  == [fields |-> {}, software |-> {}, monitor |-> "failed", catalog |-> {}]
Silent   == [code |-> "none", steps |-> 0]

Init ==
  /\ policy \in Policies
  /\ turn = 1 /\ stage = "loop" /\ run = 0
  /\ target \in Instances /\ \A i \in Instances : target <= i
  /\ advertised = "none" /\ host = "none"
  /\ found = Unasked /\ facts = Nothing
  /\ begun = 0 /\ settled = 0 /\ feed = 0 /\ connected = FALSE
  /\ jobs = {} /\ reports = {} /\ told = Silent
  /\ pending = None /\ included = FALSE
  /\ untold = None

(* ------------------------------ the outcome ------------------------------ *)

\* Errors with a sentence of their own; the others are told by how far the run got.
Boundaries == {"no ssh", "not found", "address", "unreachable", "not running"}

Code(err, reached) ==
  IF err \in Boundaries THEN err
  ELSE IF ~reached THEN IF err = "timeout" THEN "timeout, not started" ELSE "not started"
  ELSE IF err = "timeout" THEN "timeout" ELSE "interrupted"

\* MUTANT: the notice counts the activity events, which are capped.
AccountOfFeed == [run |-> run, steps |-> feed]

\* What is said of a run that broke off: everything that settled, shown or not.
Account == [run |-> run, steps |-> settled]

\* A run with nothing settled and no job to poll leaves the notice alone.
Recorded(held) == settled > 0 \/ held

(* The end of executeInstanceOps after an error of the run.  Only an account *)
(* that does not list the target ends its jobs.  A run that timed out ends   *)
(* the turn with what was reported.                                          *)
Breaks(err) ==
  LET left == IF err = "not found" THEN jobs \ {target} ELSE jobs
      held == target \in left
      code == Code(err, connected \/ settled > 0 \/ held)
      own  == code \in {"timeout", "interrupted"}
  IN /\ jobs' = left
     /\ told' = [code |-> code, steps |-> IF own THEN settled ELSE 0]
     /\ reports' = IF own THEN reports \cup {run} ELSE reports
     /\ pending' = IF Recorded(held) THEN Account ELSE pending
     /\ untold' = IF own THEN [run |-> run, steps |-> settled]
                  ELSE IF Recorded(held) THEN None ELSE untold
     /\ IF err = "timeout"
          THEN stage' = "closing" /\ included' = (included \/ (reports' # {} /\ pending' # None))
          ELSE stage' = "loop" /\ UNCHANGED included
     /\ advertised' = "none" /\ host' = "none" /\ found' = Unasked /\ facts' = Nothing
     /\ UNCHANGED <<request, work>>

(* ------------------------------- the lookup ------------------------------ *)

\* A tool call names an instance and a task; the rate limit comes first.
Call(i) ==
  /\ stage = "loop" /\ run < MaxRuns
  /\ run' = run + 1 /\ target' = i
  /\ begun' = 0 /\ settled' = 0 /\ feed' = 0 /\ connected' = FALSE
  /\ stage' = "called" /\ told' = Silent
  /\ UNCHANGED <<policy, turn, lookup, context, jobs, reports, pending, included, untold>>

Limited == stage = "called" /\ Breaks("failed")

(* DescribeCompShareInstance for this one id: a response without a set of   *)
(* instances is an outage, an empty set an answer.  The state is looked at  *)
(* before the login command, which a stopped instance may lack too.         *)
Describe ==
  /\ stage = "called"
  /\ \E state \in {"down", "no set", "absent", "Running", "Stopped", ""},
        login \in {"none", "garbled", "ip", "name"} :
       IF state \in {"down", "no set"} THEN Breaks("failed")
       ELSE IF state = "absent" THEN Breaks("not found")
       ELSE IF state = "Stopped" THEN Breaks("not running")
       ELSE IF login = "none" THEN Breaks("no ssh")
       ELSE IF login = "garbled" THEN Breaks("failed")
       ELSE /\ advertised' = login /\ stage' = "found"
            /\ UNCHANGED <<request, host, context, work, jobs, record, untold>>

Dials(h) ==
  /\ host' = h /\ stage' = "routed"
  /\ UNCHANGED <<request, advertised, context, work, jobs, record, untold>>

\* Only a bare IPv4 address is rewritten: a pod's name leads to a forwarder.
KeepsHost == policy = "advertised" \/ advertised = "name"

\* The candidates: the internal address first, the advertised one never.
Candidates(inner) == (IF inner = "address" THEN <<"internal">> ELSE <<>>) \o <<"public6">>

(* resolveDialHost: without candidates the resolver's address is taken       *)
(* unprobed and its failure is final; with them its failure only costs the   *)
(* internal one, and the first that accepts a connection is dialled.         *)
Route ==
  /\ stage = "found"
  /\ \/ KeepsHost /\ Dials("advertised")
     \/ /\ ~KeepsHost
        /\ \E inner \in {"nothing", "address", "error"}, open \in SUBSET {"internal", "public6"} :
             LET tried     == Candidates(inner)
                 reachable == {k \in DOMAIN tried : tried[k] \in open}
             IN IF policy = "prefix"
                  THEN IF reachable = {}
                         THEN Breaks("unreachable")
                         ELSE Dials(tried[CHOOSE k \in reachable : \A j \in reachable : k <= j])
                ELSE IF inner = "error" THEN Breaks("address")
                ELSE Dials(IF inner = "nothing" THEN "advertised" ELSE "internal")

\* A password that cannot be decoded is the last thing that may fail here.
NoPassword == stage = "routed" /\ Breaks("failed")

(* ------------------------------- the facts ------------------------------- *)

Found == [fields : SUBSET {"gpu"}, software : SUBSET {"s1"},
          monitor : {"failed", "unrecognized", "empty", "points"}, catalog : SUBSET {"s1", "s2"}]

\* Entries of the region's catalog: those of the declared software when any is declared.
Entries(f) == IF f.software = {} THEN f.catalog ELSE f.catalog \cap f.software

Keys(f) == f.fields \cup {k \in {"software"} : f.software # {}}
                   \cup {k \in {"metrics"} : f.monitor = "points"}

(* enrichInstanceOpsContext: what was not reported is unknown, not empty;   *)
(* an uncorrelated catalog has a name of its own and is never "known".      *)
Facts(f) ==
  [known |-> Keys(f), monitor |-> f.monitor,
   catalogKey |-> IF f.software = {} THEN "region" ELSE "expected", catalog |-> Entries(f),
   coverage |-> Keys(f) \cup {"state"}
                  \cup {IF f.software = {} THEN "region" ELSE "expected" : e \in Entries(f)}]

Enrich ==
  /\ stage = "routed"
  /\ found' \in Found /\ facts' = Facts(found')
  /\ stage' = "ready"
  /\ UNCHANGED <<request, lookup, work, jobs, record, untold>>

(* The audit row is written before the harness starts, or nothing starts.   *)
Begin ==
  /\ stage = "ready"
  /\ found' = Unasked /\ facts' = Nothing /\ advertised' = "none" /\ host' = "none"
  /\ stage' = "inside"
  /\ UNCHANGED <<request, work, jobs, record, untold>>

AuditFails == stage = "ready" /\ Breaks("failed")

(* ------------------------------- the run --------------------------------- *)

Start ==
  /\ stage = "inside" /\ begun < MaxSteps /\ begun = settled
  /\ begun' = begun + 1
  /\ UNCHANGED <<request, stage, lookup, context, settled, feed, connected, jobs, record, untold>>

\* The first settled command is what shows that the run is connected; its poll
\* may show a job finished.
Settle ==
  /\ stage = "inside" /\ settled < begun
  /\ settled' = settled + 1
  /\ feed' = IF feed < MaxFeed THEN feed + 1 ELSE feed
  /\ connected' = TRUE
  /\ jobs' \in {jobs, jobs \ {target}}
  /\ UNCHANGED <<request, stage, lookup, context, begun, record, untold>>

\* The handle of a background job is announced before its command settles.
Launch ==
  /\ stage = "inside" /\ settled < begun /\ target \notin jobs
  /\ jobs' = jobs \cup {target}
  /\ UNCHANGED <<request, stage, lookup, context, work, record, untold>>

\* Killed, timed out, or ended without a verdict.
Dies == stage = "inside" /\ \E err \in {"failed", "timeout"} : Breaks(err)

\* A verdict, of an agent that failed too, is a report.
Verdict ==
  /\ stage = "inside" /\ settled = begun
  /\ told' \in {[code |-> c, steps |-> settled] : c \in {"complete", "agent failed"}}
  /\ reports' = reports \cup {run}
  /\ stage' = "loop"
  /\ UNCHANGED <<request, lookup, context, work, jobs, pending, included, untold>>

(* ------------------------------- the turn -------------------------------- *)

Heard(runs) == IF untold.run \in runs THEN None ELSE untold

\* The end of a turn; what only its tool results said of the run is not needed again.
Between ==
  /\ stage' = "between" /\ told' = Silent
  /\ begun' = 0 /\ settled' = 0 /\ feed' = 0 /\ connected' = FALSE
  /\ UNCHANGED <<policy, turn, run, target, lookup, context, jobs, reports>>

\* MUTANT: a reply that contains the report settles the notice, stored or not.
AcknowledgesComposed(stored) == included

\* AcknowledgeDelivered...: the reply contains the report, and it was stored.
Acknowledges(stored) == included /\ stored

\* The model's own answer, or an error: the notice is the next turn's.
Answer ==
  /\ stage = "loop"
  /\ Between /\ UNCHANGED <<pending, included, untold>>

\* A reply the host composes contains every report of the turn.
Recover ==
  /\ stage = "loop" /\ reports # {}
  /\ included' = (included \/ pending # None) /\ stage' = "closing"
  /\ UNCHANGED <<request, lookup, context, work, jobs, reports, told, pending, untold>>

Deliver(stored) ==
  /\ stage = "closing"
  /\ untold' = IF stored THEN Heard(reports) ELSE untold
  /\ pending' = IF Acknowledges(stored) THEN None ELSE pending
  /\ included' = IF Acknowledges(stored) THEN FALSE ELSE included
  /\ Between

\* The transport ended: the row gets the notice instead of the reply, which stays.
Abort(stored) ==
  /\ stage \in {"loop", "closing"}
  /\ untold' = IF stored THEN Heard({pending.run}) ELSE untold
  /\ Between /\ UNCHANGED <<pending, included>>

\* The engine is evicted or the process restarted: the notice is lost with its memory.
Rehydrate ==
  /\ stage = "between" /\ pending # None
  /\ untold' = None /\ pending' = None
  /\ UNCHANGED <<request, stage, lookup, context, work, jobs, reports, told, included>>

\* emitPendingInstanceOpsInterruption, at the top of a turn.
NextTurn ==
  /\ stage = "between" /\ turn < MaxTurns
  /\ turn' = turn + 1 /\ run' = 0 /\ stage' = "loop"
  /\ untold' = Heard({pending.run})
  /\ pending' = None /\ included' = FALSE /\ reports' = {}
  /\ UNCHANGED <<policy, target, lookup, context, work, jobs, told>>

Next ==
  \/ \E i \in Instances : Call(i)
  \/ Limited \/ Describe \/ Route \/ NoPassword \/ Enrich \/ Begin \/ AuditFails
  \/ Start \/ Settle \/ Launch \/ Dies \/ Verdict
  \/ Answer \/ Recover \/ Rehydrate \/ NextTurn
  \/ \E stored \in BOOLEAN : Deliver(stored) \/ Abort(stored)

Spec == Init /\ [][Next]_vars
-----------------------------------------------------------------------------

TypeOK ==
  /\ policy \in Policies /\ turn \in 1..MaxTurns
  /\ stage \in {"loop", "called", "found", "routed", "ready", "inside", "closing", "between"}
  /\ run \in 0..MaxRuns /\ target \in Instances /\ jobs \subseteq Instances
  /\ settled \in 0..begun /\ begun \in 0..MaxSteps /\ feed \in 0..MaxFeed
  /\ connected \in BOOLEAN /\ included \in BOOLEAN
  /\ reports \subseteq 1..run /\ told.steps \in 0..MaxSteps

(* A result that names a boundary - no SSH entry, not found, no address, not *)
(* reachable, not running - is given only of a run that executed nothing;    *)
(* "not started" only when nothing settled and no job may be at work (a      *)
(* command may have started: the connection is inferred from the first that  *)
(* settles); and                                                             *)
(* every other result counts exactly the commands that settled, beyond the   *)
(* cap of the activity feed (executeInstanceOps, instanceOpsRunner.Run).     *)
BoundaryIsTrue ==
  stage \in {"loop", "closing"} =>
    /\ told.code \in Boundaries => begun = 0
    /\ told.code = "not found" => target \notin jobs
    /\ told.code \in {"not started", "timeout, not started"} => settled = 0 /\ target \notin jobs
    /\ told.code \in {"interrupted", "timeout", "complete", "agent failed"} => told.steps = settled

(* "Whatever settled before it did is the only account the user will ever    *)
(* get of a box that may already have been changed": a run that broke off at *)
(* work and whose notice no later one replaced is in a stored reply or in a  *)
(* notice the user got, or its notice waits with its true count, through     *)
(* failed rows and aborted turns.  A lost engine excuses it: the steps are   *)
(* "session-memory-only" (recordInstanceOpsInterruption,                     *)
(* AcknowledgeDeliveredInstanceOpsInterruption).                             *)
InterruptionIsTold == untold = None \/ pending = untold

(* A deployment that rewrites addresses never dials the advertised address   *)
(* of a bare IP, unless its resolver has nothing to offer; one that lists    *)
(* translation candidates never does (resolveDialHost).                      *)
RouteIsPrivate ==
  host = "advertised" /\ advertised = "ip" => policy \in {"advertised", "internal"}

(* The harness is told only what the platform reported: a catalog of the     *)
(* region is never presented as the software expected of this instance, and  *)
(* metrics are known only if points came (enrichInstanceOpsContext).         *)
FactsAreObserved ==
  stage = "ready" =>
    /\ facts.known \subseteq facts.coverage
    /\ "expected" \in facts.coverage =>
         facts.catalog # {} /\ facts.catalog \subseteq found.software /\ "software" \in facts.known
    /\ "metrics" \in facts.known => found.monitor = "points"

GuestEntryIsTold == BoundaryIsTrue /\ InterruptionIsTold /\ RouteIsPrivate /\ FactsAreObserved
=============================================================================
