------------------------------- MODULE SshRun -------------------------------
(***************************************************************************)
(* Runs of the in-instance agent: Service.DiagnoseWithContext and          *)
(* Supervisor.RunWithContext (internal/sshops), the harness it spawns      *)
(* (deploy/ssh_ops_harness), the guest, and the job cursors the engine     *)
(* keeps (internal/engine/instance_ops_interruption.go).                   *)
(*                                                                         *)
(* The runs of a session are serial (its lease), so one run is modelled at *)
(* a time; invocations may be delivered again.  A line of the protocol is  *)
(* a record, a command is a count, the verdict has no text.  The tools of  *)
(* a run are coroutines of the harness with their blocking parts in        *)
(* threads; the supervisor always grants writes in the handshake, so the   *)
(* only round trip over stdin is the knowledge request.                    *)
(***************************************************************************)
EXTENDS Integers, Sequences, FiniteSets

CONSTANTS Invocations,  \* the unique keys (turn_id, task_hash) of the audit table
          Tools,        \* tool calls that run at once in a harness
          Jobs,         \* ids of background jobs
          Nobody,       \* no tool, no job
          MaxJobs,      \* opscontext.MaxBackgroundJobs
          MaxRuns,      \* bound: deliveries of invocations
          MaxUses,      \* bound: tool calls of one run
          PipeSize      \* bound: lines the stdout pipe holds

ASSUME SshRunAssumption ==
    /\ Nobody \notin Tools \cup Jobs
    /\ IsFiniteSet(Jobs)
    /\ MaxJobs \in Nat /\ MaxRuns \in Nat /\ MaxUses \in Nat /\ PipeSize \in Nat \ {0}

VARIABLES pc,       \* where DiagnoseWithContext is
          inv,      \* the invocation it runs
          rows,     \* ssh_ops_audit: the state of a row and the steps it counts
          reader,   \* parseHarnessStream
          seen,     \* the steps parsed in this run whose command reached the guest
          outcome,  \* the last @@OUTCOME parsed
          how,      \* how the harness ended
          child,    \* where main() of the harness is
          fault,    \* what main() is going to report
          tool,     \* the tool calls of the harness
          out,      \* the stdout pipe
          stdin,    \* replies on the stdin pipe, by the tool that asked
          slots,    \* background_job_slots_remaining
          owned,    \* active_background_jobs
          guest,    \* what became of a job in the guest
          tracked,  \* PersistedInstanceOpsJobs of the engine
          runs, uses,
          entries,  \* history variable: runs that logged in to the guest
          reached,  \* history variable: commands of an invocation that reached the guest
          missed,   \* history variable: jobs reported gone before they had started
          strayed   \* history variable: jobs announced to a parser that gave up, or to an
                    \* engine that is full of cursors the harness has dropped

super == <<pc, inv, rows>>
parser == <<reader, seen, outcome>>
harness == <<child, fault, slots, owned>>
pipes == <<out, stdin>>
history == <<entries, reached, missed, strayed>>
vars == <<super, parser, how, harness, tool, pipes, guest, tracked, runs, uses, history>>

Line == [tag : {"step", "job", "ask", "outcome", "verdict", "end"}, tool : Tools \cup {Nobody},
         job : Jobs \cup {Nobody}, sent : BOOLEAN, flag : BOOLEAN]

Idle == [at |-> "idle", job |-> Nobody]
Rest == [t \in Tools |-> Idle]
Row(s, n) == [state |-> s, steps |-> n]

TypeOK ==
    /\ pc \in {"idle", "started", "reading", "waiting", "finishing"}
    /\ inv \in Invocations
    /\ rows \in [Invocations -> [state : {"none", "started", "ok", "error"}, steps : Nat]]
    /\ reader \in {"off", "line", "verdict", "lost", "eof"}
    /\ seen \in Nat
    /\ outcome \in {"entered", "failed"}
    /\ how \in {"running", "exited", "killed"}
    /\ child \in {"none", "dialing", "looping", "outcome", "verdict", "end", "joining"}
    /\ fault \in BOOLEAN
    /\ tool \in [Tools -> [at : {"idle", "command", "ran", "launch", "sent", "unsent", "poll",
                                 "wanting", "asked"}, job : Jobs \cup {Nobody}]]
    /\ out \in Seq(Line)
    /\ stdin \in Seq(Tools)
    /\ slots \in Nat
    /\ owned \subseteq Jobs
    /\ guest \in [Jobs -> {"new", "absent", "launching", "running", "ended"}]
    /\ tracked \subseteq Jobs
    /\ runs \in Nat /\ uses \in Nat
    /\ entries \in [Invocations -> Nat] /\ reached \in [Invocations -> Nat]
    /\ missed \subseteq Jobs /\ strayed \subseteq Jobs

Init ==
    /\ pc = "idle" /\ inv \in Invocations
    /\ rows = [i \in Invocations |-> Row("none", 0)]
    /\ reader = "off" /\ seen = 0 /\ outcome = "entered"
    /\ how = "exited"
    /\ child = "none" /\ fault = FALSE /\ slots = 0 /\ owned = {}
    /\ tool = Rest
    /\ out = <<>> /\ stdin = <<>>
    /\ guest = [j \in Jobs |-> "new"]
    /\ tracked = {}
    /\ runs = 0 /\ uses = 0
    /\ entries = [i \in Invocations |-> 0] /\ reached = [i \in Invocations |-> 0]
    /\ missed = {} /\ strayed = {}

-----------------------------------------------------------------------------
(* DiagnoseWithContext: the audit row, the harness, the row again.           *)

\* MUTANT: a conflict with the row of an earlier delivery is not looked at.
BeginAgain(i) ==
    /\ pc = "idle" /\ runs < MaxRuns
    /\ runs' = runs + 1
    /\ pc' = "started" /\ inv' = i
    /\ rows' = [rows EXCEPT ![i] = Row("started", 0)]
    /\ UNCHANGED <<parser, how, harness, tool, pipes, guest, tracked, uses, history>>

\* Begin inserts the row: its unique key admits one delivery of an invocation.
Begin(i) ==
    /\ pc = "idle" /\ runs < MaxRuns
    /\ rows[i].state = "none"
    /\ runs' = runs + 1
    /\ pc' = "started" /\ inv' = i
    /\ rows' = [rows EXCEPT ![i] = Row("started", 0)]
    /\ UNCHANGED <<parser, how, harness, tool, pipes, guest, tracked, uses, history>>

\* The insert conflicts, fails, or times out after it took effect: no run.
Refuse(i) ==
    /\ pc = "idle" /\ runs < MaxRuns
    /\ runs' = runs + 1
    /\ rows' \in {rows} \cup (IF rows[i].state = "none" THEN {[rows EXCEPT ![i] = Row("started", 0)]} ELSE {})
    /\ UNCHANGED <<pc, inv, parser, how, harness, tool, pipes, guest, tracked, uses, history>>

\* The harness starts with the handshake: the cursors it may poll and the jobs it may add.
Spawn ==
    /\ pc = "started"
    /\ pc' = "reading" /\ reader' = "line" /\ how' = "running"
    /\ child' = "dialing" /\ fault' = FALSE
    /\ slots' = MaxJobs - Cardinality(tracked)
    /\ owned' = tracked
    /\ UNCHANGED <<inv, rows, seen, outcome, tool, pipes, guest, tracked, runs, uses, history>>

\* Start fails, or the handshake cannot be written and the group is killed.
SpawnFails ==
    /\ pc = "started"
    /\ pc' = "finishing" /\ how' = "killed"
    /\ UNCHANGED <<inv, rows, parser, harness, tool, pipes, guest, tracked, runs, uses, history>>

\* Wait returns once the harness is gone.
Reap ==
    /\ pc = "waiting" /\ child = "none"
    /\ pc' = "finishing"
    /\ UNCHANGED <<inv, rows, parser, how, harness, tool, pipes, guest, tracked, runs, uses, history>>

\* MUTANT: only the exit of the harness is looked at.
ExitedCleanly == how = "exited"

\* The disposition "ok": a clean exit of a harness that read and reported to the end.
Succeeded == how = "exited" /\ reader = "eof" /\ outcome = "entered"

\* Finish, best effort; the run is over.
Finish ==
    /\ pc = "finishing"
    /\ rows' \in {rows, [rows EXCEPT ![inv] = Row(IF Succeeded THEN "ok" ELSE "error", seen)]}
    /\ pc' = "idle" /\ reader' = "off" /\ seen' = 0 /\ outcome' = "entered" /\ how' = "exited"
    /\ fault' = FALSE /\ slots' = 0 /\ owned' = {}
    /\ out' = <<>> /\ stdin' = <<>> /\ uses' = 0
    /\ UNCHANGED <<inv, child, tool, guest, tracked, runs, history>>

\* The run's deadline or the client's disconnect kills the process group; a harness
\* that dies by itself ends the same way.
Kill ==
    /\ pc \in {"reading", "waiting"}
    /\ how # "killed"
    /\ how' = "killed"
    /\ child' = "none"
    /\ tool' = Rest /\ stdin' = <<>>
    /\ UNCHANGED <<super, parser, fault, slots, owned, out, guest, tracked, runs, uses, history>>

-----------------------------------------------------------------------------
(* parseHarnessStream and what the engine does with a line.                  *)

Next1 == Head(out)

\* The next line is one of these, and not part of the verdict.
Reads(tags) ==
    /\ pc = "reading" /\ reader = "line"
    /\ out # <<>> /\ Next1.tag \in tags
    /\ out' = Tail(out)

\* observeInstanceOpsBackgroundJob: an active job is tracked if there is room, a
\* terminal one is dropped.
Observed(j, live) ==
    IF ~live THEN tracked \ {j}
    ELSE IF j \notin tracked /\ Cardinality(tracked) >= MaxJobs THEN tracked
    ELSE tracked \cup {j}

ReadStep ==
    /\ Reads({"step"})
    /\ seen' = IF Next1.sent THEN seen + 1 ELSE seen
    /\ tracked' = IF Next1.job = Nobody THEN tracked ELSE Observed(Next1.job, Next1.flag)
    /\ UNCHANGED <<super, reader, outcome, how, harness, tool, stdin, guest, runs, uses, history>>

ReadJob ==
    /\ Reads({"job"})
    /\ tracked' = Observed(Next1.job, TRUE)
    /\ strayed' = IF tracked \subseteq owned \/ Next1.job \in tracked' THEN strayed
                  ELSE strayed \cup {Next1.job}
    /\ UNCHANGED <<super, parser, how, harness, tool, stdin, guest, runs, uses, entries, reached, missed>>

\* MUTANT: a request that the knowledge service cannot answer gets no reply.
ReadAskSilently ==
    /\ Reads({"ask"})
    /\ stdin' \in {stdin, Append(stdin, Next1.tool)}
    /\ UNCHANGED <<super, parser, how, harness, tool, guest, tracked, runs, uses, history>>

\* knowledgeBridge.handle answers every request, with a result or with an error class.
ReadAsk ==
    /\ Reads({"ask"})
    /\ stdin' = IF child = "none" THEN stdin ELSE Append(stdin, Next1.tool)
    /\ UNCHANGED <<super, parser, how, harness, tool, guest, tracked, runs, uses, history>>

ReadOutcome ==
    /\ Reads({"outcome"})
    /\ outcome' = IF Next1.flag THEN "failed" ELSE "entered"
    /\ UNCHANGED <<super, reader, seen, how, harness, tool, stdin, guest, tracked, runs, uses, history>>

\* The verdict block: every line up to its end is text of the verdict.
ReadVerdict ==
    /\ pc = "reading" /\ reader \in {"line", "verdict"} /\ out # <<>>
    /\ reader = "verdict" \/ Next1.tag \in {"verdict", "end"}
    /\ out' = Tail(out)
    /\ reader' = CASE Next1.tag = "verdict" -> "verdict" [] Next1.tag = "end" -> "line" [] OTHER -> reader
    /\ UNCHANGED <<super, seen, outcome, how, harness, tool, stdin, guest, tracked, runs, uses, history>>

\* The pipe is empty and its writer gone.
Eof ==
    /\ pc = "reading" /\ child = "none" /\ out = <<>>
    /\ pc' = "waiting" /\ reader' = "eof"
    /\ UNCHANGED <<inv, rows, seen, outcome, how, harness, tool, pipes, guest, tracked, runs, uses, history>>

Announced == {out[n].job : n \in {m \in DOMAIN out : out[m].tag = "job"}}

\* A line over 256 KiB or a stream over 1 MiB: the parser returns, the harness runs on.
Overflow ==
    /\ pc = "reading" /\ out # <<>>
    /\ pc' = "waiting" /\ reader' = "lost"
    /\ strayed' = strayed \cup Announced
    /\ UNCHANGED <<inv, rows, seen, outcome, how, harness, tool, pipes, guest, tracked, runs, uses, entries, reached, missed>>

-----------------------------------------------------------------------------
(* main() of the harness.                                                    *)

Write(tag, t, j, sent, flag) ==
    /\ Len(out) < PipeSize
    /\ out' = Append(out, [tag |-> tag, tool |-> t, job |-> j, sent |-> sent, flag |-> flag])

Mark(tag, flag) == Write(tag, Nobody, Nobody, FALSE, flag)

Becomes(l) == child' = l /\ UNCHANGED <<slots, owned>>

outside == <<super, parser, tracked, runs>>

\* preflight_probe logs in, or reports that it could not.
Dial ==
    /\ child = "dialing"
    /\ \/ /\ Becomes("looping")
          /\ entries' = [entries EXCEPT ![inv] = @ + 1]
          /\ UNCHANGED fault
       \/ Becomes("outcome") /\ fault' = TRUE /\ UNCHANGED entries
    /\ UNCHANGED <<outside, how, tool, pipes, guest, uses, reached, missed, strayed>>

\* The SDK's stream ends with a result or an error once its tool calls are done.
SdkEnds ==
    /\ child = "looping" /\ tool = Rest
    /\ Becomes("outcome")
    /\ fault' \in BOOLEAN
    /\ UNCHANGED <<outside, how, tool, pipes, guest, uses, history>>

\* It raises, or the read-progress guard stops it, with tool calls still running.
SdkFails ==
    /\ child = "looping"
    /\ Becomes("outcome")
    /\ fault' = TRUE
    /\ UNCHANGED <<outside, how, tool, pipes, guest, uses, history>>

EmitOutcome ==
    /\ child = "outcome"
    /\ Mark("outcome", fault)
    /\ Becomes("verdict")
    /\ UNCHANGED <<outside, how, fault, tool, stdin, guest, uses, history>>

EmitVerdict ==
    /\ \/ child = "verdict" /\ Mark("verdict", FALSE) /\ Becomes("end")
       \/ child = "end" /\ Mark("end", FALSE) /\ Becomes("joining")
    /\ UNCHANGED <<outside, how, fault, tool, stdin, guest, uses, history>>

\* asyncio.run returns after the last thread of its executor.
Exit ==
    /\ child = "joining" /\ tool = Rest
    /\ Becomes("none")
    /\ how' = "exited"
    /\ UNCHANGED <<outside, fault, tool, pipes, guest, uses, history>>

-----------------------------------------------------------------------------
(* The tool calls of the harness.  A call of ssh_exec settles in its thread; *)
(* the others settle in the event loop, which main() holds from the end of   *)
(* the stream on and cancels at the end.                                     *)

At(t, l) == child # "none" /\ tool[t].at = l
To(t, l) == tool' = [tool EXCEPT ![t].at = l]
Done(t) == tool' = [tool EXCEPT ![t] = Idle]

\* The model uses a tool.
Uses(t) ==
    /\ child = "looping" /\ tool[t] = Idle
    /\ uses < MaxUses
    /\ uses' = uses + 1

\* run_command in a thread.
Command(t) ==
    /\ Uses(t)
    /\ To(t, "command")
    /\ UNCHANGED <<outside, how, harness, pipes, guest, history>>

\* The command is sent to the guest.
Reach(t) ==
    /\ At(t, "command")
    /\ To(t, "ran")
    /\ reached' = [reached EXCEPT ![inv] = @ + 1]
    /\ UNCHANGED <<outside, how, harness, pipes, guest, uses, entries, missed, strayed>>

\* The one @@STEP of a command, from its finally: it ran, or it was refused or the
\* dial failed.
Report(t) ==
    /\ At(t, "command") \/ At(t, "ran")
    /\ Write("step", t, Nobody, tool[t].at = "ran", FALSE)
    /\ Done(t)
    /\ UNCHANGED <<outside, how, harness, stdin, guest, uses, history>>

\* Slots left once a job is reserved.
Reserve == slots - 1

\* MUTANT: the job is announced with the result of its launch.
LaunchUnannounced(t, j) ==
    /\ Uses(t)
    /\ slots > 0 /\ guest[j] = "new"
    /\ owned' = owned \cup {j}
    /\ slots' = Reserve
    /\ guest' = [guest EXCEPT ![j] = "absent"]
    /\ tool' = [tool EXCEPT ![t] = [at |-> "launch", job |-> j]]
    /\ UNCHANGED <<outside, how, child, fault, pipes, history>>

\* A job with a fresh id is reserved and announced before its launcher is sent.
Launch(t, j) ==
    /\ Uses(t)
    /\ slots > 0 /\ guest[j] = "new"
    /\ owned' = owned \cup {j}
    /\ slots' = Reserve
    /\ guest' = [guest EXCEPT ![j] = "absent"]
    /\ Write("job", t, j, FALSE, TRUE)
    /\ strayed' = IF reader = "lost" THEN strayed \cup {j} ELSE strayed
    /\ tool' = [tool EXCEPT ![t] = [at |-> "launch", job |-> j]]
    /\ UNCHANGED <<outside, how, child, fault, stdin, entries, reached, missed>>

\* remote_job.start sends the launcher, or its dial fails.
Send(t) ==
    /\ At(t, "launch")
    /\ \/ /\ To(t, "sent")
          /\ guest' = [guest EXCEPT ![tool[t].job] = "launching"]
          /\ reached' = [reached EXCEPT ![inv] = @ + 1]
       \/ To(t, "unsent") /\ UNCHANGED <<guest, reached>>
    /\ UNCHANGED <<outside, how, harness, pipes, uses, entries, missed, strayed>>

\* The job is no longer active: its slot is free.
Drop(j) ==
    /\ owned' = owned \ {j}
    /\ slots' = IF j \in owned THEN slots + 1 ELSE slots

\* The launch is recorded: started or of unknown outcome, or never sent.
Settle(t) ==
    /\ child = "looping"
    /\ tool[t].at \in {"sent", "unsent"}
    /\ LET sent == tool[t].at = "sent" IN
        /\ Write("step", t, tool[t].job, sent, sent)
        /\ IF sent THEN UNCHANGED <<slots, owned>> ELSE Drop(tool[t].job)
    /\ Done(t)
    /\ UNCHANGED <<outside, how, child, fault, stdin, guest, uses, history>>

\* poll_background_job, for an owned job whose launch was answered.
Poll(t, j) ==
    /\ Uses(t)
    /\ j \in owned
    /\ \A u \in Tools : tool[u].job = j => tool[u].at = "poll"
    /\ tool' = [tool EXCEPT ![t] = [at |-> "poll", job |-> j]]
    /\ UNCHANGED <<outside, how, harness, pipes, guest, history>>

\* remote_job.poll answers that the job is active or unknown, or that it is over, which
\* it also says of a job that has not got as far as its directory and its process.
Polled(t) ==
    /\ child = "looping" /\ tool[t].at = "poll"
    /\ LET j == tool[t].job IN
        \/ /\ Write("step", t, j, FALSE, TRUE)
           /\ UNCHANGED <<slots, owned, missed>>
        \/ /\ guest[j] # "running"
           /\ Write("step", t, j, FALSE, FALSE)
           /\ Drop(j)
           /\ missed' = IF guest[j] = "launching" THEN missed \cup {j} ELSE missed
    /\ Done(t)
    /\ UNCHANGED <<outside, how, child, fault, stdin, guest, uses, entries, reached, strayed>>

\* The event loop ends before the call could be recorded.
Abandon(t) ==
    /\ child = "joining"
    /\ tool[t].at \in {"sent", "unsent", "poll"}
    /\ Done(t)
    /\ UNCHANGED <<outside, how, harness, pipes, guest, uses, history>>

\* A knowledge tool, in its thread.
Consult(t) ==
    /\ Uses(t)
    /\ To(t, "wanting")
    /\ UNCHANGED <<outside, how, harness, pipes, guest, history>>

\* MUTANT: requests are written without the lock.
AskUnlocked(t) ==
    /\ At(t, "wanting")
    /\ Write("ask", t, Nobody, FALSE, FALSE)
    /\ To(t, "asked")
    /\ UNCHANGED <<outside, how, harness, stdin, guest, uses, history>>

\* _request_platform_knowledge holds _SIDEBAND_LOCK over the request and its reply.
Ask(t) ==
    /\ At(t, "wanting")
    /\ \A u \in Tools : tool[u].at # "asked"
    /\ Write("ask", t, Nobody, FALSE, FALSE)
    /\ To(t, "asked")
    /\ UNCHANGED <<outside, how, harness, stdin, guest, uses, history>>

Hear(t) ==
    /\ At(t, "asked") /\ stdin # <<>>
    /\ stdin' = Tail(stdin)
    /\ Done(t)
    /\ UNCHANGED <<outside, how, harness, out, guest, uses, history>>

-----------------------------------------------------------------------------
(* The guest.                                                                *)

\* The launcher got through, or the job is over.
Progress(j) ==
    /\ guest' \in {[guest EXCEPT ![j] = s] : s \in
                    CASE guest[j] = "launching" -> {"running", "ended"}
                      [] guest[j] = "running" -> {"ended"}
                      [] OTHER -> {}}
    /\ UNCHANGED <<super, parser, how, harness, tool, pipes, tracked, runs, uses, history>>

Serve ==
    \/ \E i \in Invocations : Begin(i) \/ Refuse(i)
    \/ Spawn \/ SpawnFails \/ Reap \/ Finish
    \/ ReadStep \/ ReadJob \/ ReadAsk \/ ReadOutcome \/ ReadVerdict \/ Eof \/ Overflow

Main == Dial \/ SdkEnds \/ EmitOutcome \/ EmitVerdict \/ Exit

Work(t) ==
    \/ Reach(t) \/ Report(t) \/ Send(t) \/ Settle(t) \/ Polled(t) \/ Abandon(t) \/ Ask(t) \/ Hear(t)

Model(t) == Command(t) \/ Consult(t) \/ \E j \in Jobs : Launch(t, j) \/ Poll(t, j)

Next ==
    \/ Serve \/ Kill \/ Main \/ SdkFails
    \/ \E t \in Tools : Model(t) \/ Work(t)
    \/ \E j \in Jobs : Progress(j)

Spec == Init /\ [][Next]_vars

\* The supervisor's goroutine, the harness's threads and its event loop keep running.
\* The deadline is left out: what these promise, they promise without it.
Fairness == WF_vars(Serve) /\ WF_vars(Main) /\ \A t \in Tools : WF_vars(Work(t))

FairSpec == Spec /\ Fairness

-----------------------------------------------------------------------------
(* Properties.                                                               *)

\* A job that runs in the guest is tracked by the engine or announced on the stream,
\* whatever killed the run that launched it: the next turn polls it and does not start
\* it again.  A stream the parser gave up, or a poll before the job got going, loses it.
JobNotForgotten ==
    \A j \in Jobs : guest[j] = "running" =>
        j \in tracked \cup missed \cup strayed \cup Announced

\* The guest is entered once for an invocation, and only with its row in the table,
\* however often it is delivered and however the insert fails.
EnteredOnRecord ==
    \A i \in Invocations : entries[i] <= 1 /\ (entries[i] = 1 => rows[i].state # "none")

\* A row finished as "ok" accounts for every command of its run that reached the guest.
OkMeansComplete ==
    \A i \in Invocations : rows[i].state = "ok" => rows[i].steps = reached[i]

\* The audit rows tell the runs: whoever reads ssh_ops_audit finds a row for every entry
\* into a guest, never two entries for one row, and no "ok" that hides a command.
RowsTellTheRuns == EnteredOnRecord /\ OkMeansComplete

\* A reply is read by the call that asked for it, and none is left for the next one.
RepliesAreOwn == stdin # <<>> => \A t \in Tools : tool[t].at = "asked" => stdin = <<t>>

\* A knowledge call that is still out when main() writes the verdict: a request that
\* falls into the verdict block is never answered.
CallOutlivesStream == child \in {"verdict", "end", "joining"} /\ \E t \in Tools : tool[t].at = "asked"

\* A run ends without the help of its deadline, unless the parser gave the stream up or
\* a knowledge call outlived the SDK's stream.
RunsEnd == pc = "reading" ~> (pc = "idle" \/ reader = "lost" \/ CallOutlivesStream)

=============================================================================
