------------------------------- MODULE RemoteJob -------------------------------
(***************************************************************************)
(* One background job of a guest: remote_job.py and the two tools of       *)
(* harness.py that start and poll it (src/deploy/ssh_ops_harness).         *)
(*                                                                         *)
(* A start publishes the job's handle and then runs a launcher over ssh: a *)
(* shell that makes the job's directory, starts the detached wrapper and   *)
(* writes its pid.  The wrapper takes on the job's mark, runs the command, *)
(* writes the exit status and ends.  A poll reads the directory, the       *)
(* status, the pid, the process and its identity, and the log, each with a *)
(* round trip of its own, while the guest goes on; what it makes of them   *)
(* decides whether the handle is kept.  Between polls the harness may be   *)
(* killed and started anew.                                                *)
(***************************************************************************)
EXTENDS Integers

CONSTANTS Window,   \* what one poll returns of a log, at most
          MaxLog,   \* bound: the size of the log
          MaxFaults \* bound: lost calls, failed reads, reboots and deaths

JobConstants == {Window, MaxLog, MaxFaults} \subseteq Nat

VARIABLES launcher,  \* how far the launching shell is
          directory, \* the job's directory is there
          pid,       \* its pid file
          status,    \* its status file
          wrapper,   \* the detached process, that comes to have the job's mark
          reused,    \* another process has its pid
          log,       \* the size of its log
          tracked,   \* the harness and the session hold the handle
          call,      \* the step of the call under way
          found,     \* the status that poll has read
          verdict,   \* the state it will tell
          told,      \* the state last told
          offset,    \* _JOB_POLL_OFFSETS of the job
          accounted, \* what of the log the model of this run was shown, or told that it is cut
          faithful,  \* no part was shown twice, and none was left out without a word
          early,     \* the last poll overtook the launch: the directory was not made yet,
                     \* or the wrapper did not have its mark
          wiped,     \* a reboot emptied /tmp
          misread,   \* the log could not be read
          faults

job     == <<launcher, directory, pid, status, wrapper, reused, log>>
poll    == <<call, found, verdict>>
answer  == <<told, offset, accounted, faithful>>
history == <<early, wiped, misread>>
vars    == <<job, tracked, poll, answer, history, faults>>

Unread   == -1
Terminal == {"succeeded", "failed", "interrupted", "not_found"}

TypeOK ==
  /\ launcher \in {"none", "asked", "made", "forked", "recorded", "stopped"}
  /\ directory \in BOOLEAN /\ pid \in BOOLEAN /\ status \in {"none", "zero", "other"}
  /\ wrapper \in {"none", "unmarked", "running", "ended"} /\ reused \in BOOLEAN /\ log \in 0..MaxLog
  /\ tracked \in BOOLEAN
  /\ call \in {"none", "start", "directory", "status", "pid", "process", "identity", "log"}
  /\ found \in {"none", "zero", "other"}
  /\ verdict \in Terminal \cup {"running", "unknown", "none"}
  /\ told \in Terminal \cup {"started", "running", "unknown", "none"}
  /\ offset \in Unread..MaxLog /\ accounted \in 0..MaxLog
  /\ faithful \in BOOLEAN /\ early \in BOOLEAN /\ wiped \in BOOLEAN /\ misread \in BOOLEAN
  /\ faults \in 0..MaxFaults

Init ==
  /\ launcher = "none" /\ directory = FALSE /\ pid = FALSE /\ status = "none"
  /\ wrapper = "none" /\ reused = FALSE /\ log = 0
  /\ tracked = FALSE /\ call = "none" /\ found = "none" /\ verdict = "none"
  /\ told = "none" /\ offset = Unread /\ accounted = 0 /\ faithful = TRUE
  /\ early = FALSE /\ wiped = FALSE /\ misread = FALSE /\ faults = 0

Fault == faults < MaxFaults /\ faults' = faults + 1

-----------------------------------------------------------------------------
(* The guest.                                                              *)

MakeDirectory ==
  /\ launcher = "asked" /\ launcher' = "made" /\ directory' = TRUE
  /\ UNCHANGED <<pid, status, wrapper, reused, log>>

Fork ==
  /\ launcher = "made" /\ launcher' = "forked" /\ wrapper' = "unmarked"
  /\ UNCHANGED <<directory, pid, status, reused, log>>

\* The child becomes nohup, then env, and then the shell that has the mark, while the
\* launcher goes on.
Mark ==
  /\ wrapper = "unmarked" /\ wrapper' = "running"
  /\ UNCHANGED <<launcher, directory, pid, status, reused, log>>

WritePid ==
  /\ launcher = "forked" /\ launcher' = "recorded" /\ pid' = TRUE
  /\ UNCHANGED <<directory, status, wrapper, reused, log>>

Announce ==
  /\ wrapper = "running" /\ status = "none" /\ log < MaxLog /\ log' = log + 1
  /\ UNCHANGED <<launcher, directory, pid, status, wrapper, reused>>

\* The exit status takes its place at once, and then the wrapper ends.
Complete ==
  /\ wrapper = "running" /\ status = "none" /\ status' \in {"zero", "other"}
  /\ UNCHANGED <<launcher, directory, pid, wrapper, reused, log>>

End ==
  /\ wrapper = "running" /\ status # "none" /\ wrapper' = "ended"
  /\ UNCHANGED <<launcher, directory, pid, status, reused, log>>

Reuse ==
  /\ wrapper = "ended" /\ pid /\ ~reused /\ reused' = TRUE
  /\ UNCHANGED <<launcher, directory, pid, status, wrapper, log>>

Alive   == wrapper \in {"unmarked", "running"}
Ended   == IF Alive THEN "ended" ELSE wrapper
Stopped == IF launcher \in {"asked", "made", "forked"} THEN "stopped" ELSE launcher

\* The wrapper is killed; or the launcher reaches its bound, with all it started.
Dies ==
  /\ Fault /\ wrapper' = Ended
  /\ \/ Alive /\ UNCHANGED launcher
     \/ launcher # Stopped /\ launcher' = Stopped
  /\ UNCHANGED <<directory, pid, status, reused, log, history>>

\* All processes end; /tmp may be emptied, and then the pid file is gone too.
Reboot ==
  /\ Fault /\ launcher # "none"
  /\ wrapper' = Ended /\ launcher' = Stopped
  /\ \/ UNCHANGED <<directory, pid, status, reused, log, wiped>>
     \/ /\ directory' = FALSE /\ pid' = FALSE /\ status' = "none" /\ log' = 0
        /\ wiped' = TRUE /\ UNCHANGED reused
  /\ UNCHANGED <<early, misread>>

Guest ==
  /\ \/ /\ MakeDirectory \/ Fork \/ Mark \/ WritePid \/ Announce \/ Complete \/ End \/ Reuse
        /\ UNCHANGED <<history, faults>>
     \/ Dies
     \/ Reboot
  /\ UNCHANGED <<tracked, poll, answer>>

-----------------------------------------------------------------------------
(* The harness.                                                            *)

\* ssh_exec with run_in_background: the handle is out before the launcher is asked for.
Launch ==
  /\ launcher = "none" /\ call = "none" /\ ~tracked /\ told = "none"
  /\ tracked' = TRUE /\ call' = "start" /\ launcher' = "asked"
  /\ UNCHANGED <<directory, pid, status, wrapper, reused, log, found, verdict, answer, history,
                 faults>>

Tell(state) == told' = state /\ call' = "none" /\ found' = "none" /\ verdict' = "none"

\* The guest was not reached: nothing was started.
Unreached ==
  /\ Fault /\ call = "start" /\ launcher = "asked"
  /\ launcher' = "none" /\ Tell("not_found") /\ tracked' = FALSE
  /\ UNCHANGED <<directory, pid, status, wrapper, reused, log, offset, accounted, faithful,
                 history>>

Started ==
  /\ call = "start" /\ launcher = "recorded" /\ Tell("started")
  /\ UNCHANGED <<job, tracked, offset, accounted, faithful, history, faults>>

\* The launcher failed or was stopped, or its answer did not come: it may have started.
StartUnknown ==
  /\ call = "start"
  /\ IF launcher = "stopped" THEN UNCHANGED faults ELSE Fault
  /\ Tell("unknown")
  /\ UNCHANGED <<job, tracked, offset, accounted, faithful, history>>

\* A run ends or is killed; the next one is handed the handle.
EndRun ==
  /\ call' = "none" /\ found' = "none" /\ verdict' = "none"
  /\ offset' = Unread /\ accounted' = 0
  /\ UNCHANGED <<job, tracked, told, faithful, history, faults>>

\* poll_background_job takes only a handle that is held.
Poll ==
  /\ call = "none" /\ tracked /\ call' = "directory" /\ early' = FALSE
  /\ UNCHANGED <<job, tracked, found, verdict, answer, wiped, misread, faults>>

\* The connection fails, or the directory cannot be looked at.
PollFails ==
  /\ call \in {"directory", "status", "pid", "process", "identity", "log"} /\ Fault
  /\ Tell("unknown")
  /\ UNCHANGED <<job, tracked, offset, accounted, faithful, history>>

ReadDirectory ==
  /\ call = "directory"
  /\ IF directory
       THEN call' = "status" /\ UNCHANGED <<tracked, found, verdict, told, offset, early>>
       ELSE /\ Tell("not_found") /\ tracked' = FALSE /\ offset' = Unread
            /\ early' = (launcher = "asked")
  /\ UNCHANGED <<job, accounted, faithful, wiped, misread, faults>>

ReadStatus ==
  /\ call = "status" /\ call' = "pid" /\ found' = status
  /\ UNCHANGED <<job, tracked, verdict, answer, history, faults>>

Concludes(state) == verdict' = state /\ call' = "log"

\* MUTANT: a job without a pid counts as interrupted.
InterruptedWithoutPid == "interrupted"

\* A launcher that has not written the pid may have started the job.
WithoutPid == "unknown"

ReadPid ==
  /\ call = "pid"
  /\ CASE found = "zero"         -> Concludes("succeeded")
       [] found = "other"        -> Concludes("failed")
       [] found = "none" /\ pid  -> call' = "process" /\ UNCHANGED verdict
       [] found = "none" /\ ~pid -> Concludes(WithoutPid)
  /\ UNCHANGED <<job, tracked, found, answer, history, faults>>

\* /proc/<pid>/stat is looked for, and then the mark in the environment.
ReadProcess ==
  /\ call = "process"
  /\ IF Alive \/ reused THEN call' = "identity" /\ UNCHANGED verdict
     ELSE Concludes("interrupted")
  /\ UNCHANGED <<job, tracked, found, answer, history, faults>>

ReadIdentity ==
  /\ call = "identity"
  /\ Concludes(CASE wrapper = "running" -> "running"
                 [] wrapper # "running" /\ (Alive \/ reused) -> "interrupted"
                 [] ~Alive /\ ~reused -> "unknown")
  /\ early' = (wrapper = "unmarked")
  /\ UNCHANGED <<job, tracked, found, answer, wiped, misread, faults>>

\* A file or a process that is there and cannot be read.
Unreadable ==
  /\ call \in {"status", "pid", "process", "identity"} /\ Fault
  /\ call = "pid" => found = "none"
  /\ Concludes("unknown")
  /\ UNCHANGED <<job, tracked, found, answer, history>>

\* _read_optional_since: what came since the last poll, and of that the newest part.
From  == IF offset = Unread \/ offset > log THEN 0 ELSE offset
Cut   == log - From > Window
Since == IF Cut THEN log - Window ELSE From

\* The handle goes with a terminal state, and the offset with it.
Answers(total) ==
  /\ Tell(verdict)
  /\ tracked' = (verdict \notin Terminal)
  /\ offset' = IF verdict \in Terminal THEN Unread ELSE total

ReadLog ==
  /\ call = "log" /\ Answers(log)
  /\ accounted' = log
  /\ faithful' = (faithful /\ Since >= accounted /\ (Since = accounted \/ Cut))
  /\ UNCHANGED <<job, history, faults>>

LogUnreadable ==
  /\ call = "log" /\ Fault /\ Answers(0) /\ misread' = TRUE
  /\ UNCHANGED <<job, accounted, faithful, early, wiped>>

Harness ==
  \/ Launch \/ Unreached \/ Started \/ StartUnknown \/ EndRun \/ Poll \/ PollFails
  \/ ReadDirectory \/ ReadStatus \/ ReadPid \/ ReadProcess \/ ReadIdentity \/ Unreadable
  \/ ReadLog \/ LogUnreadable

Next == Guest \/ Harness

Spec == Init /\ [][Next]_vars

-----------------------------------------------------------------------------
(* Properties.                                                             *)

\* The command is running, or will be.
Pending == launcher \in {"asked", "made"} \/ (Alive /\ status = "none")

(* The handle of a job goes only when the job can do nothing any more,       *)
(* whatever was lost: the next turn polls it and does not start it again     *)
(* (harness.py:2230).  A poll that overtakes the launch drops it: it looks   *)
(* for the directory before that is made, or finds the process before it     *)
(* has its mark (remote_job.py:366).                                         *)
HandleOutlivesJob == launcher # "none" /\ ~tracked => ~Pending \/ early

(* A state that ends the tracking is the job's: its exit status, its death   *)
(* or its absence, unless the poll overtook the launch.                      *)
VerdictIsTrue ==
  ~wiped =>
    /\ told = "succeeded" => status = "zero"
    /\ told = "failed" => status = "other"
    /\ told = "interrupted" => wrapper = "ended" \/ early
    /\ told = "not_found" => ~directory \/ early

(* The polls of a run show each byte of the log once, and say where they     *)
(* left some out (remote_job.py:36), as long as it can be read.              *)
LogIsShownOnce == faithful \/ misread \/ wiped

JobsAreFollowed == HandleOutlivesJob /\ VerdictIsTrue /\ LogIsShownOnce

(* "interrupted" means no completion record and no process                   *)
(* (remote_job.py:38), said by a poll that did not overtake the launch.      *)
InterruptedLeftNoRecord == told = "interrupted" /\ ~early => status = "none"
=============================================================================
