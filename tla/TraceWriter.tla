----------------------------- MODULE TraceWriter -----------------------------
(***************************************************************************)
(* The sink of the traces: MySQLWriter                                     *)
(* (src/internal/observability/mysql_writer.go).  Enqueue never blocks a   *)
(* turn: a trace that finds the queue full is dropped and counted.  One    *)
(* goroutine takes traces from the queue, inserts them in batches and      *)
(* deletes expired rows; Close lets it finish within a deadline.  Its six  *)
(* counters are how a degraded sink is noticed.                            *)
(***************************************************************************)
EXTENDS Naturals, Sequences, FiniteSets, SequencesExt, FiniteSetsExt

CONSTANTS Traces,      \* traces handed to Enqueue
          RequestOf,   \* the request UUID of a trace: unique in agent_traces
          Malformed,   \* traces that cannot be marshalled
          QueueSize, BatchSize,
          MaxFaults    \* statements that fail

WriterConstants == /\ IsFiniteSet(Traces) /\ Malformed \subseteq Traces
                   /\ QueueSize \in Nat \ {0} /\ BatchSize \in Nat \ {0} /\ MaxFaults \in Nat

VARIABLES sender,      \* Enqueue of a trace
          attempts, accepted, dropped, malformed, failed, succeeded,
          queue, batch, worker,
          table,       \* the traces whose row is in agent_traces
          expired,     \* those older than the retention
          swept,       \* those the sweep deleted
          late,        \* inserts given up after three seconds that may still commit
          closing,     \* the queue is closed
          closer,      \* the caller of Close
          crashed, faults

counters == <<attempts, accepted, dropped, malformed, failed, succeeded>>
rows == <<table, expired, swept, late>>
vars == <<sender, counters, queue, batch, worker, rows, closing, closer, crashed, faults>>

TypeOK ==
  /\ sender \in [Traces -> {"none", "counted", "sent", "refused", "accepted", "dropped"}]
  /\ \A n \in {attempts, accepted, dropped, malformed, failed, succeeded} :
       n \in 0..Cardinality(Traces)
  /\ queue \in Seq(Traces) /\ Len(queue) <= QueueSize
  /\ batch \in Seq(Traces) /\ Len(batch) <= BatchSize
  /\ worker \in {"sweeping", "idle", "flushing", "last", "done"}
  /\ table \subseteq Traces /\ expired \subseteq Traces /\ swept \subseteq Traces
  /\ late \subseteq SUBSET Traces
  /\ closing \in BOOLEAN /\ closer \in {"none", "waiting", "closed", "gave_up"}
  /\ crashed \in BOOLEAN /\ faults \in 0..MaxFaults

Init ==
  /\ sender = [t \in Traces |-> "none"]
  /\ attempts = 0 /\ accepted = 0 /\ dropped = 0 /\ malformed = 0 /\ failed = 0 /\ succeeded = 0
  /\ queue = <<>> /\ batch = <<>> /\ worker = "sweeping"
  /\ table = {} /\ expired = {} /\ swept = {} /\ late = {}
  /\ closing = FALSE /\ closer = "none" /\ crashed = FALSE /\ faults = 0

Alive == ~crashed

-----------------------------------------------------------------------------
(* Enqueue: the attempt is counted before the send, and its outcome after. *)

Sends(t, s) == sender' = [sender EXCEPT ![t] = s]

Attempt(t) ==
  /\ Alive /\ sender[t] = "none"
  /\ Sends(t, "counted") /\ attempts' = attempts + 1
  /\ UNCHANGED <<accepted, dropped, malformed, failed, succeeded, queue, batch, worker, rows,
                 closing, closer, crashed, faults>>

(* A send on a closed queue panics.                                        *)
Send(t) ==
  /\ Alive /\ sender[t] = "counted"
  /\ IF closing
     THEN crashed' = TRUE /\ UNCHANGED <<sender, queue>>
     ELSE /\ UNCHANGED crashed
          /\ IF Len(queue) < QueueSize
             THEN Sends(t, "sent") /\ queue' = Append(queue, t)
             ELSE Sends(t, "refused") /\ UNCHANGED queue
  /\ UNCHANGED <<counters, batch, worker, rows, closing, closer, faults>>

Count(t) ==
  /\ Alive /\ sender[t] \in {"sent", "refused"}
  /\ IF sender[t] = "sent"
     THEN Sends(t, "accepted") /\ accepted' = accepted + 1 /\ UNCHANGED dropped
     ELSE Sends(t, "dropped") /\ dropped' = dropped + 1 /\ UNCHANGED accepted
  /\ UNCHANGED <<attempts, malformed, failed, succeeded, queue, batch, worker, rows, closing,
                 closer, crashed, faults>>

-----------------------------------------------------------------------------
(* The worker.                                                             *)

Works(s) == worker' = s

(* A full batch is inserted at once; the queue is not read meanwhile.      *)
Take ==
  /\ Alive /\ worker = "idle" /\ queue # <<>>
  /\ batch' = Append(batch, Head(queue)) /\ queue' = Tail(queue)
  /\ Works(IF Len(batch) + 1 >= BatchSize THEN "flushing" ELSE "idle")
  /\ UNCHANGED <<sender, counters, rows, closing, closer, crashed, faults>>

Tick ==
  /\ Alive /\ worker = "idle" /\ batch # <<>>
  /\ Works("flushing")
  /\ UNCHANGED <<sender, counters, queue, batch, rows, closing, closer, crashed, faults>>

\* MUTANT: the queue is closed, and what waits in the batch is forgotten.
ForgetsBatch == "done"

(* The queue is closed and empty: one last flush.                          *)
LastBatch == IF batch = <<>> THEN "done" ELSE "last"

Drained ==
  /\ Alive /\ worker = "idle" /\ queue = <<>> /\ closing
  /\ Works(LastBatch)
  /\ UNCHANGED <<sender, counters, queue, batch, rows, closing, closer, crashed, faults>>

Candidates == ToSet(batch) \ Malformed

(* ON CONFLICT (request_uuid) DO NOTHING: of the traces of one request the *)
(* first stays.  Those in the batch come in its order.                     *)
Inserted(ts) ==
  LET free == {t \in ts : \A u \in table : RequestOf[u] # RequestOf[t]}
      Before(u, t) == \E i, j \in DOMAIN batch : i < j /\ batch[i] = u /\ batch[j] = t
  IN  {t \in free : ~\E u \in free : RequestOf[u] = RequestOf[t] /\ Before(u, t)}

(* insertBatch and flush.  What cannot be marshalled is skipped; a batch   *)
(* of nothing else sends no statement.  The statement has three seconds,   *)
(* and one that is given up may still commit, now or later.                *)
Flush(result) ==
  /\ Alive /\ worker \in {"flushing", "last"}
  /\ Candidates = {} => result = "ok"
  /\ result # "ok" => faults < MaxFaults
  /\ faults' = IF result = "ok" THEN faults ELSE faults + 1
  /\ malformed' = malformed + Len(batch) - Cardinality(Candidates)
  /\ IF result = "ok"
     THEN /\ succeeded' = succeeded + Cardinality(Candidates) /\ UNCHANGED failed
          /\ table' = table \cup Inserted(Candidates)
     ELSE /\ failed' = failed + Cardinality(Candidates) /\ UNCHANGED <<succeeded, table>>
  /\ late' = IF result = "timeout" THEN late \cup {Inserted(Candidates)} ELSE late
  /\ batch' = <<>>
  /\ Works(IF worker = "last" THEN "done" ELSE "idle")
  /\ UNCHANGED <<sender, attempts, accepted, dropped, queue, expired, swept, closing, closer,
                 crashed>>

LateCommit(ts) ==
  /\ ts \in late
  /\ late' = late \ {ts}
  /\ table' = table \cup {t \in ts : \A u \in table : RequestOf[u] # RequestOf[t]}
  /\ UNCHANGED <<sender, counters, queue, batch, worker, expired, swept, closing, closer,
                 crashed, faults>>

(* The retention: once at the start, then daily, in the same goroutine.    *)
SweepDue ==
  /\ Alive /\ worker = "idle" /\ expired \cap table # {}
  /\ Works("sweeping")
  /\ UNCHANGED <<sender, counters, queue, batch, rows, closing, closer, crashed, faults>>

Sweep(ok) ==
  /\ Alive /\ worker = "sweeping"
  /\ Works("idle")
  /\ ok \/ faults < MaxFaults
  /\ faults' = IF ok THEN faults ELSE faults + 1
  /\ table' = IF ok THEN table \ expired ELSE table
  /\ swept' = IF ok THEN swept \cup (table \cap expired) ELSE swept
  /\ UNCHANGED <<sender, counters, queue, batch, expired, late, closing, closer, crashed>>

Expire ==
  /\ table \ expired # {}
  /\ expired' = expired \cup table
  /\ UNCHANGED <<sender, counters, queue, batch, worker, table, swept, late, closing, closer,
                 crashed, faults>>

-----------------------------------------------------------------------------
(* Close: the queue is closed, then the worker or the deadline is awaited; *)
(* only a worker that is done has its database closed.                     *)
Close ==
  /\ Alive /\ closer = "none"
  /\ closing' = TRUE /\ closer' = "waiting"
  /\ UNCHANGED <<sender, counters, queue, batch, worker, rows, crashed, faults>>

Closed ==
  /\ Alive /\ closer = "waiting" /\ worker = "done"
  /\ closer' = "closed"
  /\ UNCHANGED <<sender, counters, queue, batch, worker, rows, closing, crashed, faults>>

GiveUp ==
  /\ Alive /\ closer = "waiting"
  /\ closer' = "gave_up"
  /\ UNCHANGED <<sender, counters, queue, batch, worker, rows, closing, crashed, faults>>

-----------------------------------------------------------------------------
Next ==
  \/ \E t \in Traces : Attempt(t) \/ Send(t) \/ Count(t)
  \/ Take \/ Tick \/ Drained
  \/ \E result \in {"ok", "error", "timeout"} : Flush(result)
  \/ \E ts \in late : LateCommit(ts)
  \/ SweepDue \/ (\E ok \in BOOLEAN : Sweep(ok)) \/ Expire
  \/ Close \/ Closed \/ GiveUp

Spec == Init /\ [][Next]_vars

-----------------------------------------------------------------------------
Sent(t) == sender[t] \in {"sent", "accepted"}
Waiting == ToSet(queue) \cup ToSet(batch)

(* No trace goes unaccounted for, although counters, queue and table are   *)
(* never updated together: what left the queue is counted once, under one  *)
(* heading; once Close has seen the worker end, nothing waits and the      *)
(* counters add up; a request has one row at most, and a trace that was    *)
(* neither waiting, counted as lost nor swept has it.                      *)
TracesAreAccounted ==
  /\ malformed + failed + succeeded + Cardinality(Waiting)
       = Cardinality({t \in Traces : Sent(t)})
  /\ closer = "closed" /\ (\A t \in Traces : sender[t] \in {"none", "accepted", "dropped"}) =>
       /\ Waiting = {}
       /\ attempts = accepted + dropped
       /\ accepted = malformed + failed + succeeded
  /\ \A t, u \in table : RequestOf[t] = RequestOf[u] => t = u
  /\ faults = 0 =>
       \A t \in Traces : Sent(t) /\ t \notin Waiting \cup Malformed =>
         \E u \in table \cup swept : RequestOf[u] = RequestOf[t]
=============================================================================
