-------------------------- MODULE SessionRuns_proofs --------------------------
(***************************************************************************)
(* Proofs about a session and the runs it makes in guests.                 *)
(*                                                                         *)
(* First the runs (SshRun).  Their invariant has a part for each thing     *)
(* that a step could upset: what is at rest (Quiet), who waits for a reply *)
(* (Asked), the order of main()'s lines (Ordered), how a fault becomes     *)
(* known (Faulted), the audit rows and the count of commands (Recorded,    *)
(* Counted), the room for cursors (Room), who holds a job (Reserved), and  *)
(* where a running job can be found (Followed).  Each part has a lemma     *)
(* with a step per action.                                                 *)
(*                                                                         *)
(* Then the session of MCSessionRuns, in its two parts: each is an         *)
(* instance of the component that ChatSession_proofs is about, so its      *)
(* theorems are instances of the theorems proved there.                    *)
(***************************************************************************)
EXTENDS MCSessionRuns, FiniteSetTheorems, FunctionTheorems, TLAPS

-----------------------------------------------------------------------------
(* The invariant of the runs.                                              *)

\* A harness that is gone has no calls, and nothing is on the pipes of a run that has not begun.
Quiet ==
  /\ child = "none" => tool = Rest /\ stdin = <<>>
  /\ pc \in {"idle", "started", "finishing"} => child = "none"
  /\ pc \in {"idle", "started"} => /\ out = <<>> /\ seen = 0 /\ ~fault /\ outcome = "entered"
                                   /\ how = "exited" /\ reader = "off"
  /\ pc = "idle" => owned = {} /\ slots = 0
  /\ pc \in {"waiting", "finishing"} => reader = "lost" \/ out = <<>>
  /\ how = "killed" \/ reader = "eof" => child = "none"
  /\ pc = "reading" => reader \in {"line", "verdict"}
  /\ pc = "waiting" => reader \in {"lost", "eof"}
  /\ child \in {"dialing", "looping"} => ~fault
  /\ reader = "off" => pc \in {"idle", "started", "finishing"}
  /\ reader = "off" /\ pc = "finishing" => how = "killed"

\* One call waits for a reply, and its request is on its way out or its answer on its way in.
Asked ==
  /\ \A n \in DOMAIN out : out[n].tag = "ask" => out[n].tool \in Tools
  /\ \A t, u \in Tools : tool[t].at = "asked" /\ tool[u].at = "asked" => t = u
  /\ \A n \in DOMAIN stdin : tool[stdin[n]].at = "asked"
  /\ Len(stdin) <= 1
  /\ child # "none" =>
       /\ \A n \in DOMAIN out : out[n].tag = "ask" => tool[out[n].tool].at = "asked" /\ stdin = <<>>
       /\ \A n, m \in DOMAIN out : out[n].tag = "ask" /\ out[m].tag = "ask" => n = m

\* What main() writes comes in order: no announcement and no outcome follows the verdict, and
\* no step does but in a run that is going to report its fault.
Ordered ==
  /\ child \in {"dialing", "looping", "outcome"} =>
       /\ \A n \in DOMAIN out : out[n].tag \notin {"outcome", "verdict", "end"}
       /\ reader # "verdict"
  /\ \A n, m \in DOMAIN out : n < m /\ out[n].tag \in {"verdict", "end"} =>
       /\ out[m].tag \notin {"job", "outcome"}
       /\ ~fault => out[m].tag # "step"
  /\ reader = "verdict" => \A n \in DOMAIN out :
       /\ out[n].tag \notin {"job", "outcome"}
       /\ ~fault => out[n].tag # "step"
  /\ ~fault /\ child \in {"outcome", "verdict", "end", "joining"} => tool = Rest

\* A fault is on its way to the parser, or known to it.
Faulted ==
  fault =>
    /\ \A n \in DOMAIN out : out[n].tag = "outcome" => out[n].flag
    /\ how # "killed" /\ reader # "lost" /\ child \notin {"dialing", "looping", "outcome"} =>
         outcome = "failed" \/ \E n \in DOMAIN out : out[n].tag = "outcome"

SentLines == {n \in DOMAIN out : out[n].tag = "step" /\ out[n].sent}
Running   == {t \in Tools : tool[t].at \in {"ran", "sent"}}

\* A row is there before its run does anything, and one finished as "ok" counts its commands.
Recorded ==
  /\ \A i \in Invocations : /\ rows[i].state = "none" => entries[i] = 0 /\ reached[i] = 0
                            /\ entries[i] <= 1
                            /\ rows[i].state = "ok" => rows[i].steps = reached[i]
  /\ pc # "idle" => rows[inv].state = "started"
  /\ pc = "started" \/ child = "dialing" => entries[inv] = 0
  /\ pc = "started" => reached[inv] = 0

\* A run without a fault accounts for its commands: parsed, on the pipe, or still at their call.
Counting == pc # "idle" /\ ~fault /\ how # "killed" /\ reader # "lost"

Counted ==
  /\ IsFiniteSet(Running)
  /\ Counting => reached[inv] = seen + Cardinality(SentLines) + Cardinality(Running)

Launcher(j) == \E t \in Tools : tool[t].at = "launch" /\ tool[t].job = j

\* What is never going to run again, or was reported gone too early.
Over(j) == j \in missed \/ guest[j] = "ended" \/ (guest[j] = "absent" /\ ~Launcher(j))

\* The engine has room for the cursors it has, and the harness for those it may add.
Room == Cardinality(owned) + slots <= MaxJobs /\ Cardinality(tracked) <= MaxJobs

NewJobs ==
  \A j \in Jobs : guest[j] = "new" =>
       /\ j \notin owned /\ j \notin tracked
       /\ \A t \in Tools : tool[t].job # j
       /\ \A n \in DOMAIN out : out[n].job # j

OwnCalls ==
  /\ \A t \in Tools : tool[t].at \in {"launch", "sent", "unsent"} =>
       \A u \in Tools : u # t => tool[u].job # tool[t].job
  /\ \A t \in Tools : tool[t].at \in {"launch", "sent", "unsent", "poll"} => tool[t].job \in Jobs
  /\ \A t \in Tools : tool[t].at \in {"launch", "unsent"} => guest[tool[t].job] = "absent"

LinesTell(j) ==
  \A n \in DOMAIN out : out[n].job = j =>
       /\ out[n].tag = "job" => j \in owned \/ Over(j)
       /\ out[n].tag = "step" /\ ~out[n].flag => Over(j)

\* A job that is not new has its call, its cursor or its line; a call that settles it is alone
\* with it; and a line that says a job is gone says so of a job that is over.
Reserved ==
  /\ NewJobs /\ OwnCalls /\ \A j \in Jobs : LinesTell(j)
  /\ \A n \in DOMAIN out : out[n].tag = "job" => out[n].job \in Jobs

Followed ==
  /\ \A j \in Jobs : guest[j] \in {"launching", "running"} \/ Launcher(j) =>
       j \in tracked \cup missed \cup strayed \cup Announced
  /\ reader = "lost" => Announced \subseteq strayed

IInv == TypeOK /\ Quiet /\ Asked /\ Ordered /\ Faulted /\ Recorded /\ Counted /\ Room /\ Reserved /\ Followed

-----------------------------------------------------------------------------
(* Sequences, lines and types.                                             *)

\* What a sequence is after its head was read, and after a line was written.
LEMMA TailFacts ==
    ASSUME NEW S, NEW q \in Seq(S), q # <<>>
    PROVE  /\ Tail(q) \in Seq(S) /\ Len(q) \in Nat /\ Len(q) > 0 /\ DOMAIN q = 1..Len(q)
           /\ Len(Tail(q)) = Len(q) - 1 /\ DOMAIN Tail(q) = 1..(Len(q) - 1)
           /\ Head(q) = q[1] /\ 1 \in DOMAIN q /\ Head(q) \in S
           /\ \A n \in DOMAIN Tail(q) : n + 1 \in DOMAIN q /\ Tail(q)[n] = q[n + 1]
OBVIOUS

\* What a sequence is after a line was written at its end.
LEMMA AppendFacts ==
    ASSUME NEW S, NEW q \in Seq(S), NEW x \in S
    PROVE  /\ Append(q, x) \in Seq(S) /\ Len(q) \in Nat /\ DOMAIN q = 1..Len(q)
           /\ Len(Append(q, x)) = Len(q) + 1 /\ DOMAIN Append(q, x) = DOMAIN q \cup {Len(q) + 1}
           /\ Append(q, x)[Len(q) + 1] = x /\ Len(q) + 1 \notin DOMAIN q
           /\ \A n \in DOMAIN q : Append(q, x)[n] = q[n]
OBVIOUS

\* A line that a harness writes.
LEMMA WriteTyped ==
    ASSUME TypeOK, NEW tag \in {"step", "job", "ask", "outcome", "verdict", "end"},
           NEW t \in Tools \cup {Nobody}, NEW j \in Jobs \cup {Nobody},
           NEW sent \in BOOLEAN, NEW flag \in BOOLEAN, Write(tag, t, j, sent, flag)
    PROVE  out' \in Seq(Line)
<1> DEFINE x == [tag |-> tag, tool |-> t, job |-> j, sent |-> sent, flag |-> flag]
<1>1. x \in Line
  BY DEF Line
<1>2. out' = Append(out, x) /\ out \in Seq(Line)
  BY DEF Write, TypeOK
<1> HIDE DEF x
<1> QED
  BY <1>1, <1>2, AppendFacts

\* An equality is a truth value, for the flags that are computed from one.
LEMMA TruthOfEquality == \A x, y : (x = y) \in BOOLEAN
BY Zenon

\* Types by group of variables.
RowsTyped == rows \in [Invocations -> [state : {"none", "started", "ok", "error"}, steps : Nat]]
ToolTyped == tool \in [Tools -> [at : {"idle", "command", "ran", "launch", "sent", "unsent", "poll",
                                     "wanting", "asked"}, job : Jobs \cup {Nobody}]]

\* The calls at rest have their type.
LEMMA RestTyped == Rest \in [Tools -> [at : {"idle", "command", "ran", "launch", "sent", "unsent",
                                            "poll", "wanting", "asked"}, job : Jobs \cup {Nobody}]]
BY DEF Rest, Idle

\* A row has its type.
LEMMA RowTyped ==
    ASSUME NEW s \in {"none", "started", "ok", "error"}, NEW n \in Nat
    PROVE  Row(s, n) \in [state : {"none", "started", "ok", "error"}, steps : Nat]
BY DEF Row

\* The initial state is of the right types.
LEMMA TypeInit == Init => TypeOK
<1> SUFFICES ASSUME Init PROVE TypeOK
  OBVIOUS
<1>1. tool = Rest /\ rows = [i \in Invocations |-> Row("none", 0)]
  BY DEF Init
<1>2. ToolTyped
  BY <1>1, RestTyped DEF ToolTyped
<1>3. RowsTyped
  BY <1>1, RowTyped DEF RowsTyped
<1>4. fault \in BOOLEAN
  BY DEF Init
<1>5. out \in Seq(Line) /\ stdin \in Seq(Tools)
  BY DEF Init
<1> QED
  BY <1>2, <1>3, <1>4, <1>5 DEF Init, TypeOK, ToolTyped, RowsTyped

\* The engine tracks jobs only.
LEMMA ObservedTyped ==
    ASSUME TypeOK, NEW j \in Jobs, NEW live \in BOOLEAN
    PROVE  Observed(j, live) \subseteq Jobs
BY DEF TypeOK, Observed

\* The calls of the tools, whatever becomes of one.
LEMMA ToolStep ==
    ASSUME ToolTyped, NEW t \in Tools
    PROVE  /\ \A l \in {"idle", "command", "ran", "launch", "sent", "unsent", "poll", "wanting", "asked"} :
                To(t, l) => ToolTyped'
           /\ Done(t) => ToolTyped'
           /\ \A j \in Jobs : tool' = [tool EXCEPT ![t] = [at |-> "launch", job |-> j]] => ToolTyped'
           /\ \A j \in Jobs : tool' = [tool EXCEPT ![t] = [at |-> "poll", job |-> j]] => ToolTyped'
BY DEF ToolTyped, To, Done, Idle

\* Every step keeps the types; the slots of jobs and the lines of requests need Room, Asked and Reserved.
LEMMA TypeStep == TypeOK /\ Room /\ Asked /\ Reserved /\ [Next]_vars => TypeOK'
<1> SUFFICES ASSUME TypeOK, Room, Asked, Reserved, [Next]_vars PROVE TypeOK'
  OBVIOUS
<1> USE SshRunAssumption
<1>a. /\ \A n \in DOMAIN out : out[n] \in Line
      /\ ToolTyped /\ RowsTyped /\ seen \in Nat /\ out \in Seq(Line) /\ stdin \in Seq(Tools)
  BY DEF TypeOK, ToolTyped, RowsTyped
<1>1. CASE Serve
  <2>1. ASSUME NEW i \in Invocations, Begin(i) \/ Refuse(i) PROVE TypeOK'
    <3>1. RowsTyped'
      <4>1. Row("started", 0) \in [state : {"none", "started", "ok", "error"}, steps : Nat]
        BY RowTyped
      <4>2. rows' = rows \/ rows' = [rows EXCEPT ![i] = Row("started", 0)]
        BY <2>1 DEF Begin, Refuse
      <4> QED
        BY <1>a, <4>1, <4>2 DEF RowsTyped
    <3>2. /\ pc' \in {pc, "started"} /\ inv' \in Invocations /\ runs' = runs + 1
          /\ UNCHANGED <<parser, how, harness, tool, pipes, guest, tracked, uses, history>>
      BY <2>1 DEF Begin, Refuse, TypeOK
    <3> QED
      BY <3>1, <3>2 DEF TypeOK, RowsTyped, parser, harness, pipes, history
  <2>2. CASE Spawn
    <3>1. MaxJobs - Cardinality(tracked) \in Nat
      <4>1. Cardinality(tracked) \in Nat
        BY FS_CardinalityType, FS_Subset DEF TypeOK
      <4> QED
        BY <4>1 DEF Room
    <3> QED
      BY <2>2, <3>1 DEF Spawn, TypeOK, pipes, history
  <2>3. CASE SpawnFails \/ Reap
    BY <2>3 DEF SpawnFails, Reap, TypeOK, parser, harness, pipes, history
  <2>4. CASE Finish
    <3>1. RowsTyped'
      <4>1. Row("ok", seen) \in [state : {"none", "started", "ok", "error"}, steps : Nat]
            /\ Row("error", seen) \in [state : {"none", "started", "ok", "error"}, steps : Nat]
        BY <1>a, RowTyped
      <4>2. rows' = rows \/ rows' = [rows EXCEPT ![inv] = Row("ok", seen)]
            \/ rows' = [rows EXCEPT ![inv] = Row("error", seen)]
        BY <2>4 DEF Finish
      <4> QED
        BY <1>a, <4>1, <4>2 DEF RowsTyped
    <3>2. out' \in Seq(Line) /\ stdin' \in Seq(Tools)
      BY <2>4 DEF Finish
    <3> QED
      BY <2>4, <3>1, <3>2 DEF Finish, TypeOK, RowsTyped, history
  <2>5. CASE ReadStep
    <3>1. /\ out # <<>> /\ out' = Tail(out) /\ Next1 \in Line
      BY <1>a, <2>5, TailFacts DEF ReadStep, Reads, Next1
    <3>2. tracked' \subseteq Jobs
      <4>1. Next1.job # Nobody => Next1.job \in Jobs /\ Next1.flag \in BOOLEAN
        BY <3>1 DEF Line
      <4> QED
        BY <2>5, <4>1, ObservedTyped DEF ReadStep, TypeOK
    <3>3. seen' \in Nat /\ out' \in Seq(Line)
      BY <1>a, <2>5, <3>1, TailFacts DEF ReadStep
    <3> QED
      BY <2>5, <3>2, <3>3 DEF ReadStep, TypeOK, super, harness, history
  <2>6. CASE ReadJob
    <3>1. /\ out # <<>> /\ out' = Tail(out) /\ Next1 \in Line /\ out' \in Seq(Line) /\ 1 \in DOMAIN out
          /\ Next1 = out[1] /\ Next1.tag = "job"
      BY <1>a, <2>6, TailFacts DEF ReadJob, Reads, Next1
    <3>2. Next1.job \in Jobs
      BY <3>1 DEF Reserved
    <3>3. tracked' \subseteq Jobs
      BY <2>6, <3>2, ObservedTyped DEF ReadJob
    <3>4. strayed' \subseteq Jobs
      BY <2>6, <3>2 DEF ReadJob, TypeOK
    <3> QED
      BY <2>6, <3>1, <3>3, <3>4 DEF ReadJob, TypeOK, super, parser, harness
  <2>7. CASE ReadAsk
    <3>1. /\ out # <<>> /\ out' = Tail(out) /\ Next1 \in Line /\ out' \in Seq(Line) /\ 1 \in DOMAIN out
          /\ Next1 = out[1] /\ Next1.tag = "ask"
      BY <1>a, <2>7, TailFacts DEF ReadAsk, Reads, Next1
    <3>2. Next1.tool \in Tools
      BY <3>1 DEF Asked
    <3>3. stdin' \in Seq(Tools)
      BY <1>a, <2>7, <3>2, AppendFacts DEF ReadAsk
    <3> QED
      BY <2>7, <3>1, <3>3 DEF ReadAsk, TypeOK, super, parser, harness, history
  <2>8. CASE ReadOutcome \/ ReadVerdict
    <3>1. /\ out # <<>> /\ out' = Tail(out) /\ out' \in Seq(Line)
      BY <1>a, <2>8, TailFacts DEF ReadOutcome, ReadVerdict, Reads, Next1
    <3> QED
      BY <2>8, <3>1 DEF ReadOutcome, ReadVerdict, TypeOK, super, harness, history
  <2>9. CASE Eof
    BY <2>9 DEF Eof, TypeOK, harness, pipes, history
  <2>10. CASE Overflow
    <3>1. Announced \subseteq Jobs
      BY DEF Announced, Reserved
    <3> QED
      BY <2>10, <3>1 DEF Overflow, TypeOK, harness, pipes
  <2> QED
    BY <1>1, <2>1, <2>2, <2>3, <2>4, <2>5, <2>6, <2>7, <2>8, <2>9, <2>10 DEF Serve
<1>2. CASE Kill
  BY <1>2, RestTyped DEF Kill, TypeOK, super, parser, history
<1>3. CASE Main
  <2>1. CASE Dial
    <3>1. entries' = [entries EXCEPT ![inv] = @ + 1] \/ entries' = entries
      BY <2>1 DEF Dial
    <3>2. entries' \in [Invocations -> Nat]
      BY <3>1 DEF TypeOK
    <3>3. /\ child' \in {"looping", "outcome"} /\ fault' \in BOOLEAN
          /\ UNCHANGED <<outside, slots, owned, how, tool, pipes, guest, uses, reached, missed, strayed>>
      BY <2>1 DEF Dial, Becomes, TypeOK
    <3> QED
      BY <3>2, <3>3 DEF outside, TypeOK, super, parser, pipes
  <2>2. CASE SdkEnds \/ Exit
    BY <2>2 DEF SdkEnds, Exit, Becomes, outside, TypeOK, super, parser, pipes, history
  <2>3. CASE EmitOutcome
    <3>1. Write("outcome", Nobody, Nobody, FALSE, fault)
      BY <2>3 DEF EmitOutcome, Mark
    <3>2. fault \in BOOLEAN
      BY DEF TypeOK
    <3>3. out' \in Seq(Line)
      BY <3>1, <3>2, WriteTyped
    <3> QED
      BY <2>3, <3>3 DEF EmitOutcome, Becomes, outside, TypeOK, super, parser, history
  <2>4. CASE EmitVerdict
    <3>1. Write("verdict", Nobody, Nobody, FALSE, FALSE) \/ Write("end", Nobody, Nobody, FALSE, FALSE)
      BY <2>4 DEF EmitVerdict, Mark
    <3>2. out' \in Seq(Line)
      BY <3>1, WriteTyped
    <3> QED
      BY <2>4, <3>2 DEF EmitVerdict, Becomes, outside, TypeOK, super, parser, history
  <2> QED
    BY <1>3, <2>1, <2>2, <2>3, <2>4 DEF Main
<1>4. CASE SdkFails
  BY <1>4 DEF SdkFails, Becomes, outside, TypeOK, super, parser, pipes, history
<1>5. ASSUME NEW t \in Tools, Model(t) PROVE TypeOK'
  <2>1. CASE Command(t) \/ Consult(t)
    <3>1. ToolTyped'
      BY <1>a, <2>1, ToolStep DEF Command, Consult
    <3>2. uses' \in Nat
      BY <2>1 DEF Command, Consult, Uses, TypeOK
    <3> QED
      BY <2>1, <3>1, <3>2 DEF Command, Consult, ToolTyped, outside, TypeOK, super, parser, harness, pipes, history
  <2>2. ASSUME NEW j \in Jobs, Launch(t, j) PROVE TypeOK'
    <3>1. ToolTyped'
      BY <1>a, <2>2, ToolStep DEF Launch
    <3>2. uses' \in Nat /\ slots' \in Nat
      BY <2>2 DEF Launch, Uses, Reserve, TypeOK
    <3>3. out' \in Seq(Line)
      BY <2>2, WriteTyped DEF Launch
    <3>4. guest' \in [Jobs -> {"new", "absent", "launching", "running", "ended"}]
      BY <2>2 DEF Launch, TypeOK
    <3> QED
      BY <2>2, <3>1, <3>2, <3>3, <3>4 DEF Launch, ToolTyped, outside, TypeOK, super, parser
  <2>3. ASSUME NEW j \in Jobs, Poll(t, j) PROVE TypeOK'
    <3>1. ToolTyped'
      BY <1>a, <2>3, ToolStep DEF Poll
    <3>2. uses' \in Nat
      BY <2>3 DEF Poll, Uses, TypeOK
    <3> QED
      BY <2>3, <3>1, <3>2 DEF Poll, ToolTyped, outside, TypeOK, super, parser, harness, pipes, history
  <2> QED
    BY <1>5, <2>1, <2>2, <2>3 DEF Model
<1>6. ASSUME NEW t \in Tools, Work(t) PROVE TypeOK'
  <2>a. tool[t].at \in {"launch", "sent", "unsent", "poll"} => tool[t].job \in Jobs
    BY DEF Reserved, OwnCalls
  <2>1. CASE Reach(t)
    <3>1. ToolTyped'
      BY <1>a, <2>1, ToolStep DEF Reach
    <3> QED
      BY <2>1, <3>1 DEF Reach, ToolTyped, outside, TypeOK, super, parser, harness, pipes
  <2>2. CASE Report(t)
    <3>1. ToolTyped'
      BY <1>a, <2>2, ToolStep DEF Report
    <3>2. out' \in Seq(Line)
      BY <2>2, WriteTyped, TruthOfEquality DEF Report
    <3> QED
      BY <2>2, <3>1, <3>2 DEF Report, ToolTyped, outside, TypeOK, super, parser, harness, history
  <2>3. CASE Send(t)
    <3>1. ToolTyped'
      BY <1>a, <2>3, ToolStep DEF Send
    <3>2. guest' \in [Jobs -> {"new", "absent", "launching", "running", "ended"}]
      BY <2>3 DEF Send, TypeOK
    <3>3. reached' \in [Invocations -> Nat]
      <4>1. reached' = [reached EXCEPT ![inv] = @ + 1] \/ reached' = reached
        BY <2>3 DEF Send
      <4>2. reached \in [Invocations -> Nat]
        BY DEF TypeOK
      <4>3. \A n \in Nat : n + 1 \in Nat
        OBVIOUS
      <4> QED
        BY <4>1, <4>2, <4>3
    <3> QED
      BY <2>3, <3>1, <3>2, <3>3 DEF Send, ToolTyped, outside, TypeOK, super, parser, harness, pipes
  <2>4. CASE Settle(t)
    <3>1. ToolTyped'
      BY <1>a, <2>4, ToolStep DEF Settle
    <3>2. PICK sent \in BOOLEAN : Write("step", t, tool[t].job, sent, sent)
      BY <2>4, TruthOfEquality DEF Settle
    <3>3. tool[t].job \in Jobs
      BY <2>4, <2>a DEF Settle
    <3>4. out' \in Seq(Line)
      BY <3>2, <3>3, WriteTyped
    <3>5. slots' \in Nat /\ owned' \subseteq Jobs
      BY <2>4 DEF Settle, Drop, TypeOK
    <3> QED
      BY <2>4, <3>1, <3>4, <3>5 DEF Settle, ToolTyped, outside, TypeOK, super, parser, history
  <2>5. CASE Polled(t)
    <3>1. ToolTyped'
      BY <1>a, <2>5, ToolStep DEF Polled
    <3>2. PICK flag \in BOOLEAN : Write("step", t, tool[t].job, FALSE, flag)
      BY <2>5 DEF Polled
    <3>3. tool[t].job \in Jobs
      BY <2>5, <2>a DEF Polled
    <3>4. out' \in Seq(Line)
      BY <3>2, <3>3, WriteTyped
    <3>5. /\ slots' \in {slots, slots + 1} /\ owned' \subseteq owned
          /\ missed' \subseteq missed \cup {tool[t].job}
      BY <2>5 DEF Polled, Drop
    <3> QED
      BY <2>5, <3>1, <3>3, <3>4, <3>5 DEF Polled, ToolTyped, outside, TypeOK, super, parser
  <2>6. CASE Abandon(t)
    <3>1. ToolTyped'
      BY <1>a, <2>6, ToolStep DEF Abandon
    <3> QED
      BY <2>6, <3>1 DEF Abandon, ToolTyped, outside, TypeOK, super, parser, harness, pipes, history
  <2>7. CASE Ask(t)
    <3>1. ToolTyped'
      BY <1>a, <2>7, ToolStep DEF Ask
    <3>2. out' \in Seq(Line)
      BY <2>7, WriteTyped DEF Ask
    <3> QED
      BY <2>7, <3>1, <3>2 DEF Ask, ToolTyped, outside, TypeOK, super, parser, harness, history
  <2>8. CASE Hear(t)
    <3>1. ToolTyped'
      BY <1>a, <2>8, ToolStep DEF Hear
    <3>2. stdin' \in Seq(Tools)
      BY <1>a, <2>8, TailFacts DEF Hear
    <3> QED
      BY <2>8, <3>1, <3>2 DEF Hear, ToolTyped, outside, TypeOK, super, parser, harness, history
  <2> QED
    BY <1>6, <2>1, <2>2, <2>3, <2>4, <2>5, <2>6, <2>7, <2>8 DEF Work
<1>7. ASSUME NEW j \in Jobs, Progress(j) PROVE TypeOK'
  <2>1. guest' \in [Jobs -> {"new", "absent", "launching", "running", "ended"}]
    BY <1>7 DEF Progress, TypeOK
  <2> QED
    BY <1>7, <2>1 DEF Progress, TypeOK, super, parser, harness, pipes, history
<1>8. CASE UNCHANGED vars
  BY <1>8 DEF vars, TypeOK, super, parser, harness, pipes, history
<1> QED
  BY <1>1, <1>2, <1>3, <1>4, <1>5, <1>6, <1>7, <1>8 DEF Next

\* Sets of jobs are finite, and one job more or less counts for one.
LEMMA JobSets ==
    ASSUME NEW S \in SUBSET Jobs, NEW j
    PROVE  /\ IsFiniteSet(S) /\ Cardinality(S) \in Nat
           /\ Cardinality(S \cup {j}) = IF j \in S THEN Cardinality(S) ELSE Cardinality(S) + 1
           /\ Cardinality(S \ {j}) = IF j \in S THEN Cardinality(S) - 1 ELSE Cardinality(S)
<1>1. IsFiniteSet(S)
  BY SshRunAssumption, FS_Subset
<1> QED
  BY <1>1, FS_CardinalityType, FS_AddElement, FS_RemoveElement

\* The engine keeps within its room whatever it observes.
LEMMA ObservedRoom ==
    ASSUME tracked \subseteq Jobs, Cardinality(tracked) <= MaxJobs, NEW j, NEW live
    PROVE  Cardinality(Observed(j, live)) <= MaxJobs
<1>1. /\ Cardinality(tracked) \in Nat
      /\ Cardinality(tracked \cup {j}) = IF j \in tracked THEN Cardinality(tracked) ELSE Cardinality(tracked) + 1
      /\ Cardinality(tracked \ {j}) = IF j \in tracked THEN Cardinality(tracked) - 1 ELSE Cardinality(tracked)
  BY JobSets
<1> QED
  BY <1>1, SshRunAssumption DEF Observed

-----------------------------------------------------------------------------
(* What is at rest.                                                        *)

\* Quiet is inductive.
LEMMA QuietStep == TypeOK /\ Quiet /\ Asked /\ [Next]_vars => Quiet'
<1> SUFFICES ASSUME TypeOK, Quiet, Asked, [Next]_vars PROVE Quiet'
  OBVIOUS
<1>1. ASSUME NEW i \in Invocations, Begin(i) PROVE Quiet'
  BY <1>1 DEF Begin, parser, harness, pipes, history, Quiet, TypeOK
<1>2. ASSUME NEW i \in Invocations, Refuse(i) PROVE Quiet'
  BY <1>2 DEF Refuse, parser, harness, pipes, history, Quiet, TypeOK
<1>3. CASE Spawn
  BY <1>3 DEF Spawn, pipes, history, Quiet, TypeOK
<1>4. CASE SpawnFails \/ Reap
  BY <1>4 DEF SpawnFails, Reap, parser, harness, pipes, history, Quiet, TypeOK
<1>5. CASE Finish
  BY <1>5 DEF Finish, history, Quiet, TypeOK
<1>6. CASE ReadStep
  BY <1>6 DEF ReadStep, Reads, super, harness, history, Quiet, TypeOK
<1>7. CASE ReadJob
  BY <1>7 DEF ReadJob, Reads, super, parser, harness, Quiet, TypeOK
<1>8. CASE ReadAsk
  BY <1>8 DEF ReadAsk, Reads, super, parser, harness, history, Quiet, TypeOK
<1>9. CASE ReadOutcome \/ ReadVerdict \/ Eof \/ Overflow
  BY <1>9 DEF ReadOutcome, ReadVerdict, Eof, Overflow, Reads, super, harness, history, pipes,
     Quiet, TypeOK
<1>10. CASE Kill
  BY <1>10 DEF Kill, super, parser, history, Quiet, TypeOK
<1>11. CASE Dial
  BY <1>11 DEF Dial, Becomes, outside, super, parser, pipes, Quiet, TypeOK
<1>12. CASE SdkEnds
  BY <1>12 DEF SdkEnds, Becomes, outside, super, parser, pipes, history, Quiet, TypeOK
<1>13. CASE EmitOutcome \/ EmitVerdict
  BY <1>13 DEF EmitOutcome, EmitVerdict, Mark, Write, Becomes, outside, super, parser, history,
     Quiet, TypeOK
<1>14. CASE Exit
  <2>1. \A n \in DOMAIN stdin : FALSE
    BY <1>14 DEF Exit, Asked, Rest, Idle, TypeOK
  <2>2. stdin = <<>>
    BY <2>1, TailFacts DEF TypeOK
  <2> QED
    BY <1>14, <2>2 DEF Exit, Becomes, outside, super, parser, pipes, history, Quiet, TypeOK
<1>15. CASE SdkFails
  BY <1>15 DEF SdkFails, Becomes, outside, super, parser, pipes, history, Quiet, TypeOK
<1>16. ASSUME NEW t \in Tools, Command(t) \/ Consult(t) PROVE Quiet'
  BY <1>16 DEF Command, Consult, Uses, To, outside, super, parser, harness, pipes, history, Quiet,
     TypeOK
<1>17. ASSUME NEW t \in Tools, NEW j \in Jobs, Launch(t, j) PROVE Quiet'
  BY <1>17 DEF Launch, Uses, Write, Reserve, outside, super, parser, Quiet, TypeOK
<1>18. ASSUME NEW t \in Tools, NEW j \in Jobs, Poll(t, j) PROVE Quiet'
  BY <1>18 DEF Poll, Uses, outside, super, parser, harness, pipes, history, Quiet, TypeOK
<1>19. ASSUME NEW t \in Tools, Reach(t) \/ Abandon(t) PROVE Quiet'
  BY <1>19 DEF Reach, Abandon, At, To, outside, super, parser, harness, pipes, Done, history,
     Quiet, TypeOK
<1>20. ASSUME NEW t \in Tools, Report(t) \/ Ask(t) \/ Hear(t) PROVE Quiet'
  BY <1>20 DEF Report, Ask, Hear, At, Write, Done, outside, super, parser, harness, history, To,
     Quiet, TypeOK
<1>21. ASSUME NEW t \in Tools, Send(t) PROVE Quiet'
  BY <1>21 DEF Send, At, To, outside, super, parser, harness, pipes, Quiet, TypeOK
<1>22. ASSUME NEW t \in Tools, Settle(t) PROVE Quiet'
  BY <1>22 DEF Settle, Write, Drop, Done, outside, super, parser, history, Quiet, TypeOK
<1>23. ASSUME NEW t \in Tools, Polled(t) PROVE Quiet'
  BY <1>23 DEF Polled, Write, Drop, Done, outside, super, parser, Quiet, TypeOK
<1>24. ASSUME NEW j \in Jobs, Progress(j) PROVE Quiet'
  BY <1>24 DEF Progress, super, parser, harness, pipes, history, Quiet, TypeOK
<1>25. CASE UNCHANGED vars
  BY <1>25 DEF vars, super, parser, harness, pipes, history, Quiet, TypeOK
<1> QED
  BY <1>1, <1>2, <1>3, <1>4, <1>5, <1>6, <1>7, <1>8, <1>9, <1>10, <1>11, <1>12, <1>13, <1>14,
     <1>15, <1>16, <1>17, <1>18, <1>19, <1>20, <1>21, <1>22, <1>23, <1>24, <1>25 DEF Next, Serve,
     Main, Work, Model

\* Room is inductive.
LEMMA RoomStep == TypeOK /\ Quiet /\ Room /\ [Next]_vars => Room'
<1> SUFFICES ASSUME TypeOK, Quiet, Room, [Next]_vars PROVE Room'
  OBVIOUS
<1>1. ASSUME NEW i \in Invocations, Begin(i) \/ Refuse(i) PROVE Room'
  BY <1>1, SshRunAssumption DEF Begin, Refuse, parser, harness, pipes, history, Room
<1>2. CASE Spawn
  <2>1. owned' = tracked /\ slots' = MaxJobs - Cardinality(tracked) /\ tracked' = tracked
    BY <1>2 DEF Spawn
  <2>2. Cardinality(tracked) \in Nat
    BY JobSets DEF TypeOK
  <2> QED
    BY <2>1, <2>2, SshRunAssumption DEF Room
<1>3. CASE SpawnFails \/ Reap \/ ReadAsk \/ ReadOutcome \/ ReadVerdict \/ Eof \/ Overflow \/ Kill
  BY <1>3, SshRunAssumption DEF SpawnFails, Reap, ReadAsk, ReadOutcome, ReadVerdict, Eof,
     Overflow, Kill, parser, harness, pipes, history, Reads, super, Room
<1>4. CASE Finish
  <2>1. owned' = {} /\ slots' = 0 /\ tracked' = tracked
    BY <1>4 DEF Finish
  <2> QED
    BY <2>1, FS_EmptySet, SshRunAssumption DEF Room
<1>5. CASE ReadStep
  <2>1. Cardinality(tracked') <= MaxJobs /\ UNCHANGED <<owned, slots>>
    BY <1>5, ObservedRoom DEF ReadStep, Reads, super, parser, harness, history, Room, TypeOK
  <2> QED
    BY <2>1 DEF Room
<1>6. CASE ReadJob
  <2>1. Cardinality(tracked') <= MaxJobs /\ UNCHANGED <<owned, slots>>
    BY <1>6, ObservedRoom DEF ReadJob, Reads, super, parser, harness, history, Room, TypeOK
  <2> QED
    BY <2>1 DEF Room
<1>7. CASE Dial \/ SdkEnds \/ EmitOutcome \/ EmitVerdict \/ Exit \/ SdkFails
  BY <1>7, SshRunAssumption DEF Dial, SdkEnds, EmitOutcome, EmitVerdict, Exit, SdkFails, Becomes,
     outside, super, parser, pipes, history, Mark, Write, Room
<1>8. ASSUME NEW t \in Tools, Command(t) \/ Consult(t) \/ Reach(t) \/ Report(t) \/ Send(t) \/
       Abandon(t) \/ Ask(t) \/ Hear(t) PROVE Room'
  BY <1>8, SshRunAssumption DEF Command, Consult, Reach, Report, Send, Abandon, Ask, Hear, Uses,
     To, outside, super, parser, harness, pipes, history, At, Write, Done, Room
<1>9. ASSUME NEW t \in Tools, NEW j \in Jobs, Launch(t, j) PROVE Room'
  <2>1. /\ slots' = slots - 1 /\ owned' = owned \cup {j} /\ tracked' = tracked
        /\ slots \in Nat /\ owned \in SUBSET Jobs
    BY <1>9 DEF Launch, Reserve, outside, TypeOK
  <2>2. /\ Cardinality(owned) \in Nat
        /\ Cardinality(owned \cup {j}) \in {Cardinality(owned), Cardinality(owned) + 1}
    BY <2>1, JobSets
  <2> QED
    BY <2>1, <2>2, SshRunAssumption DEF Room
<1>10. ASSUME NEW t \in Tools, NEW j \in Jobs, Poll(t, j) PROVE Room'
  BY <1>10, SshRunAssumption DEF Poll, Uses, outside, super, parser, harness, pipes, history, Room
<1>11. ASSUME NEW t \in Tools, Settle(t) PROVE Room'
  <2>1. /\ tracked' = tracked /\ slots \in Nat /\ owned \in SUBSET Jobs
        /\ \/ owned' = owned /\ slots' = slots
           \/ /\ owned' = owned \ {tool[t].job}
              /\ slots' = IF tool[t].job \in owned THEN slots + 1 ELSE slots
    BY <1>11 DEF Settle, Drop, outside, TypeOK
  <2>2. /\ Cardinality(owned) \in Nat
        /\ Cardinality(owned \ {tool[t].job})
             = IF tool[t].job \in owned THEN Cardinality(owned) - 1 ELSE Cardinality(owned)
    BY <2>1, JobSets
  <2>3. CASE owned' = owned /\ slots' = slots
    BY <2>1, <2>3 DEF Room
  <2>4. CASE /\ owned' = owned \ {tool[t].job}
             /\ slots' = IF tool[t].job \in owned THEN slots + 1 ELSE slots
    <3>1. Cardinality(owned') + slots' = Cardinality(owned) + slots
      BY <2>1, <2>2, <2>4
    <3> QED
      BY <2>1, <3>1 DEF Room
  <2> QED
    BY <2>1, <2>3, <2>4
<1>12. ASSUME NEW t \in Tools, Polled(t) PROVE Room'
  <2>1. /\ tracked' = tracked /\ slots \in Nat /\ owned \in SUBSET Jobs
        /\ \/ owned' = owned /\ slots' = slots
           \/ /\ owned' = owned \ {tool[t].job}
              /\ slots' = IF tool[t].job \in owned THEN slots + 1 ELSE slots
    BY <1>12 DEF Polled, Drop, outside, TypeOK
  <2>2. /\ Cardinality(owned) \in Nat
        /\ Cardinality(owned \ {tool[t].job})
             = IF tool[t].job \in owned THEN Cardinality(owned) - 1 ELSE Cardinality(owned)
    BY <2>1, JobSets
  <2>3. CASE owned' = owned /\ slots' = slots
    BY <2>1, <2>3 DEF Room
  <2>4. CASE /\ owned' = owned \ {tool[t].job}
             /\ slots' = IF tool[t].job \in owned THEN slots + 1 ELSE slots
    <3>1. Cardinality(owned') + slots' = Cardinality(owned) + slots
      BY <2>1, <2>2, <2>4
    <3> QED
      BY <2>1, <3>1 DEF Room
  <2> QED
    BY <2>1, <2>3, <2>4
<1>13. ASSUME NEW j \in Jobs, Progress(j) PROVE Room'
  BY <1>13, SshRunAssumption DEF Progress, super, parser, harness, pipes, history, Room
<1>14. CASE UNCHANGED vars
  BY <1>14 DEF vars, super, parser, harness, pipes, history, Room
<1> QED
  BY <1>1, <1>2, <1>3, <1>4, <1>5, <1>6, <1>7, <1>8, <1>9, <1>10, <1>11, <1>12, <1>13, <1>14 DEF
     Next, Serve, Main, Work, Model

-----------------------------------------------------------------------------
(* Lines and calls.                                                        *)

\* What is on the pipe after a line was read, and after one was written at its end.
LEMMA ReadFacts ==
    ASSUME TypeOK, out # <<>>, out' = Tail(out)
    PROVE  /\ 1 \in DOMAIN out /\ Next1 = out[1]
           /\ \A n \in DOMAIN out' : n \in Nat \ {0} /\ n + 1 \in DOMAIN out /\ out'[n] = out[n + 1]
BY TailFacts DEF TypeOK, Next1

\* Every line but the first is still there after a read.
LEMMA ReadKeeps ==
    ASSUME TypeOK, out # <<>>, out' = Tail(out)
    PROVE  \A n \in DOMAIN out : n = 1 \/ \E m \in DOMAIN out' : out'[m] = out[n]
<1>1. DOMAIN out = 1..Len(out) /\ DOMAIN out' = 1..(Len(out) - 1) /\ Len(out) \in Nat
  BY TailFacts DEF TypeOK
<1>2. ASSUME NEW n \in DOMAIN out, n # 1 PROVE n - 1 \in DOMAIN out' /\ n = (n - 1) + 1
  BY <1>1, <1>2
<1> QED
  BY <1>2, ReadFacts

\* A line with these fields is now the last one.
Wrote(k, tag, t, j, sent, flag) ==
  /\ k \notin DOMAIN out /\ DOMAIN out' = DOMAIN out \cup {k}
  /\ \A n \in DOMAIN out : n \in Nat /\ n < k /\ out'[n] = out[n]
  /\ out'[k].tag = tag /\ out'[k].tool = t /\ out'[k].job = j
  /\ out'[k].sent = sent /\ out'[k].flag = flag

\* A write adds one line with its fields.
LEMMA WriteFacts ==
    ASSUME TypeOK, NEW tag \in {"step", "job", "ask", "outcome", "verdict", "end"},
           NEW t \in Tools \cup {Nobody}, NEW j \in Jobs \cup {Nobody},
           NEW sent \in BOOLEAN, NEW flag \in BOOLEAN, Write(tag, t, j, sent, flag)
    PROVE  \E k \in Nat : Wrote(k, tag, t, j, sent, flag)
<1> DEFINE x == [tag |-> tag, tool |-> t, job |-> j, sent |-> sent, flag |-> flag]
<1>1. /\ x \in Line /\ x.tag = tag /\ x.tool = t /\ x.job = j /\ x.sent = sent /\ x.flag = flag
      /\ out' = Append(out, x) /\ out \in Seq(Line)
  BY DEF Line, Write, TypeOK
<1> HIDE DEF x
<1> QED
  BY <1>1, AppendFacts DEF Wrote

\* The line that each action of the harness writes.
LEMMA Lines ==
    ASSUME TypeOK, Reserved
    PROVE  /\ EmitOutcome => \E k \in Nat : Wrote(k, "outcome", Nobody, Nobody, FALSE, fault)
           /\ EmitVerdict => \E k \in Nat :
                Wrote(k, IF child = "verdict" THEN "verdict" ELSE "end", Nobody, Nobody, FALSE, FALSE)
           /\ \A t \in Tools :
                /\ \A j \in Jobs : Launch(t, j) => \E k \in Nat : Wrote(k, "job", t, j, FALSE, TRUE)
                /\ Report(t) => \E k \in Nat : Wrote(k, "step", t, Nobody, tool[t].at = "ran", FALSE)
                /\ Settle(t) => \E k \in Nat :
                     Wrote(k, "step", t, tool[t].job, tool[t].at = "sent", tool[t].at = "sent")
                /\ Polled(t) => \E k \in Nat, flag \in BOOLEAN :
                     /\ Wrote(k, "step", t, tool[t].job, FALSE, flag)
                     /\ flag => UNCHANGED <<slots, owned, missed>>
                     /\ ~flag => /\ guest[tool[t].job] # "running" /\ Drop(tool[t].job)
                                 /\ missed' = IF guest[tool[t].job] = "launching"
                                              THEN missed \cup {tool[t].job} ELSE missed
                /\ Ask(t) => \E k \in Nat : Wrote(k, "ask", t, Nobody, FALSE, FALSE)
<1>1. EmitOutcome => \E k \in Nat : Wrote(k, "outcome", Nobody, Nobody, FALSE, fault)
  BY WriteFacts DEF EmitOutcome, Mark, TypeOK
<1>2. EmitVerdict => \E k \in Nat :
        Wrote(k, IF child = "verdict" THEN "verdict" ELSE "end", Nobody, Nobody, FALSE, FALSE)
  <2>1. EmitVerdict => Write(IF child = "verdict" THEN "verdict" ELSE "end", Nobody, Nobody, FALSE, FALSE)
    BY DEF EmitVerdict, Mark
  <2> QED
    BY <2>1, WriteFacts
<1>3. ASSUME NEW t \in Tools, NEW j \in Jobs, Launch(t, j)
      PROVE  \E k \in Nat : Wrote(k, "job", t, j, FALSE, TRUE)
  BY <1>3, WriteFacts DEF Launch
<1>4. ASSUME NEW t \in Tools, Report(t)
      PROVE  \E k \in Nat : Wrote(k, "step", t, Nobody, tool[t].at = "ran", FALSE)
  <2>1. Write("step", t, Nobody, tool[t].at = "ran", FALSE)
    BY <1>4 DEF Report
  <2> QED
    BY <2>1, WriteFacts, TruthOfEquality
<1>5. ASSUME NEW t \in Tools, Settle(t)
      PROVE  \E k \in Nat : Wrote(k, "step", t, tool[t].job, tool[t].at = "sent", tool[t].at = "sent")
  <2>1. Write("step", t, tool[t].job, tool[t].at = "sent", tool[t].at = "sent")
    BY <1>5 DEF Settle
  <2>2. tool[t].job \in Jobs \cup {Nobody} /\ (tool[t].at = "sent") \in BOOLEAN
    BY TruthOfEquality DEF TypeOK
  <2> QED
    BY <2>1, <2>2, WriteFacts
<1>6. ASSUME NEW t \in Tools, Polled(t)
      PROVE  \E k \in Nat, flag \in BOOLEAN :
               /\ Wrote(k, "step", t, tool[t].job, FALSE, flag)
               /\ flag => UNCHANGED <<slots, owned, missed>>
               /\ ~flag => /\ guest[tool[t].job] # "running" /\ Drop(tool[t].job)
                           /\ missed' = IF guest[tool[t].job] = "launching"
                                        THEN missed \cup {tool[t].job} ELSE missed
  <2>1. tool[t].job \in Jobs \cup {Nobody}
    BY DEF TypeOK
  <2>2. CASE Write("step", t, tool[t].job, FALSE, TRUE) /\ UNCHANGED <<slots, owned, missed>>
    <3>1. \E k \in Nat : Wrote(k, "step", t, tool[t].job, FALSE, TRUE)
      BY <2>1, <2>2, WriteFacts
    <3> QED
      BY <2>2, <3>1
  <2>3. CASE /\ guest[tool[t].job] # "running" /\ Write("step", t, tool[t].job, FALSE, FALSE)
             /\ Drop(tool[t].job)
             /\ missed' = IF guest[tool[t].job] = "launching" THEN missed \cup {tool[t].job} ELSE missed
    <3>1. \E k \in Nat : Wrote(k, "step", t, tool[t].job, FALSE, FALSE)
      BY <2>1, <2>3, WriteFacts
    <3> QED
      BY <2>3, <3>1
  <2> QED
    BY <1>6, <2>2, <2>3 DEF Polled
<1>7. ASSUME NEW t \in Tools, Ask(t)
      PROVE  \E k \in Nat : Wrote(k, "ask", t, Nobody, FALSE, FALSE)
  BY <1>7, WriteFacts DEF Ask
<1> QED
  BY <1>1, <1>2, <1>3, <1>4, <1>5, <1>6, <1>7

\* A line other than a request, and calls of which none begins or ceases to wait.
LEMMA AskedStays ==
    ASSUME TypeOK, Asked, UNCHANGED <<stdin, child>>,
           \A u \in Tools : tool'[u].at = "asked" <=> tool[u].at = "asked",
           \A n \in DOMAIN out' : out'[n].tag = "ask" => n \in DOMAIN out /\ out'[n] = out[n]
    PROVE  Asked'
<1>1. \A n \in DOMAIN stdin : stdin[n] \in Tools
  BY DEF TypeOK
<1> QED
  BY <1>1 DEF Asked

\* What a call becomes, and that the others stay as they are.
LEMMA CallStep ==
    ASSUME TypeOK, NEW t \in Tools, NEW l
    PROVE  /\ To(t, l) => /\ tool'[t].at = l /\ tool'[t].job = tool[t].job
                          /\ \A u \in Tools : u # t => tool'[u] = tool[u]
           /\ Done(t) => /\ tool'[t] = Idle /\ tool'[t].at = "idle" /\ tool'[t].job = Nobody
                         /\ \A u \in Tools : u # t => tool'[u] = tool[u]
BY DEF To, Done, Idle, TypeOK

-----------------------------------------------------------------------------
(* Who waits for a reply.                                                  *)

\* Asked is inductive.
LEMMA AskedStep == TypeOK /\ Quiet /\ Asked /\ Reserved /\ [Next]_vars => Asked'
<1> SUFFICES ASSUME TypeOK, Quiet, Asked, Reserved, [Next]_vars PROVE Asked'
  OBVIOUS
<1>1. ASSUME NEW i \in Invocations, Begin(i) \/ Refuse(i) PROVE Asked'
  BY <1>1 DEF Begin, Refuse, parser, harness, pipes, history, Asked, TypeOK
<1>2. CASE Spawn
  <2>1. out = <<>> /\ UNCHANGED <<tool, stdin, out>>
    BY <1>2 DEF Spawn, Quiet, pipes
  <2> QED
    BY <2>1 DEF Asked
<1>3. CASE SpawnFails \/ Reap \/ Eof \/ Overflow
  BY <1>3 DEF SpawnFails, Reap, Eof, Overflow, parser, harness, pipes, history, Asked, TypeOK
<1>4. CASE Finish
  <2>1. out' = <<>> /\ stdin' = <<>> /\ UNCHANGED <<tool, child>>
    BY <1>4 DEF Finish
  <2> QED
    BY <2>1 DEF Asked
<1>5. CASE ReadStep
  <2>1. out # <<>> /\ out' = Tail(out)
    BY <1>5 DEF ReadStep, Reads
  <2>2. UNCHANGED <<tool, stdin, child>>
    BY <1>5 DEF ReadStep, parser, harness
  <2> QED
    BY <2>1, <2>2, ReadFacts DEF Asked
<1>6. CASE ReadJob
  <2>1. out # <<>> /\ out' = Tail(out)
    BY <1>6 DEF ReadJob, Reads
  <2>2. UNCHANGED <<tool, stdin, child>>
    BY <1>6 DEF ReadJob, parser, harness
  <2> QED
    BY <2>1, <2>2, ReadFacts DEF Asked
<1>7. CASE ReadAsk
  <2>1. out # <<>> /\ out' = Tail(out) /\ Next1.tag = "ask"
    BY <1>7 DEF ReadAsk, Reads
  <2>2. UNCHANGED <<tool, child>> /\ stdin' = IF child = "none" THEN stdin ELSE Append(stdin, Next1.tool)
    BY <1>7 DEF ReadAsk, harness
  <2>3. /\ 1 \in DOMAIN out /\ Next1 = out[1]
        /\ \A n \in DOMAIN out' : n \in Nat \ {0} /\ n + 1 \in DOMAIN out /\ out'[n] = out[n + 1]
    BY <2>1, ReadFacts
  <2>4. CASE child = "none"
    BY <2>2, <2>3, <2>4 DEF Asked
  <2>5. CASE child # "none"
    <3>1. stdin = <<>> /\ tool[Next1.tool].at = "asked" /\ Next1.tool \in Tools
      BY <2>1, <2>3, <2>5 DEF Asked
    <3>2. /\ Len(stdin') = 1 /\ DOMAIN stdin' = {1} /\ stdin'[1] = Next1.tool
      BY <2>2, <2>5, <3>1
    <3>3. \A n \in DOMAIN out' : out'[n].tag # "ask"
      BY <2>1, <2>3, <2>5 DEF Asked
    <3> QED
      BY <2>2, <2>3, <3>1, <3>2, <3>3 DEF Asked
  <2> QED
    BY <2>4, <2>5
<1>8. CASE ReadOutcome
  <2>1. out # <<>> /\ out' = Tail(out)
    BY <1>8 DEF ReadOutcome, Reads
  <2>2. UNCHANGED <<tool, stdin, child>>
    BY <1>8 DEF ReadOutcome, parser, harness
  <2> QED
    BY <2>1, <2>2, ReadFacts DEF Asked
<1>9. CASE ReadVerdict
  <2>1. out # <<>> /\ out' = Tail(out)
    BY <1>9 DEF ReadVerdict, Reads
  <2>2. UNCHANGED <<tool, stdin, child>>
    BY <1>9 DEF ReadVerdict, parser, harness
  <2> QED
    BY <2>1, <2>2, ReadFacts DEF Asked
<1>10. CASE Kill
  <2>1. stdin' = <<>> /\ tool' = Rest /\ child' = "none" /\ out' = out
    BY <1>10 DEF Kill
  <2> QED
    BY <2>1 DEF Asked, Rest, Idle
<1>11. CASE Dial \/ SdkEnds \/ Exit \/ SdkFails
  BY <1>11 DEF Dial, SdkEnds, Exit, SdkFails, Becomes, outside, super, parser, pipes, history,
     Asked, TypeOK
<1>12. CASE EmitOutcome
  <2>1. UNCHANGED <<tool, stdin>> /\ child # "none"
    BY <1>12 DEF EmitOutcome
  <2>2. PICK k \in Nat : Wrote(k, "outcome", Nobody, Nobody, FALSE, fault)
    BY <1>12, Lines
  <2>3. \A n \in DOMAIN out' : out'[n].tag = "ask" => n \in DOMAIN out /\ out'[n] = out[n]
    BY <2>2 DEF Wrote
  <2> QED
    BY <2>1, <2>3 DEF Asked
<1>13. CASE EmitVerdict
  <2>1. UNCHANGED <<tool, stdin>> /\ child # "none"
    BY <1>13 DEF EmitVerdict
  <2>2. PICK k \in Nat : Wrote(k, IF child = "verdict" THEN "verdict" ELSE "end", Nobody, Nobody, FALSE, FALSE)
    BY <1>13, Lines
  <2>3. \A n \in DOMAIN out' : out'[n].tag = "ask" => n \in DOMAIN out /\ out'[n] = out[n]
    BY <2>2 DEF Wrote
  <2> QED
    BY <2>1, <2>3 DEF Asked
<1>14. ASSUME NEW t \in Tools, Command(t) PROVE Asked'
  <2>1. UNCHANGED <<stdin, child>>
    BY <1>14 DEF Command, Becomes, harness, pipes
  <2>2. \A u \in Tools : tool'[u].at = "asked" <=> tool[u].at = "asked"
    BY <1>14 DEF Command, Uses, To, Rest, Idle, TypeOK
  <2>3. \A n \in DOMAIN out' : out'[n].tag = "ask" => n \in DOMAIN out /\ out'[n] = out[n]
    BY <1>14 DEF Command, pipes
  <2> QED
    BY <2>1, <2>2, <2>3, AskedStays
<1>15. ASSUME NEW t \in Tools, Consult(t) PROVE Asked'
  <2>1. UNCHANGED <<stdin, child>>
    BY <1>15 DEF Consult, Becomes, harness, pipes
  <2>2. \A u \in Tools : tool'[u].at = "asked" <=> tool[u].at = "asked"
    BY <1>15 DEF Consult, Uses, To, Rest, Idle, TypeOK
  <2>3. \A n \in DOMAIN out' : out'[n].tag = "ask" => n \in DOMAIN out /\ out'[n] = out[n]
    BY <1>15 DEF Consult, pipes
  <2> QED
    BY <2>1, <2>2, <2>3, AskedStays
<1>16. ASSUME NEW t \in Tools, NEW j \in Jobs, Launch(t, j) PROVE Asked'
  <2>1. UNCHANGED <<stdin, child>>
    BY <1>16 DEF Launch, Becomes, harness, pipes
  <2>2. \A u \in Tools : tool'[u].at = "asked" <=> tool[u].at = "asked"
    BY <1>16 DEF Launch, Uses, Rest, Idle, TypeOK
  <2>a. PICK k \in Nat : Wrote(k, "job", t, j, FALSE, TRUE)
    BY <1>16, Lines
  <2>3. \A n \in DOMAIN out' : out'[n].tag = "ask" => n \in DOMAIN out /\ out'[n] = out[n]
    BY <2>a DEF Wrote
  <2> QED
    BY <2>1, <2>2, <2>3, AskedStays
<1>17. ASSUME NEW t \in Tools, NEW j \in Jobs, Poll(t, j) PROVE Asked'
  <2>1. UNCHANGED <<stdin, child>>
    BY <1>17 DEF Poll, Becomes, harness, pipes
  <2>2. \A u \in Tools : tool'[u].at = "asked" <=> tool[u].at = "asked"
    BY <1>17 DEF Poll, Uses, Rest, Idle, TypeOK
  <2>3. \A n \in DOMAIN out' : out'[n].tag = "ask" => n \in DOMAIN out /\ out'[n] = out[n]
    BY <1>17 DEF Poll, pipes
  <2> QED
    BY <2>1, <2>2, <2>3, AskedStays
<1>18. ASSUME NEW t \in Tools, Reach(t) PROVE Asked'
  <2>1. UNCHANGED <<stdin, child>>
    BY <1>18 DEF Reach, Becomes, harness, pipes
  <2>2. \A u \in Tools : tool'[u].at = "asked" <=> tool[u].at = "asked"
    BY <1>18 DEF Reach, At, To, Rest, Idle, TypeOK
  <2>3. \A n \in DOMAIN out' : out'[n].tag = "ask" => n \in DOMAIN out /\ out'[n] = out[n]
    BY <1>18 DEF Reach, pipes
  <2> QED
    BY <2>1, <2>2, <2>3, AskedStays
<1>19. ASSUME NEW t \in Tools, Report(t) PROVE Asked'
  <2>1. UNCHANGED <<stdin, child>>
    BY <1>19 DEF Report, Becomes, harness, pipes
  <2>2. \A u \in Tools : tool'[u].at = "asked" <=> tool[u].at = "asked"
    BY <1>19 DEF Report, At, Done, Rest, Idle, TypeOK
  <2>a. PICK k \in Nat : Wrote(k, "step", t, Nobody, tool[t].at = "ran", FALSE)
    BY <1>19, Lines
  <2>3. \A n \in DOMAIN out' : out'[n].tag = "ask" => n \in DOMAIN out /\ out'[n] = out[n]
    BY <2>a DEF Wrote
  <2> QED
    BY <2>1, <2>2, <2>3, AskedStays
<1>20. ASSUME NEW t \in Tools, Send(t) PROVE Asked'
  <2>1. UNCHANGED <<stdin, child>>
    BY <1>20 DEF Send, Becomes, harness, pipes
  <2>2. \A u \in Tools : tool'[u].at = "asked" <=> tool[u].at = "asked"
    <3>1. To(t, "sent") \/ To(t, "unsent")
      BY <1>20 DEF Send
    <3>2. tool[t].at = "launch"
      BY <1>20 DEF Send, At
    <3> QED
      BY <3>1, <3>2 DEF To, TypeOK
  <2>3. \A n \in DOMAIN out' : out'[n].tag = "ask" => n \in DOMAIN out /\ out'[n] = out[n]
    BY <1>20 DEF Send, pipes
  <2> QED
    BY <2>1, <2>2, <2>3, AskedStays
<1>21. ASSUME NEW t \in Tools, Settle(t) PROVE Asked'
  <2>1. UNCHANGED <<stdin, child>>
    BY <1>21 DEF Settle, Becomes, harness, pipes
  <2>2. \A u \in Tools : tool'[u].at = "asked" <=> tool[u].at = "asked"
    BY <1>21 DEF Settle, Done, Rest, Idle, TypeOK
  <2>a. PICK k \in Nat : Wrote(k, "step", t, tool[t].job, tool[t].at = "sent", tool[t].at = "sent")
    BY <1>21, Lines
  <2>3. \A n \in DOMAIN out' : out'[n].tag = "ask" => n \in DOMAIN out /\ out'[n] = out[n]
    BY <2>a DEF Wrote
  <2> QED
    BY <2>1, <2>2, <2>3, AskedStays
<1>22. ASSUME NEW t \in Tools, Polled(t) PROVE Asked'
  <2>1. UNCHANGED <<stdin, child>>
    BY <1>22 DEF Polled, Becomes, harness, pipes
  <2>2. \A u \in Tools : tool'[u].at = "asked" <=> tool[u].at = "asked"
    BY <1>22 DEF Polled, Done, Rest, Idle, TypeOK
  <2>a. PICK k \in Nat, flag \in BOOLEAN : Wrote(k, "step", t, tool[t].job, FALSE, flag)
    BY <1>22, Lines
  <2>3. \A n \in DOMAIN out' : out'[n].tag = "ask" => n \in DOMAIN out /\ out'[n] = out[n]
    BY <2>a DEF Wrote
  <2> QED
    BY <2>1, <2>2, <2>3, AskedStays
<1>23. ASSUME NEW t \in Tools, Abandon(t) PROVE Asked'
  <2>1. UNCHANGED <<stdin, child>>
    BY <1>23 DEF Abandon, Becomes, harness, pipes
  <2>2. \A u \in Tools : tool'[u].at = "asked" <=> tool[u].at = "asked"
    BY <1>23 DEF Abandon, Done, Rest, Idle, TypeOK
  <2>3. \A n \in DOMAIN out' : out'[n].tag = "ask" => n \in DOMAIN out /\ out'[n] = out[n]
    BY <1>23 DEF Abandon, pipes
  <2> QED
    BY <2>1, <2>2, <2>3, AskedStays
<1>24. ASSUME NEW t \in Tools, Ask(t) PROVE Asked'
  <2>1. PICK k \in Nat : Wrote(k, "ask", t, Nobody, FALSE, FALSE)
    BY <1>24, Lines
  <2>2. /\ UNCHANGED <<stdin, child>> /\ tool[t].at = "wanting" /\ child # "none"
        /\ \A u \in Tools : tool[u].at # "asked" /\ (tool'[u].at = "asked" <=> u = t)
    BY <1>24 DEF Ask, At, To, harness, TypeOK
  <2>3. \A n \in DOMAIN out : out[n].tag # "ask"
    BY <2>2 DEF Asked
  <2>4. \A n \in DOMAIN stdin : FALSE
    BY <2>2 DEF Asked, TypeOK
  <2>5. stdin = <<>>
    BY <2>4, TailFacts DEF TypeOK
  <2>6. \A n \in DOMAIN out' : out'[n].tag = "ask" => n = k
    BY <2>1, <2>3 DEF Wrote
  <2>7. out'[k].tool = t
    BY <2>1 DEF Wrote
  <2> QED
    BY <2>2, <2>5, <2>6, <2>7 DEF Asked
<1>25. ASSUME NEW t \in Tools, Hear(t) PROVE Asked'
  <2>1. /\ stdin # <<>> /\ stdin' = Tail(stdin) /\ UNCHANGED <<out, child>> /\ child # "none"
        /\ tool[t].at = "asked" /\ Done(t)
    BY <1>25 DEF Hear, At, harness
  <2>2. /\ Len(stdin') = 0 /\ stdin' \in Seq(Tools) /\ DOMAIN stdin' = 1..0 /\ stdin' = <<>>
    <3>1. Len(stdin) <= 1 /\ stdin \in Seq(Tools)
      BY DEF Asked, TypeOK
    <3>2. /\ Len(stdin') = 0 /\ stdin' \in Seq(Tools) /\ DOMAIN stdin' = 1..0
      <4>1. /\ Len(stdin) \in Nat /\ Len(stdin) > 0 /\ Len(Tail(stdin)) = Len(stdin) - 1
            /\ Tail(stdin) \in Seq(Tools) /\ DOMAIN Tail(stdin) = 1..(Len(stdin) - 1)
        BY <2>1, <3>1, TailFacts
      <4>2. Len(stdin) - 1 = 0
        BY <3>1, <4>1
      <4> QED
        BY <2>1, <4>1, <4>2
    <3> QED
      BY <3>2
  <2>3. \A n \in DOMAIN out : out[n].tag # "ask"
    BY <2>1 DEF Asked
  <2>4. \A u \in Tools : tool'[u].at = "asked" => u # t /\ tool[u].at = "asked"
    BY <2>1 DEF Done, Idle, TypeOK
  <2> QED
    BY <2>1, <2>2, <2>3, <2>4 DEF Asked
<1>26. ASSUME NEW j \in Jobs, Progress(j) PROVE Asked'
  BY <1>26 DEF Progress, super, parser, harness, pipes, history, Asked, TypeOK
<1>27. CASE UNCHANGED vars
  BY <1>27 DEF vars, super, parser, harness, pipes, history, Asked, TypeOK
<1> QED
  BY <1>1, <1>2, <1>3, <1>4, <1>5, <1>6, <1>7, <1>8, <1>9, <1>10, <1>11, <1>12, <1>13, <1>14,
     <1>15, <1>16, <1>17, <1>18, <1>19, <1>20, <1>21, <1>22, <1>23, <1>24, <1>25, <1>26, <1>27 DEF
     Next, Serve, Main, Work, Model

-----------------------------------------------------------------------------
(* Who holds a job.                                                        *)

\* What is over stays so.
LEMMA OverStays ==
    ASSUME TypeOK, Reserved, [Next]_vars, NEW j \in Jobs, Over(j)
    PROVE  Over(j)'
<1>1. CASE UNCHANGED <<guest, tool, missed>>
  BY <1>1 DEF Over, Launcher
<1>2. CASE Serve \/ Main \/ SdkFails \/ UNCHANGED vars
  <2>1. UNCHANGED <<guest, tool, missed>>
    BY <1>2 DEF Serve, Begin, Refuse, Spawn, SpawnFails, Reap, Finish, ReadStep, ReadJob, ReadAsk,
       ReadOutcome, ReadVerdict, Eof, Overflow, Main, Dial, SdkEnds, EmitOutcome, EmitVerdict, Exit,
       SdkFails, history, vars
  <2> QED
    BY <1>1, <2>1
<1>3. CASE Kill
  BY <1>3 DEF Kill, history, Over, Launcher, Rest, Idle
<1>4. ASSUME NEW t \in Tools,
             Command(t) \/ Consult(t) \/ Reach(t) \/ Report(t) \/ Settle(t) \/ Abandon(t) \/ Ask(t) \/ Hear(t)
      PROVE  Over(j)'
  <2>1. UNCHANGED <<guest, missed>>
    BY <1>4 DEF Command, Consult, Reach, Report, Settle, Abandon, Ask, Hear, history
  <2>2. \A u \in Tools : tool'[u].at = "launch" => tool'[u] = tool[u]
    <3>1. Done(t) \/ \E l \in {"command", "wanting", "ran", "asked"} : To(t, l)
      BY <1>4 DEF Command, Consult, Reach, Report, Settle, Abandon, Ask, Hear
    <3> QED
      BY <3>1 DEF To, Done, Idle, TypeOK
  <2> QED
    BY <2>1, <2>2 DEF Over, Launcher
<1>5. ASSUME NEW t \in Tools, NEW i \in Jobs, Launch(t, i) PROVE Over(j)'
  <2>1. /\ UNCHANGED missed /\ guest[i] = "new" /\ guest' = [guest EXCEPT ![i] = "absent"]
        /\ tool' = [tool EXCEPT ![t] = [at |-> "launch", job |-> i]]
    BY <1>5 DEF Launch
  <2>2. \A u \in Tools : tool'[u].at = "launch" /\ tool'[u].job = j => (u = t /\ i = j) \/ tool[u] = tool'[u]
    BY <2>1 DEF TypeOK
  <2>3. j # i => guest'[j] = guest[j]
    BY <2>1 DEF TypeOK
  <2> QED
    BY <2>1, <2>2, <2>3 DEF Over, Launcher
<1>6. ASSUME NEW t \in Tools, NEW i \in Jobs, Poll(t, i) PROVE Over(j)'
  <2>1. /\ UNCHANGED <<guest, missed>> /\ tool' = [tool EXCEPT ![t] = [at |-> "poll", job |-> i]]
    BY <1>6 DEF Poll, history
  <2>2. \A u \in Tools : tool'[u].at = "launch" => tool'[u] = tool[u]
    BY <2>1 DEF TypeOK
  <2> QED
    BY <2>1, <2>2 DEF Over, Launcher
<1>7. ASSUME NEW t \in Tools, Send(t) PROVE Over(j)'
  <2>1. UNCHANGED missed /\ tool[t].at = "launch" /\ (To(t, "sent") \/ To(t, "unsent"))
    BY <1>7 DEF Send, At
  <2>2. guest' = guest \/ guest' = [guest EXCEPT ![tool[t].job] = "launching"]
    BY <1>7 DEF Send
  <2>3. \A u \in Tools : tool'[u].at = "launch" => tool'[u] = tool[u]
    BY <2>1 DEF To, TypeOK
  <2>4. tool[t].job \in Jobs /\ guest[tool[t].job] = "absent"
    BY <2>1 DEF Reserved, OwnCalls
  <2>5. guest'[j] = guest[j] \/ j = tool[t].job
    BY <2>2, <2>4 DEF TypeOK
  <2> QED
    BY <2>1, <2>3, <2>4, <2>5 DEF Over, Launcher
<1>8. ASSUME NEW t \in Tools, Polled(t) PROVE Over(j)'
  <2>1. guest' = guest /\ missed \subseteq missed' /\ Done(t)
    BY <1>8 DEF Polled
  <2>2. \A u \in Tools : tool'[u].at = "launch" => tool'[u] = tool[u]
    BY <2>1 DEF Done, Idle, TypeOK
  <2> QED
    BY <2>1, <2>2 DEF Over, Launcher
<1>9. ASSUME NEW i \in Jobs, Progress(i) PROVE Over(j)'
  <2>1. /\ UNCHANGED <<tool, missed>> /\ guest[i] \in {"launching", "running"}
        /\ \E s \in {"running", "ended"} : guest' = [guest EXCEPT ![i] = s]
    BY <1>9 DEF Progress, history
  <2>2. guest'[j] = guest[j] \/ i = j
    BY <2>1 DEF TypeOK
  <2>3. i = j => guest'[j] \in {"running", "ended"}
    BY <2>1 DEF TypeOK
  <2> QED
    BY <2>1, <2>2, <2>3 DEF Over, Launcher
<1> QED
  BY <1>2, <1>3, <1>4, <1>5, <1>6, <1>7, <1>8, <1>9 DEF Next, Main, Work, Model

\* Lines that were there before, or that tell of no job.
NothingNew ==
  \A n \in DOMAIN out' :
    \/ \E m \in DOMAIN out : out'[n] = out[m]
    \/ out'[n].tag # "job" /\ out'[n].job = Nobody

Owns == {"launch", "sent", "unsent", "poll"}

\* A step that begins no job and settles none.
LEMMA ReservedStays ==
    ASSUME TypeOK, TypeOK', Reserved, [Next]_vars, guest' = guest,
           owned \subseteq owned' \/ out' = <<>>, owned' \subseteq owned \cup tracked,
           \A j \in tracked' : j \in tracked \/ \E m \in DOMAIN out : out[m].job = j,
           \A u \in Tools : \/ tool'[u] = tool[u]
                            \/ tool'[u].at \notin Owns /\ tool'[u].job \in {tool[u].job, Nobody},
           NothingNew
    PROVE  Reserved'
<1> USE SshRunAssumption DEF Owns
<1>a. /\ NewJobs /\ OwnCalls /\ \A j \in Jobs : LinesTell(j)
      /\ \A n \in DOMAIN out : out[n].tag = "job" => out[n].job \in Jobs
  BY DEF Reserved
<1>1. NewJobs'
  BY <1>a DEF NewJobs, NothingNew
<1>2. OwnCalls'
  <2>1. \A t \in Tools : tool'[t].at \in Owns => tool'[t] = tool[t] /\ tool[t].job \in Jobs
    BY <1>a DEF OwnCalls
  <2> QED
    BY <1>a, <2>1 DEF OwnCalls
<1>3. ASSUME NEW j \in Jobs PROVE LinesTell(j)'
  <2>1. Over(j) => Over(j)'
    BY OverStays
  <2>2. out' # <<>> => owned \subseteq owned'
    OBVIOUS
  <2>3. (DOMAIN out)' # {} => out' # <<>>
    BY DEF TypeOK
  <2> QED
    BY <1>a, <2>1, <2>2, <2>3 DEF LinesTell, NothingNew
<1>4. \A n \in DOMAIN out' : out'[n].tag = "job" => out'[n].job \in Jobs
  BY <1>a DEF NothingNew
<1> QED
  BY <1>1, <1>2, <1>3, <1>4 DEF Reserved

\* Reserved is inductive.
LEMMA ReservedStep == TypeOK /\ TypeOK' /\ Quiet /\ Reserved /\ [Next]_vars => Reserved'
<1> SUFFICES ASSUME TypeOK, TypeOK', Quiet, Reserved, [Next]_vars PROVE Reserved'
  OBVIOUS
<1> USE SshRunAssumption
<1>a. /\ NewJobs /\ OwnCalls /\ \A j \in Jobs : LinesTell(j)
      /\ \A n \in DOMAIN out : out[n].tag = "job" => out[n].job \in Jobs
  BY DEF Reserved
<1>1. ASSUME NEW i \in Invocations, Begin(i) \/ Refuse(i) PROVE Reserved'
  <2>1. UNCHANGED <<guest, tool, out, owned, tracked>>
    BY <1>1 DEF Begin, Refuse, harness, pipes, outside, Becomes
  <2> QED
    BY <2>1, ReservedStays DEF NothingNew
<1>2. CASE Spawn
  <2>1. UNCHANGED <<guest, tool, out, tracked>> /\ owned' = tracked /\ out' = <<>>
    BY <1>2 DEF Spawn, pipes, Quiet
  <2> QED
    BY <2>1, ReservedStays DEF NothingNew
<1>3. CASE SpawnFails \/ Reap \/ Eof \/ Overflow
  <2>1. UNCHANGED <<guest, tool, out, owned, tracked>>
    BY <1>3 DEF SpawnFails, Reap, Eof, Overflow, harness, pipes, outside, Becomes
  <2> QED
    BY <2>1, ReservedStays DEF NothingNew
<1>4. CASE Finish
  <2>1. UNCHANGED <<guest, tool, tracked>> /\ owned' = {} /\ out' = <<>>
    BY <1>4 DEF Finish
  <2> QED
    BY <2>1, ReservedStays DEF NothingNew
<1>5. CASE ReadStep
  <2>1. UNCHANGED <<guest, tool, owned>> /\ out # <<>> /\ out' = Tail(out)
    BY <1>5 DEF ReadStep, Reads, harness
  <2>2. NothingNew /\ Next1 = out[1] /\ 1 \in DOMAIN out
    BY <2>1, ReadFacts DEF NothingNew
  <2>3. tracked' \subseteq tracked \cup {Next1.job}
    BY <1>5 DEF ReadStep, Observed
  <2>4. Next1.job = Nobody => tracked' = tracked
    BY <1>5 DEF ReadStep
  <2> QED
    BY <2>1, <2>2, <2>3, <2>4, ReservedStays
<1>6. CASE ReadJob
  <2>1. UNCHANGED <<guest, tool, owned>> /\ out # <<>> /\ out' = Tail(out)
    BY <1>6 DEF ReadJob, Reads, harness
  <2>2. NothingNew /\ Next1 = out[1] /\ 1 \in DOMAIN out
    BY <2>1, ReadFacts DEF NothingNew
  <2>3. tracked' \subseteq tracked \cup {Next1.job}
    BY <1>6 DEF ReadJob, Observed
  <2> QED
    BY <2>1, <2>2, <2>3, ReservedStays
<1>7. CASE ReadAsk \/ ReadOutcome \/ ReadVerdict
  <2>1. UNCHANGED <<guest, tool, owned, tracked>> /\ out # <<>> /\ out' = Tail(out)
    BY <1>7 DEF ReadAsk, ReadOutcome, ReadVerdict, Reads, harness
  <2>2. NothingNew /\ Next1 = out[1] /\ 1 \in DOMAIN out
    BY <2>1, ReadFacts DEF NothingNew
  <2> QED
    BY <2>1, <2>2, ReservedStays
<1>8. CASE Kill
  <2>1. UNCHANGED <<guest, owned, tracked, out>> /\ tool' = Rest
    BY <1>8 DEF Kill
  <2>2. \A u \in Tools : tool'[u].at \notin Owns /\ tool'[u].job = Nobody
    BY <2>1 DEF Rest, Idle, Owns
  <2> QED
    BY <2>1, <2>2, ReservedStays DEF NothingNew
<1>9. CASE Dial \/ SdkEnds \/ Exit \/ SdkFails
  <2>1. UNCHANGED <<guest, tool, out, owned, tracked>>
    BY <1>9 DEF Dial, SdkEnds, Exit, SdkFails, harness, pipes, outside, Becomes
  <2> QED
    BY <2>1, ReservedStays DEF NothingNew
<1>10. CASE EmitOutcome
  <2>1. UNCHANGED <<guest, tool, owned, tracked>>
    BY <1>10 DEF EmitOutcome, Becomes, outside
  <2>2. PICK k \in Nat : Wrote(k, "outcome", Nobody, Nobody, FALSE, fault)
    BY <1>10, Lines
  <2>3. NothingNew
    BY <2>2 DEF NothingNew, Wrote
  <2> QED
    BY <2>1, <2>3, ReservedStays
<1>11. CASE EmitVerdict
  <2>1. UNCHANGED <<guest, tool, owned, tracked>>
    BY <1>11 DEF EmitVerdict, Becomes, outside
  <2>2. PICK k \in Nat : Wrote(k, IF child = "verdict" THEN "verdict" ELSE "end", Nobody, Nobody, FALSE, FALSE)
    BY <1>11, Lines
  <2>3. NothingNew
    BY <2>2 DEF NothingNew, Wrote
  <2> QED
    BY <2>1, <2>3, ReservedStays
<1>12. ASSUME NEW t \in Tools, Command(t) \/ Consult(t) PROVE Reserved'
  <2>1. UNCHANGED <<guest, owned, tracked>>
    BY <1>12 DEF Command, Consult, harness, outside
  <2>2. To(t, "command") \/ To(t, "wanting")
    BY <1>12 DEF Command, Consult, Uses, At
  <2>3. \A u \in Tools : \/ tool'[u] = tool[u]
                         \/ tool'[u].at \notin Owns /\ tool'[u].job \in {tool[u].job, Nobody}
    BY <2>2, CallStep DEF Owns
  <2>4. NothingNew
    BY <1>12 DEF Command, Consult, pipes, NothingNew
  <2> QED
    BY <2>1, <2>3, <2>4, ReservedStays
<1>13. ASSUME NEW t \in Tools, NEW j \in Jobs, Launch(t, j) PROVE Reserved'
  <2>1. /\ guest[j] = "new" /\ guest' = [guest EXCEPT ![j] = "absent"] /\ owned' = owned \cup {j}
        /\ tool[t] = Idle /\ tool' = [tool EXCEPT ![t] = [at |-> "launch", job |-> j]] /\ tracked' = tracked
    BY <1>13 DEF Launch, Uses, outside
  <2>2. PICK k \in Nat : Wrote(k, "job", t, j, FALSE, TRUE)
    BY <1>13, Lines
  <2>3. /\ tool'[t].at = "launch" /\ tool'[t].job = j /\ guest'[j] = "absent"
        /\ \A u \in Tools : u # t => tool'[u] = tool[u]
        /\ \A i \in Jobs : i # j => guest'[i] = guest[i]
    BY <2>1 DEF TypeOK
  <2>4. \A n \in DOMAIN out' : (n \in DOMAIN out /\ out'[n] = out[n]) \/ n = k
    BY <2>2 DEF Wrote
  <2>5. out'[k].tag = "job" /\ out'[k].job = j
    BY <2>2 DEF Wrote
  <2>6. NewJobs'
    BY <1>a, <2>1, <2>3, <2>4, <2>5 DEF NewJobs
  <2>7. OwnCalls'
    <3>1. \A u \in Tools : tool[u].job # j
      BY <1>a, <2>1 DEF NewJobs
    <3> QED
      BY <1>a, <2>3, <3>1 DEF OwnCalls
  <2>8. ASSUME NEW i \in Jobs PROVE LinesTell(i)'
    <3>1. Over(i) => Over(i)'
      BY OverStays
    <3> QED
      BY <1>a, <2>1, <2>4, <2>5, <3>1 DEF LinesTell
  <2>9. \A n \in DOMAIN out' : out'[n].tag = "job" => out'[n].job \in Jobs
    BY <1>a, <2>4, <2>5
  <2> QED
    BY <2>6, <2>7, <2>8, <2>9 DEF Reserved
<1>14. ASSUME NEW t \in Tools, NEW j \in Jobs, Poll(t, j) PROVE Reserved'
  <2>1. /\ tool' = [tool EXCEPT ![t] = [at |-> "poll", job |-> j]] /\ j \in owned
        /\ UNCHANGED <<guest, owned, tracked, out>>
        /\ \A u \in Tools : tool[u].job = j => tool[u].at = "poll"
    BY <1>14 DEF Poll, outside, harness, pipes
  <2>2. /\ tool'[t].at = "poll" /\ tool'[t].job = j
        /\ \A u \in Tools : u # t => tool'[u] = tool[u]
    BY <2>1 DEF TypeOK
  <2>3. NewJobs'
    BY <1>a, <2>1, <2>2 DEF NewJobs
  <2>4. OwnCalls'
    BY <1>a, <2>1, <2>2 DEF OwnCalls
  <2>5. ASSUME NEW i \in Jobs PROVE LinesTell(i)'
    <3>1. Over(i) => Over(i)'
      BY OverStays
    <3> QED
      BY <1>a, <2>1, <3>1 DEF LinesTell
  <2> QED
    BY <1>a, <2>1, <2>3, <2>4, <2>5 DEF Reserved
<1>15. ASSUME NEW t \in Tools, Reach(t) \/ Abandon(t) \/ Hear(t) PROVE Reserved'
  <2>1. UNCHANGED <<guest, owned, tracked>>
    BY <1>15 DEF Reach, Abandon, Hear, harness, outside
  <2>2. To(t, "ran") \/ Done(t)
    BY <1>15 DEF Reach, Abandon, Hear, Uses, At
  <2>3. \A u \in Tools : \/ tool'[u] = tool[u]
                         \/ tool'[u].at \notin Owns /\ tool'[u].job \in {tool[u].job, Nobody}
    BY <2>2, CallStep DEF Owns
  <2>4. NothingNew
    BY <1>15 DEF Reach, Abandon, Hear, pipes, NothingNew
  <2> QED
    BY <2>1, <2>3, <2>4, ReservedStays
<1>16. ASSUME NEW t \in Tools, Report(t) PROVE Reserved'
  <2>1. UNCHANGED <<guest, owned, tracked>>
    BY <1>16 DEF Report, harness, outside
  <2>2. Done(t)
    BY <1>16 DEF Report, Uses, At
  <2>3. \A u \in Tools : \/ tool'[u] = tool[u]
                         \/ tool'[u].at \notin Owns /\ tool'[u].job \in {tool[u].job, Nobody}
    BY <2>2, CallStep DEF Owns
  <2>4. PICK k \in Nat : Wrote(k, "step", t, Nobody, tool[t].at = "ran", FALSE)
    BY <1>16, Lines
  <2>5. NothingNew
    BY <2>4 DEF NothingNew, Wrote
  <2> QED
    BY <2>1, <2>3, <2>5, ReservedStays
<1>17. ASSUME NEW t \in Tools, Send(t) PROVE Reserved'
  <2>1. /\ tool[t].at = "launch" /\ UNCHANGED <<owned, tracked, out>>
        /\ \/ To(t, "sent") /\ guest' = [guest EXCEPT ![tool[t].job] = "launching"]
           \/ To(t, "unsent") /\ guest' = guest
    BY <1>17 DEF Send, At, outside, harness, pipes
  <2>2. /\ tool'[t].at \in {"sent", "unsent"} /\ tool'[t].job = tool[t].job
        /\ \A u \in Tools : u # t => tool'[u] = tool[u]
    BY <2>1, CallStep
  <2>3. /\ tool[t].job \in Jobs /\ guest[tool[t].job] = "absent"
        /\ \A u \in Tools : u # t => tool[u].job # tool[t].job
    BY <1>a, <2>1 DEF OwnCalls
  <2>4. /\ \A i \in Jobs : i # tool[t].job => guest'[i] = guest[i]
        /\ guest'[tool[t].job] # "new" /\ (tool'[t].at = "unsent" => guest'[tool[t].job] = "absent")
    <3>1. CASE To(t, "sent") /\ guest' = [guest EXCEPT ![tool[t].job] = "launching"]
      <4>1. tool'[t].at = "sent" /\ guest'[tool[t].job] = "launching"
        BY <2>3, <3>1, CallStep DEF TypeOK
      <4> QED
        BY <2>3, <3>1, <4>1 DEF TypeOK
    <3>2. CASE guest' = guest
      BY <2>3, <3>2
    <3> QED
      BY <2>1, <3>1, <3>2
  <2>5. NewJobs'
    BY <1>a, <2>1, <2>2, <2>4 DEF NewJobs
  <2>6. OwnCalls'
    BY <1>a, <2>2, <2>3, <2>4 DEF OwnCalls
  <2>7. ASSUME NEW i \in Jobs PROVE LinesTell(i)'
    <3>1. Over(i) => Over(i)'
      BY OverStays
    <3> QED
      BY <1>a, <2>1, <3>1 DEF LinesTell
  <2> QED
    BY <1>a, <2>1, <2>5, <2>6, <2>7 DEF Reserved
<1>18. ASSUME NEW t \in Tools, Settle(t) PROVE Reserved'
  <2>1. /\ tool[t].at \in {"sent", "unsent"} /\ UNCHANGED <<guest, tracked>> /\ Done(t)
        /\ tool[t].at = "sent" => owned' = owned
        /\ tool[t].at = "unsent" => owned' = owned \ {tool[t].job}
    BY <1>18 DEF Settle, Drop, outside
  <2>2. PICK k \in Nat : Wrote(k, "step", t, tool[t].job, tool[t].at = "sent", tool[t].at = "sent")
    BY <1>18, Lines
  <2>3. /\ tool[t].job \in Jobs /\ \A u \in Tools : u # t => tool[u].job # tool[t].job
        /\ tool[t].at = "unsent" => guest[tool[t].job] = "absent"
    BY <1>a, <2>1 DEF OwnCalls
  <2>4. /\ tool'[t].at = "idle" /\ tool'[t].job = Nobody
        /\ \A u \in Tools : u # t => tool'[u] = tool[u]
    BY <2>1, CallStep
  <2>5. PICK j \in Jobs : j = tool[t].job
    BY <2>3
  <2>6. tool[t].at = "unsent" => Over(j)'
    <3>1. tool[t].at = "unsent" => ~Launcher(j)
      BY <2>3, <2>5 DEF Launcher
    <3>2. tool[t].at = "unsent" => Over(j)
      BY <2>3, <2>5, <3>1 DEF Over
    <3> QED
      BY <3>2, OverStays
  <2>7. \A n \in DOMAIN out' : (n \in DOMAIN out /\ out'[n] = out[n]) \/ n = k
    BY <2>2 DEF Wrote
  <2>8. out'[k].tag = "step" /\ out'[k].job = j /\ (out'[k].flag <=> tool[t].at = "sent")
    BY <2>2, <2>5 DEF Wrote
  <2>9. NewJobs'
    <3>1. guest[j] # "new"
      BY <1>a, <2>5 DEF NewJobs
    <3> QED
      BY <1>a, <2>1, <2>4, <2>5, <2>7, <2>8, <3>1 DEF NewJobs
  <2>10. OwnCalls'
    BY <1>a, <2>1, <2>4 DEF OwnCalls
  <2>11. ASSUME NEW i \in Jobs PROVE LinesTell(i)'
    <3>1. Over(i) => Over(i)'
      BY OverStays
    <3>2. i \in owned => i \in owned' \/ Over(i)'
      BY <2>1, <2>5, <2>6
    <3>3. i = j /\ tool[t].at # "sent" => Over(i)'
      BY <2>1, <2>6
    <3> QED
      BY <1>a, <2>7, <2>8, <3>1, <3>2, <3>3 DEF LinesTell
  <2>12. \A n \in DOMAIN out' : out'[n].tag = "job" => out'[n].job \in Jobs
    BY <1>a, <2>7, <2>8
  <2> QED
    BY <2>9, <2>10, <2>11, <2>12 DEF Reserved
<1>19. ASSUME NEW t \in Tools, Polled(t) PROVE Reserved'
  <2>1. tool[t].at = "poll" /\ UNCHANGED <<guest, tracked>> /\ Done(t)
    BY <1>19 DEF Polled, outside
  <2>2. PICK k \in Nat, flag \in BOOLEAN :
          /\ Wrote(k, "step", t, tool[t].job, FALSE, flag)
          /\ flag => UNCHANGED <<slots, owned, missed>>
          /\ ~flag => /\ guest[tool[t].job] # "running" /\ Drop(tool[t].job)
                      /\ missed' = IF guest[tool[t].job] = "launching"
                                   THEN missed \cup {tool[t].job} ELSE missed
    BY <1>19, Lines
  <2>3. /\ tool'[t].at = "idle" /\ tool'[t].job = Nobody
        /\ \A u \in Tools : u # t => tool'[u] = tool[u]
    BY <2>1, CallStep
  <2>4. PICK j \in Jobs : j = tool[t].job
    BY <1>a, <2>1 DEF OwnCalls
  <2>5. guest[j] # "new"
    BY <1>a, <2>4 DEF NewJobs
  <2>6. ~flag => Over(j)'
    <3>1. ~Launcher(j)
      BY <1>a, <2>1, <2>4 DEF OwnCalls, Launcher
    <3>2. CASE guest[j] = "launching"
      BY <2>2, <2>4, <3>2 DEF Over
    <3>3. CASE guest[j] \in {"absent", "ended"}
      BY <3>1, <3>3, OverStays DEF Over
    <3> QED
      BY <2>2, <2>4, <2>5, <3>2, <3>3 DEF TypeOK
  <2>7. \A n \in DOMAIN out' : (n \in DOMAIN out /\ out'[n] = out[n]) \/ n = k
    BY <2>2 DEF Wrote
  <2>8. out'[k].tag = "step" /\ out'[k].job = j /\ (out'[k].flag <=> flag)
    BY <2>2, <2>4 DEF Wrote
  <2>9. owned' \subseteq owned /\ \A i \in owned : i \in owned' \/ (~flag /\ i = j)
    BY <2>2, <2>4 DEF Drop
  <2>10. NewJobs'
    BY <1>a, <2>1, <2>3, <2>5, <2>7, <2>8, <2>9 DEF NewJobs
  <2>11. OwnCalls'
    BY <1>a, <2>1, <2>3 DEF OwnCalls
  <2>12. ASSUME NEW i \in Jobs PROVE LinesTell(i)'
    <3>1. Over(i) => Over(i)'
      BY OverStays
    <3>2. i \in owned => i \in owned' \/ Over(i)'
      BY <2>6, <2>9
    <3>3. i = j /\ ~flag => Over(i)'
      BY <2>6
    <3> QED
      BY <1>a, <2>7, <2>8, <3>1, <3>2, <3>3 DEF LinesTell
  <2>13. \A n \in DOMAIN out' : out'[n].tag = "job" => out'[n].job \in Jobs
    BY <1>a, <2>7, <2>8
  <2> QED
    BY <2>10, <2>11, <2>12, <2>13 DEF Reserved
<1>20. ASSUME NEW t \in Tools, Ask(t) PROVE Reserved'
  <2>1. UNCHANGED <<guest, owned, tracked>>
    BY <1>20 DEF Ask, harness, outside
  <2>2. To(t, "asked")
    BY <1>20 DEF Ask, Uses, At
  <2>3. \A u \in Tools : \/ tool'[u] = tool[u]
                         \/ tool'[u].at \notin Owns /\ tool'[u].job \in {tool[u].job, Nobody}
    BY <2>2, CallStep DEF Owns
  <2>4. PICK k \in Nat : Wrote(k, "ask", t, Nobody, FALSE, FALSE)
    BY <1>20, Lines
  <2>5. NothingNew
    BY <2>4 DEF NothingNew, Wrote
  <2> QED
    BY <2>1, <2>3, <2>5, ReservedStays
<1>21. ASSUME NEW j \in Jobs, Progress(j) PROVE Reserved'
  <2>1. /\ UNCHANGED <<owned, tracked, out, tool>> /\ guest[j] \in {"launching", "running"}
        /\ \E s \in {"running", "ended"} : guest' = [guest EXCEPT ![j] = s]
    BY <1>21 DEF Progress, harness, pipes
  <2>2. \A i \in Jobs : guest'[i] = guest[i] \/ (i = j /\ guest'[i] \in {"running", "ended"})
    BY <2>1 DEF TypeOK
  <2>3. NewJobs'
    BY <1>a, <2>1, <2>2 DEF NewJobs
  <2>4. OwnCalls'
    BY <1>a, <2>1, <2>2 DEF OwnCalls
  <2>5. ASSUME NEW i \in Jobs PROVE LinesTell(i)'
    <3>1. Over(i) => Over(i)'
      BY OverStays
    <3> QED
      BY <1>a, <2>1, <3>1 DEF LinesTell
  <2> QED
    BY <1>a, <2>1, <2>3, <2>4, <2>5 DEF Reserved
<1>22. CASE UNCHANGED vars
  <2>1. UNCHANGED <<guest, tool, out, owned, tracked>>
    BY <1>22 DEF vars, history, harness, pipes, outside, Becomes
  <2> QED
    BY <2>1, ReservedStays DEF NothingNew
<1> QED
  BY <1>1, <1>2, <1>3, <1>4, <1>5, <1>6, <1>7, <1>8, <1>9, <1>10, <1>11, <1>12, <1>13, <1>14,
     <1>15, <1>16, <1>17, <1>18, <1>19, <1>20, <1>21, <1>22 DEF Next, Serve, Main, Work, Model

-----------------------------------------------------------------------------
(* Where a running job can be found.                                       *)

\* The jobs announced on the pipe, after a line was read and after one was written.
LEMMA AnnouncedSame ==
    \A j : j \in Announced <=> \E n \in DOMAIN out : out[n].tag = "job" /\ out[n].job = j
BY DEF Announced

\* The jobs announced after a line was read.
LEMMA AnnouncedRead ==
    ASSUME TypeOK, out # <<>>, out' = Tail(out)
    PROVE  /\ Announced' \subseteq Announced
           /\ \A j \in Announced : j \in Announced' \/ (Next1.tag = "job" /\ Next1.job = j)
<1>1. /\ 1 \in DOMAIN out /\ Next1 = out[1]
      /\ \A n \in DOMAIN out' : n \in Nat \ {0} /\ n + 1 \in DOMAIN out /\ out'[n] = out[n + 1]
  BY ReadFacts
<1>2. \A n \in DOMAIN out : n = 1 \/ \E m \in DOMAIN out' : out'[m] = out[n]
  BY ReadKeeps
<1> QED
  BY <1>1, <1>2 DEF Announced

\* The jobs announced after a line was written.
LEMMA AnnouncedWritten ==
    ASSUME NEW k, DOMAIN out' = DOMAIN out \cup {k}, \A n \in DOMAIN out : out'[n] = out[n]
    PROVE  /\ out'[k].tag = "job" => Announced' = Announced \cup {out'[k].job}
           /\ out'[k].tag # "job" => Announced' = Announced
BY DEF Announced

\* A step that begins no job and reads no announcement.
LEMMA FollowedStays ==
    ASSUME Followed,
           \A j \in Jobs : guest'[j] \in {"launching", "running"} => guest[j] = guest'[j],
           \A u \in Tools : tool'[u].at = "launch" => tool'[u] = tool[u],
           tracked \subseteq tracked', missed \subseteq missed', strayed \subseteq strayed',
           Announced' = Announced \/ (Announced' = {} /\ Announced \subseteq strayed),
           reader' = "lost" => reader = "lost" \/ Announced \subseteq strayed'
    PROVE  Followed'
<1>1. ASSUME NEW j \in Jobs, guest'[j] \in {"launching", "running"} \/ Launcher(j)'
      PROVE  j \in tracked' \cup missed' \cup strayed' \cup Announced'
  <2>1. guest[j] \in {"launching", "running"} \/ Launcher(j)
    BY <1>1 DEF Launcher
  <2> QED
    BY <2>1 DEF Followed
<1>2. reader' = "lost" => Announced' \subseteq strayed'
  BY DEF Followed
<1> QED
  BY <1>1, <1>2 DEF Followed

\* A job that is over and yet runs, or is about to be launched, was missed.
LEMMA OverMissed ==
    ASSUME Reserved, NEW j, Over(j), guest[j] \in {"launching", "running"} \/ Launcher(j)
    PROVE  j \in missed
BY DEF Over, Launcher, Reserved, OwnCalls

\* An engine that is full of cursors the harness owns leaves the harness no other.
LEMMA RoomIsTight ==
    ASSUME TypeOK, Room, tracked \subseteq owned, Cardinality(tracked) >= MaxJobs
    PROVE  tracked = owned
<1>1. /\ IsFiniteSet(owned) /\ Cardinality(owned) \in Nat /\ Cardinality(tracked) \in Nat
      /\ Cardinality(owned) + slots <= MaxJobs /\ slots \in Nat
  BY JobSets DEF TypeOK, Room
<1>2. Cardinality(tracked) <= Cardinality(owned)
      /\ (Cardinality(tracked) = Cardinality(owned) => tracked = owned)
  BY <1>1, FS_Subset
<1> QED
  BY <1>1, <1>2, SshRunAssumption

\* Followed is inductive.
LEMMA FollowedStep == TypeOK /\ Quiet /\ Ordered /\ Room /\ Reserved /\ Followed /\ [Next]_vars => Followed'
<1> SUFFICES ASSUME TypeOK, Quiet, Ordered, Room, Reserved, Followed, [Next]_vars PROVE Followed'
  OBVIOUS
<1>1. ASSUME NEW i \in Invocations, Begin(i) \/ Refuse(i) PROVE Followed'
  <2>1. UNCHANGED <<guest, tool, out, tracked, missed, strayed, reader>>
    BY <1>1 DEF Begin, Refuse, parser, harness, pipes, history, outside, Becomes
  <2> QED
    BY <2>1, FollowedStays DEF Announced
<1>2. CASE Spawn
  <2>1. UNCHANGED <<guest, tool, out, tracked, missed, strayed>> /\ reader' # "lost"
    BY <1>2 DEF Spawn, pipes, history
  <2> QED
    BY <2>1, FollowedStays DEF Announced
<1>3. CASE SpawnFails \/ Reap
  <2>1. UNCHANGED <<guest, tool, out, tracked, missed, strayed, reader>>
    BY <1>3 DEF SpawnFails, Reap, parser, harness, pipes, history, outside, Becomes
  <2> QED
    BY <2>1, FollowedStays DEF Announced
<1>4. CASE Finish
  <2>1. /\ UNCHANGED <<guest, tool, tracked, missed, strayed>> /\ reader' # "lost" /\ out' = <<>>
        /\ reader = "lost" \/ out = <<>>
    BY <1>4 DEF Finish, history, Quiet
  <2>2. Announced' = {} /\ (out = <<>> => Announced = {})
    BY <2>1 DEF Announced
  <2>3. Announced \subseteq strayed
    BY <2>1, <2>2 DEF Followed
  <2> QED
    BY <2>1, <2>2, <2>3, FollowedStays
<1>5. CASE ReadStep
  <2>1. /\ UNCHANGED <<guest, tool, missed, strayed, reader>> /\ reader # "lost"
        /\ out # <<>> /\ out' = Tail(out) /\ Next1.tag = "step"
        /\ tracked' = IF Next1.job = Nobody THEN tracked ELSE Observed(Next1.job, Next1.flag)
    BY <1>5 DEF ReadStep, Reads, history
  <2>2. 1 \in DOMAIN out /\ Next1 = out[1] /\ Announced' = Announced
    BY <2>1, ReadFacts, AnnouncedRead
  <2>3. ASSUME NEW j \in Jobs, guest[j] \in {"launching", "running"} \/ Launcher(j), j \in tracked
        PROVE  j \in tracked' \cup missed
    <3>1. CASE j \in tracked'
      BY <3>1
    <3>2. CASE j \notin tracked'
      <4>1. Next1.job = j /\ ~Next1.flag
        BY <2>1, <2>3, <3>2 DEF Observed
      <4>2. Over(j)
        BY <2>1, <2>2, <4>1 DEF Reserved, LinesTell
      <4> QED
        BY <2>3, <4>2, OverMissed
    <3> QED
      BY <3>1, <3>2
  <2>4. ASSUME NEW j \in Jobs PROVE Launcher(j)' <=> Launcher(j)
    BY <2>1 DEF Launcher
  <2> QED
    BY <2>1, <2>2, <2>3, <2>4 DEF Followed
<1>6. CASE ReadJob
  <2>1. /\ UNCHANGED <<guest, tool, missed, reader>> /\ reader # "lost"
        /\ out # <<>> /\ out' = Tail(out) /\ Next1.tag = "job"
        /\ tracked' = Observed(Next1.job, TRUE)
        /\ strayed' = IF tracked \subseteq owned \/ Next1.job \in tracked' THEN strayed
                      ELSE strayed \cup {Next1.job}
    BY <1>6 DEF ReadJob, Reads, parser
  <2>2. /\ 1 \in DOMAIN out /\ Next1 = out[1] /\ Next1.job \in Jobs
        /\ \A j \in Announced : j \in Announced' \/ Next1.job = j
    BY <2>1, ReadFacts, AnnouncedRead DEF Reserved
  <2>3. tracked \subseteq tracked' /\ strayed \subseteq strayed'
    BY <2>1 DEF Observed
  <2>4. PICK j \in Jobs : j = Next1.job
    BY <2>2
  <2>5. ASSUME guest[j] \in {"launching", "running"} \/ Launcher(j)
        PROVE  j \in tracked' \cup missed \cup strayed'
    <3>1. CASE j \in tracked' \cup strayed'
      BY <3>1
    <3>2. CASE j \notin tracked' \cup strayed'
      <4>1. tracked \subseteq owned /\ j \notin tracked /\ Cardinality(tracked) >= MaxJobs
        BY <2>1, <2>4, <3>2 DEF Observed
      <4>2. tracked = owned
        BY <4>1, RoomIsTight
      <4>3. Over(j)
        BY <2>1, <2>2, <2>4, <4>1, <4>2 DEF Reserved, LinesTell
      <4> QED
        BY <2>5, <4>3, OverMissed
    <3> QED
      BY <3>1, <3>2
  <2>6. ASSUME NEW i \in Jobs PROVE Launcher(i)' <=> Launcher(i)
    BY <2>1 DEF Launcher
  <2> QED
    BY <2>1, <2>2, <2>3, <2>4, <2>5, <2>6 DEF Followed
<1>7. CASE ReadAsk \/ ReadOutcome
  <2>1. /\ UNCHANGED <<guest, tool, tracked, missed, strayed, reader>>
        /\ out # <<>> /\ out' = Tail(out) /\ Next1.tag # "job"
    BY <1>7 DEF ReadAsk, ReadOutcome, Reads, history, parser
  <2>2. Announced' = Announced
    BY <2>1, AnnouncedRead
  <2> QED
    BY <2>1, <2>2, FollowedStays
<1>8. CASE ReadVerdict
  <2>1. /\ UNCHANGED <<guest, tool, tracked, missed, strayed>> /\ reader # "lost"
        /\ out # <<>> /\ out' = Tail(out) /\ reader' \in {"verdict", "line", reader}
        /\ reader = "verdict" \/ Next1.tag \in {"verdict", "end"}
    BY <1>8 DEF ReadVerdict, history
  <2>2. Next1.tag # "job"
    <3>1. 1 \in DOMAIN out /\ Next1 = out[1]
      BY <2>1, ReadFacts
    <3> QED
      BY <2>1, <3>1 DEF Ordered
  <2>3. Announced' = Announced
    BY <2>1, <2>2, AnnouncedRead
  <2> QED
    BY <2>1, <2>3, FollowedStays
<1>9. CASE Eof
  <2>1. UNCHANGED <<guest, tool, out, tracked, missed, strayed>> /\ reader' # "lost"
    BY <1>9 DEF Eof, pipes, history
  <2> QED
    BY <2>1, FollowedStays DEF Announced
<1>10. CASE Overflow
  <2>1. UNCHANGED <<guest, tool, out, tracked, missed>> /\ strayed' = strayed \cup Announced
    BY <1>10 DEF Overflow, pipes, history
  <2> QED
    BY <2>1, FollowedStays DEF Announced
<1>11. CASE Kill
  <2>1. UNCHANGED <<guest, out, tracked, missed, strayed, reader>> /\ tool' = Rest
    BY <1>11 DEF Kill, history, parser
  <2>2. \A u \in Tools : tool'[u].at # "launch"
    BY <2>1 DEF Rest, Idle
  <2> QED
    BY <2>1, <2>2, FollowedStays DEF Announced
<1>12. CASE Dial \/ SdkEnds \/ Exit \/ SdkFails
  <2>1. UNCHANGED <<guest, tool, out, tracked, missed, strayed, reader>>
    BY <1>12 DEF Dial, SdkEnds, Exit, SdkFails, parser, harness, pipes, history, outside, Becomes
  <2> QED
    BY <2>1, FollowedStays DEF Announced
<1>13. CASE EmitOutcome
  <2>1. UNCHANGED <<guest, tool, tracked, missed, strayed, reader>>
    BY <1>13 DEF EmitOutcome, Becomes, outside, parser, history
  <2>2. PICK k \in Nat : Wrote(k, "outcome", Nobody, Nobody, FALSE, fault)
    BY <1>13, Lines
  <2>3. Announced' = Announced
    BY <2>2, AnnouncedWritten DEF Wrote
  <2> QED
    BY <2>1, <2>3, FollowedStays
<1>14. CASE EmitVerdict
  <2>1. UNCHANGED <<guest, tool, tracked, missed, strayed, reader>>
    BY <1>14 DEF EmitVerdict, Becomes, outside, parser, history
  <2>2. PICK k \in Nat : Wrote(k, IF child = "verdict" THEN "verdict" ELSE "end", Nobody, Nobody, FALSE, FALSE)
    BY <1>14, Lines
  <2>3. Announced' = Announced
    BY <2>2, AnnouncedWritten DEF Wrote
  <2> QED
    BY <2>1, <2>3, FollowedStays
<1>15. ASSUME NEW t \in Tools, Command(t) \/ Consult(t) PROVE Followed'
  <2>1. UNCHANGED <<guest, tracked, missed, strayed, reader>>
    BY <1>15 DEF Command, Consult, outside, parser, history
  <2>2. To(t, "command") \/ To(t, "wanting")
    BY <1>15 DEF Command, Consult, Uses, At
  <2>3. \A u \in Tools : tool'[u].at = "launch" => tool'[u] = tool[u]
    BY <2>2, CallStep
  <2>4. Announced' = Announced
    BY <1>15 DEF Command, Consult, pipes, Announced
  <2> QED
    BY <2>1, <2>3, <2>4, FollowedStays
<1>16. ASSUME NEW t \in Tools, NEW j \in Jobs, Launch(t, j) PROVE Followed'
  <2>1. /\ UNCHANGED <<tracked, missed, reader>> /\ guest' = [guest EXCEPT ![j] = "absent"]
        /\ tool' = [tool EXCEPT ![t] = [at |-> "launch", job |-> j]]
        /\ strayed' = IF reader = "lost" THEN strayed \cup {j} ELSE strayed
    BY <1>16 DEF Launch, outside, parser
  <2>2. PICK k \in Nat : Wrote(k, "job", t, j, FALSE, TRUE)
    BY <1>16, Lines
  <2>3. Announced' = Announced \cup {j}
    BY <2>2, AnnouncedWritten DEF Wrote
  <2>4. \A u \in Tools : tool'[u].at = "launch" => tool'[u] = tool[u] \/ tool'[u].job = j
    BY <2>1 DEF TypeOK
  <2>5. ASSUME NEW i \in Jobs, guest'[i] \in {"launching", "running"} \/ Launcher(i)'
        PROVE  i = j \/ guest[i] \in {"launching", "running"} \/ Launcher(i)
    BY <2>1, <2>4, <2>5 DEF Launcher, TypeOK
  <2> QED
    BY <2>1, <2>3, <2>5 DEF Followed
<1>17. ASSUME NEW t \in Tools, NEW j \in Jobs, Poll(t, j) PROVE Followed'
  <2>1. /\ UNCHANGED <<guest, tracked, missed, strayed, reader, out>>
        /\ tool' = [tool EXCEPT ![t] = [at |-> "poll", job |-> j]]
    BY <1>17 DEF Poll, outside, parser, history, pipes
  <2>2. \A u \in Tools : tool'[u].at = "launch" => tool'[u] = tool[u]
    BY <2>1 DEF TypeOK
  <2> QED
    BY <2>1, <2>2, FollowedStays DEF Announced
<1>18. ASSUME NEW t \in Tools, Reach(t) \/ Abandon(t) \/ Hear(t) PROVE Followed'
  <2>1. UNCHANGED <<guest, tracked, missed, strayed, reader>>
    BY <1>18 DEF Reach, Abandon, Hear, outside, parser, history
  <2>2. To(t, "ran") \/ Done(t)
    BY <1>18 DEF Reach, Abandon, Hear, Uses, At
  <2>3. \A u \in Tools : tool'[u].at = "launch" => tool'[u] = tool[u]
    BY <2>2, CallStep
  <2>4. Announced' = Announced
    BY <1>18 DEF Reach, Abandon, Hear, pipes, Announced
  <2> QED
    BY <2>1, <2>3, <2>4, FollowedStays
<1>19. ASSUME NEW t \in Tools, Report(t) PROVE Followed'
  <2>1. UNCHANGED <<guest, tracked, missed, strayed, reader>>
    BY <1>19 DEF Report, outside, parser, history
  <2>2. Done(t)
    BY <1>19 DEF Report, Uses, At
  <2>3. \A u \in Tools : tool'[u].at = "launch" => tool'[u] = tool[u]
    BY <2>2, CallStep
  <2>4. PICK k \in Nat : Wrote(k, "step", t, Nobody, tool[t].at = "ran", FALSE)
    BY <1>19, Lines
  <2>5. Announced' = Announced
    BY <2>4, AnnouncedWritten DEF Wrote
  <2> QED
    BY <2>1, <2>3, <2>5, FollowedStays
<1>20. ASSUME NEW t \in Tools, Send(t) PROVE Followed'
  <2>1. /\ UNCHANGED <<tracked, missed, strayed, reader, out>> /\ tool[t].at = "launch"
        /\ guest' = guest \/ guest' = [guest EXCEPT ![tool[t].job] = "launching"]
        /\ To(t, "sent") \/ To(t, "unsent")
    BY <1>20 DEF Send, At, outside, parser, pipes
  <2>2. \A u \in Tools : tool'[u].at = "launch" => tool'[u] = tool[u]
    BY <2>1, CallStep
  <2>3. ASSUME NEW i \in Jobs, guest'[i] \in {"launching", "running"} \/ Launcher(i)'
        PROVE  guest[i] \in {"launching", "running"} \/ Launcher(i)
    <3>1. guest'[i] = guest[i] \/ i = tool[t].job
      BY <2>1 DEF TypeOK
    <3> QED
      BY <2>1, <2>2, <2>3, <3>1 DEF Launcher
  <2> QED
    BY <2>1, <2>3 DEF Followed, Announced
<1>21. ASSUME NEW t \in Tools, Settle(t) PROVE Followed'
  <2>1. UNCHANGED <<guest, tracked, missed, strayed, reader>>
    BY <1>21 DEF Settle, outside, parser, history
  <2>2. Done(t)
    BY <1>21 DEF Settle, Uses, At
  <2>3. \A u \in Tools : tool'[u].at = "launch" => tool'[u] = tool[u]
    BY <2>2, CallStep
  <2>4. PICK k \in Nat : Wrote(k, "step", t, tool[t].job, tool[t].at = "sent", tool[t].at = "sent")
    BY <1>21, Lines
  <2>5. Announced' = Announced
    BY <2>4, AnnouncedWritten DEF Wrote
  <2> QED
    BY <2>1, <2>3, <2>5, FollowedStays
<1>22. ASSUME NEW t \in Tools, Polled(t) PROVE Followed'
  <2>1. UNCHANGED <<guest, tracked, strayed, reader>> /\ missed \subseteq missed' /\ Done(t)
    BY <1>22 DEF Polled, outside, parser
  <2>2. \A u \in Tools : tool'[u].at = "launch" => tool'[u] = tool[u]
    BY <2>1, CallStep
  <2>3. PICK k \in Nat, flag \in BOOLEAN : Wrote(k, "step", t, tool[t].job, FALSE, flag)
    BY <1>22, Lines
  <2>4. Announced' = Announced
    BY <2>3, AnnouncedWritten DEF Wrote
  <2> QED
    BY <2>1, <2>2, <2>4, FollowedStays
<1>23. ASSUME NEW t \in Tools, Ask(t) PROVE Followed'
  <2>1. UNCHANGED <<guest, tracked, missed, strayed, reader>>
    BY <1>23 DEF Ask, outside, parser, history
  <2>2. To(t, "asked")
    BY <1>23 DEF Ask, Uses, At
  <2>3. \A u \in Tools : tool'[u].at = "launch" => tool'[u] = tool[u]
    BY <2>2, CallStep
  <2>4. PICK k \in Nat : Wrote(k, "ask", t, Nobody, FALSE, FALSE)
    BY <1>23, Lines
  <2>5. Announced' = Announced
    BY <2>4, AnnouncedWritten DEF Wrote
  <2> QED
    BY <2>1, <2>3, <2>5, FollowedStays
<1>24. ASSUME NEW j \in Jobs, Progress(j) PROVE Followed'
  <2>1. /\ UNCHANGED <<tracked, missed, strayed, reader, out, tool>> /\ guest[j] \in {"launching", "running"}
        /\ \E s \in {"running", "ended"} : guest' = [guest EXCEPT ![j] = s]
    BY <1>24 DEF Progress, parser, pipes, history
  <2>2. ASSUME NEW i \in Jobs, guest'[i] \in {"launching", "running"} \/ Launcher(i)'
        PROVE  guest[i] \in {"launching", "running"} \/ Launcher(i)
    <3>1. guest'[i] = guest[i] \/ i = j
      BY <2>1 DEF TypeOK
    <3> QED
      BY <2>1, <2>2, <3>1 DEF Launcher
  <2> QED
    BY <2>1, <2>2 DEF Followed, Announced
<1>25. CASE UNCHANGED vars
  <2>1. UNCHANGED <<guest, tool, out, tracked, missed, strayed, reader>>
    BY <1>25 DEF vars, parser, harness, pipes, history, outside, Becomes
  <2> QED
    BY <2>1, FollowedStays DEF Announced
<1> QED
  BY <1>1, <1>2, <1>3, <1>4, <1>5, <1>6, <1>7, <1>8, <1>9, <1>10, <1>11, <1>12, <1>13, <1>14,
     <1>15, <1>16, <1>17, <1>18, <1>19, <1>20, <1>21, <1>22, <1>23, <1>24, <1>25 DEF Next, Serve,
     Main, Work, Model

-----------------------------------------------------------------------------
(* The order of lines, and how a fault becomes known.                      *)

\* Calls at work in a harness that is past its stream are those of a run with a fault.
LEMMA BusyHasFault ==
    ASSUME Ordered, NEW t \in Tools, tool[t].at # "idle",
           child \in {"outcome", "verdict", "end", "joining"}
    PROVE  fault
BY DEF Ordered, Rest, Idle

\* A step that keeps main() where it is and writes nothing, or a line that may come at any time.
LEMMA OrderedStays ==
    ASSUME TypeOK, Ordered, UNCHANGED <<child, fault, reader>>,
           child \in {"outcome", "verdict", "end", "joining"} /\ ~fault => tool' = tool,
           \/ out' = out
           \/ \E k \in Nat : /\ k \notin DOMAIN out /\ DOMAIN out' = DOMAIN out \cup {k}
                             /\ \A n \in DOMAIN out : n \in Nat /\ n < k /\ out'[n] = out[n]
                             /\ \/ out'[k].tag = "ask"
                                \/ out'[k].tag \in {"step", "job"} /\ child \in {"dialing", "looping", "outcome"}
                                \/ out'[k].tag = "step" /\ fault
    PROVE  Ordered'
<1>1. CASE out' = out
  BY <1>1 DEF Ordered
<1>2. ASSUME NEW k \in Nat, k \notin DOMAIN out, DOMAIN out' = DOMAIN out \cup {k},
             \A n \in DOMAIN out : n \in Nat /\ n < k /\ out'[n] = out[n],
             \/ out'[k].tag = "ask"
             \/ out'[k].tag \in {"step", "job"} /\ child \in {"dialing", "looping", "outcome"}
             \/ out'[k].tag = "step" /\ fault
      PROVE  Ordered'
  <2>1. \A n \in DOMAIN out' : (n \in DOMAIN out /\ out'[n] = out[n] /\ n < k) \/ n = k
    BY <1>2
  <2>2. \A n \in DOMAIN out' : ~(k < n)
    BY <1>2, <2>1
  <2> QED
    BY <1>2, <2>1, <2>2 DEF Ordered
<1> QED
  BY <1>1, <1>2

\* Ordered is inductive.
LEMMA OrderedStep == TypeOK /\ Quiet /\ Reserved /\ Ordered /\ [Next]_vars => Ordered'
<1> SUFFICES ASSUME TypeOK, Quiet, Reserved, Ordered, [Next]_vars PROVE Ordered'
  OBVIOUS
<1>1. ASSUME NEW i \in Invocations, Begin(i) \/ Refuse(i) PROVE Ordered'
  <2>1. UNCHANGED <<child, fault, tool, reader, out>>
    BY <1>1 DEF Begin, Refuse, parser, harness, pipes
  <2> QED
    BY <2>1, OrderedStays
<1>2. CASE Spawn
  <2>1. out' = <<>> /\ reader' = "line" /\ child' = "dialing"
    BY <1>2 DEF Spawn, pipes, Quiet
  <2> QED
    BY <2>1 DEF Ordered
<1>3. CASE SpawnFails \/ Reap
  <2>1. UNCHANGED <<child, fault, tool, reader, out>>
    BY <1>3 DEF SpawnFails, Reap, parser, harness, pipes
  <2> QED
    BY <2>1, OrderedStays
<1>4. CASE Finish
  <2>1. out' = <<>> /\ reader' = "off" /\ child' = "none"
    BY <1>4 DEF Finish, Quiet
  <2> QED
    BY <2>1 DEF Ordered
<1>5. CASE ReadStep \/ ReadJob \/ ReadAsk \/ ReadOutcome
  <2>1. UNCHANGED <<child, fault, tool, reader>> /\ out # <<>> /\ out' = Tail(out)
    BY <1>5 DEF ReadStep, ReadJob, ReadAsk, ReadOutcome, Reads, parser, harness
  <2>2. \A n \in DOMAIN out' : n \in Nat \ {0} /\ n + 1 \in DOMAIN out /\ out'[n] = out[n + 1]
    BY <2>1, ReadFacts
  <2> QED
    BY <2>1, <2>2 DEF Ordered
<1>6. CASE ReadVerdict
  <2>1. /\ UNCHANGED <<child, fault, tool>> /\ out # <<>> /\ out' = Tail(out)
        /\ reader' = CASE Next1.tag = "verdict" -> "verdict" [] Next1.tag = "end" -> "line" [] OTHER -> reader
    BY <1>6 DEF ReadVerdict, harness
  <2>2. /\ 1 \in DOMAIN out /\ Next1 = out[1]
        /\ \A n \in DOMAIN out' : /\ n \in Nat \ {0} /\ n + 1 \in DOMAIN out /\ out'[n] = out[n + 1]
                                  /\ 1 < n + 1
    BY <2>1, ReadFacts
  <2>3. reader' = "verdict" => reader = "verdict" \/ out[1].tag = "verdict"
    BY <2>1, <2>2
  <2>4. /\ child' \in {"dialing", "looping", "outcome"} =>
             /\ \A n \in DOMAIN out' : out'[n].tag \notin {"outcome", "verdict", "end"}
             /\ reader' # "verdict"
        /\ \A n, m \in DOMAIN out' : n < m /\ out'[n].tag \in {"verdict", "end"} =>
             out'[m].tag \notin {"job", "outcome"} /\ (~fault' => out'[m].tag # "step")
    BY <2>1, <2>2, <2>3 DEF Ordered
  <2>5. reader' = "verdict" => \A n \in DOMAIN out' :
          out'[n].tag \notin {"job", "outcome"} /\ (~fault' => out'[n].tag # "step")
    BY <2>1, <2>2, <2>3 DEF Ordered
  <2> QED
    BY <2>1, <2>4, <2>5 DEF Ordered
<1>7. CASE Eof
  <2>1. UNCHANGED <<child, out, fault, tool>> /\ child = "none" /\ reader' = "eof"
    BY <1>7 DEF Eof, pipes, harness
  <2> QED
    BY <2>1 DEF Ordered
<1>8. CASE Overflow
  <2>1. UNCHANGED <<child, out, fault, tool>> /\ reader' = "lost"
    BY <1>8 DEF Overflow, pipes, harness
  <2> QED
    BY <2>1 DEF Ordered
<1>9. CASE Kill
  <2>1. UNCHANGED <<out, fault, reader>> /\ child' = "none"
    BY <1>9 DEF Kill, parser
  <2> QED
    BY <2>1 DEF Ordered
<1>10. CASE Dial
  <2>1. /\ UNCHANGED <<out, reader, tool>> /\ child = "dialing" /\ child' \in {"looping", "outcome"}
        /\ fault' = TRUE \/ (fault' = fault /\ child' = "looping")
    BY <1>10 DEF Dial, Becomes, pipes, outside, parser
  <2> QED
    BY <2>1 DEF Ordered
<1>11. CASE SdkEnds \/ SdkFails
  <2>1. /\ UNCHANGED <<out, reader, tool>> /\ child = "looping" /\ child' = "outcome"
        /\ tool = Rest \/ fault'
    BY <1>11 DEF SdkEnds, SdkFails, Becomes, pipes, outside, parser
  <2> QED
    BY <2>1 DEF Ordered
<1>12. CASE EmitOutcome
  <2>1. UNCHANGED <<reader, tool, fault>> /\ child = "outcome" /\ child' = "verdict"
    BY <1>12 DEF EmitOutcome, Becomes, outside, parser
  <2>2. PICK k \in Nat : Wrote(k, "outcome", Nobody, Nobody, FALSE, fault)
    BY <1>12, Lines
  <2>3. /\ out'[k].tag = "outcome"
        /\ \A n \in DOMAIN out' : (n \in DOMAIN out /\ out'[n] = out[n]) \/ n = k
    BY <2>2 DEF Wrote
  <2>4. \A n \in DOMAIN out' : out'[n].tag \notin {"verdict", "end"}
    BY <2>1, <2>3 DEF Ordered
  <2>5. reader' # "verdict" /\ (~fault' => tool' = Rest)
    BY <2>1 DEF Ordered
  <2> QED
    BY <2>1, <2>4, <2>5 DEF Ordered
<1>13. CASE EmitVerdict
  <2>1. UNCHANGED <<reader, tool, fault>> /\ child \in {"verdict", "end"} /\ child' \in {"end", "joining"}
    BY <1>13 DEF EmitVerdict, Becomes, outside, parser
  <2>2. PICK k \in Nat : Wrote(k, IF child = "verdict" THEN "verdict" ELSE "end", Nobody, Nobody, FALSE, FALSE)
    BY <1>13, Lines
  <2>3. /\ out'[k].tag \in {"verdict", "end"}
        /\ \A n \in DOMAIN out' : (n \in DOMAIN out /\ out'[n] = out[n] /\ n < k /\ n \in Nat) \/ n = k
    BY <2>2 DEF Wrote
  <2>4. \A n, m \in DOMAIN out' : n < m => n \in DOMAIN out /\ out'[n] = out[n] /\ n # k
    BY <2>3
  <2>5. \A n, m \in DOMAIN out' : n < m /\ out'[n].tag \in {"verdict", "end"} =>
          out'[m].tag \notin {"job", "outcome"} /\ (~fault' => out'[m].tag # "step")
    BY <2>1, <2>3, <2>4 DEF Ordered
  <2>6. reader' = "verdict" => \A n \in DOMAIN out' :
          out'[n].tag \notin {"job", "outcome"} /\ (~fault' => out'[n].tag # "step")
    BY <2>1, <2>3 DEF Ordered
  <2>7. ~fault' => tool' = Rest
    BY <2>1 DEF Ordered
  <2> QED
    BY <2>1, <2>5, <2>6, <2>7 DEF Ordered
<1>14. CASE Exit
  <2>1. UNCHANGED <<out, reader, fault>> /\ child' = "none"
    BY <1>14 DEF Exit, Becomes, pipes, outside, parser
  <2> QED
    BY <2>1 DEF Ordered
<1>15. ASSUME NEW t \in Tools, Command(t) \/ Consult(t) PROVE Ordered'
  <2>1. UNCHANGED <<child, fault, reader>>
    BY <1>15 DEF Command, Consult, harness, outside, parser
  <2>2. child = "looping"
    BY <1>15 DEF Command, Consult, Uses
  <2>3. out' = out
    BY <1>15 DEF Command, Consult, pipes
  <2> QED
    BY <2>1, <2>2, <2>3, OrderedStays
<1>16. ASSUME NEW t \in Tools, NEW j \in Jobs, Launch(t, j) PROVE Ordered'
  <2>1. UNCHANGED <<child, fault, reader>>
    BY <1>16 DEF Launch, harness, outside, parser
  <2>2. child = "looping"
    BY <1>16 DEF Launch, Uses
  <2>3. PICK k \in Nat : Wrote(k, "job", t, j, FALSE, TRUE)
    BY <1>16, Lines
  <2>4. out'[k].tag = "job" /\ DOMAIN out' = DOMAIN out \cup {k} /\ k \notin DOMAIN out
        /\ \A n \in DOMAIN out : n \in Nat /\ n < k /\ out'[n] = out[n]
    BY <2>3 DEF Wrote
  <2> QED
    BY <2>1, <2>2, <2>4, OrderedStays
<1>17. ASSUME NEW t \in Tools, NEW j \in Jobs, Poll(t, j) PROVE Ordered'
  <2>1. UNCHANGED <<child, fault, reader>>
    BY <1>17 DEF Poll, harness, outside, parser
  <2>2. child = "looping"
    BY <1>17 DEF Poll, Uses
  <2>3. out' = out
    BY <1>17 DEF Poll, pipes
  <2> QED
    BY <2>1, <2>2, <2>3, OrderedStays
<1>18. ASSUME NEW t \in Tools, Reach(t) \/ Send(t) \/ Abandon(t) \/ Hear(t) PROVE Ordered'
  <2>1. UNCHANGED <<child, fault, reader>>
    BY <1>18 DEF Reach, Send, Abandon, Hear, harness, outside, parser
  <2>2. child \in {"outcome", "verdict", "end", "joining"} => fault
    <3>1. tool[t].at # "idle"
      BY <1>18 DEF Reach, Send, Abandon, Hear, At
    <3> QED
      BY <3>1, BusyHasFault
  <2>3. out' = out
    BY <1>18 DEF Reach, Send, Abandon, Hear, pipes
  <2> QED
    BY <2>1, <2>2, <2>3, OrderedStays
<1>19. ASSUME NEW t \in Tools, Report(t) PROVE Ordered'
  <2>1. UNCHANGED <<child, fault, reader>>
    BY <1>19 DEF Report, harness, outside, parser
  <2>2. child \in {"dialing", "looping", "outcome"} \/ fault
    <3>1. tool[t].at # "idle" /\ child # "none"
      BY <1>19 DEF Report, At
    <3> QED
      BY <3>1, BusyHasFault DEF TypeOK
  <2>3. PICK k \in Nat : Wrote(k, "step", t, Nobody, tool[t].at = "ran", FALSE)
    BY <1>19, Lines
  <2>4. out'[k].tag = "step" /\ DOMAIN out' = DOMAIN out \cup {k} /\ k \notin DOMAIN out
        /\ \A n \in DOMAIN out : n \in Nat /\ n < k /\ out'[n] = out[n]
    BY <2>3 DEF Wrote
  <2>5. child \in {"outcome", "verdict", "end", "joining"} => fault
    <3>1. tool[t].at # "idle"
      BY <1>19 DEF Report, At
    <3> QED
      BY <3>1, BusyHasFault
  <2> QED
    BY <2>1, <2>2, <2>4, <2>5, OrderedStays
<1>20. ASSUME NEW t \in Tools, Settle(t) PROVE Ordered'
  <2>1. UNCHANGED <<child, fault, reader>>
    BY <1>20 DEF Settle, harness, outside, parser
  <2>2. child = "looping"
    BY <1>20 DEF Settle, Uses
  <2>3. PICK k \in Nat : Wrote(k, "step", t, tool[t].job, tool[t].at = "sent", tool[t].at = "sent")
    BY <1>20, Lines
  <2>4. out'[k].tag = "step" /\ DOMAIN out' = DOMAIN out \cup {k} /\ k \notin DOMAIN out
        /\ \A n \in DOMAIN out : n \in Nat /\ n < k /\ out'[n] = out[n]
    BY <2>3 DEF Wrote
  <2> QED
    BY <2>1, <2>2, <2>4, OrderedStays
<1>21. ASSUME NEW t \in Tools, Polled(t) PROVE Ordered'
  <2>1. UNCHANGED <<child, fault, reader>>
    BY <1>21 DEF Polled, harness, outside, parser
  <2>2. child = "looping"
    BY <1>21 DEF Polled, Uses
  <2>3. PICK k \in Nat, flag \in BOOLEAN : Wrote(k, "step", t, tool[t].job, FALSE, flag)
    BY <1>21, Lines
  <2>4. out'[k].tag = "step" /\ DOMAIN out' = DOMAIN out \cup {k} /\ k \notin DOMAIN out
        /\ \A n \in DOMAIN out : n \in Nat /\ n < k /\ out'[n] = out[n]
    BY <2>3 DEF Wrote
  <2> QED
    BY <2>1, <2>2, <2>4, OrderedStays
<1>22. ASSUME NEW t \in Tools, Ask(t) PROVE Ordered'
  <2>1. UNCHANGED <<child, fault, reader>>
    BY <1>22 DEF Ask, harness, outside, parser
  <2>2. child \in {"outcome", "verdict", "end", "joining"} => fault
    <3>1. tool[t].at # "idle"
      BY <1>22 DEF Ask, At
    <3> QED
      BY <3>1, BusyHasFault
  <2>3. PICK k \in Nat : Wrote(k, "ask", t, Nobody, FALSE, FALSE)
    BY <1>22, Lines
  <2>4. out'[k].tag = "ask" /\ DOMAIN out' = DOMAIN out \cup {k} /\ k \notin DOMAIN out
        /\ \A n \in DOMAIN out : n \in Nat /\ n < k /\ out'[n] = out[n]
    BY <2>3 DEF Wrote
  <2> QED
    BY <2>1, <2>2, <2>4, OrderedStays
<1>23. ASSUME NEW j \in Jobs, Progress(j) PROVE Ordered'
  <2>1. UNCHANGED <<child, fault, tool, reader, out>>
    BY <1>23 DEF Progress, parser, harness, pipes
  <2> QED
    BY <2>1, OrderedStays
<1>24. CASE UNCHANGED vars
  <2>1. UNCHANGED <<child, fault, tool, reader, out>>
    BY <1>24 DEF vars, parser, harness, pipes
  <2> QED
    BY <2>1, OrderedStays
<1> QED
  BY <1>1, <1>2, <1>3, <1>4, <1>5, <1>6, <1>7, <1>8, <1>9, <1>10, <1>11, <1>12, <1>13, <1>14,
     <1>15, <1>16, <1>17, <1>18, <1>19, <1>20, <1>21, <1>22, <1>23, <1>24 DEF Next, Serve, Main,
     Work, Model

\* Reading a line that is not the outcome keeps the outcome on its way.
LEMMA FaultedRead ==
    ASSUME TypeOK, Faulted, UNCHANGED <<child, fault, how, outcome>>, reader # "lost",
           out # <<>>, out' = Tail(out), Next1.tag # "outcome"
    PROVE  Faulted'
<1>1. /\ 1 \in DOMAIN out /\ Next1 = out[1]
      /\ \A n \in DOMAIN out' : n \in Nat \ {0} /\ n + 1 \in DOMAIN out /\ out'[n] = out[n + 1]
  BY ReadFacts
<1>2. \A n \in DOMAIN out : n = 1 \/ \E m \in DOMAIN out' : out'[m] = out[n]
  BY ReadKeeps
<1> QED
  BY <1>1, <1>2 DEF Faulted

\* A line that is no outcome leaves what is known of the fault.
LEMMA FaultedWritten ==
    ASSUME Faulted, UNCHANGED <<child, fault, how, reader, outcome>>,
           NEW k, DOMAIN out' = DOMAIN out \cup {k}, \A n \in DOMAIN out : out'[n] = out[n],
           out'[k].tag # "outcome"
    PROVE  Faulted'
BY DEF Faulted

\* Faulted is inductive.
LEMMA FaultedStep == TypeOK /\ Quiet /\ Reserved /\ Ordered /\ Faulted /\ [Next]_vars => Faulted'
<1> SUFFICES ASSUME TypeOK, Quiet, Reserved, Ordered, Faulted, [Next]_vars PROVE Faulted'
  OBVIOUS
<1>1. ASSUME NEW i \in Invocations, Begin(i) \/ Refuse(i) PROVE Faulted'
  <2>1. UNCHANGED <<child, fault, how, reader, outcome, out>>
    BY <1>1 DEF Begin, Refuse, harness, outside, parser, pipes
  <2> QED
    BY <2>1 DEF Faulted
<1>2. CASE Spawn
  <2>1. ~fault'
    BY <1>2 DEF Spawn
  <2> QED
    BY <2>1 DEF Faulted
<1>3. CASE SpawnFails
  <2>1. fault' => how' = "killed" /\ FALSE
    BY <1>3 DEF SpawnFails, harness, Quiet
  <2> QED
    BY <2>1 DEF Faulted
<1>4. CASE Reap
  <2>1. UNCHANGED <<child, fault, how, reader, outcome, out>>
    BY <1>4 DEF Reap, harness, outside, parser, pipes
  <2> QED
    BY <2>1 DEF Faulted
<1>5. CASE Finish
  <2>1. ~fault'
    BY <1>5 DEF Finish
  <2> QED
    BY <2>1 DEF Faulted
<1>6. CASE ReadStep \/ ReadJob \/ ReadAsk
  <2>1. /\ UNCHANGED <<child, fault, how, reader, outcome>> /\ reader # "lost"
        /\ out # <<>> /\ out' = Tail(out) /\ Next1.tag # "outcome"
    BY <1>6 DEF ReadStep, ReadJob, ReadAsk, Reads, parser, harness
  <2> QED
    BY <2>1, FaultedRead
<1>7. CASE ReadOutcome
  <2>1. /\ UNCHANGED <<child, fault, how, reader>> /\ out # <<>> /\ out' = Tail(out) /\ Next1.tag = "outcome"
        /\ outcome' = IF Next1.flag THEN "failed" ELSE "entered"
    BY <1>7 DEF ReadOutcome, Reads, harness
  <2>2. /\ 1 \in DOMAIN out /\ Next1 = out[1]
        /\ \A n \in DOMAIN out' : n \in Nat \ {0} /\ n + 1 \in DOMAIN out /\ out'[n] = out[n + 1]
    BY <2>1, ReadFacts
  <2> QED
    BY <2>1, <2>2 DEF Faulted
<1>8. CASE ReadVerdict
  <2>1. /\ UNCHANGED <<child, fault, how, outcome>> /\ reader # "lost" /\ out # <<>> /\ out' = Tail(out)
        /\ reader = "verdict" \/ Next1.tag \in {"verdict", "end"}
    BY <1>8 DEF ReadVerdict, harness
  <2>2. 1 \in DOMAIN out /\ Next1 = out[1]
    BY <2>1, ReadFacts
  <2>3. Next1.tag # "outcome"
    BY <2>1, <2>2 DEF Ordered
  <2> QED
    BY <2>1, <2>3, FaultedRead
<1>9. CASE Eof
  <2>1. UNCHANGED <<child, fault, how, out, outcome>> /\ reader' # "lost" /\ out = <<>>
        /\ reader # "lost"
    BY <1>9 DEF Eof, harness, pipes, Quiet
  <2> QED
    BY <2>1 DEF Faulted
<1>10. CASE Overflow
  <2>1. UNCHANGED <<fault, out>> /\ reader' = "lost"
    BY <1>10 DEF Overflow, harness, pipes
  <2> QED
    BY <2>1 DEF Faulted
<1>11. CASE Kill
  <2>1. UNCHANGED <<fault, out>> /\ how' = "killed"
    BY <1>11 DEF Kill
  <2> QED
    BY <2>1 DEF Faulted
<1>12. CASE Dial
  <2>1. fault' => child' = "outcome" /\ \A n \in DOMAIN out' : out'[n].tag # "outcome"
    BY <1>12 DEF Dial, Becomes, pipes, Quiet, Ordered
  <2> QED
    BY <2>1 DEF Faulted
<1>13. CASE SdkEnds \/ SdkFails
  <2>1. fault' => child' = "outcome" /\ \A n \in DOMAIN out' : out'[n].tag # "outcome"
    BY <1>13 DEF SdkEnds, SdkFails, Becomes, pipes, Quiet, Ordered
  <2> QED
    BY <2>1 DEF Faulted
<1>14. CASE EmitOutcome
  <2>1. UNCHANGED fault
    BY <1>14 DEF EmitOutcome
  <2>2. PICK k \in Nat : Wrote(k, "outcome", Nobody, Nobody, FALSE, fault)
    BY <1>14, Lines
  <2>3. /\ out'[k].tag = "outcome" /\ out'[k].flag = fault /\ k \in DOMAIN out'
        /\ \A n \in DOMAIN out' : (n \in DOMAIN out /\ out'[n] = out[n]) \/ n = k
    BY <2>2 DEF Wrote
  <2> QED
    BY <2>1, <2>3 DEF Faulted
<1>15. CASE EmitVerdict
  <2>1. UNCHANGED <<fault, how, reader, outcome>> /\ child \in {"verdict", "end"}
    BY <1>15 DEF EmitVerdict, outside, parser
  <2>2. PICK k \in Nat : Wrote(k, IF child = "verdict" THEN "verdict" ELSE "end", Nobody, Nobody, FALSE, FALSE)
    BY <1>15, Lines
  <2>3. /\ out'[k].tag # "outcome" /\ DOMAIN out' = DOMAIN out \cup {k}
        /\ \A n \in DOMAIN out : out'[n] = out[n]
    BY <2>2 DEF Wrote
  <2> QED
    BY <2>1, <2>3 DEF Faulted
<1>16. CASE Exit
  <2>1. UNCHANGED <<fault, reader, outcome, out>> /\ child = "joining" /\ how # "killed"
    BY <1>16 DEF Exit, outside, parser, pipes, Quiet
  <2> QED
    BY <2>1 DEF Faulted
<1>17. ASSUME NEW t \in Tools, Command(t) \/ Consult(t) \/ Reach(t) \/ Send(t) \/ Abandon(t) \/
       Hear(t) PROVE Faulted'
  <2>1. UNCHANGED <<child, fault, how, reader, outcome, out>>
    BY <1>17 DEF Command, Consult, Reach, Send, Abandon, Hear, harness, outside, parser, pipes
  <2> QED
    BY <2>1 DEF Faulted
<1>18. ASSUME NEW t \in Tools, NEW j \in Jobs, Launch(t, j) PROVE Faulted'
  <2>1. UNCHANGED <<child, fault, how, reader, outcome>>
    BY <1>18 DEF Launch, harness, outside, parser
  <2>2. PICK k \in Nat : Wrote(k, "job", t, j, FALSE, TRUE)
    BY <1>18, Lines
  <2> QED
    BY <2>1, <2>2, FaultedWritten DEF Wrote
<1>19. ASSUME NEW t \in Tools, NEW j \in Jobs, Poll(t, j) PROVE Faulted'
  <2>1. UNCHANGED <<child, fault, how, reader, outcome, out>>
    BY <1>19 DEF Poll, harness, outside, parser, pipes
  <2> QED
    BY <2>1 DEF Faulted
<1>20. ASSUME NEW t \in Tools, Report(t) PROVE Faulted'
  <2>1. UNCHANGED <<child, fault, how, reader, outcome>>
    BY <1>20 DEF Report, harness, outside, parser
  <2>2. PICK k \in Nat : Wrote(k, "step", t, Nobody, tool[t].at = "ran", FALSE)
    BY <1>20, Lines
  <2> QED
    BY <2>1, <2>2, FaultedWritten DEF Wrote
<1>21. ASSUME NEW t \in Tools, Settle(t) PROVE Faulted'
  <2>1. UNCHANGED <<child, fault, how, reader, outcome>>
    BY <1>21 DEF Settle, harness, outside, parser
  <2>2. PICK k \in Nat : Wrote(k, "step", t, tool[t].job, tool[t].at = "sent", tool[t].at = "sent")
    BY <1>21, Lines
  <2> QED
    BY <2>1, <2>2, FaultedWritten DEF Wrote
<1>22. ASSUME NEW t \in Tools, Polled(t) PROVE Faulted'
  <2>1. UNCHANGED <<child, fault, how, reader, outcome>>
    BY <1>22 DEF Polled, harness, outside, parser
  <2>2. PICK k \in Nat, flag \in BOOLEAN : Wrote(k, "step", t, tool[t].job, FALSE, flag)
    BY <1>22, Lines
  <2> QED
    BY <2>1, <2>2, FaultedWritten DEF Wrote
<1>23. ASSUME NEW t \in Tools, Ask(t) PROVE Faulted'
  <2>1. UNCHANGED <<child, fault, how, reader, outcome>>
    BY <1>23 DEF Ask, harness, outside, parser
  <2>2. PICK k \in Nat : Wrote(k, "ask", t, Nobody, FALSE, FALSE)
    BY <1>23, Lines
  <2> QED
    BY <2>1, <2>2, FaultedWritten DEF Wrote
<1>24. ASSUME NEW j \in Jobs, Progress(j) PROVE Faulted'
  <2>1. UNCHANGED <<child, fault, how, reader, outcome, out>>
    BY <1>24 DEF Progress, harness, outside, parser, pipes
  <2> QED
    BY <2>1 DEF Faulted
<1>25. CASE UNCHANGED vars
  <2>1. UNCHANGED <<child, fault, how, reader, outcome, out>>
    BY <1>25 DEF vars, harness, outside, parser, pipes
  <2> QED
    BY <2>1 DEF Faulted
<1> QED
  BY <1>1, <1>2, <1>3, <1>4, <1>5, <1>6, <1>7, <1>8, <1>9, <1>10, <1>11, <1>12, <1>13, <1>14,
     <1>15, <1>16, <1>17, <1>18, <1>19, <1>20, <1>21, <1>22, <1>23, <1>24, <1>25 DEF Next, Serve,
     Main, Work, Model

-----------------------------------------------------------------------------
(* The rows, and the count of commands.                                    *)

\* The lines of commands that reached the guest, counted.
LEMMA SentFinite == TypeOK => IsFiniteSet(SentLines) /\ Cardinality(SentLines) \in Nat
<1> SUFFICES ASSUME TypeOK PROVE IsFiniteSet(SentLines)
  BY FS_CardinalityType
<1>1. Len(out) \in Nat /\ DOMAIN out = 1..Len(out)
  BY DEF TypeOK
<1>2. IsFiniteSet(1..Len(out))
  BY <1>1, FS_Interval
<1> QED
  BY <1>1, <1>2, FS_Subset DEF SentLines

\* A line that is read is no longer on the pipe.
LEMMA SentRead ==
    ASSUME TypeOK, out # <<>>, out' = Tail(out)
    PROVE  /\ Cardinality(SentLines) \in Nat
           /\ Cardinality(SentLines') = IF Next1.tag = "step" /\ Next1.sent
                                        THEN Cardinality(SentLines) - 1 ELSE Cardinality(SentLines)
<1> DEFINE S == SentLines \ {1}
           f == [n \in SentLines' |-> n + 1]
<1>1. IsFiniteSet(SentLines) /\ Cardinality(SentLines) \in Nat
  BY SentFinite
<1>2. /\ DOMAIN out = 1..Len(out) /\ DOMAIN out' = 1..(Len(out) - 1) /\ Len(out) \in Nat
      /\ Next1 = out[1] /\ 1 \in DOMAIN out
      /\ \A n \in DOMAIN out' : n + 1 \in DOMAIN out /\ out'[n] = out[n + 1]
  BY TailFacts DEF TypeOK, Next1
<1>3. SentLines' = {n \in DOMAIN out' : out'[n].tag = "step" /\ out'[n].sent}
  BY DEF SentLines
<1>4. \A n \in SentLines' : n \in Nat \ {0} /\ f[n] = n + 1 /\ n + 1 \in S
  BY <1>2, <1>3 DEF SentLines
<1>5. ASSUME NEW m \in S PROVE m - 1 \in SentLines' /\ f[m - 1] = m
  <2>1. m \in DOMAIN out /\ m # 1 /\ out[m].tag = "step" /\ out[m].sent
    BY <1>5 DEF SentLines
  <2>2. m - 1 \in DOMAIN out' /\ (m - 1) + 1 = m
    BY <1>2, <2>1
  <2> QED
    BY <1>2, <1>3, <2>1, <2>2
<1>6. f \in [SentLines' -> S]
  BY <1>4
<1>7. f \in Bijection(SentLines', S)
  <2>1. \A a, b \in SentLines' : f[a] = f[b] => a = b
    BY <1>4
  <2>2. \A m \in S : \E n \in SentLines' : f[n] = m
    BY <1>5
  <2> HIDE DEF f, S
  <2> QED
    BY <1>6, <2>1, <2>2, Fun_IsBij
<1>8. ExistsBijection(SentLines', S)
  BY <1>7, Fun_ExistsBij
<1>9. ExistsBijection(S, SentLines')
  BY <1>8, Fun_ExistsBijSymmetric
<1>10. /\ IsFiniteSet(S)
       /\ Cardinality(S) = IF 1 \in SentLines THEN Cardinality(SentLines) - 1 ELSE Cardinality(SentLines)
  BY <1>1, FS_RemoveElement
<1>11. Cardinality(SentLines') = Cardinality(S)
  BY <1>9, <1>10, FS_Bijection
<1>12. 1 \in SentLines <=> Next1.tag = "step" /\ Next1.sent
  BY <1>2 DEF SentLines
<1> QED
  BY <1>1, <1>10, <1>11, <1>12

\* A line that is written is one more.
LEMMA SentWritten ==
    ASSUME TypeOK, NEW k, NEW tag, NEW t, NEW j, NEW sent, NEW flag, Wrote(k, tag, t, j, sent, flag)
    PROVE  /\ Cardinality(SentLines) \in Nat
           /\ Cardinality(SentLines') = IF tag = "step" /\ sent
                                        THEN Cardinality(SentLines) + 1 ELSE Cardinality(SentLines)
<1>1. IsFiniteSet(SentLines) /\ Cardinality(SentLines) \in Nat
  BY SentFinite
<1>2. k \notin SentLines
  BY DEF Wrote, SentLines
<1>3. SentLines' = {n \in DOMAIN out' : out'[n].tag = "step" /\ out'[n].sent}
  BY DEF SentLines
<1>4. CASE tag = "step" /\ sent
  <2>1. SentLines' = SentLines \cup {k}
    BY <1>3, <1>4 DEF Wrote, SentLines
  <2> QED
    BY <1>1, <1>2, <1>4, <2>1, FS_AddElement
<1>5. CASE ~(tag = "step" /\ sent)
  <2>1. SentLines' = SentLines
    BY <1>3, <1>5 DEF Wrote, SentLines
  <2> QED
    BY <1>1, <1>5, <2>1
<1> QED
  BY <1>4, <1>5

One(l) == IF l \in {"ran", "sent"} THEN 1 ELSE 0

\* A call whose command has reached the guest and is not reported counts for one.
LEMMA RunningStep ==
    ASSUME TypeOK, IsFiniteSet(Running), NEW t \in Tools, \A u \in Tools : u # t => tool'[u] = tool[u]
    PROVE  /\ IsFiniteSet(Running') /\ Cardinality(Running) \in Nat /\ Cardinality(Running') \in Nat
           /\ Cardinality(Running') - One(tool'[t].at) = Cardinality(Running) - One(tool[t].at)
<1> DEFINE S == Running \ {t}
<1>1. Running' = {u \in Tools : tool'[u].at \in {"ran", "sent"}}
  BY DEF Running
<1>2. IsFiniteSet(S) /\ t \notin S /\ Cardinality(S) \in Nat
  BY FS_RemoveElement, FS_CardinalityType
<1>3. Running = IF tool[t].at \in {"ran", "sent"} THEN S \cup {t} ELSE S
  BY DEF Running
<1>4. Running' = IF tool'[t].at \in {"ran", "sent"} THEN S \cup {t} ELSE S
  BY <1>1 DEF Running
<1>5. IsFiniteSet(S \cup {t}) /\ Cardinality(S \cup {t}) = Cardinality(S) + 1
  BY <1>2, FS_AddElement
<1> HIDE DEF S
<1> QED
  BY <1>2, <1>3, <1>4, <1>5 DEF One

\* Nothing is counted of a harness that rests and a pipe that is empty.
LEMMA NothingCounted ==
    /\ tool = Rest => Running = {}
    /\ out = <<>> => SentLines = {}
    /\ IsFiniteSet({}) /\ Cardinality({}) = 0
<1>1. tool = Rest => Running = {}
  BY DEF Rest, Idle, Running
<1>2. out = <<>> => SentLines = {}
  <2>1. \A q : q = <<>> => DOMAIN q = {}
    OBVIOUS
  <2> QED
    BY <2>1 DEF SentLines
<1> QED
  BY <1>1, <1>2, FS_EmptySet

\* A step that leaves the run's place, its row and its counts as they are.
LEMMA RecordedStays ==
    ASSUME Recorded, UNCHANGED <<pc, inv, rows, entries, reached>>, child' = "dialing" => child = "dialing"
    PROVE  Recorded'
BY DEF Recorded

\* A step that leaves what is counted.
LEMMA CountedStays ==
    ASSUME Counted, UNCHANGED <<inv, reached, seen, out, tool>>, Counting' => Counting
    PROVE  Counted'
<1>1. SentLines' = SentLines /\ Running' = Running
  BY DEF SentLines, Running
<1> QED
  BY <1>1 DEF Counted

\* A line of another kind, and calls that stay as they are.
LEMMA CountedWritten ==
    ASSUME TypeOK, Counted, UNCHANGED <<inv, reached, seen, tool>>, Counting' => Counting,
           NEW k, NEW tag, NEW t, NEW j, NEW flag, NEW sent, Wrote(k, tag, t, j, sent, flag), tag # "step"
    PROVE  Counted'
<1>1. Running' = Running
  BY DEF Running
<1> QED
  BY <1>1, SentWritten DEF Counted

\* A line is read, and counted if it is the step of a command.
LEMMA CountedRead ==
    ASSUME TypeOK, Counted, UNCHANGED <<inv, reached, tool>>, Counting' => Counting, out # <<>>, out' = Tail(out),
           Counting => seen' = IF Next1.tag = "step" /\ Next1.sent THEN seen + 1 ELSE seen
    PROVE  Counted'
<1>1. Running' = Running
  BY DEF Running
<1>2. seen \in Nat
  BY DEF TypeOK
<1>3. /\ Cardinality(SentLines) \in Nat
      /\ Cardinality(SentLines') = IF Next1.tag = "step" /\ Next1.sent
                                   THEN Cardinality(SentLines) - 1 ELSE Cardinality(SentLines)
  BY SentRead
<1>4. CASE Counting'
  <2>1. Cardinality(Running) \in Nat
    BY FS_CardinalityType DEF Counted
  <2>2. seen' + Cardinality(SentLines') = seen + Cardinality(SentLines)
    BY <1>2, <1>3, <1>4
  <2> QED
    BY <1>1, <1>4, <2>1, <2>2 DEF Counted
<1>5. CASE ~Counting'
  BY <1>1, <1>5 DEF Counted
<1> QED
  BY <1>4, <1>5

\* One call changes and nothing is written.
LEMMA CountedCall ==
    ASSUME TypeOK, Counted, UNCHANGED <<inv, seen, out>>, Counting' => Counting, NEW t \in Tools,
           \A u \in Tools : u # t => tool'[u] = tool[u],
           Counting => reached'[inv] = reached[inv] + One(tool'[t].at) - One(tool[t].at)
    PROVE  Counted'
<1>1. SentLines' = SentLines
  BY DEF SentLines
<1>2. /\ IsFiniteSet(Running') /\ Cardinality(Running) \in Nat /\ Cardinality(Running') \in Nat
      /\ Cardinality(Running') - One(tool'[t].at) = Cardinality(Running) - One(tool[t].at)
  BY RunningStep DEF Counted
<1>3. Cardinality(SentLines) \in Nat /\ seen \in Nat
  BY SentFinite DEF TypeOK
<1>4. One(tool'[t].at) \in Nat /\ One(tool[t].at) \in Nat
  BY DEF One
<1> QED
  BY <1>1, <1>2, <1>3, <1>4 DEF Counted

\* One call changes with the line it writes.
LEMMA CountedReport ==
    ASSUME TypeOK, Counted, UNCHANGED <<inv, reached, seen>>, Counting' => Counting, NEW t \in Tools,
           \A u \in Tools : u # t => tool'[u] = tool[u],
           NEW k, NEW tag, NEW c, NEW j, NEW sent, NEW flag, Wrote(k, tag, c, j, sent, flag),
           One(tool[t].at) = (IF tag = "step" /\ sent THEN 1 ELSE 0) + One(tool'[t].at)
    PROVE  Counted'
<1>1. /\ IsFiniteSet(Running') /\ Cardinality(Running) \in Nat /\ Cardinality(Running') \in Nat
      /\ Cardinality(Running') - One(tool'[t].at) = Cardinality(Running) - One(tool[t].at)
  BY RunningStep DEF Counted
<1>2. /\ Cardinality(SentLines) \in Nat
      /\ Cardinality(SentLines') = IF tag = "step" /\ sent
                                   THEN Cardinality(SentLines) + 1 ELSE Cardinality(SentLines)
  BY SentWritten
<1>3. One(tool'[t].at) \in Nat /\ seen \in Nat
  BY DEF One, TypeOK
<1>4. Cardinality(SentLines') + Cardinality(Running') = Cardinality(SentLines) + Cardinality(Running)
  <2>1. CASE tag = "step" /\ sent
    BY <1>1, <1>2, <1>3, <2>1
  <2>2. CASE ~(tag = "step" /\ sent)
    <3>1. One(tool[t].at) = One(tool'[t].at)
      BY <1>3, <2>2
    <3>2. Cardinality(SentLines') = Cardinality(SentLines)
      BY <1>2, <2>2
    <3> QED
      BY <1>1, <1>2, <1>3, <3>1, <3>2
  <2> QED
    BY <2>1, <2>2
<1>5. CASE Counting'
  <2>1. reached'[inv'] = seen + (Cardinality(SentLines) + Cardinality(Running))
    BY <1>1, <1>2, <1>3, <1>5 DEF Counted
  <2> QED
    BY <1>1, <1>2, <1>3, <1>4, <2>1 DEF Counted
<1>6. CASE ~Counting'
  BY <1>1, <1>6 DEF Counted
<1> QED
  BY <1>5, <1>6

\* A command that reaches the guest is counted for a row that is still open.
LEMMA ReachedStays ==
    ASSUME TypeOK, Quiet, Recorded, child # "none", UNCHANGED <<pc, inv, rows, entries, child>>,
           reached' = [reached EXCEPT ![inv] = reached[inv] + 1]
    PROVE  Recorded'
<1>1. pc # "idle" /\ pc # "started" /\ rows[inv].state = "started"
  BY DEF Quiet, Recorded
<1>2. \A k \in Invocations : k # inv => reached'[k] = reached[k]
  BY DEF TypeOK
<1> QED
  BY <1>1, <1>2 DEF Recorded

\* Recorded is inductive.
LEMMA RecordedStep == TypeOK /\ Quiet /\ Faulted /\ Recorded /\ Counted /\ [Next]_vars => Recorded'
<1> SUFFICES ASSUME TypeOK, Quiet, Faulted, Recorded, Counted, [Next]_vars PROVE Recorded'
  OBVIOUS
<1>1. ASSUME NEW i \in Invocations, Begin(i) PROVE Recorded'

  <2>1. /\ rows[i].state = "none" /\ rows' = [rows EXCEPT ![i] = Row("started", 0)] /\ pc' = "started"
        /\ inv' = i /\ UNCHANGED <<entries, reached, child>>
    BY <1>1 DEF Begin, history, harness
  <2>2. rows'[i].state = "started" /\ \A k \in Invocations : k # i => rows'[k] = rows[k]
    BY <2>1 DEF TypeOK, Row
  <2> QED
    BY <2>1, <2>2 DEF Recorded
<1>2. ASSUME NEW i \in Invocations, Refuse(i) PROVE Recorded'

  <2>1. /\ pc = "idle" /\ UNCHANGED <<pc, inv, entries, reached, child>>
        /\ rows' = rows \/ (rows' = [rows EXCEPT ![i] = Row("started", 0)] /\ rows[i].state = "none")
    BY <1>2 DEF Refuse, history, harness
  <2>2. child # "dialing"
    BY <2>1 DEF Quiet
  <2>3. CASE rows' = [rows EXCEPT ![i] = Row("started", 0)] /\ rows[i].state = "none"
    <3>1. rows'[i].state = "started" /\ \A k \in Invocations : k # i => rows'[k] = rows[k]
      BY <2>3 DEF TypeOK, Row
    <3> QED
      BY <2>1, <2>2, <2>3, <3>1 DEF Recorded
  <2> QED
    BY <2>1, <2>2, <2>3 DEF Recorded
<1>3. CASE Spawn

  <2>1. pc = "started" /\ pc' = "reading" /\ UNCHANGED <<inv, rows, entries, reached>>
    BY <1>3 DEF Spawn, history
  <2> QED
    BY <2>1 DEF Recorded
<1>4. CASE Eof \/ Overflow \/ Reap \/ SpawnFails

  <2>1. /\ pc # "idle" /\ pc' \notin {"idle", "started"}
        /\ UNCHANGED <<inv, rows, child, entries, reached>>
    BY <1>4 DEF Eof, Overflow, Reap, SpawnFails, harness, history
  <2> QED
    BY <2>1 DEF Recorded
<1>5. CASE Finish

  <2>1. /\ pc = "finishing" /\ pc' = "idle" /\ UNCHANGED <<inv, child, entries, reached>>
        /\ \/ rows' = rows
           \/ rows' = [rows EXCEPT ![inv] = Row(IF Succeeded THEN "ok" ELSE "error", seen)]
    BY <1>5 DEF Finish, history
  <2>2. child = "none" /\ tool = Rest /\ (reader = "lost" \/ out = <<>>)
    BY <2>1 DEF Quiet
  <2>3. Succeeded => reached[inv] = seen
    <3>1. SUFFICES ASSUME Succeeded PROVE reached[inv] = seen
      OBVIOUS
    <3>2. out = <<>> /\ how # "killed" /\ reader # "lost" /\ outcome = "entered"
      BY <2>2, <3>1 DEF Succeeded
    <3>3. \A n \in DOMAIN out : FALSE
      BY <3>2
    <3>4. ~fault
      BY <2>2, <3>2, <3>3 DEF Faulted
    <3>5. SentLines = {} /\ Running = {} /\ Cardinality({}) = 0
      BY <2>2, <3>2, NothingCounted
    <3>6. seen \in Nat
      BY DEF TypeOK
    <3> QED
      BY <2>1, <3>2, <3>4, <3>5, <3>6 DEF Counted, Counting
  <2>4. CASE rows' = rows
    BY <2>1, <2>2, <2>4 DEF Recorded
  <2>5. CASE rows' = [rows EXCEPT ![inv] = Row(IF Succeeded THEN "ok" ELSE "error", seen)]
    <3>1. /\ inv \in Invocations /\ rows'[inv].state = (IF Succeeded THEN "ok" ELSE "error")
          /\ rows'[inv].steps = seen
          /\ \A k \in Invocations : k # inv => rows'[k] = rows[k]
      BY <2>5 DEF TypeOK, Row
    <3> QED
      BY <2>1, <2>2, <2>3, <3>1 DEF Recorded
  <2> QED
    BY <2>1, <2>4, <2>5
<1>6. CASE ReadStep \/ ReadJob \/ ReadAsk \/ ReadOutcome \/ ReadVerdict

  <2>1. UNCHANGED <<pc, inv, rows, child, entries, reached>>
    BY <1>6 DEF ReadStep, ReadJob, ReadAsk, ReadOutcome, ReadVerdict, super, harness, history
  <2> QED
    BY <2>1, RecordedStays
<1>7. CASE Kill

  <2>1. UNCHANGED <<pc, inv, rows, entries, reached>> /\ child' # "dialing"
    BY <1>7 DEF Kill, super, history
  <2> QED
    BY <2>1, RecordedStays
<1>8. CASE Dial

  <2>1. /\ child = "dialing" /\ child' # "dialing" /\ UNCHANGED <<pc, inv, rows, reached>>
        /\ entries' = [entries EXCEPT ![inv] = entries[inv] + 1] \/ entries' = entries
    BY <1>8 DEF Dial, Becomes, outside, super
  <2>2. /\ pc # "idle" /\ pc # "started"
    BY <2>1 DEF Quiet
  <2>3. CASE entries' = [entries EXCEPT ![inv] = entries[inv] + 1]
    <3>1. entries \in [Invocations -> Nat] /\ inv \in Invocations
      BY DEF TypeOK
    <3>2. entries[inv] = 0 /\ rows[inv].state = "started"
      BY <2>1, <2>2 DEF Recorded
    <3>3. /\ entries'[inv] = 1 /\ \A k \in Invocations : k # inv => entries'[k] = entries[k]
      BY <2>3, <3>1, <3>2
    <3> QED
      BY <2>1, <2>2, <3>2, <3>3 DEF Recorded
  <2> QED
    BY <2>1, <2>2, <2>3, RecordedStays
<1>9. CASE SdkEnds \/ SdkFails \/ EmitOutcome \/ EmitVerdict \/ Exit

  <2>1. UNCHANGED <<pc, inv, rows, entries, reached>> /\ child' # "dialing"
    BY <1>9 DEF SdkEnds, SdkFails, EmitOutcome, EmitVerdict, Exit, Becomes, outside, super, history
  <2> QED
    BY <2>1, RecordedStays
<1>10. ASSUME NEW t \in Tools, Command(t) \/ Consult(t) \/ Report(t) \/ Settle(t) \/ Polled(t) \/
       Abandon(t) \/ Ask(t) \/ Hear(t) PROVE Recorded'

  <2>1. UNCHANGED <<pc, inv, rows, child, entries, reached>>
    BY <1>10 DEF Command, Consult, Report, Settle, Polled, Abandon, Ask, Hear, outside, super, harness, history
  <2> QED
    BY <2>1, RecordedStays
<1>11. ASSUME NEW t \in Tools, NEW j \in Jobs, Launch(t, j) \/ Poll(t, j) PROVE Recorded'

  <2>1. UNCHANGED <<pc, inv, rows, child, entries, reached>>
    BY <1>11 DEF Launch, Poll, outside, super, harness, history
  <2> QED
    BY <2>1, RecordedStays
<1>12. ASSUME NEW t \in Tools, Reach(t) PROVE Recorded'

  <2>1. /\ child # "none" /\ UNCHANGED <<pc, inv, rows, entries, child>>
        /\ reached' = [reached EXCEPT ![inv] = reached[inv] + 1]
    BY <1>12 DEF Reach, At, outside, super, harness
  <2> QED
    BY <2>1, ReachedStays
<1>13. ASSUME NEW t \in Tools, Send(t) PROVE Recorded'

  <2>1. /\ child # "none" /\ UNCHANGED <<pc, inv, rows, entries, child>>
        /\ reached' = [reached EXCEPT ![inv] = reached[inv] + 1] \/ reached' = reached
    BY <1>13 DEF Send, At, outside, super, harness
  <2> QED
    BY <2>1, ReachedStays, RecordedStays
<1>14. ASSUME NEW j \in Jobs, Progress(j) PROVE Recorded'

  <2>1. UNCHANGED <<pc, inv, rows, child, entries, reached>>
    BY <1>14 DEF Progress, super, harness, history
  <2> QED
    BY <2>1, RecordedStays
<1>15. CASE UNCHANGED vars

  <2>1. UNCHANGED <<pc, inv, rows, child, entries, reached>>
    BY <1>15 DEF vars, super, harness, history
  <2> QED
    BY <2>1, RecordedStays
<1> QED
  BY <1>1, <1>2, <1>3, <1>4, <1>5, <1>6, <1>7, <1>8, <1>9, <1>10, <1>11, <1>12, <1>13, <1>14,
     <1>15 DEF Next, Serve, Main, Work, Model

\* A call of another kind, and nothing is written.
LEMMA CountedQuietly ==
    ASSUME TypeOK, Counted, UNCHANGED <<pc, inv, reached, seen, out, fault, how, reader>>, NEW t \in Tools,
           \A u \in Tools : u # t => tool'[u] = tool[u],
           tool[t].at \notin {"ran", "sent"}, tool'[t].at \notin {"ran", "sent"}
    PROVE  Counted'
<1>1. One(tool[t].at) = 0 /\ One(tool'[t].at) = 0
  BY DEF One
<1>2. reached[inv] \in Nat
  BY DEF TypeOK
<1>3. Counting' => Counting
  BY DEF Counting
<1>4. reached'[inv] = reached[inv] + One(tool'[t].at) - One(tool[t].at)
  BY <1>1, <1>2
<1> QED
  BY <1>3, <1>4, CountedCall

\* A command of a call reaches the guest.
LEMMA CountedReached ==
    ASSUME TypeOK, Counted, UNCHANGED <<pc, inv, seen, out, fault, how, reader>>, NEW t \in Tools,
           tool[t].at \in {"command", "launch"}, reached' = [reached EXCEPT ![inv] = reached[inv] + 1],
           To(t, "ran") \/ To(t, "sent")
    PROVE  Counted'
<1>1. tool'[t].at \in {"ran", "sent"} /\ \A u \in Tools : u # t => tool'[u] = tool[u]
  BY CallStep
<1>2. One(tool[t].at) = 0 /\ One(tool'[t].at) = 1
  BY <1>1 DEF One
<1>3. reached[inv] \in Nat /\ reached'[inv] = reached[inv] + 1
  BY DEF TypeOK
<1>4. Counting' => Counting
  BY DEF Counting
<1>5. reached'[inv] = reached[inv] + One(tool'[t].at) - One(tool[t].at)
  BY <1>2, <1>3
<1> QED
  BY <1>1, <1>4, <1>5, CountedCall

\* Counted is inductive.
LEMMA CountedStep == TypeOK /\ Quiet /\ Reserved /\ Ordered /\ Recorded /\ Counted /\ [Next]_vars => Counted'
<1> SUFFICES ASSUME TypeOK, Quiet, Reserved, Ordered, Recorded, Counted, [Next]_vars PROVE
      Counted'
  OBVIOUS
<1>1. ASSUME NEW i \in Invocations, Begin(i) PROVE Counted'

  <2>1. pc = "idle" /\ rows[i].state = "none" /\ inv' = i /\ UNCHANGED <<reached, seen, out, tool>>
    BY <1>1 DEF Begin, parser, pipes, history
  <2>2. child = "none" /\ tool = Rest /\ out = <<>> /\ seen = 0 /\ reached[i] = 0
    BY <2>1 DEF Quiet, Recorded
  <2>3. SentLines' = {} /\ Running' = {} /\ Cardinality({}) = 0 /\ IsFiniteSet({})
    <3>1. SentLines' = SentLines /\ Running' = Running
      BY <2>1 DEF SentLines, Running
    <3> QED
      BY <2>2, <3>1, NothingCounted
  <2> QED
    BY <2>1, <2>2, <2>3 DEF Counted
<1>2. ASSUME NEW i \in Invocations, Refuse(i) PROVE Counted'

  <2>1. pc' = "idle" /\ UNCHANGED tool
    BY <1>2 DEF Refuse
  <2> QED
    BY <2>1 DEF Counted, Counting, Running
<1>3. CASE Spawn

  <2>1. pc = "started" /\ UNCHANGED <<inv, reached, seen, out, tool>>
    BY <1>3 DEF Spawn, pipes, history
  <2>2. Counting
    BY <2>1 DEF Quiet, Counting
  <2> QED
    BY <2>1, <2>2, CountedStays
<1>4. CASE SpawnFails

  <2>1. how' = "killed" /\ UNCHANGED tool
    BY <1>4 DEF SpawnFails
  <2> QED
    BY <2>1 DEF Counted, Counting, Running
<1>5. CASE Reap \/ Eof

  <2>1. /\ UNCHANGED <<inv, reached, seen, out, tool, fault, how>> /\ pc # "idle"
        /\ reader' = reader \/ pc = "reading"
    BY <1>5 DEF Reap, Eof, parser, harness, pipes, history
  <2>2. Counting' => Counting
    BY <2>1 DEF Counting, Quiet
  <2> QED
    BY <2>1, <2>2, CountedStays
<1>6. CASE Finish

  <2>1. pc' = "idle" /\ UNCHANGED tool
    BY <1>6 DEF Finish
  <2> QED
    BY <2>1 DEF Counted, Counting, Running
<1>7. CASE ReadStep

  <2>1. /\ UNCHANGED <<pc, inv, reached, tool, fault, how, reader>> /\ out # <<>> /\ out' = Tail(out)
        /\ Next1.tag = "step" /\ seen' = IF Next1.sent THEN seen + 1 ELSE seen
    BY <1>7 DEF ReadStep, Reads, super, harness, history
  <2>2. Counting' => Counting
    BY <2>1 DEF Counting
  <2> QED
    BY <2>1, <2>2, CountedRead
<1>8. CASE ReadJob \/ ReadAsk \/ ReadOutcome

  <2>1. /\ UNCHANGED <<pc, inv, reached, seen, tool, fault, how, reader>> /\ out # <<>> /\ out' = Tail(out)
        /\ Next1.tag # "step"
    BY <1>8 DEF ReadJob, ReadAsk, ReadOutcome, Reads, super, parser, harness, history
  <2>2. Counting' => Counting
    BY <2>1 DEF Counting
  <2> QED
    BY <2>1, <2>2, CountedRead
<1>9. CASE ReadVerdict

  <2>1. /\ UNCHANGED <<pc, inv, reached, seen, tool, fault, how>> /\ out # <<>> /\ out' = Tail(out)
        /\ reader = "verdict" \/ Next1.tag \in {"verdict", "end"}
        /\ reader \in {"line", "verdict"}
    BY <1>9 DEF ReadVerdict, super, harness, history
  <2>2. Next1 = out[1] /\ 1 \in DOMAIN out
    BY <2>1, ReadFacts
  <2>3. ~fault => Next1.tag # "step"
    BY <2>1, <2>2 DEF Ordered
  <2>4. Counting' => Counting
    BY <2>1 DEF Counting
  <2> QED
    BY <2>1, <2>3, <2>4, CountedRead DEF Counting
<1>10. CASE Overflow

  <2>1. reader' = "lost" /\ UNCHANGED tool
    BY <1>10 DEF Overflow
  <2> QED
    BY <2>1 DEF Counted, Counting, Running
<1>11. CASE Kill

  <2>1. how' = "killed" /\ tool' = Rest
    BY <1>11 DEF Kill
  <2>2. Running' = {} /\ IsFiniteSet({})
    BY <2>1, FS_EmptySet DEF Running, Rest, Idle
  <2> QED
    BY <2>1, <2>2 DEF Counted, Counting
<1>12. CASE Dial

  <2>1. UNCHANGED <<pc, inv, reached, seen, out, tool, how, reader>> /\ child = "dialing"
    BY <1>12 DEF Dial, outside, super, parser, pipes
  <2>2. Counting' => Counting
    BY <2>1 DEF Counting, Quiet
  <2> QED
    BY <2>1, <2>2, CountedStays
<1>13. CASE SdkEnds

  <2>1. UNCHANGED <<pc, inv, reached, seen, out, tool, how, reader>> /\ child = "looping"
    BY <1>13 DEF SdkEnds, outside, super, parser, pipes, history
  <2>2. Counting' => Counting
    BY <2>1 DEF Counting, Quiet
  <2> QED
    BY <2>1, <2>2, CountedStays
<1>14. CASE EmitOutcome

  <2>1. UNCHANGED <<pc, inv, reached, seen, tool, how, reader, fault>>
    BY <1>14 DEF EmitOutcome, outside, super, parser, history
  <2>2. \E k \in Nat : Wrote(k, "outcome", Nobody, Nobody, FALSE, fault)
    BY <1>14, Lines
  <2>3. Counting' => Counting
    BY <2>1 DEF Counting
  <2> QED
    BY <2>1, <2>2, <2>3, CountedWritten
<1>15. CASE EmitVerdict

  <2>1. UNCHANGED <<pc, inv, reached, seen, tool, how, reader, fault>>
    BY <1>15 DEF EmitVerdict, outside, super, parser, history
  <2>2. PICK k \in Nat :
          Wrote(k, IF child = "verdict" THEN "verdict" ELSE "end", Nobody, Nobody, FALSE, FALSE)
    BY <1>15, Lines
  <2>3. Counting' => Counting
    BY <2>1 DEF Counting
  <2>4. (IF child = "verdict" THEN "verdict" ELSE "end") # "step"
    OBVIOUS
  <2> HIDE DEF One
  <2> QED
    BY <2>1, <2>2, <2>3, <2>4, CountedWritten
<1>16. CASE Exit

  <2>1. UNCHANGED <<pc, inv, reached, seen, out, tool, fault, reader>> /\ child = "joining"
    BY <1>16 DEF Exit, outside, super, parser, pipes, history
  <2>2. Counting' => Counting
    BY <2>1 DEF Counting, Quiet
  <2> QED
    BY <2>1, <2>2, CountedStays
<1>17. CASE SdkFails

  <2>1. fault' /\ UNCHANGED tool
    BY <1>17 DEF SdkFails
  <2> QED
    BY <2>1 DEF Counted, Counting, Running
<1>18. ASSUME NEW t \in Tools, Command(t) \/ Consult(t) \/ Hear(t) PROVE Counted'

  <2>1. UNCHANGED <<pc, inv, reached, seen, out, fault, how, reader>>
    BY <1>18 DEF Command, Consult, Hear, outside, super, parser, harness, pipes, history
  <2>2. /\ tool[t].at \in {"idle", "asked"} /\ tool'[t].at \in {"command", "wanting", "idle"}
        /\ \A u \in Tools : u # t => tool'[u] = tool[u]
    BY <1>18, CallStep DEF Command, Consult, Hear, Uses, At, Idle
  <2> QED
    BY <2>1, <2>2, CountedQuietly
<1>19. ASSUME NEW t \in Tools, NEW j \in Jobs, Launch(t, j) PROVE Counted'

  <2>1. UNCHANGED <<pc, inv, reached, seen, fault, how, reader>> /\ tool[t] = Idle
    BY <1>19 DEF Launch, Uses, outside, super, parser
  <2>2. PICK k \in Nat : Wrote(k, "job", t, j, FALSE, TRUE)
    BY <1>19, Lines
  <2>3. /\ \A u \in Tools : u # t => tool'[u] = tool[u]
        /\ tool[t].at = "idle" /\ tool'[t].at = "launch"
    BY <1>19, <2>1 DEF Launch, TypeOK, Idle
  <2>4. One(tool[t].at) = (IF "job" = "step" /\ FALSE THEN 1 ELSE 0) + One(tool'[t].at)
    BY <2>3 DEF One
  <2>5. Counting' => Counting
    BY <2>1 DEF Counting
  <2> QED
    BY <2>1, <2>2, <2>3, <2>4, <2>5, CountedReport
<1>20. ASSUME NEW t \in Tools, NEW j \in Jobs, Poll(t, j) PROVE Counted'

  <2>1. UNCHANGED <<pc, inv, reached, seen, out, fault, how, reader>>
    BY <1>20 DEF Poll, outside, super, parser, harness, pipes, history
  <2>2. /\ tool[t].at = "idle" /\ tool'[t].at = "poll"
        /\ \A u \in Tools : u # t => tool'[u] = tool[u]
    BY <1>20 DEF Poll, Uses, Idle, TypeOK
  <2> QED
    BY <2>1, <2>2, CountedQuietly
<1>21. ASSUME NEW t \in Tools, Reach(t) PROVE Counted'

  <2>1. /\ UNCHANGED <<pc, inv, seen, out, fault, how, reader>> /\ tool[t].at = "command"
        /\ reached' = [reached EXCEPT ![inv] = reached[inv] + 1] /\ To(t, "ran")
    BY <1>21 DEF Reach, At, outside, super, parser, harness, pipes
  <2> QED
    BY <2>1, CountedReached
<1>22. ASSUME NEW t \in Tools, Report(t) PROVE Counted'

  <2>1. UNCHANGED <<pc, inv, reached, seen, fault, how, reader>> /\ tool[t].at \in {"command", "ran"} /\ Done(t)
    BY <1>22 DEF Report, At, outside, super, parser, harness, history
  <2>2. PICK k \in Nat : Wrote(k, "step", t, Nobody, tool[t].at = "ran", FALSE)
    BY <1>22, Lines
  <2>3. tool'[t].at = "idle" /\ \A u \in Tools : u # t => tool'[u] = tool[u]
    BY <2>1, CallStep
  <2>4. Counting' => Counting
    BY <2>1 DEF Counting
  <2>5. One(tool[t].at) = (IF tool[t].at = "ran" THEN 1 ELSE 0) + One(tool'[t].at)
    BY <2>1, <2>3 DEF One
  <2> QED
    BY <2>1, <2>2, <2>3, <2>4, <2>5, CountedReport
<1>23. ASSUME NEW t \in Tools, Send(t) PROVE Counted'

  <2>1. /\ UNCHANGED <<pc, inv, seen, out, fault, how, reader>> /\ tool[t].at = "launch"
        /\ \/ reached' = [reached EXCEPT ![inv] = reached[inv] + 1] /\ To(t, "sent")
           \/ reached' = reached /\ To(t, "unsent")
    BY <1>23 DEF Send, At, outside, super, parser, harness, pipes
  <2>2. CASE To(t, "sent") /\ reached' = [reached EXCEPT ![inv] = reached[inv] + 1]
    BY <2>1, <2>2, CountedReached
  <2>3. CASE To(t, "unsent") /\ reached' = reached
    <3>1. tool'[t].at = "unsent" /\ \A u \in Tools : u # t => tool'[u] = tool[u]
      BY <2>3, CallStep
    <3> QED
      BY <2>1, <2>3, <3>1, CountedQuietly
  <2> QED
    BY <2>1, <2>2, <2>3
<1>24. ASSUME NEW t \in Tools, Settle(t) PROVE Counted'

  <2>1. UNCHANGED <<pc, inv, reached, seen, fault, how, reader>> /\ tool[t].at \in {"sent", "unsent"} /\ Done(t)
    BY <1>24 DEF Settle, outside, super, parser, history
  <2>2. PICK k \in Nat : Wrote(k, "step", t, tool[t].job, tool[t].at = "sent", tool[t].at = "sent")
    BY <1>24, Lines
  <2>3. tool'[t].at = "idle" /\ \A u \in Tools : u # t => tool'[u] = tool[u]
    BY <2>1, CallStep
  <2>4. Counting' => Counting
    BY <2>1 DEF Counting
  <2>5. One(tool[t].at) = (IF tool[t].at = "sent" THEN 1 ELSE 0) + One(tool'[t].at)
    BY <2>1, <2>3 DEF One
  <2> QED
    BY <2>1, <2>2, <2>3, <2>4, <2>5, CountedReport
<1>25. ASSUME NEW t \in Tools, Polled(t) PROVE Counted'

  <2>1. UNCHANGED <<pc, inv, reached, seen, fault, how, reader>> /\ tool[t].at = "poll" /\ Done(t)
    BY <1>25 DEF Polled, outside, super, parser
  <2>2. PICK k \in Nat, flag \in BOOLEAN : Wrote(k, "step", t, tool[t].job, FALSE, flag)
    BY <1>25, Lines
  <2>3. tool'[t].at = "idle" /\ \A u \in Tools : u # t => tool'[u] = tool[u]
    BY <2>1, CallStep
  <2>4. Counting' => Counting
    BY <2>1 DEF Counting
  <2>5. One(tool[t].at) = (IF "step" = "step" /\ FALSE THEN 1 ELSE 0) + One(tool'[t].at)
    BY <2>1, <2>3 DEF One
  <2> QED
    BY <2>1, <2>2, <2>3, <2>4, <2>5, CountedReport
<1>26. ASSUME NEW t \in Tools, Abandon(t) PROVE Counted'

  <2>1. /\ UNCHANGED <<pc, inv, reached, seen, out, fault, how, reader>> /\ child = "joining"
        /\ tool[t].at \in {"sent", "unsent", "poll"} /\ Done(t)
    BY <1>26 DEF Abandon, outside, super, parser, harness, pipes, history
  <2>2. fault
    BY <2>1 DEF Ordered, Rest, Idle
  <2>3. \A u \in Tools : u # t => tool'[u] = tool[u]
    BY <2>1, CallStep
  <2>4. ~Counting /\ ~Counting'
    BY <2>1, <2>2 DEF Counting
  <2> QED
    BY <2>1, <2>3, <2>4, CountedCall
<1>27. ASSUME NEW t \in Tools, Ask(t) PROVE Counted'

  <2>1. UNCHANGED <<pc, inv, reached, seen, fault, how, reader>> /\ tool[t].at = "wanting" /\ To(t, "asked")
    BY <1>27 DEF Ask, At, outside, super, parser, harness, history
  <2>2. PICK k \in Nat : Wrote(k, "ask", t, Nobody, FALSE, FALSE)
    BY <1>27, Lines
  <2>3. tool'[t].at = "asked" /\ \A u \in Tools : u # t => tool'[u] = tool[u]
    BY <2>1, CallStep
  <2>4. Counting' => Counting
    BY <2>1 DEF Counting
  <2>5. One(tool[t].at) = (IF "ask" = "step" /\ FALSE THEN 1 ELSE 0) + One(tool'[t].at)
    BY <2>1, <2>3 DEF One
  <2> QED
    BY <2>1, <2>2, <2>3, <2>4, <2>5, CountedReport
<1>28. ASSUME NEW j \in Jobs, Progress(j) PROVE Counted'

  <2>1. UNCHANGED <<pc, inv, reached, seen, out, tool, fault, how, reader>>
    BY <1>28 DEF Progress, super, parser, harness, pipes, history
  <2> QED
    BY <2>1, CountedStays DEF Counting
<1>29. CASE UNCHANGED vars

  <2>1. UNCHANGED <<pc, inv, reached, seen, out, tool, fault, how, reader>>
    BY <1>29 DEF vars, super, parser, harness, pipes, history
  <2> QED
    BY <2>1, CountedStays DEF Counting
<1> QED
  BY <1>1, <1>2, <1>3, <1>4, <1>5, <1>6, <1>7, <1>8, <1>9, <1>10, <1>11, <1>12, <1>13, <1>14,
     <1>15, <1>16, <1>17, <1>18, <1>19, <1>20, <1>21, <1>22, <1>23, <1>24, <1>25, <1>26, <1>27,
     <1>28, <1>29 DEF Next, Serve, Main, Work, Model

-----------------------------------------------------------------------------
(* The runs keep their invariant.                                          *)

\* The runs begin with no row, no call and no line.
LEMMA InvInit == Init => IInv
<1> SUFFICES ASSUME Init PROVE IInv
  OBVIOUS
<1>1. TypeOK
  BY TypeInit
<1>2. /\ pc = "idle" /\ child = "none" /\ tool = Rest /\ out = <<>> /\ stdin = <<>> /\ reader = "off"
      /\ how = "exited" /\ ~fault /\ owned = {} /\ slots = 0 /\ seen = 0 /\ outcome = "entered" /\ tracked = {}
      /\ \A j \in Jobs : guest[j] = "new"
      /\ \A i \in Invocations : rows[i].state = "none" /\ entries[i] = 0 /\ reached[i] = 0
  BY DEF Init, Row
<1>3. \A q : q = <<>> => DOMAIN q = {} /\ Len(q) = 0
  OBVIOUS
<1>4. DOMAIN out = {} /\ DOMAIN stdin = {} /\ Len(stdin) = 0
  BY <1>2, <1>3
<1>5. \A t \in Tools : tool[t].at = "idle" /\ tool[t].job = Nobody
  BY <1>2 DEF Rest, Idle
<1>6. Quiet /\ Faulted
  BY <1>2, <1>4 DEF Quiet, Faulted
<1>7. Asked
  BY <1>2, <1>4, <1>5 DEF Asked
<1>8. Ordered
  BY <1>2, <1>4 DEF Ordered
<1>9. Recorded
  BY <1>2 DEF Recorded
<1>10. Counted
  BY <1>2, NothingCounted DEF Counted, Counting
<1>11. Room
  BY <1>2, FS_EmptySet, SshRunAssumption DEF Room
<1>12. Reserved
  <2>1. \A j \in Jobs : j # Nobody
    BY SshRunAssumption
  <2> QED
    BY <1>2, <1>4, <1>5, <2>1 DEF Reserved, NewJobs, OwnCalls, LinesTell
<1>13. Followed
  BY <1>2, <1>5 DEF Followed, Launcher
<1> QED
  BY <1>1, <1>6, <1>7, <1>8, <1>9, <1>10, <1>11, <1>12, <1>13 DEF IInv

\* Every step keeps them all, each by its own lemma.
LEMMA InvStep == IInv /\ [Next]_vars => IInv'
<1> SUFFICES ASSUME IInv, [Next]_vars PROVE IInv'
  OBVIOUS
<1>1. TypeOK /\ Quiet /\ Asked /\ Ordered /\ Faulted /\ Recorded /\ Counted /\ Room /\ Reserved /\ Followed
  BY DEF IInv
<1>2. TypeOK'
  BY <1>1, TypeStep
<1>3. Quiet' /\ Asked' /\ Room'
  BY <1>1, QuietStep, AskedStep, RoomStep
<1>4. Ordered' /\ Faulted'
  BY <1>1, OrderedStep, FaultedStep
<1>5. Recorded' /\ Counted'
  BY <1>1, RecordedStep, CountedStep
<1>6. Reserved' /\ Followed'
  BY <1>1, <1>2, ReservedStep, FollowedStep
<1> QED
  BY <1>2, <1>3, <1>4, <1>5, <1>6 DEF IInv

\* The invariant in whole.
THEOREM RunsKeepTheirInvariant == Spec => []IInv
<1>1. Init => IInv
  BY InvInit
<1>2. IInv /\ [Next]_vars => IInv'
  BY InvStep
<1> QED
  BY <1>1, <1>2, PTL DEF Spec

\* Every variable keeps its type: no slot of a job is ever overdrawn, no line names a stranger.
THEOREM RunsAreTyped == Spec => []TypeOK
<1>1. IInv => TypeOK
  BY DEF IInv
<1> QED
  BY <1>1, RunsKeepTheirInvariant, PTL

\* A reply on the pipe belongs to the one call that waits: the lock around the request and
\* its reply makes the pipe a channel of one.
THEOREM EachHearsItsReply == Spec => []RepliesAreOwn
<1>1. IInv => RepliesAreOwn
  <2> SUFFICES ASSUME IInv, stdin # <<>>, NEW t \in Tools, tool[t].at = "asked" PROVE stdin = <<t>>
    BY DEF RepliesAreOwn
  <2>a. stdin \in Seq(Tools) /\ Len(stdin) <= 1
    BY DEF IInv, Asked, TypeOK
  <2>b. Len(stdin) \in Nat /\ Len(stdin) > 0 /\ DOMAIN stdin = 1..Len(stdin)
    BY <2>a, TailFacts
  <2>c. Len(stdin) = 1
    BY <2>a, <2>b
  <2>1. DOMAIN stdin = 1..1 /\ 1 \in DOMAIN stdin
    BY <2>b, <2>c
  <2>2. stdin[1] \in Tools /\ tool[stdin[1]].at = "asked"
    <3>1. stdin[1] \in Tools
      BY <2>a, <2>b, <2>c
    <3> QED
      BY <2>1, <3>1 DEF IInv, Asked
  <2>3. stdin[1] = t
    BY <2>2 DEF IInv, Asked
  <2> QED
    BY <2>a, <2>c, <2>3
<1> QED
  BY <1>1, RunsKeepTheirInvariant, PTL

\* The audit rows tell the runs: one entry at most for a row and none without, and an "ok"
\* that counts every command.
THEOREM TheTableTellsTheRuns == Spec => []RowsTellTheRuns
<1>1. IInv => RowsTellTheRuns
  <2> SUFFICES ASSUME IInv, NEW i \in Invocations
               PROVE  /\ entries[i] <= 1 /\ (entries[i] = 1 => rows[i].state # "none")
                      /\ rows[i].state = "ok" => rows[i].steps = reached[i]
    BY DEF RowsTellTheRuns, EnteredOnRecord, OkMeansComplete
  <2> QED
    BY DEF IInv, Recorded
<1> QED
  BY <1>1, RunsKeepTheirInvariant, PTL

\* A job that runs is tracked or still announced, for any number of jobs, slots and lines.
THEOREM RunningJobsAreFollowed == Spec => []JobNotForgotten
<1>1. IInv => JobNotForgotten
  BY DEF IInv, Followed, JobNotForgotten
<1> QED
  BY <1>1, RunsKeepTheirInvariant, PTL

-----------------------------------------------------------------------------
(* The composition.                                                        *)

\* The runs of the composition are runs of the component, or none.
LEMMA RunsAlone == SessionRunsSpec => Spec
<1>1. SessionRunsInit => Init
  BY DEF SessionRunsInit
<1>2. [SessionRunsNext]_<<part, vars, sessionVars>> => [Next]_vars
  BY DEF SessionRunsNext
<1> QED
  BY <1>1, <1>2, PTL DEF SessionRunsSpec, Spec

\* So the composition keeps what the runs promise.
THEOREM CompositionKeepsRuns ==
    SessionRunsSpec => [](TypeOK /\ RepliesAreOwn /\ RowsTellTheRuns /\ JobNotForgotten)
BY RunsAlone, RunsAreTyped, EachHearsItsReply, TheTableTellsTheRuns, RunningJobsAreFollowed, PTL

\* The component of the proofs, with the parameters of each part of the composition.
SessionProofs == INSTANCE ChatSession_proofs WITH pc <- requestPc, Requests <- Pair,
                   MaxTurns <- Cardinality(Pair)
RaceProofs == INSTANCE ChatSession_proofs WITH pc <- requestPc

\* The session of two requests is the component, under the name its proofs know it by.
LEMMA SessionSame ==
    /\ SessionProofs!SessionAssumption
    /\ Session!Spec => SessionProofs!Spec
<1>1. Session!Init <=> SessionProofs!Init
  BY DEF Session!Init, SessionProofs!Init, Session!Zero, SessionProofs!Zero, Session!Schemas,
     SessionProofs!Schemas
<1>2. ASSUME NEW r \in Pair PROVE Session!Open(r) <=> SessionProofs!Open(r)
  BY DEF Session!Open, SessionProofs!Open, Session!Goto, SessionProofs!Goto, Session!dbVars,
     SessionProofs!dbVars, Session!ghostVars, SessionProofs!ghostVars
<1>3. ASSUME NEW r \in Pair PROVE Session!Lease(r) <=> SessionProofs!Lease(r)
  BY DEF Session!Lease, SessionProofs!Lease, Session!Goto, SessionProofs!Goto, Session!dbVars,
     SessionProofs!dbVars, Session!ghostVars, SessionProofs!ghostVars
<1>4. ASSUME NEW r \in Pair PROVE Session!ReadAgain(r) <=> SessionProofs!ReadAgain(r)
  BY DEF Session!ReadAgain, SessionProofs!ReadAgain, Session!Goto, SessionProofs!Goto,
     Session!dbVars, SessionProofs!dbVars
<1>5. ASSUME NEW r \in Pair PROVE Session!ReadFails(r) <=> SessionProofs!ReadFails(r)
  BY DEF Session!ReadFails, SessionProofs!ReadFails, Session!Release, SessionProofs!Release,
     Session!Goto, SessionProofs!Goto, Session!dbVars, SessionProofs!dbVars
<1>6. ASSUME NEW r \in Pair PROVE Session!Hydrate(r) <=> SessionProofs!Hydrate(r)
  BY DEF Session!Hydrate, SessionProofs!Hydrate, Session!Hydrated, SessionProofs!Hydrated,
     Session!TurnLimit, SessionProofs!TurnLimit, Session!Zero, SessionProofs!Zero,
     Session!Release, SessionProofs!Release, Session!Goto, SessionProofs!Goto, Session!dbVars,
     SessionProofs!dbVars, Session!ghostVars, SessionProofs!ghostVars
<1>7. ASSUME NEW r \in Pair PROVE Session!AppendRow(r) <=> SessionProofs!AppendRow(r)
  BY DEF Session!AppendRow, SessionProofs!AppendRow, Session!Commit, SessionProofs!Commit,
     Session!UpdateContext, SessionProofs!UpdateContext, Session!Bumped, SessionProofs!Bumped,
     Session!Goto, SessionProofs!Goto, Session!ghostVars, SessionProofs!ghostVars
<1>8. ASSUME NEW r \in Pair PROVE Session!Bump(r) <=> SessionProofs!Bump(r)
  BY DEF Session!Bump, SessionProofs!Bump, Session!Commit, SessionProofs!Commit,
     Session!UpdateContext, SessionProofs!UpdateContext, Session!Bumped, SessionProofs!Bumped,
     Session!Goto, SessionProofs!Goto
<1>9. ASSUME NEW r \in Pair PROVE Session!PrepareFails(r) <=> SessionProofs!PrepareFails(r)
  BY DEF Session!PrepareFails, SessionProofs!PrepareFails, Session!Fail, SessionProofs!Fail,
     Session!Release, SessionProofs!Release, Session!Goto, SessionProofs!Goto
<1>10. ASSUME NEW r \in Pair PROVE Session!Launch(r) <=> SessionProofs!Launch(r)
  BY DEF Session!Launch, SessionProofs!Launch, Session!Cardinality, SessionProofs!Cardinality,
     Session!dbVars, SessionProofs!dbVars, Session!ghostVars, SessionProofs!ghostVars
<1>11. ASSUME NEW r \in Pair PROVE Session!Observe(r) <=> SessionProofs!Observe(r)
  BY DEF Session!Observe, SessionProofs!Observe, Session!Active, SessionProofs!Active,
     Session!dbVars, SessionProofs!dbVars, Session!ghostVars, SessionProofs!ghostVars
<1>12. ASSUME NEW r \in Pair PROVE Session!Settle(r) <=> SessionProofs!Settle(r)
  BY DEF Session!Settle, SessionProofs!Settle, Session!Commit, SessionProofs!Commit,
     Session!UpdateContext, SessionProofs!UpdateContext, Session!Bumped, SessionProofs!Bumped,
     Session!Fail, SessionProofs!Fail, Session!Goto, SessionProofs!Goto
<1>13. ASSUME NEW r \in Pair PROVE Session!PersistState(r) <=> SessionProofs!PersistState(r)
  BY DEF Session!PersistState, SessionProofs!PersistState, Session!Commit,
     SessionProofs!Commit, Session!UpdateContext, SessionProofs!UpdateContext, Session!Bumped,
     SessionProofs!Bumped, Session!Fail, SessionProofs!Fail, Session!Release,
     SessionProofs!Release, Session!Goto, SessionProofs!Goto, Session!dbVars,
     SessionProofs!dbVars
<1>14. Session!Land <=> SessionProofs!Land
  BY DEF Session!Land, SessionProofs!Land, Session!Commit, SessionProofs!Commit,
     Session!UpdateContext, SessionProofs!UpdateContext, Session!Bumped, SessionProofs!Bumped
<1>15. Session!JobEnds <=> SessionProofs!JobEnds
  BY DEF Session!JobEnds, SessionProofs!JobEnds, Session!Active, SessionProofs!Active,
     Session!dbVars, SessionProofs!dbVars, Session!ghostVars, SessionProofs!ghostVars
<1>16. Session!Crash <=> SessionProofs!Crash
  BY DEF Session!Crash, SessionProofs!Crash, Session!Zero, SessionProofs!Zero,
     Session!Tracking, SessionProofs!Tracking, Session!dbVars, SessionProofs!dbVars
<1>17. UNCHANGED Session!vars <=> UNCHANGED SessionProofs!vars
  BY DEF Session!vars, SessionProofs!vars, Session!dbVars, SessionProofs!dbVars,
     Session!ghostVars, SessionProofs!ghostVars
<1>18. [Session!Next]_(Session!vars) => [SessionProofs!Next]_(SessionProofs!vars)
  BY <1>2, <1>3, <1>4, <1>5, <1>6, <1>7, <1>8, <1>9, <1>10, <1>11, <1>12, <1>13, <1>14, <1>15,
     <1>16, <1>17 DEF Session!Next, SessionProofs!Next, Session!TurnStep,
     SessionProofs!TurnStep
<1>19. SessionProofs!SessionAssumption
  BY SessionsAssumption DEF SessionsAssumption, Session!SessionAssumption, SessionProofs!SessionAssumption,
     Session!IsFiniteSet, SessionProofs!IsFiniteSet
<1> QED
  BY <1>1, <1>18, <1>19, PTL DEF Session!Spec, SessionProofs!Spec

\* So is the race for the last turn.
LEMMA RaceSame ==
    /\ RaceProofs!SessionAssumption
    /\ Race!Spec => RaceProofs!Spec
<1>1. Race!Init <=> RaceProofs!Init
  BY DEF Race!Init, RaceProofs!Init, Race!Zero, RaceProofs!Zero, Race!Schemas,
     RaceProofs!Schemas
<1>2. ASSUME NEW r \in Requests PROVE Race!Open(r) <=> RaceProofs!Open(r)
  BY DEF Race!Open, RaceProofs!Open, Race!Goto, RaceProofs!Goto, Race!dbVars,
     RaceProofs!dbVars, Race!ghostVars, RaceProofs!ghostVars
<1>3. ASSUME NEW r \in Requests PROVE Race!Lease(r) <=> RaceProofs!Lease(r)
  BY DEF Race!Lease, RaceProofs!Lease, Race!Goto, RaceProofs!Goto, Race!dbVars,
     RaceProofs!dbVars, Race!ghostVars, RaceProofs!ghostVars
<1>4. ASSUME NEW r \in Requests PROVE Race!ReadAgain(r) <=> RaceProofs!ReadAgain(r)
  BY DEF Race!ReadAgain, RaceProofs!ReadAgain, Race!Goto, RaceProofs!Goto, Race!dbVars,
     RaceProofs!dbVars
<1>5. ASSUME NEW r \in Requests PROVE Race!ReadFails(r) <=> RaceProofs!ReadFails(r)
  BY DEF Race!ReadFails, RaceProofs!ReadFails, Race!Release, RaceProofs!Release, Race!Goto,
     RaceProofs!Goto, Race!dbVars, RaceProofs!dbVars
<1>6. ASSUME NEW r \in Requests PROVE Race!Hydrate(r) <=> RaceProofs!Hydrate(r)
  BY DEF Race!Hydrate, RaceProofs!Hydrate, Race!Hydrated, RaceProofs!Hydrated, Race!TurnLimit,
     RaceProofs!TurnLimit, Race!Zero, RaceProofs!Zero, Race!Release, RaceProofs!Release,
     Race!Goto, RaceProofs!Goto, Race!dbVars, RaceProofs!dbVars, Race!ghostVars,
     RaceProofs!ghostVars
<1>7. ASSUME NEW r \in Requests PROVE Race!AppendRow(r) <=> RaceProofs!AppendRow(r)
  BY DEF Race!AppendRow, RaceProofs!AppendRow, Race!Commit, RaceProofs!Commit,
     Race!UpdateContext, RaceProofs!UpdateContext, Race!Bumped, RaceProofs!Bumped, Race!Goto,
     RaceProofs!Goto, Race!ghostVars, RaceProofs!ghostVars
<1>8. ASSUME NEW r \in Requests PROVE Race!Bump(r) <=> RaceProofs!Bump(r)
  BY DEF Race!Bump, RaceProofs!Bump, Race!Commit, RaceProofs!Commit, Race!UpdateContext,
     RaceProofs!UpdateContext, Race!Bumped, RaceProofs!Bumped, Race!Goto, RaceProofs!Goto
<1>9. ASSUME NEW r \in Requests PROVE Race!PrepareFails(r) <=> RaceProofs!PrepareFails(r)
  BY DEF Race!PrepareFails, RaceProofs!PrepareFails, Race!Fail, RaceProofs!Fail, Race!Release,
     RaceProofs!Release, Race!Goto, RaceProofs!Goto
<1>10. ASSUME NEW r \in Requests PROVE Race!Launch(r) <=> RaceProofs!Launch(r)
  BY DEF Race!Launch, RaceProofs!Launch, Race!Cardinality, RaceProofs!Cardinality,
     Race!dbVars, RaceProofs!dbVars, Race!ghostVars, RaceProofs!ghostVars
<1>11. ASSUME NEW r \in Requests PROVE Race!Observe(r) <=> RaceProofs!Observe(r)
  BY DEF Race!Observe, RaceProofs!Observe, Race!Active, RaceProofs!Active, Race!dbVars,
     RaceProofs!dbVars, Race!ghostVars, RaceProofs!ghostVars
<1>12. ASSUME NEW r \in Requests PROVE Race!Settle(r) <=> RaceProofs!Settle(r)
  BY DEF Race!Settle, RaceProofs!Settle, Race!Commit, RaceProofs!Commit, Race!UpdateContext,
     RaceProofs!UpdateContext, Race!Bumped, RaceProofs!Bumped, Race!Fail, RaceProofs!Fail,
     Race!Goto, RaceProofs!Goto
<1>13. ASSUME NEW r \in Requests PROVE Race!PersistState(r) <=> RaceProofs!PersistState(r)
  BY DEF Race!PersistState, RaceProofs!PersistState, Race!Commit, RaceProofs!Commit,
     Race!UpdateContext, RaceProofs!UpdateContext, Race!Bumped, RaceProofs!Bumped, Race!Fail,
     RaceProofs!Fail, Race!Release, RaceProofs!Release, Race!Goto, RaceProofs!Goto,
     Race!dbVars, RaceProofs!dbVars
<1>14. Race!Land <=> RaceProofs!Land
  BY DEF Race!Land, RaceProofs!Land, Race!Commit, RaceProofs!Commit, Race!UpdateContext,
     RaceProofs!UpdateContext, Race!Bumped, RaceProofs!Bumped
<1>15. Race!JobEnds <=> RaceProofs!JobEnds
  BY DEF Race!JobEnds, RaceProofs!JobEnds, Race!Active, RaceProofs!Active, Race!dbVars,
     RaceProofs!dbVars, Race!ghostVars, RaceProofs!ghostVars
<1>16. Race!Crash <=> RaceProofs!Crash
  BY DEF Race!Crash, RaceProofs!Crash, Race!Zero, RaceProofs!Zero, Race!Tracking,
     RaceProofs!Tracking, Race!dbVars, RaceProofs!dbVars
<1>17. UNCHANGED Race!vars <=> UNCHANGED RaceProofs!vars
  BY DEF Race!vars, RaceProofs!vars, Race!dbVars, RaceProofs!dbVars, Race!ghostVars,
     RaceProofs!ghostVars
<1>18. [Race!Next]_(Race!vars) => [RaceProofs!Next]_(RaceProofs!vars)
  BY <1>2, <1>3, <1>4, <1>5, <1>6, <1>7, <1>8, <1>9, <1>10, <1>11, <1>12, <1>13, <1>14, <1>15,
     <1>16, <1>17 DEF Race!Next, RaceProofs!Next, Race!TurnStep, RaceProofs!TurnStep
<1>19. RaceProofs!SessionAssumption
  BY SessionsAssumption DEF SessionsAssumption, Race!SessionAssumption, RaceProofs!SessionAssumption,
     Race!IsFiniteSet, RaceProofs!IsFiniteSet
<1> QED
  BY <1>1, <1>18, <1>19, PTL DEF Race!Spec, RaceProofs!Spec

\* The part that was chosen stays: the session's variables follow the race, or the session of two.
LEMMA SessionParts ==
    SessionRunsSpec => \/ Session!Spec /\ [](part # "race")
                       \/ Race!Spec
<1>1. SessionRunsInit => (part = "race" => Race!Init) /\ (part # "race" => Session!Init)
  BY DEF SessionRunsInit
<1>2. UNCHANGED sessionVars => UNCHANGED Session!vars /\ UNCHANGED Race!vars
  BY DEF sessionVars, Session!vars, Session!dbVars, Session!ghostVars, Race!vars, Race!dbVars,
         Race!ghostVars
<1>0. part # "race" <=> ~(part = "race")
  OBVIOUS
<1>3. part # "race" /\ [SessionRunsNext]_<<part, vars, sessionVars>>
        => (part # "race")' /\ [Session!Next]_(Session!vars)
  BY <1>2 DEF SessionRunsNext
<1>4. part = "race" /\ [SessionRunsNext]_<<part, vars, sessionVars>>
        => (part = "race")' /\ [Race!Next]_(Race!vars)
  BY <1>2 DEF SessionRunsNext
<1> QED
  BY <1>0, <1>1, <1>3, <1>4, PTL DEF SessionRunsSpec, Session!Spec, Race!Spec

\* A running job is tracked by its turn or by the row, whatever became of the turn that launched
\* it, unless a statement or the process failed or the row is foreign (handlers_chat.go).
THEOREM LaunchesAreKept == SessionRunsSpec => []LaunchNotForgotten
<1>1. SessionProofs!Spec => []SessionProofs!LaunchNotForgotten
  BY SessionSame, SessionProofs!LaunchesRemembered
<1>2. RaceProofs!Spec => []RaceProofs!LaunchNotForgotten
  BY RaceSame, RaceProofs!LaunchesRemembered
<1>3. /\ SessionProofs!LaunchNotForgotten <=> LaunchNotForgotten
      /\ RaceProofs!LaunchNotForgotten <=> LaunchNotForgotten
  BY DEF LaunchNotForgotten, Session!LaunchNotForgotten, SessionProofs!LaunchNotForgotten,
         RaceProofs!LaunchNotForgotten, Session!Active, SessionProofs!Active, RaceProofs!Active,
         Session!Tracking, SessionProofs!Tracking, RaceProofs!Tracking
<1> QED
  BY <1>1, <1>2, <1>3, SessionParts, SessionSame, RaceSame, PTL

\* The turns of a session stay within its cap and the allowance of its jobs, however many requests
\* race for the last one (prepareChat).
THEOREM TurnsAreBudgeted == SessionRunsSpec => []TurnBudget
<1>1. RaceProofs!Spec => []RaceProofs!TurnBudget
  BY RaceSame, RaceProofs!TurnsBounded
<1>2. RaceProofs!TurnBudget => TurnBudget
  BY DEF TurnBudget, Race!TurnBudget, RaceProofs!TurnBudget, Race!Cardinality, RaceProofs!Cardinality
<1>0. part # "race" <=> ~(part = "race")
  OBVIOUS
<1>3. part # "race" => TurnBudget
  BY DEF TurnBudget
<1> QED
  BY <1>1, <1>2, <1>3, SessionParts, RaceSame, PTL

\* A row of a newer schema, or one that does not parse, stays as its writer left it (session_state.go).
THEOREM ForeignRowsAreKept == SessionRunsSpec => ForeignRowUntouched
<1> DEFINE A == row.schema \in {"newer", "broken"} => row'.jobs = row.jobs /\ row'.schema = row.schema
<1>1. SessionProofs!Spec => [][A]_(SessionProofs!vars)
  BY SessionSame, SessionProofs!ForeignRowsKept DEF SessionProofs!ForeignRowUntouched
<1>2. RaceProofs!Spec => [][A]_(RaceProofs!vars)
  BY RaceSame, RaceProofs!ForeignRowsKept DEF RaceProofs!ForeignRowUntouched
<1>3. /\ [A]_(SessionProofs!vars) => [A]_(Session!vars)
      /\ [A]_(RaceProofs!vars) => [A]_(Session!vars)
  BY DEF Session!vars, SessionProofs!vars, RaceProofs!vars, Session!dbVars, Session!ghostVars,
         SessionProofs!dbVars, SessionProofs!ghostVars, RaceProofs!dbVars, RaceProofs!ghostVars
<1> QED
  BY <1>1, <1>2, <1>3, SessionParts, SessionSame, RaceSame, PTL
     DEF ForeignRowUntouched, Session!ForeignRowUntouched

\* A cursor leaves the row only when its job is over: no stale turn and no late statement overwrites
\* the cursors of a turn it did not see (UpdateContext).
THEOREM CursorsOutlast == SessionRunsSpec => CursorOutlivesJob
<1> DEFINE A == row.jobs \cap {j \in Jobs : job[j] = "running"} \subseteq row'.jobs
<1>1. SessionProofs!Spec => [][A]_(SessionProofs!vars)
  BY SessionSame, SessionProofs!CursorsOutliveJobs
     DEF SessionProofs!CursorOutlivesJob, SessionProofs!Active
<1>2. RaceProofs!Spec => [][A]_(RaceProofs!vars)
  BY RaceSame, RaceProofs!CursorsOutliveJobs DEF RaceProofs!CursorOutlivesJob, RaceProofs!Active
<1>3. /\ [A]_(SessionProofs!vars) => [A]_(Session!vars)
      /\ [A]_(RaceProofs!vars) => [A]_(Session!vars)
  BY DEF Session!vars, SessionProofs!vars, RaceProofs!vars, Session!dbVars, Session!ghostVars,
         SessionProofs!dbVars, SessionProofs!ghostVars, RaceProofs!dbVars, RaceProofs!ghostVars
<1> QED
  BY <1>1, <1>2, <1>3, SessionParts, SessionSame, RaceSame, PTL
     DEF CursorOutlivesJob, Session!CursorOutlivesJob, Session!Active

=============================================================================
