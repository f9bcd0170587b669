------------------------------ MODULE FeishuBot ------------------------------
(***************************************************************************)
(* The Feishu topic bot (src/internal/feishu/service.go): messages the     *)
(* platform delivers, perhaps twice, enter a bounded queue; several        *)
(* workers take them, and a lock per topic makes the messages of a topic   *)
(* share one agent session, which is opened on demand, replaced when the   *)
(* agent says so and given up when its turn limit is reached.              *)
(*                                                                         *)
(* Sessions are numbered in the order the agent opened them, 0 for none.   *)
(* All deliveries of a message fall within the hour seenBefore remembers.  *)
(***************************************************************************)
EXTENDS Naturals, SequencesExt

CONSTANTS Messages, Topics, Workers,
          TopicOf,        \* the topic of each message
          QueueSize,      \* capacity of the queue
          MaxDeliveries,  \* bound: deliveries of one message
          MaxSessions     \* bound: sessions the agent opens in all

\* What stands for no worker and no message is neither.
BotConstants ==
  /\ TopicOf \in [Messages -> Topics] /\ "none" \notin Workers \cup Messages
  /\ {QueueSize, MaxDeliveries, MaxSessions} \subseteq Nat

VARIABLES deliveries,  \* how often the platform delivered a message
          seen, queue,
          job,         \* the message a worker handles, "none" if idle
          stage,       \* how far a worker is
          asked,       \* the session a worker's question goes to
          retried,     \* a worker's question is the one after a turn limit
          locked,      \* the worker that holds a topic's lock, "none" if free
          sessions,    \* Service.sessions: the session of a topic
          opened,      \* sessions opened by the agent
          lineage,     \* sessions opened for a topic, less those it lost
          asks         \* questions sent for a message

inbox  == <<deliveries, seen, queue>>
worker == <<job, stage, asked, retried>>
agent  == <<sessions, opened, lineage>>
vars   == <<inbox, worker, locked, agent, asks>>

None == "none"

TypeOK ==
  /\ deliveries \in [Messages -> 0..MaxDeliveries] /\ seen \subseteq Messages
  /\ queue \in Seq(Messages) /\ Len(queue) <= QueueSize
  /\ job \in [Workers -> Messages \cup {None}]
  /\ stage \in [Workers -> {"idle", "waiting", "session", "creating", "ask", "reply"}]
  /\ asked \in [Workers -> 0..MaxSessions] /\ retried \in [Workers -> BOOLEAN]
  /\ locked \in [Topics -> Workers \cup {None}]
  /\ sessions \in [Topics -> 0..MaxSessions] /\ opened \in 0..MaxSessions
  /\ lineage \in [Topics -> 0..MaxSessions]
  /\ asks \in [Messages -> Nat]

Init ==
  /\ deliveries = [m \in Messages |-> 0] /\ seen = {} /\ queue = <<>>
  /\ job = [w \in Workers |-> None] /\ stage = [w \in Workers |-> "idle"]
  /\ asked = [w \in Workers |-> 0] /\ retried = [w \in Workers |-> FALSE]
  /\ locked = [t \in Topics |-> None]
  /\ sessions = [t \in Topics |-> 0] /\ opened = 0
  /\ lineage = [t \in Topics |-> 0]
  /\ asks = [m \in Messages |-> 0]

Topic(w) == TopicOf[job[w]]
Goto(w, s) == stage' = [stage EXCEPT ![w] = s]
Assign(topic, id) == sessions' = [sessions EXCEPT ![topic] = id]

-----------------------------------------------------------------------------
(* seenBefore marks the message before anything else is known of it.       *)
Sees(m) == seen' = seen \cup {m}

(* onMessage: a message new to the bot is queued; a full queue drops it.   *)
Deliver(m) ==
  /\ deliveries[m] < MaxDeliveries
  /\ deliveries' = [deliveries EXCEPT ![m] = @ + 1]
  /\ Sees(m)
  /\ queue' = IF m \notin seen /\ Len(queue) < QueueSize THEN Append(queue, m) ELSE queue
  /\ UNCHANGED <<worker, locked, agent, asks>>

Take(w) ==
  /\ stage[w] = "idle" /\ queue # <<>>
  /\ job' = [job EXCEPT ![w] = Head(queue)] /\ queue' = Tail(queue)
  /\ Goto(w, "waiting")
  /\ UNCHANGED <<deliveries, seen, asked, retried, locked, agent, asks>>

\* MUTANT: a topic is answered by any number of workers.
LocksNothing(t) == TRUE

Unlocked(t) == locked[t] = None

(* handleJob takes the topic's lock; an image that cannot be read is       *)
(* answered with an apology at once.                                       *)
Lock(w) ==
  /\ stage[w] = "waiting" /\ Unlocked(Topic(w))
  /\ locked' = [locked EXCEPT ![Topic(w)] = w]
  /\ Goto(w, "session") \/ Goto(w, "reply")
  /\ UNCHANGED <<inbox, job, asked, retried, agent, asks>>

(* sessionForTopic.                                                        *)
Reuse(w) ==
  /\ stage[w] = "session" /\ sessions[Topic(w)] # 0
  /\ asked' = [asked EXCEPT ![w] = sessions[Topic(w)]]
  /\ Goto(w, "ask")
  /\ UNCHANGED <<inbox, job, retried, locked, agent, asks>>

Create(w) ==
  /\ stage[w] = "session" /\ sessions[Topic(w)] = 0
  /\ Goto(w, "creating")
  /\ UNCHANGED <<inbox, job, asked, retried, locked, agent, asks>>

Created(w) ==
  /\ stage[w] = "creating" /\ opened < MaxSessions
  /\ opened' = opened + 1
  /\ Assign(Topic(w), opened + 1)
  /\ lineage' = [lineage EXCEPT ![Topic(w)] = @ + 1]
  /\ asked' = [asked EXCEPT ![w] = opened + 1]
  /\ Goto(w, "ask")
  /\ UNCHANGED <<inbox, job, retried, locked, asks>>

CreateFails(w) ==
  /\ stage[w] = "creating"
  /\ Goto(w, "reply")
  /\ UNCHANGED <<inbox, job, asked, retried, locked, agent, asks>>

(* AgentClient.Ask: the question is sent, the answer or an error comes     *)
(* back, and with it the session the agent really used.                    *)
Answer(w) ==
  /\ stage[w] = "ask"
  /\ asks' = [asks EXCEPT ![job[w]] = @ + 1]
  /\ \/ UNCHANGED agent
     \/ /\ opened < MaxSessions
        /\ opened' = opened + 1 /\ Assign(Topic(w), opened + 1)
        /\ UNCHANGED lineage
  /\ Goto(w, "reply")
  /\ UNCHANGED <<inbox, job, asked, retried, locked>>

(* The session has had all its turns: the topic gets a new one and the     *)
(* question is asked once more, under a turn id of its own.                *)
LimitReached(w) ==
  /\ stage[w] = "ask"
  /\ asks' = [asks EXCEPT ![job[w]] = @ + 1]
  /\ IF retried[w]
     THEN Goto(w, "reply") /\ UNCHANGED <<sessions, lineage, retried>>
     ELSE /\ Assign(Topic(w), 0)
          /\ lineage' = [lineage EXCEPT ![Topic(w)] = @ - 1]
          /\ retried' = [retried EXCEPT ![w] = TRUE]
          /\ Goto(w, "session")
  /\ UNCHANGED <<inbox, job, asked, locked, opened>>

(* The reply, whether it reaches the platform or not, and the unlock.      *)
Reply(w) ==
  /\ stage[w] = "reply"
  /\ locked' = [locked EXCEPT ![Topic(w)] = None]
  /\ job' = [job EXCEPT ![w] = None] /\ retried' = [retried EXCEPT ![w] = FALSE]
  /\ asked' = [asked EXCEPT ![w] = 0]
  /\ Goto(w, "idle")
  /\ UNCHANGED <<inbox, agent, asks>>

Work(w) ==
  \/ Take(w) \/ Lock(w) \/ Reuse(w) \/ Create(w) \/ Created(w) \/ CreateFails(w)
  \/ Answer(w) \/ LimitReached(w) \/ Reply(w)

Next == (\E m \in Messages : Deliver(m)) \/ (\E w \in Workers : Work(w))

Spec == Init /\ [][Next]_vars

-----------------------------------------------------------------------------
(* The messages of a topic are asked in one session: a second one is       *)
(* opened only after the agent declared the first one full, and no two     *)
(* questions of a topic are under way at once, in whatever order its       *)
(* workers got there.  However often a message is delivered, one worker    *)
(* has it, and it is asked again only when its session was full.           *)
OneSessionPerTopic ==
  /\ \A t \in Topics : lineage[t] <= 1
  /\ \A v, w \in Workers : v # w /\ stage[v] = "ask" /\ stage[w] = "ask" => Topic(v) # Topic(w)
  /\ \A m \in Messages : asks[m] <= 2 /\ \A v, w \in Workers : job[v] = m /\ job[w] = m => v = w
=============================================================================
