----------------------------- MODULE ServerDrain -----------------------------
(***************************************************************************)
(* The end of the server process: serveUntilSignal (src/cmd/server.go)     *)
(* drains the chat WebSockets with websocketLifecycle                      *)
(* (src/internal/httpapi/ws_shutdown.go) while HandleWS (ws.go) serves     *)
(* them, and then closes what the turns write to: the trace writer         *)
(* (src/internal/observability/mysql_writer.go) and the database.          *)
(*                                                                         *)
(* A connection is a read loop and, once it was sent a chat frame, one     *)
(* turn in a goroutine of its own.  net/http forgets a connection when it  *)
(* is upgraded, so only the register of this lifecycle can find it.        *)
(***************************************************************************)
EXTENDS Naturals, FiniteSets

CONSTANTS Conns,      \* WebSocket connections
          QueueSize   \* capacity of the trace writer's queue

DrainConstants == QueueSize \in Nat

VARIABLES conn,       \* the handler of a connection
          turn,       \* its turn: the goroutine that runs chatStream
          cancelled,  \* the connection's context is done
          closed,     \* wsDone is closed
          active,     \* websocketLifecycle.active
          draining,   \* websocketLifecycle.draining
          server,     \* the main goroutine
          awaited,    \* connections ShutdownWebSockets has still to wait for
          late,       \* its 30 s are over and it gave up waiting
          queue,      \* traces in the writer's queue
          queueOpen, dbOpen, crashed

handler  == <<conn, turn, cancelled, closed>>
shutdown == <<active, draining, server, awaited, late>>
sink     == <<queue, queueOpen, dbOpen, crashed>>
vars     == <<handler, shutdown, sink>>

Saving == {"traced", "answered", "transcribed"}
Saved  == {"saved", "unsaved", "reported"}

TypeOK ==
  /\ conn \in [Conns -> {"none", "upgraded", "reading", "preparing", "leaving", "closing", "gone"}]
  /\ turn \in [Conns -> {"none", "running"} \cup Saving \cup Saved]
  /\ cancelled \in [Conns -> BOOLEAN] /\ closed \in [Conns -> BOOLEAN]
  /\ active \subseteq Conns /\ awaited \subseteq Conns
  /\ draining \in BOOLEAN /\ late \in BOOLEAN
  /\ server \in {"serving", "draining", "drained", "closing", "closed", "exited"}
  /\ queue \in 0..QueueSize
  /\ queueOpen \in BOOLEAN /\ dbOpen \in BOOLEAN /\ crashed \in BOOLEAN

Init ==
  /\ conn = [c \in Conns |-> "none"] /\ turn = [c \in Conns |-> "none"]
  /\ cancelled = [c \in Conns |-> FALSE] /\ closed = [c \in Conns |-> FALSE]
  /\ active = {} /\ awaited = {} /\ draining = FALSE /\ late = FALSE
  /\ server = "serving" /\ queue = 0
  /\ queueOpen = TRUE /\ dbOpen = TRUE /\ crashed = FALSE

Alive == server # "exited" /\ ~crashed
At(c, s) == conn' = [conn EXCEPT ![c] = s]

-----------------------------------------------------------------------------
(* HandleWS.                                                               *)

Upgrade(c) ==
  /\ Alive /\ conn[c] = "none"
  /\ At(c, "upgraded")
  /\ UNCHANGED <<turn, cancelled, closed, shutdown, sink>>

\* MUTANT: a connection is accepted while the server drains.
RegistersAlways(c) == active' = active \cup {c} /\ At(c, "reading") /\ UNCHANGED cancelled

(* registerWebSocket refuses once the drain has begun.                     *)
Registers(c) ==
  IF draining
  THEN /\ cancelled' = [cancelled EXCEPT ![c] = TRUE]
       /\ At(c, "gone") /\ UNCHANGED active
  ELSE active' = active \cup {c} /\ At(c, "reading") /\ UNCHANGED cancelled

Register(c) ==
  /\ Alive /\ conn[c] = "upgraded"
  /\ Registers(c)
  /\ UNCHANGED <<turn, closed, draining, server, awaited, late, sink>>

(* The first chat frame: prepareChat runs in the read loop, and its lease  *)
(* may wait for another turn without regard to the context.                *)
Prepare(c) ==
  /\ Alive /\ conn[c] = "reading" /\ turn[c] = "none"
  /\ At(c, "preparing")
  /\ UNCHANGED <<turn, cancelled, closed, shutdown, sink>>

Prepared(c, ok) ==
  /\ Alive /\ conn[c] = "preparing"
  /\ At(c, "reading")
  /\ turn' = IF ok THEN [turn EXCEPT ![c] = "running"] ELSE turn
  /\ UNCHANGED <<cancelled, closed, shutdown, sink>>

(* The client leaves, stalls or outlives the connection's budget.          *)
Leave(c) ==
  /\ Alive /\ conn[c] \in {"reading", "preparing"} /\ ~cancelled[c]
  /\ cancelled' = [cancelled EXCEPT ![c] = TRUE]
  /\ UNCHANGED <<conn, turn, closed, shutdown, sink>>

(* The read fails: the deferred functions run, the last declared first.    *)
ReadEnds(c) ==
  /\ Alive /\ conn[c] = "reading" /\ cancelled[c]
  /\ At(c, "leaving")
  /\ UNCHANGED <<turn, cancelled, closed, shutdown, sink>>

(* The chat goroutine has sent to chatDone, or there is none.              *)
TurnOver(c) == turn[c] \in {"none", "reported"}

CloseDone(c) ==
  /\ Alive /\ conn[c] = "leaving" /\ TurnOver(c)
  /\ closed' = [closed EXCEPT ![c] = TRUE]
  /\ At(c, "closing")
  /\ UNCHANGED <<turn, cancelled, shutdown, sink>>

Unregister(c) ==
  /\ Alive /\ conn[c] = "closing"
  /\ active' = active \ {c}
  /\ At(c, "gone")
  /\ UNCHANGED <<turn, cancelled, closed, draining, server, awaited, late, sink>>

-----------------------------------------------------------------------------
(* The turn (chatStream).                                                  *)

TurnIs(c, s) == turn' = [turn EXCEPT ![c] = s]

(* The turn ends, on its own or because its context is done, and its trace *)
(* is queued without blocking: on a closed queue the send panics.          *)
FinishTrace(c) ==
  /\ Alive /\ turn[c] = "running"
  /\ TurnIs(c, "traced")
  /\ crashed' = ~queueOpen
  /\ queue' = IF queueOpen /\ queue < QueueSize THEN queue + 1 ELSE queue
  /\ UNCHANGED <<conn, cancelled, closed, shutdown, queueOpen, dbOpen>>

(* The answer, its transcript and the session state, each in one bounded   *)
(* statement of a context of its own.                                      *)
PersistAssistant(c) ==
  /\ Alive /\ turn[c] = "traced"
  /\ TurnIs(c, "answered")
  /\ UNCHANGED <<conn, cancelled, closed, shutdown, sink>>

PersistTranscript(c) ==
  /\ Alive /\ turn[c] = "answered"
  /\ TurnIs(c, "transcribed")
  /\ UNCHANGED <<conn, cancelled, closed, shutdown, sink>>

PersistState(c) ==
  /\ Alive /\ turn[c] = "transcribed"
  /\ TurnIs(c, IF dbOpen THEN "saved" ELSE "unsaved")
  /\ UNCHANGED <<conn, cancelled, closed, shutdown, sink>>

(* chatDone is sent, the connection's context cancelled, the lease given.  *)
Report(c) ==
  /\ Alive /\ turn[c] \in {"saved", "unsaved"}
  /\ TurnIs(c, "reported")
  /\ cancelled' = [cancelled EXCEPT ![c] = TRUE]
  /\ UNCHANGED <<conn, closed, shutdown, sink>>

-----------------------------------------------------------------------------
(* The main goroutine (serveUntilSignal, ShutdownWebSockets, the deferred  *)
(* functions of runServer).                                                *)

Signal ==
  /\ server = "serving" /\ Alive
  /\ server' = "draining" /\ draining' = TRUE /\ awaited' = active
  /\ UNCHANGED <<handler, active, late, sink>>

CancelOne(c) ==
  /\ server = "draining" /\ Alive /\ c \in awaited /\ ~cancelled[c]
  /\ cancelled' = [cancelled EXCEPT ![c] = TRUE]
  /\ UNCHANGED <<conn, turn, closed, shutdown, sink>>

Awaited(c) ==
  /\ server = "draining" /\ Alive /\ c \in awaited
  /\ \A d \in awaited : cancelled[d]
  /\ closed[c]
  /\ awaited' = awaited \ {c}
  /\ UNCHANGED <<handler, active, draining, server, late, sink>>

Drained ==
  /\ server = "draining" /\ Alive /\ awaited = {}
  /\ server' = "drained"
  /\ UNCHANGED <<handler, active, draining, awaited, late, sink>>

(* The deadline of 30 s; http.Server.Shutdown shares it.                   *)
DrainExpires ==
  /\ server = "draining" /\ Alive /\ \A d \in awaited : cancelled[d]
  /\ server' = "drained" /\ late' = TRUE
  /\ UNCHANGED <<handler, active, draining, awaited, sink>>

(* MySQLWriter.Close and the worker that empties the queue.                *)
CloseQueue ==
  /\ server = "drained" /\ Alive
  /\ server' = "closing" /\ queueOpen' = FALSE
  /\ UNCHANGED <<handler, active, draining, awaited, late, queue, dbOpen, crashed>>

Flush ==
  /\ Alive /\ queue > 0
  /\ queue' = 0
  /\ UNCHANGED <<handler, shutdown, queueOpen, dbOpen, crashed>>

(* The worker is done, or the five seconds the writer is given are over.   *)
WriterClosed ==
  /\ server = "closing" /\ Alive
  /\ server' = "closed"
  /\ UNCHANGED <<handler, active, draining, awaited, late, sink>>

CloseDB ==
  /\ server = "closed" /\ Alive /\ dbOpen
  /\ dbOpen' = FALSE
  /\ UNCHANGED <<handler, shutdown, queue, queueOpen, crashed>>

Exit ==
  /\ server = "closed" /\ Alive /\ ~dbOpen
  /\ server' = "exited"
  /\ UNCHANGED <<handler, active, draining, awaited, late, sink>>

-----------------------------------------------------------------------------
Handler(c) ==
  \/ Register(c) \/ (\E ok \in BOOLEAN : Prepared(c, ok))
  \/ ReadEnds(c) \/ CloseDone(c) \/ Unregister(c)
Turn(c) == FinishTrace(c) \/ PersistAssistant(c) \/ PersistTranscript(c)
           \/ PersistState(c) \/ Report(c)
Main == (\E c \in Conns : CancelOne(c) \/ Awaited(c)) \/ Drained
        \/ CloseQueue \/ WriterClosed \/ CloseDB \/ Exit
Environment(c) == Upgrade(c) \/ Prepare(c) \/ Leave(c)

Next ==
  \/ Main \/ Signal \/ DrainExpires \/ Flush
  \/ \E c \in Conns : Handler(c) \/ Turn(c) \/ Environment(c)

Spec == Init /\ [][Next]_vars

-----------------------------------------------------------------------------
(* A drain that met its deadline leaves no turn behind: when the main      *)
(* goroutine goes on to close the trace writer and the database, every     *)
(* turn ever started has made its last write and reported, and none has    *)
(* crashed on the closed queue.                                            *)
DrainLeavesNoTurn ==
  server \notin {"serving", "draining"} /\ ~late =>
    /\ ~crashed
    /\ \A c \in Conns : turn[c] \in {"none", "reported"}
=============================================================================
