----------------------------- MODULE SessionTurns -----------------------------
(***************************************************************************)
(* What the engine pool promises its callers, without entries, caches or   *)
(* mutexes: a request asks for the engine of a session, and the requests   *)
(* of one session have it one at a time.                                   *)
(***************************************************************************)
CONSTANTS Requests, Keys

VARIABLES turn,  \* "out", "queued" or "in", for each request
          key    \* the session a request asked for

vars == <<turn, key>>

Init ==
    /\ turn = [r \in Requests |-> "out"]
    /\ key \in [Requests -> Keys]

Ask(r) ==
    /\ turn[r] = "out"
    /\ turn' = [turn EXCEPT ![r] = "queued"]
    /\ \E k \in Keys : key' = [key EXCEPT ![r] = k]

\* The history could not be read: the request gets an error, not an engine.
Fail(r) ==
    /\ turn[r] = "queued"
    /\ turn' = [turn EXCEPT ![r] = "out"]
    /\ UNCHANGED key

Enter(r) ==
    /\ turn[r] = "queued"
    /\ \A q \in Requests : turn[q] = "in" => key[q] # key[r]
    /\ turn' = [turn EXCEPT ![r] = "in"]
    /\ UNCHANGED key

Leave(r) ==
    /\ turn[r] = "in"
    /\ turn' = [turn EXCEPT ![r] = "out"]
    /\ UNCHANGED key

Next == \E r \in Requests : Ask(r) \/ Fail(r) \/ Enter(r) \/ Leave(r)

Spec == Init /\ [][Next]_vars
===============================================================================
