------------------------------ MODULE CloudCalls ------------------------------
(***************************************************************************)
(* A call to the cloud API: the policy gate of SafeToolExecutor            *)
(* (src/internal/tools/safe_executor.go, policies.go), its attempts and    *)
(* back-off, the temporary credentials of STSProvider (sts_provider.go,    *)
(* role_bootstrap.go) and the signed request of ExternalExecutor           *)
(* (external.go).  Several calls of one process run at once and share the  *)
(* credential cache of their tenant's role.                                *)
(*                                                                         *)
(* A request keeps what the gate tells apart: who asks, the class its      *)
(* policy gives the action, how its numeric zone is found, and whether the *)
(* caller's arguments carry a zone_id.  Time is a count of ticks; one      *)
(* attempt lasts at most Timeout of them (policy.TimeoutMS).               *)
(***************************************************************************)
EXTENDS Naturals, FiniteSets

CONSTANTS Calls,          \* calls of ExecuteSafe
          Requests,       \* the requests they may make
          Timeout,        \* ticks an attempt may last: policy.TimeoutMS
          RefreshBefore,  \* STSProvider.refreshBefore
          Lifetimes,      \* lifetimes STS may give a credential
          Horizon         \* bound: last tick of the clock

Classes == {"unknown", "local", "destructive", "mutating", "read"}
AllRequests == [origin : {"model", "workflow"}, class : Classes,
                zone : {"none", "strict", "lenient"}, zoneGiven : BOOLEAN]

CallsConstants == /\ Requests \subseteq AllRequests
                  /\ "none" \notin Calls
                  /\ Timeout \in Nat \ {0} /\ Horizon \in Nat
                  /\ RefreshBefore \in Nat /\ Timeout <= RefreshBefore
                  /\ Lifetimes \subseteq {n \in Nat : n > Timeout}

None == "none"
NoRequest == [origin |-> None, class |-> None, zone |-> None, zoneGiven |-> FALSE]

VARIABLES mutating,   \* SafeToolExecutor.mutatingToolsEnabled, fixed at start-up
          req,        \* the request of a call, NoRequest before it
          stage,      \* where the call stands
          tries,      \* attempts begun: `attempts` of executeWithRetry
          asked,      \* what the user answered the call's own card
          zoneId,     \* where the zone_id of the arguments sent comes from
          since,      \* tick the attempt began
          held,       \* expiry of the credential the attempt signs with
          sends,      \* requests that may have reached the cloud API
          outcome,    \* how the call ended
          cancelled,  \* the caller's context is done
          cache,      \* STSProvider.cache: expiry of the role's credential, 0 if none
          flight,     \* STSProvider.inflight: the call that asks STS, None if none
          woken,      \* waiters whose flight is over: its channel is closed
          now

request == <<mutating, req, asked, zoneId>>
sts     == <<cache, flight, woken>>
vars    == <<request, stage, tries, since, held, sends, outcome, cancelled, sts, now>>

(* Stages: zone and gate before the first attempt; get and wait for the   *)
(* credential, assume, bootstrap and again for its flight; signed, sent.   *)
Attempting == {"get", "wait", "assume", "bootstrap", "again", "signed", "sent"}
Stages     == {"idle", "zone", "gate", "backoff", "done"} \cup Attempting
Outcomes   == {None, "ok", "refused", "zone", "declined", "cancelled", "timeout",
               "credentials", "failed"}

TypeOK ==
  /\ mutating \in BOOLEAN
  /\ req \in [Calls -> Requests \cup {NoRequest}]
  /\ stage \in [Calls -> Stages]
  /\ tries \in [Calls -> Nat] /\ sends \in [Calls -> Nat]
  /\ asked \in [Calls -> {None, "yes", "no"}]
  /\ zoneId \in [Calls -> {None, "caller", "resolved"}]
  /\ since \in [Calls -> 0..Horizon] /\ held \in [Calls -> Nat]
  /\ outcome \in [Calls -> Outcomes] /\ cancelled \in [Calls -> BOOLEAN]
  /\ cache \in Nat /\ flight \in Calls \cup {None} /\ woken \subseteq Calls
  /\ now \in 0..Horizon

Init ==
  /\ mutating \in BOOLEAN
  /\ req = [c \in Calls |-> NoRequest] /\ stage = [c \in Calls |-> "idle"]
  /\ tries = [c \in Calls |-> 0] /\ sends = [c \in Calls |-> 0]
  /\ asked = [c \in Calls |-> None] /\ zoneId = [c \in Calls |-> None]
  /\ since = [c \in Calls |-> 0] /\ held = [c \in Calls |-> 0]
  /\ outcome = [c \in Calls |-> None] /\ cancelled = [c \in Calls |-> FALSE]
  /\ cache = 0 /\ flight = None /\ woken = {} /\ now = 0

-----------------------------------------------------------------------------
(* The policy of an action (policyForAction, classForAction).              *)

MaxRetries(r) == IF r.class = "read" THEN 1 ELSE 0
NeedsConfirm(r) == r.class = "mutating" /\ r.origin = "model"

\* MUTANT: whatever zone the caller names is kept.
KeepsAnyZone(r) == r.zoneGiven

(* zone_id is an internal parameter: filterSafeArgs keeps it only for the  *)
(* origins the server itself speaks for.                                   *)
KeepsZone(r) == r.zoneGiven /\ r.origin = "workflow"

Refuses(r) == \/ r.class \in {"unknown", "local", "destructive"}
              \/ r.class = "mutating" /\ ~mutating

Goto(c, s) == stage' = [stage EXCEPT ![c] = s]
Ends(c, o) == Goto(c, "done") /\ outcome' = [outcome EXCEPT ![c] = o]

(* ExecuteSafe up to the filtered arguments.                               *)
Submit(c, r) ==
  /\ stage[c] = "idle"
  /\ req' = [req EXCEPT ![c] = r]
  /\ \/ Refuses(r) /\ Ends(c, "refused") /\ UNCHANGED zoneId
     \/ /\ ~Refuses(r)
        /\ Goto(c, "zone") /\ UNCHANGED outcome
        /\ zoneId' = [zoneId EXCEPT ![c] = IF KeepsZone(r) THEN "caller" ELSE None]
  /\ UNCHANGED <<mutating, asked, tries, since, held, sends, cancelled, sts, now>>

(* resolveBackendZoneID: a read of its own finds the numeric zone; where   *)
(* the API would answer wrongly without it the call is refused, and        *)
(* elsewhere it goes on without one.  checkPolicyCaps may refuse it next.  *)
ResolveZone(c) ==
  /\ stage[c] = "zone"
  /\ LET seeks == req[c].zone # "none" /\ zoneId[c] = None
         on    == IF NeedsConfirm(req[c]) THEN "gate" ELSE "get"
     IN \/ /\ ~seeks
           /\ Goto(c, on) /\ UNCHANGED <<zoneId, outcome>>
        \/ /\ seeks
           /\ zoneId' = [zoneId EXCEPT ![c] = "resolved"]
           /\ Goto(c, on) /\ UNCHANGED outcome
        \/ /\ seeks /\ req[c].zone = "lenient"
           /\ Goto(c, on) /\ UNCHANGED <<zoneId, outcome>>
        \/ /\ seeks /\ req[c].zone = "strict"
           /\ Ends(c, "zone") /\ UNCHANGED zoneId
        \/ /\ req[c].class = "read"
           /\ Ends(c, "refused") /\ UNCHANGED zoneId
  /\ IF stage'[c] = "get"
     THEN /\ tries' = [tries EXCEPT ![c] = 1]
          /\ since' = [since EXCEPT ![c] = now]
     ELSE UNCHANGED <<tries, since>>
  /\ UNCHANGED <<mutating, req, asked, held, sends, cancelled, sts, now>>

(* The user answers the card of a write the model asked for.               *)
Consult(c, yes) ==
  /\ stage[c] = "gate"
  /\ asked' = [asked EXCEPT ![c] = IF yes THEN "yes" ELSE "no"]
  /\ IF yes
     THEN /\ Goto(c, "get") /\ UNCHANGED outcome
          /\ tries' = [tries EXCEPT ![c] = 1] /\ since' = [since EXCEPT ![c] = now]
     ELSE Ends(c, "declined") /\ UNCHANGED <<tries, since>>
  /\ UNCHANGED <<mutating, req, zoneId, held, sends, cancelled, sts, now>>

-----------------------------------------------------------------------------
(* Attempts (executeWithRetry).                                            *)

TimedOut(c) == now >= since[c] + Timeout

\* MUTANT: a write is repeated like a read.
FailsAndRepeats(c, o, retriable) ==
  IF retriable /\ tries[c] <= 1
  THEN Goto(c, "backoff") /\ UNCHANGED outcome
  ELSE Ends(c, o)

(* An attempt fails: a read is tried once more after a pause when the error *)
(* is of a class its policy retries; a deadline counts as a network error,  *)
(* a cancelled context does not.                                            *)
Fails(c, o, retriable) ==
  IF retriable /\ tries[c] <= MaxRetries(req[c])
  THEN Goto(c, "backoff") /\ UNCHANGED outcome
  ELSE Ends(c, o)

(* The pause is over, or the caller's context ends it.                     *)
Resume(c) ==
  /\ stage[c] = "backoff"
  /\ Goto(c, "get")
  /\ tries' = [tries EXCEPT ![c] = @ + 1]
  /\ since' = [since EXCEPT ![c] = now]
  /\ UNCHANGED <<request, held, sends, outcome, cancelled, sts, now>>

GiveUp(c) ==
  /\ stage[c] = "backoff" /\ cancelled[c]
  /\ Ends(c, "cancelled")
  /\ UNCHANGED <<request, tries, since, held, sends, cancelled, sts, now>>

-----------------------------------------------------------------------------
(* Credentials (STSProvider.Get).                                          *)

Fresh(expiry) == expiry > now + RefreshBefore

CacheHit(c) ==
  /\ stage[c] = "get" /\ Fresh(cache)
  /\ held' = [held EXCEPT ![c] = cache]
  /\ Goto(c, "signed")
  /\ UNCHANGED <<request, tries, since, sends, outcome, cancelled, sts, now>>

Wait(c) ==
  /\ stage[c] = "get" /\ ~Fresh(cache) /\ flight # None
  /\ Goto(c, "wait")
  /\ UNCHANGED <<request, tries, since, held, sends, outcome, cancelled, sts, now>>

Lead(c) ==
  /\ stage[c] = "get" /\ ~Fresh(cache) /\ flight = None
  /\ flight' = c
  /\ Goto(c, "assume")
  /\ UNCHANGED <<request, tries, since, held, sends, outcome, cancelled, cache, woken, now>>

(* A waiter leaves by the channel of the flight it met, and starts Get     *)
(* again, or by its own context, whatever became of that flight.           *)
Woken(c) ==
  /\ stage[c] = "wait" /\ c \in woken
  /\ woken' = woken \ {c}
  /\ Goto(c, "get")
  /\ UNCHANGED <<request, tries, since, held, sends, outcome, cancelled, cache, flight, now>>

LeavesWait(c) ==
  /\ stage[c] = "wait"
  /\ \/ cancelled[c] /\ Fails(c, "cancelled", FALSE)
     \/ TimedOut(c) /\ Fails(c, "timeout", TRUE)
  /\ woken' = woken \ {c}
  /\ UNCHANGED <<request, tries, since, held, sends, cancelled, cache, flight, now>>

\* MUTANT: the flight is only cleared when it succeeds.
LandsOnSuccess(expiry) ==
  /\ cache' = IF expiry > 0 THEN expiry ELSE cache
  /\ flight' = IF expiry > 0 THEN None ELSE flight
  /\ woken' = woken \cup {d \in Calls : stage[d] = "wait"}

(* The deferred end of a flight: the credential is stored when there is    *)
(* one, the entry is removed and every waiter woken.                       *)
Lands(expiry) ==
  /\ cache' = IF expiry > 0 THEN expiry ELSE cache
  /\ flight' = None
  /\ woken' = woken \cup {d \in Calls : stage[d] = "wait"}

Assumed(c) ==
  /\ stage[c] \in {"assume", "again"} /\ ~cancelled[c]
  /\ \E life \in Lifetimes :
       /\ held' = [held EXCEPT ![c] = now + life]
       /\ Lands(now + life)
  /\ Goto(c, "signed")
  /\ UNCHANGED <<request, tries, since, sends, outcome, cancelled, now>>

(* The role does not exist: it is created once, with retries of its own    *)
(* and a pause, under the same context, and AssumeRole repeated.           *)
RoleMissing(c) ==
  /\ stage[c] = "assume" /\ ~cancelled[c]
  /\ Goto(c, "bootstrap")
  /\ UNCHANGED <<request, tries, since, held, sends, outcome, cancelled, sts, now>>

Bootstrapped(c) ==
  /\ stage[c] = "bootstrap"
  /\ Goto(c, "again")
  /\ UNCHANGED <<request, tries, since, held, sends, outcome, cancelled, sts, now>>

FlightFails(c) ==
  /\ stage[c] \in {"assume", "bootstrap", "again"}
  /\ Lands(0)
  /\ \/ cancelled[c] /\ Fails(c, "cancelled", TRUE)
     \/ TimedOut(c) /\ Fails(c, "timeout", TRUE)
     \/ \E retriable \in BOOLEAN : Fails(c, "credentials", retriable)
  /\ UNCHANGED <<request, tries, since, held, sends, cancelled, now>>

-----------------------------------------------------------------------------
(* The request itself (ExternalExecutor.Execute).                          *)

Send(c) ==
  /\ stage[c] = "signed" /\ ~cancelled[c] /\ ~TimedOut(c)
  /\ sends' = [sends EXCEPT ![c] = @ + 1]
  /\ Goto(c, "sent")
  /\ UNCHANGED <<request, tries, since, held, outcome, cancelled, sts, now>>

NotSent(c) ==
  /\ stage[c] = "signed"
  /\ \/ cancelled[c] /\ Fails(c, "cancelled", TRUE)
     \/ TimedOut(c) /\ Fails(c, "timeout", TRUE)
     \/ Fails(c, "failed", TRUE)
  /\ UNCHANGED <<request, tries, since, held, sends, cancelled, sts, now>>

(* The answer, an error of a retried class (a lost answer, a 5xx, an early *)
(* end of file) or of another (a RetCode, a body that does not parse).     *)
Answered(c) ==
  /\ stage[c] = "sent"
  /\ \/ Ends(c, "ok")
     \/ \E retriable \in BOOLEAN : Fails(c, "failed", retriable)
     \/ cancelled[c] /\ Fails(c, "cancelled", TRUE)
     \/ TimedOut(c) /\ Fails(c, "timeout", TRUE)
  /\ UNCHANGED <<request, tries, since, held, sends, cancelled, sts, now>>

(* The caller goes away: a disconnect, the end of a turn, a shutdown.      *)
Cancel(c) ==
  /\ stage[c] \notin {"idle", "done"} /\ ~cancelled[c]
  /\ cancelled' = [cancelled EXCEPT ![c] = TRUE]
  /\ UNCHANGED <<request, stage, tries, since, held, sends, outcome, sts, now>>

(* Time passes, but no attempt outlives its deadline by a tick.            *)
Tick ==
  /\ now < Horizon
  /\ \A c \in Calls : stage[c] \in Attempting => ~TimedOut(c)
  /\ now' = now + 1
  /\ UNCHANGED <<request, stage, tries, since, held, sends, outcome, cancelled, sts>>

Step(c) ==
  \/ \E r \in Requests : Submit(c, r)
  \/ ResolveZone(c)
  \/ \E yes \in BOOLEAN : Consult(c, yes)
  \/ Resume(c) \/ GiveUp(c)
  \/ CacheHit(c) \/ Wait(c) \/ Lead(c) \/ Woken(c) \/ LeavesWait(c)
  \/ Assumed(c) \/ RoleMissing(c) \/ Bootstrapped(c) \/ FlightFails(c)
  \/ Send(c) \/ NotSent(c) \/ Answered(c)

Next == Tick \/ \E c \in Calls : Step(c) \/ Cancel(c)

Spec == Init /\ [][Next]_vars

-----------------------------------------------------------------------------
(* What reached the cloud passed the whole gate of ExecuteSafe: its class  *)
(* may be executed, writes are enabled and, where a model asked for one,   *)
(* approved by the user; its zone_id is one the server vouches for.        *)
SentIsVetted ==
  \A c \in Calls : sends[c] > 0 =>
    /\ req[c].class \in {"mutating", "read"}
    /\ req[c].class = "mutating" => mutating
    /\ NeedsConfirm(req[c]) => asked[c] = "yes"
    /\ req[c].origin = "model" => zoneId[c] # "caller"
    /\ req[c].zone = "strict" => zoneId[c] # None

(* However its attempts fail, a write reaches the cloud at most once: a    *)
(* lost answer, an expired deadline or a failed credential never sends it  *)
(* again.                                                                  *)
WritesOnce == \A c \in Calls : req[c].class = "mutating" => sends[c] <= 1

(* A call does what was agreed, at most once: it is one conjunct that what  *)
(* is sent passed the gate, another that a write is not repeated.           *)
SentAsAgreed == SentIsVetted /\ WritesOnce

(* The role's credential is asked for by one call at a time, and the entry *)
(* the others wait on belongs to a call still asking: no error, deadline   *)
(* or cancellation of the call that asks leaves it behind.                 *)
OneFlight ==
  \A c \in Calls : stage[c] \in {"assume", "bootstrap", "again"} <=> flight = c
=============================================================================
