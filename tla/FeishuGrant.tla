------------------------------ MODULE FeishuGrant ------------------------------
(***************************************************************************)
(* The delegated token with which the Feishu bot reads the screenshots of  *)
(* external groups (src/internal/feishu/oauth.go) and the command that     *)
(* authorizes it (src/cmd/feishu_authorize.go).                            *)
(*                                                                         *)
(* A member authorizes on a desk: the code that comes back is exchanged    *)
(* for a refresh token, written into the configuration and deployed as the *)
(* bootstrap token.  The bot's process exchanges the refresh token it has  *)
(* for an access token and the NEXT refresh token (the platform takes each *)
(* one once), saves both encrypted under the app secret, and then hands    *)
(* the access token out.  One process runs at a time.                      *)
(*                                                                         *)
(* A refresh token is <<g, n>>: the n-th of the g-th authorization.        *)
(***************************************************************************)
EXTENDS Naturals, Sequences, FiniteSets

CONSTANTS Callers,   \* the image downloads that ask for a token
          Life,      \* how long an access token is valid
          Skew,      \* oauthRefreshSkew
          Timeout,   \* how long the client waits for the platform
          Horizon,   \* bound: the clock
          MaxGrants, \* bound: authorizations
          MaxTokens, \* bound: tokens of one authorization
          MaxFaults, \* bound: lost replies, failed saves, crashes, revocations, rotations
          MaxCalls   \* bound: callbacks one authorization receives

Nobody  == "nobody"
Starter == "start"

GrantConstants ==
  /\ Nobody \notin Callers
  /\ Life \in Nat /\ Skew \in Nat /\ Timeout \in Nat
  /\ Timeout <= Skew /\ Skew < Life

VARIABLES clock,
          grants,    \* the platform's: an authorization's current token, 0 if it was revoked
          secret,    \* how often the app secret was rotated
          row,       \* the stored record and the secret it is sealed under
          bootstrap, \* the refresh token of the deployed configuration
          file,      \* the refresh token of the desk's configuration
          desk,      \* how far the command is
          code, mishap,  \* its two channels of capacity one
          calls,     \* callbacks it received
          process,   \* "down", "starting" or "up"
          memory,    \* ExternalImageTokenProvider.token
          holder,    \* who holds its mutex
          stage,     \* how far the holder is
          reply,     \* what the platform sent it
          sentAt,    \* when it asked
          given,     \* the last access token handed out, when, and whether its successor was stored
          failure,   \* why the last start failed
          astray,    \* a token was lost between the platform and the store, or the grant was withdrawn
          faults

platform == <<grants, secret>>
command  == <<file, desk, code, mishap, calls>>
provider == <<process, memory, holder, stage, reply, sentAt, given, failure>>
vars     == <<clock, platform, row, bootstrap, command, provider, astray, faults>>

NoToken == <<0, 0>>
Record(token, expires, until) == [token |-> token, expires |-> expires, until |-> until]
NoRecord == Record(NoToken, 0, 0)
NoRow    == [record |-> NoRecord, under |-> 0]
NoCode   == [own |-> FALSE, full |-> FALSE]

\* The platform would take this refresh token.
Taken(token) == token[1] \in DOMAIN grants /\ grants[token[1]].next = token[2]

Init ==
  /\ clock = 0 /\ grants = <<>> /\ secret = 0
  /\ row = NoRow /\ bootstrap = NoToken
  /\ file = NoToken /\ desk = "idle" /\ code = {} /\ mishap = FALSE /\ calls = 0
  /\ process = "down" /\ memory = NoRecord /\ holder = Nobody /\ stage = "idle"
  /\ reply = NoRecord /\ sentAt = 0
  /\ given = [until |-> 1, at |-> 0, stored |-> TRUE] /\ failure = "none"
  /\ astray = FALSE /\ faults = 0

\* No time passes while a record is saved; the platform answers within Timeout.
Tick ==
  /\ clock < Horizon /\ stage # "save"
  /\ stage = "sent" => clock < sentAt + Timeout
  /\ clock' = clock + 1
  /\ UNCHANGED <<platform, row, bootstrap, command, provider, astray, faults>>

Fault == faults < MaxFaults /\ faults' = faults + 1

-----------------------------------------------------------------------------
(* feishu-authorize.                                                       *)

Authorize ==
  /\ desk = "idle" /\ Len(grants) < MaxGrants
  /\ desk' = "listening" /\ code' = {} /\ mishap' = FALSE /\ calls' = 0
  /\ UNCHANGED <<clock, platform, row, bootstrap, file, provider, astray, faults>>

(* A request to the loopback address: with the state of this authorization  *)
(* or another's, declined, without a code, or with one that grants all the   *)
(* scopes or some.  What does not fit its channel is dropped.                *)
Callback ==
  /\ desk = "listening" /\ calls < MaxCalls
  /\ calls' = calls + 1
  /\ \E own, full \in BOOLEAN, kind \in {"declined", "empty", "code"} :
       IF own /\ kind = "code"
         THEN /\ code' = IF code = {} THEN {[own |-> own, full |-> full]} ELSE code
              /\ UNCHANGED mishap
         ELSE mishap' = TRUE /\ UNCHANGED code
  /\ UNCHANGED <<clock, platform, row, bootstrap, file, desk, provider, astray, faults>>

\* select: whichever channel is ready, or the deadline.
Select ==
  /\ desk = "listening"
  /\ desk' \in (IF code # {} THEN {"exchange"} ELSE {}) \cup {"idle"}
  /\ UNCHANGED <<clock, platform, row, bootstrap, file, code, mishap, calls, provider,
                 astray, faults>>

(* exchangeFeishuOAuthToken with the code: a grant that misses a scope is    *)
(* an error, and its token is not kept; the answer may not come.             *)
ExchangeCode ==
  /\ desk = "exchange" /\ Len(grants) < MaxGrants
  /\ \E c \in code :
       /\ grants' = Append(grants, [next |-> 1, own |-> c.own, full |-> c.full])
       /\ desk' \in (IF c.full THEN {"write"} ELSE {}) \cup {"idle"}
  /\ UNCHANGED <<clock, secret, row, bootstrap, file, code, mishap, calls, provider,
                 astray, faults>>

\* writeFeishuOAuthBootstrapToken: a temporary file takes the configuration's place, or nothing does.
WriteBootstrap ==
  /\ desk = "write"
  /\ file' \in {<<Len(grants), 1>>, file}
  /\ desk' = "idle"
  /\ UNCHANGED <<clock, platform, row, bootstrap, code, mishap, calls, provider, astray, faults>>

-----------------------------------------------------------------------------
(* The process.                                                            *)

\* A token that left the platform and not yet reached the store.
InFlight == stage \in {"sent", "save"}

Ended ==
  /\ process' = "down" /\ holder' = Nobody /\ stage' = "idle"
  /\ memory' = NoRecord /\ reply' = NoRecord /\ sentAt' = 0

\* A deployment brings the desk's bootstrap token and ends the process.
Deploy ==
  /\ process # "down" \/ bootstrap # file
  /\ bootstrap' = file
  /\ Ended /\ failure' = "none"
  /\ astray' = (astray \/ InFlight)
  /\ UNCHANGED <<clock, platform, row, command, given, faults>>

Crash ==
  /\ process # "down" /\ Fault
  /\ Ended /\ failure' = "none"
  /\ astray' = (astray \/ InFlight)
  /\ UNCHANGED <<clock, platform, row, bootstrap, command, given>>

\* runFeishu: the constructor asks for a token, and without one the process ends.
Start ==
  /\ process = "down"
  /\ process' = "starting" /\ holder' = Starter /\ stage' = "check" /\ failure' = "none"
  /\ UNCHANGED <<clock, platform, row, bootstrap, command, memory, reply, sentAt, given,
                 astray, faults>>

Acquire(c) ==
  /\ process = "up" /\ holder = Nobody
  /\ holder' = c /\ stage' = "check"
  /\ UNCHANGED <<clock, platform, row, bootstrap, command, process, memory, reply, sentAt,
                 given, failure, astray, faults>>

\* MUTANT: a token is handed out until it expires, without the skew.
FreshUntilExpiry(record) == record.expires # 0 /\ record.expires > clock

Fresh(record) == record.expires # 0 /\ record.expires > clock + Skew

HandOut(record, stored) ==
  /\ given' = [until |-> record.until, at |-> clock, stored |-> stored]
  /\ process' = "up" /\ holder' = Nobody /\ stage' = "idle"
  /\ UNCHANGED <<sentAt, failure>>

\* An error: the caller goes without, a start ends the process.
Fails(why) ==
  IF holder = Starter
    THEN Ended /\ failure' = why /\ UNCHANGED given
    ELSE /\ holder' = Nobody /\ stage' = "idle" /\ reply' = NoRecord
         /\ UNCHANGED <<process, memory, sentAt, given, failure>>

\* AccessToken: the token in memory, or else what memory or the store can be exchanged for.
Check ==
  /\ stage = "check"
  /\ IF Fresh(memory)
       THEN HandOut(memory, row.record.token = memory.token) /\ UNCHANGED <<memory, reply>>
       ELSE /\ stage' = IF memory.token = NoToken THEN "load" ELSE "exchange"
            /\ UNCHANGED <<process, memory, holder, reply, sentAt, given, failure>>
  /\ UNCHANGED <<clock, platform, row, bootstrap, command, astray, faults>>

(* Load: the row's record if there is a row, which must open under the       *)
(* secret; the bootstrap token only when there is none.                      *)
Load ==
  /\ stage = "load"
  /\ \/ /\ row # NoRow /\ row.under = secret /\ Fresh(row.record)
        /\ memory' = row.record /\ HandOut(row.record, TRUE) /\ UNCHANGED reply
     \/ /\ row # NoRow /\ row.under = secret /\ ~Fresh(row.record)
        /\ memory' = row.record /\ stage' = "exchange"
        /\ UNCHANGED <<process, holder, reply, sentAt, given, failure>>
     \/ row # NoRow /\ row.under # secret /\ Fails("unreadable")
     \/ /\ row = NoRow /\ bootstrap # NoToken
        /\ memory' = Record(bootstrap, 0, 0) /\ stage' = "exchange"
        /\ UNCHANGED <<process, holder, reply, sentAt, given, failure>>
     \/ row = NoRow /\ bootstrap = NoToken /\ Fails("no token")
  /\ UNCHANGED <<clock, platform, row, bootstrap, command, astray, faults>>

LoadFails ==
  /\ stage = "load" /\ Fault /\ Fails("database")
  /\ UNCHANGED <<clock, platform, row, bootstrap, command, astray>>

\* The platform takes a refresh token once and sends its successor.
Exchange ==
  LET g == memory.token[1] IN
  /\ stage = "exchange" /\ Taken(memory.token) /\ memory.token[2] < MaxTokens
  /\ grants' = [grants EXCEPT ![g].next = @ + 1]
  /\ reply' = Record(<<g, memory.token[2] + 1>>, 0, clock + Life)
  /\ stage' = "sent" /\ sentAt' = clock
  /\ UNCHANGED <<clock, secret, row, bootstrap, command, process, memory, holder, given,
                 failure, astray, faults>>

Refused ==
  /\ stage = "exchange" /\ ~Taken(memory.token) /\ Fails("refused")
  /\ UNCHANGED <<clock, platform, row, bootstrap, command, astray, faults>>

\* The lifetime counts from the moment the client reads the answer.
Answered ==
  /\ stage = "sent"
  /\ reply' = [reply EXCEPT !.expires = clock + Life]
  /\ stage' = "save"
  /\ UNCHANGED <<clock, platform, row, bootstrap, command, process, memory, holder, sentAt,
                 given, failure, astray, faults>>

AnswerLost ==
  /\ stage = "sent" /\ Fault /\ Fails("lost") /\ astray' = TRUE
  /\ UNCHANGED <<clock, platform, row, bootstrap, command>>

\* Save, and only then the new record replaces the one in memory and is handed out.
Save ==
  /\ stage = "save"
  /\ row' = [record |-> reply, under |-> secret]
  /\ memory' = reply /\ reply' = NoRecord
  /\ HandOut(reply, TRUE)
  /\ UNCHANGED <<clock, platform, bootstrap, command, astray, faults>>

SaveFails ==
  /\ stage = "save" /\ Fault /\ Fails("database") /\ astray' = TRUE
  /\ UNCHANGED <<clock, platform, row, bootstrap, command>>

-----------------------------------------------------------------------------
(* What the member and the operator may do meanwhile.                      *)

Revoke ==
  /\ Fault
  /\ \E g \in DOMAIN grants :
       grants[g].next # 0 /\ grants' = [grants EXCEPT ![g].next = 0]
  /\ astray' = TRUE
  /\ UNCHANGED <<clock, secret, row, bootstrap, command, provider>>

\* The app secret is part of the configuration: its rotation is a deployment.
Rotate ==
  /\ Fault
  /\ secret' = secret + 1 /\ bootstrap' = file
  /\ Ended /\ failure' = "none" /\ astray' = TRUE
  /\ UNCHANGED <<clock, grants, row, command, given>>

Next ==
  \/ Tick \/ Authorize \/ Callback \/ Select \/ ExchangeCode \/ WriteBootstrap
  \/ Deploy \/ Crash \/ Start \/ (\E c \in Callers : Acquire(c))
  \/ Check \/ Load \/ LoadFails \/ Exchange \/ Refused \/ Answered \/ AnswerLost
  \/ Save \/ SaveFails \/ Revoke \/ Rotate

Spec == Init /\ [][Next]_vars

-----------------------------------------------------------------------------
(* Properties.                                                             *)

\* The token the next start would use: the row's, the bootstrap token when there is no row.
Used == IF row = NoRow THEN bootstrap ELSE row.record.token

(* As long as nothing was lost on the way, the store, or before the first    *)
(* exchange the configuration, holds the token the platform takes next,      *)
(* whichever callers, restarts and deployments come between: no              *)
(* authorization is needed again (docs/feishu-topic-bot.md:123).  A token    *)
(* handed out is still valid then and its successor is stored; and every     *)
(* token kept comes from a grant of all scopes that answered this command.   *)
GrantIsKept ==
  /\ ~astray => IF InFlight
                  THEN Taken(reply.token) /\ reply.token[1] = Used[1]
                  ELSE Used = NoToken \/ (Taken(Used) /\ row.under \in {0, secret})
  /\ given.until > given.at /\ given.stored
  /\ \A t \in {file, bootstrap, Used} \ {NoToken} : grants[t[1]].own /\ grants[t[1]].full

(* After a revocation, a rotation of the app secret or an expiry, running    *)
(* the authorization again and deploying it is what is needed                *)
(* (docs/feishu-topic-bot.md:123, internal/feishu/oauth.go:106): a process   *)
(* does not fail to start for a refused or unreadable token while the        *)
(* deployed bootstrap token is one the platform takes.                       *)
ReauthorizationWorks ==
  process = "down" /\ failure \in {"refused", "unreadable"} => ~Taken(bootstrap)
=============================================================================
