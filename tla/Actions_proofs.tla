---------------------------- MODULE Actions_proofs ----------------------------
(***************************************************************************)
(* Proofs about components that lead to a write and that MCActions checks  *)
(* as parts of one state space: for each, an inductive invariant of the    *)
(* component alone, for every value of its constants, and at the end what  *)
(* follows for the composition.                                            *)
(***************************************************************************)
EXTENDS MCActions, FiniteSetTheorems, TLAPS

-----------------------------------------------------------------------------
(* The calls of the cloud API, for any calls, requests, timeouts and         *)
(* lifetimes.  Two inductive invariants: the calls that ask STS are the      *)
(* owner of the flight (OneFlight itself), and what a call has been through  *)
(* when it stands at a stage (Passed), which carries the gate and the count  *)
(* of attempts to the moment of sending.                                     *)

CloudAsking == {"assume", "bootstrap", "again"}
CloudAdmitted == {"zone", "gate", "backoff"} \cup Cloud!Attempting
CloudStarted  == {"backoff"} \cup Cloud!Attempting

\* The functions of the calls have their domains, and the flight its owner.
CloudTyped ==
  /\ callStage \in [Calls -> Cloud!Stages]
  /\ req \in [Calls -> Cloud!AllRequests \cup {Cloud!NoRequest}]
  /\ tries \in [Calls -> Nat] /\ sends \in [Calls -> Nat]
  /\ consulted \in [Calls -> {Cloud!None, "yes", "no"}]
  /\ zoneId \in [Calls -> {Cloud!None, "caller", "resolved"}]
  /\ flight \in Calls \cup {Cloud!None}

\* What a call at its stage has passed.
CloudPassed(c) ==
  /\ callStage[c] \in {"idle", "zone", "gate"} => sends[c] = 0 /\ tries[c] = 0
  /\ callStage[c] \in CloudAdmitted =>
       /\ req[c] \in Cloud!AllRequests /\ ~Cloud!Refuses(req[c])
       /\ req[c].origin = "model" => zoneId[c] # "caller"
  /\ callStage[c] \in CloudAdmitted \ {"zone"}
     => (req[c].zone = "strict" => zoneId[c] # Cloud!None)
  /\ callStage[c] \in CloudStarted =>
       /\ Cloud!NeedsConfirm(req[c]) => consulted[c] = "yes"
       /\ tries[c] >= 1
       /\ req[c].class = "mutating" => callStage[c] # "backoff"
       /\ req[c].class = "mutating" /\ callStage[c] # "sent" => sends[c] = 0

CloudVetted == Cloud!SentIsVetted /\ Cloud!WritesOnce /\ \A c \in Calls : CloudPassed(c)

LEMMA CloudTypedInit == Cloud!Init => CloudTyped
BY DEF Cloud!Init, CloudTyped, Cloud!Stages, Cloud!None

LEMMA CloudTypedStep ==
    Cloud!CallsConstants /\ CloudTyped /\ [Cloud!Next]_(Cloud!vars) => CloudTyped'
<1> SUFFICES ASSUME Cloud!CallsConstants, CloudTyped, [Cloud!Next]_(Cloud!vars) PROVE CloudTyped'
  OBVIOUS
<1> USE DEF CloudTyped
<1>1. ASSUME NEW c \in Calls, NEW o, NEW r, Cloud!Fails(c, o, r)
      PROVE callStage' \in [Calls -> Cloud!Stages]
  BY <1>1 DEF Cloud!Fails, Cloud!Goto, Cloud!Ends, Cloud!Stages
<1>2. CASE Cloud!Tick \/ UNCHANGED Cloud!vars
  BY <1>2 DEF Cloud!Tick, Cloud!vars, Cloud!request, Cloud!sts
<1>3. ASSUME NEW c \in Calls, Cloud!Step(c) \/ Cloud!Cancel(c) PROVE CloudTyped'
  <2>1. ASSUME NEW r \in CallRequests, Cloud!Submit(c, r) PROVE CloudTyped'
    BY <2>1
      DEF Cloud!CallsConstants, Cloud!Submit, Cloud!Goto, Cloud!Ends, Cloud!Stages, Cloud!None,
         Cloud!sts
  <2>2. CASE Cloud!ResolveZone(c)
    BY <2>2
      DEF Cloud!ResolveZone, Cloud!Goto, Cloud!Ends, Cloud!Stages, Cloud!Attempting, Cloud!sts
  <2>3. ASSUME NEW yes \in BOOLEAN, Cloud!Consult(c, yes) PROVE CloudTyped'
    BY <2>3 DEF Cloud!Consult, Cloud!Goto, Cloud!Ends, Cloud!Stages, Cloud!Attempting, Cloud!sts
  <2>4. CASE Cloud!Resume(c) \/ Cloud!GiveUp(c)
    BY <2>4
      DEF Cloud!Resume, Cloud!GiveUp, Cloud!Goto, Cloud!Ends, Cloud!Stages, Cloud!Attempting,
         Cloud!request, Cloud!sts
  <2>5. CASE Cloud!CacheHit(c) \/ Cloud!Wait(c) \/ Cloud!Lead(c) \/ Cloud!Woken(c)
    BY <2>5
      DEF Cloud!CacheHit, Cloud!Wait, Cloud!Lead, Cloud!Woken, Cloud!Goto, Cloud!Stages,
         Cloud!Attempting, Cloud!request, Cloud!sts
  <2>6. CASE Cloud!LeavesWait(c) \/ Cloud!NotSent(c)
    BY <1>1, <2>6 DEF Cloud!LeavesWait, Cloud!NotSent, Cloud!request, Cloud!sts
  <2>7. CASE Cloud!Assumed(c) \/ Cloud!RoleMissing(c) \/ Cloud!Bootstrapped(c)
    BY <2>7
      DEF Cloud!Assumed, Cloud!RoleMissing, Cloud!Bootstrapped, Cloud!Lands, Cloud!Goto,
         Cloud!Stages, Cloud!Attempting, Cloud!request, Cloud!sts
  <2>8. CASE Cloud!FlightFails(c)
    BY <1>1, <2>8 DEF Cloud!FlightFails, Cloud!Lands, Cloud!request
  <2>9. CASE Cloud!Send(c) \/ Cloud!Cancel(c)
    BY <2>9
      DEF Cloud!Send, Cloud!Cancel, Cloud!Goto, Cloud!Stages, Cloud!Attempting, Cloud!request,
         Cloud!sts
  <2>10. CASE Cloud!Answered(c)
    BY <1>1, <2>10
      DEF Cloud!Answered, Cloud!Ends, Cloud!Goto, Cloud!Stages, Cloud!request, Cloud!sts
  <2> QED
    BY <1>3, <2>1, <2>2, <2>3, <2>4, <2>5, <2>6, <2>7, <2>8, <2>9, <2>10 DEF Cloud!Step
<1> QED
  BY <1>2, <1>3 DEF Cloud!Next

-----------------------------------------------------------------------------
(* The flight belongs to the call that asks.                                 *)

\* Every step of a call leaves the stages of the others alone.
LEMMA CloudOthersStay ==
    ASSUME CloudTyped, NEW c \in Calls, Cloud!Step(c) \/ Cloud!Cancel(c)
    PROVE  callStage' = [callStage EXCEPT ![c] = callStage'[c]]
<1>1. ASSUME NEW o, NEW r, Cloud!Fails(c, o, r)
      PROVE \E s : callStage' = [callStage EXCEPT ![c] = s]
  BY <1>1 DEF Cloud!Fails, Cloud!Goto, Cloud!Ends
<1>2. CASE Cloud!Cancel(c)
  BY <1>2 DEF Cloud!Cancel, CloudTyped
<1>3. CASE Cloud!Step(c)
  <2>1. CASE \/ Cloud!LeavesWait(c) \/ Cloud!NotSent(c) \/ Cloud!FlightFails(c)
          \/ Cloud!Answered(c)
    BY <1>1, <2>1
      DEF Cloud!LeavesWait, Cloud!NotSent, Cloud!FlightFails, Cloud!Answered, Cloud!Ends,
         Cloud!Goto
  <2>2. CASE \/ (\E r \in CallRequests : Cloud!Submit(c, r)) \/ Cloud!ResolveZone(c)
             \/ \E yes \in BOOLEAN : Cloud!Consult(c, yes)
    BY <2>2 DEF Cloud!Submit, Cloud!ResolveZone, Cloud!Consult, Cloud!Ends, Cloud!Goto
  <2>3. CASE \/ Cloud!Resume(c) \/ Cloud!GiveUp(c) \/ Cloud!CacheHit(c) \/ Cloud!Wait(c)
          \/ Cloud!Lead(c) \/ Cloud!Woken(c)
             \/ Cloud!Assumed(c) \/ Cloud!RoleMissing(c) \/ Cloud!Bootstrapped(c) \/ Cloud!Send(c)
    BY <2>3
      DEF Cloud!Resume, Cloud!GiveUp, Cloud!CacheHit, Cloud!Wait, Cloud!Lead, Cloud!Woken,
         Cloud!Assumed, Cloud!RoleMissing, Cloud!Bootstrapped,
                Cloud!Send, Cloud!Ends, Cloud!Goto
  <2> QED
    BY <1>3, <2>1, <2>2, <2>3 DEF Cloud!Step
<1> QED
  BY <1>2, <1>3 DEF CloudTyped

LEMMA CloudOneFlightStep ==
    Cloud!CallsConstants /\ CloudTyped /\ Cloud!OneFlight /\ [Cloud!Next]_(Cloud!vars)
      => Cloud!OneFlight'
<1> SUFFICES ASSUME Cloud!CallsConstants, CloudTyped, Cloud!OneFlight, [Cloud!Next]_(Cloud!vars)
    PROVE Cloud!OneFlight'
  OBVIOUS
<1>1. CASE Cloud!Tick \/ UNCHANGED Cloud!vars
  BY <1>1 DEF Cloud!Tick, Cloud!vars, Cloud!sts, Cloud!OneFlight
<1>2. ASSUME NEW c \in Calls, Cloud!Step(c) \/ Cloud!Cancel(c) PROVE Cloud!OneFlight'
  <2>1. /\ \A d \in Calls \ {c} : callStage'[d] = callStage[d]
        /\ callStage \in [Calls -> Cloud!Stages] /\ Cloud!None \notin Calls
    BY <1>2, CloudOthersStay DEF CloudTyped, Cloud!None, Cloud!CallsConstants
  <2>2. ASSUME NEW o, NEW r, Cloud!Fails(c, o, r) PROVE callStage'[c] \notin CloudAsking
    BY <2>1, <2>2 DEF Cloud!Fails, Cloud!Goto, Cloud!Ends, CloudAsking
  <2>3. CASE flight' = flight /\ (callStage[c] \in CloudAsking <=> callStage'[c] \in CloudAsking)
    BY <2>1, <2>3 DEF Cloud!OneFlight, CloudAsking
  <2>4. CASE flight' = Cloud!None /\ callStage[c] \in CloudAsking
          /\ callStage'[c] \notin CloudAsking
    BY <2>1, <2>4 DEF Cloud!OneFlight, CloudAsking
  <2>5. CASE Cloud!Lead(c)
    BY <2>1, <2>5 DEF Cloud!Lead, Cloud!Goto, Cloud!OneFlight
  <2>6. CASE Cloud!Assumed(c) \/ Cloud!FlightFails(c)
    BY <2>1, <2>2, <2>4, <2>6
      DEF Cloud!Assumed, Cloud!FlightFails, Cloud!Lands, Cloud!Goto, CloudAsking
  <2>7. CASE Cloud!RoleMissing(c) \/ Cloud!Bootstrapped(c)
    BY <2>1, <2>3, <2>7
      DEF Cloud!RoleMissing, Cloud!Bootstrapped, Cloud!Goto, CloudAsking, Cloud!sts
  <2>8. CASE Cloud!LeavesWait(c) \/ Cloud!NotSent(c)
    BY <2>1, <2>2, <2>3, <2>8 DEF Cloud!LeavesWait, Cloud!NotSent, CloudAsking, Cloud!sts
  <2>9. CASE Cloud!Answered(c)
    BY <2>1, <2>2, <2>3, <2>9 DEF Cloud!Answered, Cloud!Ends, Cloud!Goto, CloudAsking, Cloud!sts
  <2>10. CASE Cloud!Resume(c) \/ Cloud!GiveUp(c) \/ Cloud!CacheHit(c) \/ Cloud!Wait(c)
           \/ Cloud!Woken(c) \/ Cloud!Send(c)
    BY <2>1, <2>3, <2>10
      DEF Cloud!Resume, Cloud!GiveUp, Cloud!CacheHit, Cloud!Wait, Cloud!Woken, Cloud!Send,
         Cloud!Goto, Cloud!Ends, CloudAsking, Cloud!sts
  <2>11. CASE \/ (\E r \in CallRequests : Cloud!Submit(c, r)) \/ Cloud!ResolveZone(c)
              \/ \E yes \in BOOLEAN : Cloud!Consult(c, yes)
    BY <2>1, <2>3, <2>11
      DEF Cloud!Submit, Cloud!ResolveZone, Cloud!Consult, Cloud!Goto, Cloud!Ends, CloudAsking,
         Cloud!sts
  <2>12. CASE Cloud!Cancel(c)
    BY <2>3, <2>12 DEF Cloud!Cancel, Cloud!sts
  <2> QED
    BY <1>2, <2>5, <2>6, <2>7, <2>8, <2>9, <2>10, <2>11, <2>12 DEF Cloud!Step
<1> QED
  BY <1>1, <1>2 DEF Cloud!Next

-----------------------------------------------------------------------------
(* The gate holds up to the sending, and a write is sent once.               *)

\* A step of one call leaves what the others have passed, and sent.
CloudSame(d) ==
  /\ callStage'[d] = callStage[d] /\ req'[d] = req[d] /\ consulted'[d] = consulted[d]
  /\ zoneId'[d] = zoneId[d]
  /\ tries'[d] = tries[d] /\ sends'[d] = sends[d]

LEMMA CloudOthersAreSame ==
    ASSUME CloudTyped, NEW c \in Calls, Cloud!Step(c) \/ Cloud!Cancel(c), NEW d \in Calls \ {c}
    PROVE  CloudSame(d)
<1>1. callStage'[d] = callStage[d]
  BY CloudOthersStay DEF CloudTyped
<1>2. CASE (\E r \in CallRequests : Cloud!Submit(c, r)) \/ Cloud!ResolveZone(c) \/ \E yes \in BOOLEAN : Cloud!Consult(c, yes)
  BY <1>1, <1>2 DEF Cloud!Submit, Cloud!ResolveZone, Cloud!Consult, CloudSame, CloudTyped
<1>3. CASE Cloud!Resume(c) \/ Cloud!GiveUp(c) \/ Cloud!CacheHit(c) \/ Cloud!Wait(c)
        \/ Cloud!Lead(c) \/ Cloud!Woken(c) \/ Cloud!LeavesWait(c)
  BY <1>1, <1>3
    DEF Cloud!Resume, Cloud!GiveUp, Cloud!CacheHit, Cloud!Wait, Cloud!Lead, Cloud!Woken,
       Cloud!LeavesWait, Cloud!request, CloudSame, CloudTyped
<1>4. CASE Cloud!Assumed(c) \/ Cloud!RoleMissing(c) \/ Cloud!Bootstrapped(c)
        \/ Cloud!FlightFails(c)
  BY <1>1, <1>4
    DEF Cloud!Assumed, Cloud!RoleMissing, Cloud!Bootstrapped, Cloud!FlightFails, Cloud!request,
       CloudSame, CloudTyped
<1>5. CASE Cloud!Send(c) \/ Cloud!NotSent(c) \/ Cloud!Answered(c) \/ Cloud!Cancel(c)
  BY <1>1, <1>5
    DEF Cloud!Send, Cloud!NotSent, Cloud!Answered, Cloud!Cancel, Cloud!request, CloudSame,
       CloudTyped
<1> QED
  BY <1>2, <1>3, <1>4, <1>5 DEF Cloud!Step

CloudSentOK(c) ==
  /\ sends[c] > 0 =>
       /\ req[c].class \in {"mutating", "read"}
       /\ req[c].class = "mutating" => mutating
       /\ Cloud!NeedsConfirm(req[c]) => consulted[c] = "yes"
       /\ req[c].origin = "model" => zoneId[c] # "caller"
       /\ req[c].zone = "strict" => zoneId[c] # Cloud!None
  /\ req[c].class = "mutating" => sends[c] <= 1

LEMMA CloudVettedIsSentOK == CloudVetted <=> \A c \in Calls : CloudSentOK(c) /\ CloudPassed(c)
BY DEF CloudVetted, CloudSentOK, Cloud!SentIsVetted, Cloud!WritesOnce

LEMMA CloudSameKeeps ==
    ASSUME NEW d, CloudSame(d), mutating' = mutating, CloudSentOK(d), CloudPassed(d)
    PROVE  CloudSentOK(d)' /\ CloudPassed(d)'
BY DEF CloudSame, CloudSentOK, CloudPassed, Cloud!Refuses, Cloud!NeedsConfirm

\* The step of a call that has not been tried yet: the gate, one condition at a time.
LEMMA CloudGateKeeps ==
    ASSUME Cloud!CallsConstants, CloudTyped, NEW c \in Calls, CloudSentOK(c), CloudPassed(c),
           \/ \E r \in CallRequests : Cloud!Submit(c, r)
           \/ Cloud!ResolveZone(c)
           \/ \E yes \in BOOLEAN : Cloud!Consult(c, yes)
    PROVE  CloudSentOK(c)' /\ CloudPassed(c)'
<1> USE DEF CloudAdmitted, CloudStarted, Cloud!Attempting
<1>1. callStage[c] \in {"idle", "zone", "gate"} /\ sends[c] = 0 /\ tries[c] = 0 /\ sends' = sends
  BY DEF Cloud!Submit, Cloud!ResolveZone, Cloud!Consult, CloudPassed
<1>2. CloudSentOK(c)'
  BY <1>1 DEF CloudSentOK, CloudTyped
<1>3. ASSUME NEW r \in CallRequests, Cloud!Submit(c, r) PROVE CloudPassed(c)'
  <2>1. req'[c] = r /\ tries' = tries /\ mutating' = mutating
    BY <1>3 DEF Cloud!Submit, CloudTyped
  <2>2. CASE Cloud!Refuses(r) /\ callStage'[c] = "done"
    BY <1>1, <2>1, <2>2 DEF CloudPassed
  <2>3. CASE /\ ~Cloud!Refuses(r) /\ callStage'[c] = "zone"
             /\ zoneId'[c] = IF Cloud!KeepsZone(r) THEN "caller" ELSE Cloud!None
    BY <1>1, <2>1, <2>3
      DEF CloudPassed, Cloud!KeepsZone, Cloud!Refuses, Cloud!None, Cloud!CallsConstants
  <2> QED
    BY <1>3, <2>2, <2>3 DEF Cloud!Submit, Cloud!Goto, Cloud!Ends, CloudTyped
<1>4. CASE Cloud!ResolveZone(c)
  <2> SUFFICES CloudPassed(c)'
    BY <1>2
  <2>1. /\ req' = req /\ consulted' = consulted /\ mutating' = mutating
        /\ callStage[c] = "zone" /\ req[c] \in Cloud!AllRequests /\ ~Cloud!Refuses(req[c])
        /\ req[c].origin = "model" => zoneId[c] # "caller"
    BY <1>4 DEF Cloud!ResolveZone, CloudPassed
  <2>2. /\ callStage'[c] \in {"gate", "get", "done"}
        /\ callStage'[c] = "get" => ~Cloud!NeedsConfirm(req[c])
        /\ zoneId'[c] \in {zoneId[c], "resolved"}
        /\ callStage'[c] # "done" => (req[c].zone = "strict" => zoneId'[c] # Cloud!None)
    BY <1>4 DEF Cloud!ResolveZone, Cloud!Goto, Cloud!Ends, CloudTyped, Cloud!None
  <2>3. tries'[c] = IF callStage'[c] = "get" THEN 1 ELSE 0
    BY <1>1, <1>4 DEF Cloud!ResolveZone, CloudTyped
  <2>4. CASE callStage'[c] = "get"
    BY <1>1, <2>1, <2>2, <2>3, <2>4 DEF CloudPassed, Cloud!Refuses, Cloud!NeedsConfirm
  <2>5. CASE callStage'[c] = "gate"
    BY <1>1, <2>1, <2>2, <2>3, <2>5 DEF CloudPassed, Cloud!Refuses
  <2>6. CASE callStage'[c] = "done"
    BY <2>6 DEF CloudPassed
  <2> QED
    BY <2>2, <2>4, <2>5, <2>6
<1>5. ASSUME NEW yes \in BOOLEAN, Cloud!Consult(c, yes) PROVE CloudPassed(c)'
  <2>1. /\ req' = req /\ zoneId' = zoneId /\ mutating' = mutating
        /\ callStage[c] = "gate" /\ req[c] \in Cloud!AllRequests /\ ~Cloud!Refuses(req[c])
        /\ req[c].origin = "model" => zoneId[c] # "caller"
        /\ req[c].zone = "strict" => zoneId[c] # Cloud!None
    BY <1>5 DEF Cloud!Consult, CloudPassed
  <2>2. \/ callStage'[c] = "done"
        \/ callStage'[c] = "get" /\ consulted'[c] = "yes" /\ tries'[c] = 1
    BY <1>5 DEF Cloud!Consult, Cloud!Goto, Cloud!Ends, CloudTyped
  <2> QED
    BY <1>1, <2>1, <2>2 DEF CloudPassed, Cloud!Refuses, Cloud!NeedsConfirm
<1> QED
  BY <1>2, <1>3, <1>4, <1>5

\* A failed attempt is repeated only where the policy allows it, which it never does for a write.
LEMMA CloudFailsKeeps ==
    ASSUME CloudTyped, NEW c \in Calls, CloudSentOK(c), CloudPassed(c),
      callStage[c] \in Cloud!Attempting,
           NEW o, NEW r, Cloud!Fails(c, o, r), UNCHANGED <<Cloud!request, tries, sends>>
    PROVE  CloudSentOK(c)' /\ CloudPassed(c)'
<1>1. callStage'[c] = "done"
        \/ (callStage'[c] = "backoff" /\ tries[c] <= Cloud!MaxRetries(req[c]))
  BY DEF Cloud!Fails, Cloud!Goto, Cloud!Ends, CloudTyped
<1>2. req[c].class = "mutating" => callStage'[c] = "done"
  BY <1>1 DEF CloudPassed, CloudStarted, Cloud!MaxRetries, CloudTyped
<1>3. CloudSentOK(c)'
  BY DEF CloudSentOK, Cloud!NeedsConfirm, Cloud!request
<1>4. CloudPassed(c)'
  BY <1>1, <1>2
    DEF CloudPassed, CloudAdmitted, CloudStarted, Cloud!Attempting, Cloud!Refuses,
       Cloud!NeedsConfirm, Cloud!request
<1> QED
  BY <1>3, <1>4

LEMMA CloudAttemptKeeps ==
    ASSUME CloudTyped, NEW c \in Calls, CloudSentOK(c), CloudPassed(c),
      Cloud!Step(c) \/ Cloud!Cancel(c),
           callStage[c] \notin {"idle", "zone", "gate"} \/ Cloud!Cancel(c)
    PROVE  CloudSentOK(c)' /\ CloudPassed(c)'
<1> USE DEF CloudAdmitted, CloudStarted, Cloud!Attempting
<1>1. ASSUME callStage[c] \in CloudStarted, UNCHANGED <<Cloud!request, tries, sends>>,
             callStage'[c] \in (Cloud!Attempting \ {"sent"}) \cup {"done"}, callStage[c] # "sent"
               \/ callStage'[c] = "done"
      PROVE  CloudSentOK(c)' /\ CloudPassed(c)'
  BY <1>1 DEF CloudSentOK, CloudPassed, Cloud!Refuses, Cloud!NeedsConfirm, Cloud!request
<1>2. CASE Cloud!Cancel(c)
  BY <1>2
    DEF Cloud!Cancel, CloudSentOK, CloudPassed, Cloud!Refuses, Cloud!NeedsConfirm, Cloud!request
<1>3. CASE Cloud!Resume(c)
  <2>1. /\ callStage[c] = "backoff" /\ callStage'[c] = "get" /\ tries'[c] = tries[c] + 1
        /\ UNCHANGED <<Cloud!request, sends>>
    BY <1>3 DEF Cloud!Resume, Cloud!Goto, CloudTyped
  <2> QED
    BY <2>1
      DEF CloudSentOK, CloudPassed, Cloud!Refuses, Cloud!NeedsConfirm, Cloud!request, CloudTyped
<1>4. CASE Cloud!GiveUp(c) \/ Cloud!CacheHit(c) \/ Cloud!Wait(c) \/ Cloud!Lead(c)
        \/ Cloud!Woken(c)
  BY <1>1, <1>4
    DEF Cloud!GiveUp, Cloud!CacheHit, Cloud!Wait, Cloud!Lead, Cloud!Woken, Cloud!Goto, Cloud!Ends,
       CloudTyped
<1>5. CASE Cloud!LeavesWait(c) \/ Cloud!FlightFails(c) \/ Cloud!NotSent(c)
  BY <1>5, CloudFailsKeeps DEF Cloud!LeavesWait, Cloud!FlightFails, Cloud!NotSent
<1>6. CASE Cloud!Assumed(c) \/ Cloud!RoleMissing(c) \/ Cloud!Bootstrapped(c)
  BY <1>1, <1>6 DEF Cloud!Assumed, Cloud!RoleMissing, Cloud!Bootstrapped, Cloud!Goto, CloudTyped
<1>7. CASE Cloud!Send(c)
  <2>1. /\ callStage[c] = "signed" /\ callStage'[c] = "sent" /\ sends'[c] = sends[c] + 1
        /\ UNCHANGED <<Cloud!request, tries>>
    BY <1>7 DEF Cloud!Send, Cloud!Goto, CloudTyped
  <2>2. /\ ~Cloud!Refuses(req[c]) /\ (Cloud!NeedsConfirm(req[c]) => consulted[c] = "yes")
        /\ tries[c] >= 1
        /\ (req[c].class = "mutating" => sends[c] = 0)
        /\ (req[c].origin = "model" => zoneId[c] # "caller")
        /\ (req[c].zone = "strict" => zoneId[c] # Cloud!None)
    BY <2>1 DEF CloudPassed
  <2>3. req[c].class \in Cloud!Classes
    BY <2>1 DEF Cloud!AllRequests, CloudPassed
  <2> QED
    BY <2>1, <2>2, <2>3
      DEF CloudSentOK, CloudPassed, Cloud!Refuses, Cloud!NeedsConfirm, Cloud!request, CloudTyped,
         Cloud!Classes
<1>8. CASE Cloud!Answered(c)
  <2>1. CASE Cloud!Ends(c, "ok")
    BY <1>1, <1>8, <2>1 DEF Cloud!Answered, Cloud!Ends, Cloud!Goto, CloudTyped
  <2> QED
    BY <1>8, <2>1, CloudFailsKeeps DEF Cloud!Answered
<1>9. \/ /\ ~\E r \in CallRequests : Cloud!Submit(c, r)
         /\ ~Cloud!ResolveZone(c)
         /\ ~\E yes \in BOOLEAN : Cloud!Consult(c, yes)
      \/ Cloud!Cancel(c)
  BY DEF Cloud!Submit, Cloud!ResolveZone, Cloud!Consult
<1> QED
  BY <1>2, <1>3, <1>4, <1>5, <1>6, <1>7, <1>8, <1>9 DEF Cloud!Step

LEMMA CloudVettedStep ==
    Cloud!CallsConstants /\ CloudTyped /\ CloudVetted /\ [Cloud!Next]_(Cloud!vars) => CloudVetted'
<1> SUFFICES ASSUME Cloud!CallsConstants, CloudTyped, CloudVetted, [Cloud!Next]_(Cloud!vars)
    PROVE CloudVetted'
  OBVIOUS
<1>1. \A d \in Calls : CloudSentOK(d) /\ CloudPassed(d)
  BY CloudVettedIsSentOK
<1>2. SUFFICES ASSUME NEW d \in Calls PROVE CloudSentOK(d)' /\ CloudPassed(d)'
  BY DEF CloudVetted, CloudSentOK, Cloud!SentIsVetted, Cloud!WritesOnce
<1>3. CASE Cloud!Tick \/ UNCHANGED Cloud!vars
  BY <1>1, <1>3, CloudSameKeeps DEF Cloud!Tick, Cloud!vars, Cloud!request, CloudSame
<1>4. ASSUME NEW c \in Calls, Cloud!Step(c) \/ Cloud!Cancel(c)
      PROVE CloudSentOK(d)' /\ CloudPassed(d)'
  <2>1. mutating' = mutating
    <3>1. CASE (\E r \in CallRequests : Cloud!Submit(c, r)) \/ Cloud!ResolveZone(c) \/ \E yes \in BOOLEAN : Cloud!Consult(c, yes)
      BY <3>1 DEF Cloud!Submit, Cloud!ResolveZone, Cloud!Consult
    <3>2. CASE \/ Cloud!Resume(c) \/ Cloud!GiveUp(c) \/ Cloud!CacheHit(c) \/ Cloud!Wait(c)
            \/ Cloud!Lead(c) \/ Cloud!Woken(c)
               \/ Cloud!LeavesWait(c) \/ Cloud!Assumed(c) \/ Cloud!RoleMissing(c)
                 \/ Cloud!Bootstrapped(c) \/ Cloud!FlightFails(c)
               \/ Cloud!Send(c) \/ Cloud!NotSent(c) \/ Cloud!Answered(c) \/ Cloud!Cancel(c)
      BY <3>2
        DEF Cloud!Resume, Cloud!GiveUp, Cloud!CacheHit, Cloud!Wait, Cloud!Lead, Cloud!Woken,
           Cloud!LeavesWait, Cloud!Assumed, Cloud!RoleMissing,
                  Cloud!Bootstrapped, Cloud!FlightFails, Cloud!Send, Cloud!NotSent,
                  Cloud!Answered, Cloud!Cancel, Cloud!request
    <3> QED
      BY <1>4, <3>1, <3>2 DEF Cloud!Step
  <2>2. CASE d # c
    BY <1>1, <1>4, <2>1, <2>2, CloudOthersAreSame, CloudSameKeeps
  <2>3. CASE d = c /\ (callStage[c] \notin {"idle", "zone", "gate"} \/ Cloud!Cancel(c))
    BY <1>1, <1>4, <2>3, CloudAttemptKeeps
  <2>4. CASE d = c /\ callStage[c] \in {"idle", "zone", "gate"} /\ ~Cloud!Cancel(c)
    <3>1. (\E r \in CallRequests : Cloud!Submit(c, r)) \/ Cloud!ResolveZone(c) \/ \E yes \in BOOLEAN : Cloud!Consult(c, yes)
      BY <1>4, <2>4
        DEF Cloud!Step, Cloud!Resume, Cloud!GiveUp, Cloud!CacheHit, Cloud!Wait, Cloud!Lead,
           Cloud!Woken, Cloud!LeavesWait, Cloud!Assumed,
                        Cloud!RoleMissing, Cloud!Bootstrapped, Cloud!FlightFails, Cloud!Send,
                        Cloud!NotSent, Cloud!Answered
    <3> QED
      BY <1>1, <2>4, <3>1, CloudGateKeeps
  <2> QED
    BY <2>2, <2>3, <2>4
<1> QED
  BY <1>3, <1>4 DEF Cloud!Next

-----------------------------------------------------------------------------

LEMMA CloudVettedInit == Cloud!CallsConstants /\ Cloud!Init => CloudVetted /\ Cloud!OneFlight
<1> SUFFICES ASSUME Cloud!CallsConstants, Cloud!Init PROVE CloudVetted /\ Cloud!OneFlight
  OBVIOUS
<1>1. \A c \in Calls : callStage[c] = "idle" /\ sends[c] = 0 /\ tries[c] = 0 /\ flight # c
  BY DEF Cloud!Init, Cloud!CallsConstants, Cloud!None
<1>2. Cloud!OneFlight
  BY <1>1 DEF Cloud!OneFlight
<1> QED
  BY <1>1, <1>2
    DEF CloudVetted, Cloud!SentIsVetted, Cloud!WritesOnce, CloudPassed, CloudAdmitted,
       CloudStarted, Cloud!Attempting

\* Nothing reaches the cloud that the gate has not passed, however calls and failures interleave.
THEOREM CloudSentVetted ==
    ASSUME Cloud!CallsConstants
    PROVE  Cloud!Spec => []Cloud!SentIsVetted
<1>1. Cloud!Init => CloudTyped /\ CloudVetted
  BY CloudTypedInit, CloudVettedInit
<1>2. CloudTyped /\ CloudVetted /\ [Cloud!Next]_(Cloud!vars) => CloudTyped' /\ CloudVetted'
  BY CloudTypedStep, CloudVettedStep
<1>3. CloudVetted => Cloud!SentIsVetted
  BY DEF CloudVetted
<1> QED
  BY <1>1, <1>2, <1>3, PTL DEF Cloud!Spec

\* A write is sent at most once, whatever becomes of its answer.
THEOREM CloudWriteSentOnce ==
    ASSUME Cloud!CallsConstants
    PROVE  Cloud!Spec => []Cloud!WritesOnce
<1>1. Cloud!Init => CloudTyped /\ CloudVetted
  BY CloudTypedInit, CloudVettedInit
<1>2. CloudTyped /\ CloudVetted /\ [Cloud!Next]_(Cloud!vars) => CloudTyped' /\ CloudVetted'
  BY CloudTypedStep, CloudVettedStep
<1>3. CloudVetted => Cloud!WritesOnce
  BY DEF CloudVetted
<1> QED
  BY <1>1, <1>2, <1>3, PTL DEF Cloud!Spec

\* What reaches the platform is what was agreed to, and a write reaches it once.
THEOREM CloudCallsAgreed ==
    ASSUME Cloud!CallsConstants
    PROVE  Cloud!Spec => []Cloud!SentAsAgreed
<1>1. Cloud!Init => CloudTyped /\ CloudVetted
  BY CloudTypedInit, CloudVettedInit
<1>2. CloudTyped /\ CloudVetted /\ [Cloud!Next]_(Cloud!vars) => CloudTyped' /\ CloudVetted'
  BY CloudTypedStep, CloudVettedStep
<1>3. CloudVetted => Cloud!SentAsAgreed
  BY DEF CloudVetted, Cloud!SentAsAgreed
<1> QED
  BY <1>1, <1>2, <1>3, PTL DEF Cloud!Spec

\* The entry of the flight is there exactly while its owner asks, for any number of callers.
THEOREM CloudFlightIsOne ==
    ASSUME Cloud!CallsConstants
    PROVE  Cloud!Spec => []Cloud!OneFlight
<1>1. Cloud!Init => CloudTyped /\ Cloud!OneFlight
  BY CloudTypedInit, CloudVettedInit
<1>2. CloudTyped /\ Cloud!OneFlight /\ [Cloud!Next]_(Cloud!vars)
        => CloudTyped' /\ Cloud!OneFlight'
  BY CloudTypedStep, CloudOneFlightStep
<1> QED
  BY <1>1, <1>2, PTL DEF Cloud!Spec

-----------------------------------------------------------------------------
(* The remaining types: the clock, the credentials and the ends.             *)

CloudRest ==
  /\ mutating \in BOOLEAN
  /\ since \in [Calls -> 0..CallHorizon] /\ held \in [Calls -> Nat]
  /\ callOutcome \in [Calls -> Cloud!Outcomes] /\ givenUp \in [Calls -> BOOLEAN]
  /\ req \in [Calls -> CallRequests \cup {Cloud!NoRequest}]
  /\ cache \in Nat /\ woken \subseteq Calls /\ callClock \in 0..CallHorizon

LEMMA CloudRestInit == Cloud!CallsConstants /\ Cloud!Init => CloudRest
<1> SUFFICES ASSUME Cloud!CallsConstants, Cloud!Init PROVE CloudRest
  OBVIOUS
<1>1. mutating \in BOOLEAN
  BY Zenon DEF Cloud!Init
<1>2. 0 \in 0..CallHorizon /\ callClock = 0
  BY DEF Cloud!Init, Cloud!CallsConstants
<1>3. /\ since \in [Calls -> 0..CallHorizon] /\ held \in [Calls -> Nat]
      /\ callOutcome \in [Calls -> Cloud!Outcomes] /\ givenUp \in [Calls -> BOOLEAN]
      /\ req \in [Calls -> CallRequests \cup {Cloud!NoRequest}] /\ cache \in Nat
      /\ woken \subseteq Calls
  BY <1>2 DEF Cloud!Init, Cloud!Outcomes
<1> QED
  BY <1>1, <1>2, <1>3 DEF CloudRest

LEMMA CloudRestStep ==
    Cloud!CallsConstants /\ CloudRest /\ [Cloud!Next]_(Cloud!vars) => CloudRest'
<1> SUFFICES ASSUME Cloud!CallsConstants, CloudRest, [Cloud!Next]_(Cloud!vars) PROVE CloudRest'
  OBVIOUS
<1> USE DEF CloudRest
<1>1. ASSUME NEW c \in Calls, NEW o \in Cloud!Outcomes, NEW r, Cloud!Fails(c, o, r)
      PROVE callOutcome' \in [Calls -> Cloud!Outcomes]
  BY <1>1 DEF Cloud!Fails, Cloud!Goto, Cloud!Ends
<1>2. CASE Cloud!Tick \/ UNCHANGED Cloud!vars
  BY <1>2 DEF Cloud!Tick, Cloud!vars, Cloud!request, Cloud!sts, Cloud!CallsConstants
<1>3. ASSUME NEW c \in Calls, Cloud!Step(c) \/ Cloud!Cancel(c) PROVE CloudRest'
  <2>1. ASSUME NEW r \in CallRequests, Cloud!Submit(c, r) PROVE CloudRest'
    BY <2>1 DEF Cloud!Submit, Cloud!Goto, Cloud!Ends, Cloud!Outcomes, Cloud!sts
  <2>2. CASE Cloud!ResolveZone(c)
    BY <2>2 DEF Cloud!ResolveZone, Cloud!Goto, Cloud!Ends, Cloud!Outcomes, Cloud!sts
  <2>3. ASSUME NEW yes \in BOOLEAN, Cloud!Consult(c, yes) PROVE CloudRest'
    BY <2>3 DEF Cloud!Consult, Cloud!Goto, Cloud!Ends, Cloud!Outcomes, Cloud!sts
  <2>4. CASE Cloud!Resume(c) \/ Cloud!GiveUp(c)
    BY <2>4
      DEF Cloud!Resume, Cloud!GiveUp, Cloud!Goto, Cloud!Ends, Cloud!Outcomes, Cloud!request,
         Cloud!sts
  <2>5. CASE Cloud!CacheHit(c) \/ Cloud!Wait(c) \/ Cloud!Lead(c) \/ Cloud!Woken(c)
    BY <2>5
      DEF Cloud!CacheHit, Cloud!Wait, Cloud!Lead, Cloud!Woken, Cloud!Goto, Cloud!request,
         Cloud!sts
  <2>6. CASE Cloud!LeavesWait(c) \/ Cloud!NotSent(c)
    BY <1>1, <2>6 DEF Cloud!LeavesWait, Cloud!NotSent, Cloud!Outcomes, Cloud!request, Cloud!sts
  <2>7. CASE Cloud!Assumed(c)
    <3>1. PICK life \in Lifetimes : held' = [held EXCEPT ![c] = callClock + life] /\ Cloud!Lands(callClock + life)
      BY <2>7 DEF Cloud!Assumed
    <3>2. life \in Nat /\ callClock \in Nat /\ callClock + life \in Nat
      BY DEF Cloud!CallsConstants
    <3> QED
      BY <2>7, <3>1, <3>2 DEF Cloud!Assumed, Cloud!Lands, Cloud!request
  <2>8. CASE Cloud!RoleMissing(c) \/ Cloud!Bootstrapped(c)
    BY <2>8 DEF Cloud!RoleMissing, Cloud!Bootstrapped, Cloud!request, Cloud!sts
  <2>9. CASE Cloud!FlightFails(c)
    BY <1>1, <2>9 DEF Cloud!FlightFails, Cloud!Lands, Cloud!Outcomes, Cloud!request
  <2>10. CASE Cloud!Send(c) \/ Cloud!Cancel(c)
    BY <2>10 DEF Cloud!Send, Cloud!Cancel, Cloud!request, Cloud!sts
  <2>11. CASE Cloud!Answered(c)
    BY <1>1, <2>11
      DEF Cloud!Answered, Cloud!Ends, Cloud!Goto, Cloud!Outcomes, Cloud!request, Cloud!sts
  <2> QED
    BY <1>3, <2>1, <2>2, <2>3, <2>4, <2>5, <2>6, <2>7, <2>8, <2>9, <2>10, <2>11 DEF Cloud!Step
<1> QED
  BY <1>2, <1>3 DEF Cloud!Next

\* The variables keep their types.
THEOREM CloudTypeCorrect ==
    ASSUME Cloud!CallsConstants
    PROVE  Cloud!Spec => []Cloud!TypeOK
<1>1. Cloud!Init => CloudTyped /\ CloudRest
  BY CloudTypedInit, CloudRestInit
<1>2. CloudTyped /\ CloudRest /\ [Cloud!Next]_(Cloud!vars) => CloudTyped' /\ CloudRest'
  BY CloudTypedStep, CloudRestStep
<1>3. CloudTyped /\ CloudRest => Cloud!TypeOK
  BY DEF CloudTyped, CloudRest, Cloud!TypeOK
<1> QED
  BY <1>1, <1>2, <1>3, PTL DEF Cloud!Spec

-----------------------------------------------------------------------------
(* The composition: a step of MCActions is a step of the chosen part, and    *)
(* leaves the variables of every other part alone.                           *)

LEMMA CloudAlone ==
    /\ ActionsInit => Cloud!Init
    /\ [ActionsNext]_allVars => [Cloud!Next]_(Cloud!vars)
<1>1. ActionsInit => Cloud!Init
  BY DEF ActionsInit
<1>2. ActionsNext \/ UNCHANGED allVars => Cloud!Next \/ UNCHANGED cloudVars
  BY DEF ActionsNext, Step, allVars, partVars
<1>3. UNCHANGED cloudVars => UNCHANGED Cloud!vars
  BY DEF cloudVars, Cloud!vars, Cloud!request, Cloud!sts
<1> QED
  BY <1>1, <1>2, <1>3

\* What is sent upstream was let through by the policy gate as it is sent, a write at most once
\* (safe_executor.go).
THEOREM CallsAreSentAsAgreed == ActionsSpec => []SentAsAgreed
<1>1. ActionsSpec => Cloud!Spec
  BY CloudAlone, PTL DEF ActionsSpec, Cloud!Spec
<1>2. Cloud!Spec => []Cloud!SentAsAgreed
  BY ActionsAssumption, CloudCallsAgreed DEF ActionsAssumption
<1> QED
  BY <1>1, <1>2, PTL DEF SentAsAgreed

\* However many calls find the credential stale, one of them at a time asks STS (sts_provider.go).
THEOREM RefreshesAreOneFlight == ActionsSpec => []OneFlight
<1>1. ActionsSpec => Cloud!Spec
  BY CloudAlone, PTL DEF ActionsSpec, Cloud!Spec
<1>2. Cloud!Spec => []Cloud!OneFlight
  BY ActionsAssumption, CloudFlightIsOne DEF ActionsAssumption
<1> QED
  BY <1>1, <1>2, PTL DEF OneFlight

-----------------------------------------------------------------------------
(* The resolution of targets.  The invariant says what the registry's and   *)
(* the turn's knowledge of an instance is worth: when each was seen, and    *)
(* that a listing which missed a change counts as truncated, unless the     *)
(* account both lost and gained an instance meanwhile.                      *)

TargetStages == {"idle", "warm", "list", "query", "verify", "disk", "resolve", "card"}
TargetUnique(list) == \A j, k \in DOMAIN list : list[j] = list[k] => j = k

\* The account, and when the platform last had each instance, and last had it not.
TargetAccount ==
  /\ account \in Seq(Instances) /\ TargetUnique(account)
  /\ time \in Nat
  /\ presentAt \in [Instances -> Int] /\ absentAt \in [Instances -> Int]
  /\ \A i \in Instances : /\ presentAt[i] <= time /\ absentAt[i] <= time
                          /\ i \in Target!Holds => presentAt[i] = time
                          /\ i \notin Target!Holds => absentAt[i] = time

\* What this session created has existed.
TargetMade == made \subseteq Instances /\ \A i \in made : presentAt[i] >= 0

TargetReading(read) ==
  /\ Len(read.refs) \in Nat /\ DOMAIN read.refs = 1..Len(read.refs)
  /\ \A k \in DOMAIN read.refs : read.refs[k].type = "id" => read.refs[k].value \in Instances
  /\ read.ids \subseteq Instances
  /\ read.now \in Nat /\ read.now <= time

\* The registry, the read, the listing and the write in progress.
TargetRegistries == [known : SUBSET Instances, at : Int, failed : BOOLEAN, truncated : BOOLEAN,
                     invalid : BOOLEAN, wrong : SUBSET Instances]
TargetListings == [seen : SUBSET Instances, page : Nat, total : Nat,
                   moved : SUBSET {"gained", "lost"}]
TargetTyped ==
  /\ turnAt \in Nat /\ turnAt <= time
  /\ registry \in TargetRegistries /\ registry.at <= time
  /\ evidence \subseteq Instances
  /\ readStage \in TargetStages
  /\ listing \in TargetListings
  /\ TargetReading(reading)
  /\ proposal.host \in Instances \cup {Target!NoInstance}
  /\ judgedAt \in Nat /\ judgedAt <= time

\* A registry that is neither failed nor truncated was the account when it was synced, but for
\* what a torn listing got wrong.
TargetRegistry ==
  registry.at # Target!Never /\ ~registry.failed /\ ~registry.truncated =>
    \A i \in Instances \ registry.wrong :
      /\ i \in registry.known => presentAt[i] >= registry.at
      /\ i \notin registry.known =>
           /\ absentAt[i] >= registry.at
           /\ registry.invalid \/ i \notin made \cap Target!Holds

\* What a listing in progress has seen, and what it may see yet.  As long as the account was
\* not changed these are the first pages, and the others; an account that only grew holds what
\* was seen; one that only shrank no longer holds enough for the listing to be complete.
TargetRead == listing.page * PageSize
TargetUnread == {account[k] : k \in {j \in DOMAIN account : TargetRead < j}}
TargetListing ==
  /\ readStage \notin {"warm", "list"} => listing = Target!NoList
  /\ listing.page = 0 => listing.seen = {} /\ listing.total = 0 /\ listing.moved = {}
  /\ IsFiniteSet(listing.seen) /\ \A i \in listing.seen : presentAt[i] >= turnAt
  /\ listing.page > 0 /\ listing.moved = {} =>
       /\ listing.seen = {account[k] : k \in {j \in DOMAIN account : j <= TargetRead}}
       /\ listing.total = Len(account) /\ TargetRead < Len(account)
  /\ "lost" \notin listing.moved => listing.seen \subseteq Target!Holds
  /\ listing.moved = {"lost"} =>
       /\ listing.total >= Len(account)
       /\ Cardinality(listing.seen \cup TargetUnread) < listing.total

\* A read waits for the listing because the registry may not deny what it could not resolve.
TargetWarm ==
  readStage = "warm" =>
    /\ Target!Failing(reading.refs, registry, reading.now) # {}
    /\ ~Target!CanAssertAbsence(registry, reading.now)

\* What is known of the target of a write, since it was judged: by a registry that a torn
\* listing may have misled.
TargetMisled == proposal.host \in registry.wrong /\ Target!CanAssertAbsence(registry, judgedAt)
TargetJudged ==
  /\ readStage \notin {"verify", "disk", "resolve", "card"} => verdict = "none"
  /\ readStage = "verify" => proposal.host \in Instances
  /\ readStage \in {"disk", "resolve"} => verdict \notin {"none", "unknown"}
  /\ verdict \in {"none", "unknown", "verified", "notFound", "unavailable", "diskNotFound"}
  /\ verdict = "notFound" =>
       /\ proposal.host \in Instances
       /\ \/ TargetMisled
          \/ /\ absentAt[proposal.host] >= judgedAt - Ttl
             /\ proposal.host \notin made \cap Target!Holds
  /\ verdict = "verified" /\ proposal.host # Target!NoInstance =>
       \/ TargetMisled
       \/ presentAt[proposal.host] >= judgedAt - Ttl
       \/ presentAt[proposal.host] >= turnAt

TargetEvidenced == \A i \in evidence : presentAt[i] >= turnAt

TargetInv ==
  /\ TargetAccount /\ TargetMade /\ TargetTyped /\ TargetRegistry /\ TargetListing
  /\ TargetWarm /\ TargetJudged /\ TargetEvidenced

-----------------------------------------------------------------------------
(* Lists of instances without repetition.                                   *)

\* The library's Cardinality is the one of the instance.
LEMMA TargetCardinality == \A S : Target!Cardinality(S) = Cardinality(S)
  BY DEF Target!Cardinality, Cardinality

TargetThere(list) == {list[k] : k \in DOMAIN list}

\* A list without repetition has as many members as places.
LEMMA TargetCount ==
    ASSUME NEW list \in Seq(Instances), TargetUnique(list)
    PROVE  IsFiniteSet(TargetThere(list)) /\ Cardinality(TargetThere(list)) = Len(list)
<1> DEFINE T == TargetThere(list)
<1>1. Len(list) \in Nat /\ DOMAIN list = 1..Len(list) /\ list \in [1..Len(list) -> T]
  BY DEF TargetThere
<1>2. IsInjective(list)
  BY DEF IsInjective, TargetUnique
<1>3. \A t \in T : \E k \in 1..Len(list) : list[k] = t
  BY <1>1 DEF TargetThere
<1>4. list \in Surjection(1..Len(list), T) /\ list \in Injection(1..Len(list), T)
  BY <1>1, <1>2, <1>3 DEF Surjection, Injection
<1>5. IsFiniteSet(1..Len(list)) /\ Cardinality(1..Len(list)) = Len(list)
  BY <1>1, FS_Interval
<1>6. IsFiniteSet(T) /\ Cardinality(T) = Cardinality(1..Len(list))
  BY <1>4, <1>5, FS_Surjection
<1> QED
  BY <1>5, <1>6

\* What the platform does to the list.
LEMMA TargetAppended ==
    ASSUME NEW list \in Seq(Instances), TargetUnique(list), NEW i \in Instances,
           i \notin TargetThere(list)
    PROVE  /\ Append(list, i) \in Seq(Instances) /\ TargetUnique(Append(list, i))
           /\ TargetThere(Append(list, i)) = TargetThere(list) \cup {i}
           /\ Len(Append(list, i)) = Len(list) + 1
           /\ \A k \in DOMAIN list : k \in DOMAIN Append(list, i) /\ Append(list, i)[k] = list[k]
<1>1. /\ Append(list, i) \in Seq(Instances) /\ Len(Append(list, i)) = Len(list) + 1
      /\ DOMAIN list = 1..Len(list) /\ Len(list) \in Nat
      /\ DOMAIN Append(list, i) = 1..Len(list) + 1
      /\ \A k \in 1..Len(list) : Append(list, i)[k] = list[k]
      /\ Append(list, i)[Len(list) + 1] = i
  OBVIOUS
<1>2. \A k \in 1..Len(list) + 1 : k \in 1..Len(list) \/ k = Len(list) + 1
  BY <1>1
<1>3. \A k \in DOMAIN list : list[k] # i
  BY DEF TargetThere
<1>4. TargetUnique(Append(list, i))
  BY <1>1, <1>2, <1>3 DEF TargetUnique
<1>5. TargetThere(Append(list, i)) = TargetThere(list) \cup {i}
  BY <1>1, <1>2 DEF TargetThere
<1> QED
  BY <1>1, <1>4, <1>5

LEMMA TargetPrepended ==
    ASSUME NEW list \in Seq(Instances), TargetUnique(list), NEW i \in Instances,
           i \notin TargetThere(list)
    PROVE  /\ <<i>> \o list \in Seq(Instances) /\ TargetUnique(<<i>> \o list)
           /\ TargetThere(<<i>> \o list) = TargetThere(list) \cup {i}
           /\ Len(<<i>> \o list) = Len(list) + 1
           /\ \A k \in DOMAIN list : k + 1 \in DOMAIN (<<i>> \o list) /\ (<<i>> \o list)[k + 1] = list[k]
<1> DEFINE new == <<i>> \o list
<1>1. /\ new \in Seq(Instances) /\ Len(new) = Len(list) + 1
      /\ DOMAIN list = 1..Len(list) /\ Len(list) \in Nat
      /\ DOMAIN new = 1..Len(list) + 1
      /\ \A k \in 2..Len(list) + 1 : new[k] = list[k - 1]
      /\ new[1] = i
  OBVIOUS
<1> HIDE DEF new
<1>2. \A k \in 1..Len(list) + 1 : k = 1 \/ (k \in 2..Len(list) + 1 /\ k - 1 \in 1..Len(list))
  BY <1>1
<1>3. \A k \in DOMAIN list : list[k] # i
  BY DEF TargetThere
<1>4. TargetUnique(new)
  <2> SUFFICES ASSUME NEW j \in DOMAIN new, NEW k \in DOMAIN new, new[j] = new[k]
               PROVE  j = k
    BY DEF TargetUnique
  <2>1. CASE j = 1 \/ k = 1
    BY <2>1, <1>1, <1>2, <1>3
  <2>2. CASE j # 1 /\ k # 1
    <3>1. j - 1 \in DOMAIN list /\ k - 1 \in DOMAIN list /\ list[j - 1] = list[k - 1]
      BY <2>2, <1>1, <1>2
    <3>2. j - 1 = k - 1
      BY <3>1 DEF TargetUnique
    <3> QED
      BY <3>2, <1>1
  <2> QED
    BY <2>1, <2>2
<1>5. \A k \in DOMAIN list : k + 1 \in DOMAIN new /\ new[k + 1] = list[k]
  BY <1>1
<1>6. TargetThere(new) = TargetThere(list) \cup {i}
  <2>1. ASSUME NEW k \in DOMAIN new
        PROVE  new[k] \in TargetThere(list) \cup {i}
    <3>1. CASE k = 1
      BY <3>1, <1>1
    <3>2. CASE k # 1
      <4>1. k - 1 \in DOMAIN list /\ new[k] = list[k - 1]
        BY <3>2, <1>1, <1>2
      <4> QED
        BY <4>1 DEF TargetThere
    <3> QED
      BY <3>1, <3>2
  <2>2. \A x \in TargetThere(list) \cup {i} : x \in TargetThere(new)
    BY <1>1, <1>5 DEF TargetThere
  <2> QED
    BY <2>1, <2>2 DEF TargetThere
<1> QED
  BY <1>1, <1>4, <1>5, <1>6 DEF new

LEMMA TargetRemoved ==
    ASSUME NEW list \in Seq(Instances), TargetUnique(list), NEW d \in DOMAIN list
    PROVE  /\ Target!Without(list, d) \in Seq(Instances) /\ TargetUnique(Target!Without(list, d))
           /\ TargetThere(Target!Without(list, d)) = TargetThere(list) \ {list[d]}
           /\ Len(Target!Without(list, d)) = Len(list) - 1
           /\ \A k \in 1..Len(list) - 1 :
                Target!Without(list, d)[k] = IF k < d THEN list[k] ELSE list[k + 1]
<1> DEFINE new == Target!Without(list, d)
<1>1. Len(list) \in Nat /\ DOMAIN list = 1..Len(list) /\ d \in 1..Len(list)
  OBVIOUS
<1>2. /\ SubSeq(list, 1, d - 1) \in Seq(Instances) /\ Len(SubSeq(list, 1, d - 1)) = d - 1
      /\ \A k \in 1..d - 1 : SubSeq(list, 1, d - 1)[k] = list[k]
  BY <1>1
<1>3. /\ SubSeq(list, d + 1, Len(list)) \in Seq(Instances)
      /\ Len(SubSeq(list, d + 1, Len(list))) = Len(list) - d
      /\ \A k \in 1..Len(list) - d : SubSeq(list, d + 1, Len(list))[k] = list[d + k]
  BY <1>1
<1>4. /\ new \in Seq(Instances) /\ Len(new) = Len(list) - 1 /\ DOMAIN new = 1..Len(list) - 1
  <2>1. new \in Seq(Instances)
    BY <1>2, <1>3 DEF Target!Without
  <2>2. Len(new) = (d - 1) + (Len(list) - d)
    BY <1>2, <1>3 DEF Target!Without
  <2>3. Len(new) = Len(list) - 1
    BY <2>2, <1>1
  <2> HIDE DEF new
  <2> QED
    BY <2>1, <2>3
<1>5. \A k \in 1..Len(list) - 1 : new[k] = IF k < d THEN list[k] ELSE list[k + 1]
  <2> TAKE k \in 1..Len(list) - 1
  <2>1. CASE k < d
    <3>1. k \in 1..d - 1
      BY <2>1, <1>1
    <3>2. new[k] = SubSeq(list, 1, d - 1)[k]
      BY <3>1, <1>1, <1>2, <1>3 DEF Target!Without
    <3> QED
      BY <2>1, <3>1, <3>2, <1>2
  <2>2. CASE ~(k < d)
    <3>1. k - (d - 1) \in 1..Len(list) - d /\ d + (k - (d - 1)) = k + 1
      BY <2>2, <1>1
    <3>2. new[k] = SubSeq(list, d + 1, Len(list))[k - (d - 1)]
      BY <2>2, <1>1, <1>2, <1>3 DEF Target!Without
    <3> QED
      BY <2>2, <3>1, <3>2, <1>3
  <2> QED
    BY <2>1, <2>2
<1> HIDE DEF new
<1>6. TargetUnique(new)
  <2> SUFFICES ASSUME NEW j \in DOMAIN new, NEW k \in DOMAIN new, new[j] = new[k]
               PROVE  j = k
    BY DEF TargetUnique
  <2> DEFINE Old(x) == IF x < d THEN x ELSE x + 1
  <2>1. Old(j) \in DOMAIN list /\ Old(k) \in DOMAIN list /\ list[Old(j)] = list[Old(k)]
    BY <1>1, <1>4, <1>5
  <2>2. Old(j) = Old(k)
    <3> HIDE DEF Old
    <3> QED
      BY <2>1 DEF TargetUnique
  <2> QED
    BY <2>2, <1>1, <1>4
<1>7. TargetThere(new) = TargetThere(list) \ {list[d]}
  <2>1. ASSUME NEW k \in DOMAIN new
        PROVE  new[k] \in TargetThere(list) \ {list[d]}
    <3> DEFINE j == IF k < d THEN k ELSE k + 1
    <3>1. j \in DOMAIN list /\ j # d /\ new[k] = list[j]
      BY <1>1, <1>4, <1>5
    <3> HIDE DEF j
    <3> QED
      BY <3>1, <1>1 DEF TargetThere, TargetUnique
  <2>2. ASSUME NEW j \in DOMAIN list, list[j] # list[d]
        PROVE  list[j] \in TargetThere(new)
    <3>1. j < d \/ j > d
      BY <2>2, <1>1
    <3>2. CASE j < d
      BY <3>2, <1>1, <1>4, <1>5 DEF TargetThere
    <3>3. CASE j > d
      <4>1. j - 1 \in DOMAIN new /\ new[j - 1] = list[j]
        BY <3>3, <1>1, <1>4, <1>5
      <4> QED
        BY <4>1 DEF TargetThere
    <3> QED
      BY <3>1, <3>2, <3>3
  <2> QED
    BY <2>1, <2>2 DEF TargetThere
<1> QED
  BY <1>4, <1>5, <1>6, <1>7 DEF new

-----------------------------------------------------------------------------
(* The account moves on: nothing is forgotten of when an instance was seen, *)
(* and none that existed comes back.                                        *)

TargetMoves ==
  \A i \in Instances :
    /\ presentAt'[i] >= presentAt[i] /\ absentAt'[i] >= absentAt[i]
    /\ i \in (Target!Holds)' /\ presentAt[i] # Target!Never => i \in Target!Holds

LEMMA TargetHolds == Target!Holds = TargetThere(account) /\ (Target!Holds)' = TargetThere(account')
  BY DEF Target!Holds, TargetThere

LEMMA TargetBecomes ==
    ASSUME TargetAccount, NEW new \in Seq(Instances), TargetUnique(new),
           Target!Becomes(new), time' = time,
           \A i \in TargetThere(new) : i \in Target!Holds \/ Target!Unused(i)
    PROVE  TargetAccount' /\ TargetMoves
<1>1. /\ account' = new
      /\ presentAt' = [i \in Instances |-> IF i \in TargetThere(new) THEN time ELSE presentAt[i]]
      /\ absentAt' = [i \in Instances |-> IF i \in TargetThere(new) THEN absentAt[i] ELSE time]
  BY DEF Target!Becomes, TargetThere
<1>2. (Target!Holds)' = TargetThere(new)
  BY <1>1, TargetHolds
<1>3. ASSUME NEW i \in Instances
      PROVE  /\ presentAt'[i] \in Int /\ absentAt'[i] \in Int
             /\ presentAt'[i] <= time /\ absentAt'[i] <= time
             /\ presentAt'[i] >= presentAt[i] /\ absentAt'[i] >= absentAt[i]
             /\ i \in TargetThere(new) => presentAt'[i] = time
             /\ i \notin TargetThere(new) => absentAt'[i] = time
  BY <1>1 DEF TargetAccount
<1>4. TargetAccount'
  <2>1. presentAt' \in [Instances -> Int] /\ absentAt' \in [Instances -> Int]
    BY <1>1, <1>3
  <2>2. TargetUnique(account')
    BY <1>1
  <2> QED
    BY <1>1, <1>2, <1>3, <2>1, <2>2 DEF TargetAccount, TargetUnique
<1>5. TargetMoves
  BY <1>2, <1>3 DEF TargetMoves, Target!Unused
<1> QED
  BY <1>4, <1>5

LEMMA TargetCreates ==
    ASSUME TargetAccount, NEW i \in Instances, Target!Unused(i), time' = time,
           Target!Becomes(Append(account, i)) \/ Target!Becomes(<<i>> \o account)
    PROVE  TargetAccount' /\ TargetMoves /\ (Target!Holds)' = Target!Holds \cup {i}
<1>1. account \in Seq(Instances) /\ TargetUnique(account) /\ i \notin TargetThere(account)
  BY TargetHolds DEF TargetAccount, Target!Unused, Target!Never
<1>2. CASE Target!Becomes(Append(account, i))
  <2> DEFINE new == Append(account, i)
  <2>1. new \in Seq(Instances) /\ TargetUnique(new) /\ TargetThere(new) = TargetThere(account) \cup {i}
    BY <1>1, TargetAppended
  <2>2. account' = new
    BY <1>2 DEF Target!Becomes
  <2> HIDE DEF new
  <2>3. Target!Becomes(new)
    BY <1>2 DEF new
  <2>4. TargetAccount' /\ TargetMoves
    BY <2>1, <2>3, TargetHolds, TargetBecomes
  <2> QED
    BY <2>1, <2>2, <2>4, TargetHolds
<1>3. CASE Target!Becomes(<<i>> \o account)
  <2> DEFINE new == <<i>> \o account
  <2>1. new \in Seq(Instances) /\ TargetUnique(new) /\ TargetThere(new) = TargetThere(account) \cup {i}
    BY <1>1, TargetPrepended
  <2>2. account' = new
    BY <1>3 DEF Target!Becomes
  <2> HIDE DEF new
  <2>3. Target!Becomes(new)
    BY <1>3 DEF new
  <2>4. TargetAccount' /\ TargetMoves
    BY <2>1, <2>3, TargetHolds, TargetBecomes
  <2> QED
    BY <2>1, <2>2, <2>4, TargetHolds
<1> QED
  BY <1>2, <1>3

LEMMA TargetDeletes ==
    ASSUME TargetAccount, NEW d \in DOMAIN account, time' = time,
           Target!Becomes(Target!Without(account, d))
    PROVE  TargetAccount' /\ TargetMoves /\ (Target!Holds)' = Target!Holds \ {account[d]}
<1> DEFINE new == Target!Without(account, d)
<1>1. account \in Seq(Instances) /\ TargetUnique(account)
  BY DEF TargetAccount
<1>2. new \in Seq(Instances) /\ TargetUnique(new) /\ TargetThere(new) = TargetThere(account) \ {account[d]}
  BY <1>1, TargetRemoved
<1>3. account' = new
  BY DEF Target!Becomes
<1> HIDE DEF new
<1>4. Target!Becomes(new)
  BY DEF new
<1>5. TargetAccount' /\ TargetMoves
  BY <1>2, <1>4, TargetHolds, TargetBecomes
<1> QED
  BY <1>2, <1>3, <1>5, TargetHolds

LEMMA TargetStays ==
    ASSUME TargetAccount, UNCHANGED <<account, time, presentAt, absentAt>>
    PROVE  TargetAccount' /\ TargetMoves /\ (Target!Holds)' = Target!Holds
<1>1. (Target!Holds)' = Target!Holds
  BY TargetHolds
<1>2. TargetMoves
  BY <1>1 DEF TargetMoves, TargetAccount
<1>3. TargetAccount'
  BY <1>1 DEF TargetAccount, TargetUnique
<1> QED
  BY <1>1, <1>2, <1>3

LEMMA TargetTicks ==
    ASSUME TargetAccount, Target!Tick
    PROVE  TargetAccount' /\ TargetMoves /\ (Target!Holds)' = Target!Holds /\ time' = time + 1
<1>1. /\ time' = time + 1 /\ account' = account
      /\ presentAt' = [i \in Instances |-> IF i \in Target!Holds THEN time + 1 ELSE presentAt[i]]
      /\ absentAt'  = [i \in Instances |-> IF i \in Target!Holds THEN absentAt[i] ELSE time + 1]
  BY DEF Target!Tick
<1>2. (Target!Holds)' = Target!Holds
  BY <1>1, TargetHolds
<1>3. ASSUME NEW i \in Instances
      PROVE  /\ presentAt'[i] \in Int /\ absentAt'[i] \in Int
             /\ presentAt'[i] <= time + 1 /\ absentAt'[i] <= time + 1
             /\ presentAt'[i] >= presentAt[i] /\ absentAt'[i] >= absentAt[i]
             /\ i \in Target!Holds => presentAt'[i] = time + 1
             /\ i \notin Target!Holds => absentAt'[i] = time + 1
  BY <1>1 DEF TargetAccount
<1>4. TargetMoves
  BY <1>2, <1>3 DEF TargetMoves
<1>5. presentAt' \in [Instances -> Int] /\ absentAt' \in [Instances -> Int]
  BY <1>1, <1>3
<1>6. TargetAccount'
  BY <1>1, <1>2, <1>3, <1>5 DEF TargetAccount, TargetUnique
<1> QED
  BY <1>1, <1>2, <1>4, <1>6

-----------------------------------------------------------------------------
(* What a reference resolves to, and what its refusal denies.               *)

LEMMA TargetLeast ==
    ASSUME NEW S \in SUBSET Nat, S # {}
    PROVE  \E m \in S : \A k \in S : m <= k
<1> DEFINE R == {ss \in Nat \X Nat : ss[1] < ss[2]}
<1>1. IsWellFoundedOn(R, Nat)
  BY NatLessThanWellFounded DEF OpToRel
<1>2. PICK m \in S : \A k \in S : ~(<<k, m>> \in R)
  <2> HIDE DEF R
  <2> QED
    BY <1>1, WFMin
<1>3. \A k \in S : ~(k < m)
  BY <1>2
<1> QED
  BY <1>3

LEMMA TargetIds ==
    ASSUME NEW read, TargetReading(read), NEW r \in TargetRegistries
    PROVE  Target!Ids(read.refs, r) \subseteq Instances
<1>1. r.known \subseteq Instances
  BY DEF TargetRegistries
<1>2. \A n : Target!Matches(n, r) \subseteq r.known
  BY DEF Target!Matches
<1> QED
  BY <1>1, <1>2 DEF Target!Ids, TargetReading

\* A refusal only denies an id, one that a complete and fresh registry does not have.
LEMMA TargetDenied ==
    ASSUME NEW read, TargetReading(read), NEW r \in TargetRegistries, NEW when,
           Target!Failing(read.refs, r, when) # {}, NEW i \in Target!Denied(read.refs, r, when)
    PROVE  i \in Instances /\ i \notin r.known /\ Target!CanAssertAbsence(r, when)
<1> DEFINE F == Target!Failing(read.refs, r, when)
           k == CHOOSE j \in F : \A l \in F : j <= l
<1>1. F \in SUBSET Nat /\ F \subseteq DOMAIN read.refs
  BY DEF Target!Failing, TargetReading
<1>2. k \in F
  <2>1. \E j \in F : \A l \in F : j <= l
    <3> HIDE DEF F
    <3>1. F # {}
      BY DEF F
    <3> QED
      BY <1>1, <3>1, TargetLeast
  <2> HIDE DEF F
  <2> QED
    BY <2>1
<1>3. i \in IF read.refs[k].type = "id" THEN {read.refs[k].value} ELSE {}
  BY DEF Target!Denied
<1>4. Target!Problem(read.refs[k], r, when) # "none" /\ k \in DOMAIN read.refs
  BY <1>1, <1>2 DEF Target!Failing
<1> HIDE DEF k
<1>5. read.refs[k].type = "id" /\ i = read.refs[k].value
  BY <1>3
<1> QED
  BY <1>4, <1>5 DEF Target!Problem, TargetReading

-----------------------------------------------------------------------------
(* What a listing has seen.                                                 *)

\* A set of rows that is not too small for the account is the account.
LEMMA TargetComplete ==
    ASSUME TargetAccount, NEW S \in SUBSET Target!Holds, NEW total \in Nat, total >= Len(account),
           ~(total > Cardinality(S))
    PROVE  S = Target!Holds
<1>1. /\ IsFiniteSet(Target!Holds) /\ Cardinality(Target!Holds) = Len(account) /\ Len(account) \in Nat
  BY TargetHolds, TargetCount DEF TargetAccount
<1>2. IsFiniteSet(S) /\ Cardinality(S) <= Len(account)
      /\ (Cardinality(S) = Len(account) => S = Target!Holds)
  BY <1>1, FS_Subset
<1>3. Cardinality(S) \in Nat
  BY <1>2, FS_CardinalityType
<1> QED
  BY <1>1, <1>2, <1>3

\* The rows of the next page.
TargetNext == (listing.page + 1) * PageSize
TargetRows == {account[k] : k \in {j \in DOMAIN account : TargetRead < j /\ j <= TargetNext}}
TargetPageRows ==
  SubSeq(account, listing.page * PageSize + 1,
         IF (listing.page + 1) * PageSize > Len(account) THEN Len(account)
         ELSE (listing.page + 1) * PageSize)

LEMMA TargetProduct ==
    ASSUME NEW a \in Nat, NEW b \in Nat, b > 0
    PROVE  a * b \in Nat /\ (a + 1) * b = a * b + b /\ (a = 0 <=> a * b = 0)
  OBVIOUS

LEMMA TargetPaging ==
    ASSUME Target!TargetConstants, TargetTyped
    PROVE  TargetRead \in Nat /\ TargetNext \in Nat /\ TargetNext = TargetRead + PageSize
           /\ PageSize \in Nat /\ PageSize > 0 /\ (listing.page = 0 <=> TargetRead = 0)
<1>1. listing.page \in Nat /\ PageSize \in Nat /\ PageSize > 0
  BY DEF TargetTyped, TargetListings, Target!TargetConstants
<1>2. /\ listing.page * PageSize \in Nat
      /\ (listing.page + 1) * PageSize = listing.page * PageSize + PageSize
      /\ (listing.page = 0 <=> listing.page * PageSize = 0)
  BY <1>1, TargetProduct
<1>3. \A m \in Nat : m + PageSize \in Nat
  BY <1>1
<1> QED
  BY <1>1, <1>2, <1>3, Zenon DEF TargetRead, TargetNext

LEMMA TargetPageSeen ==
    ASSUME Target!TargetConstants, TargetTyped, TargetAccount
    PROVE  {TargetPageRows[k] : k \in DOMAIN TargetPageRows} = TargetRows
<1> DEFINE m == TargetRead
           n == IF TargetNext > Len(account) THEN Len(account) ELSE TargetNext
           rows == SubSeq(account, m + 1, n)
<1>1. m \in Nat /\ TargetNext \in Nat /\ m < TargetNext
  BY TargetPaging
<1>2. account \in Seq(Instances) /\ Len(account) \in Nat /\ DOMAIN account = 1..Len(account)
  BY DEF TargetAccount
<1>3. TargetPageRows = rows
  BY DEF TargetPageRows, TargetRead, TargetNext
<1>4. n \in Nat /\ n <= Len(account)
  BY <1>1, <1>2
<1>5. /\ DOMAIN rows = 1..(IF n < m + 1 THEN 0 ELSE n - m)
      /\ \A k \in DOMAIN rows : rows[k] = account[m + k]
  <2> HIDE DEF m, n
  <2> QED
    BY <1>1, <1>2, <1>4
<1>6. ASSUME NEW k \in DOMAIN rows
      PROVE  rows[k] \in TargetRows
  <2>1. k \in Nat /\ m + k \in DOMAIN account /\ m < m + k /\ m + k <= n /\ n <= TargetNext
    <3>1. n <= TargetNext
      BY <1>1, <1>2
    <3> HIDE DEF m, n, rows
    <3> QED
      BY <1>1, <1>2, <1>4, <1>5, <3>1
  <2>2. rows[k] = account[m + k]
    BY <1>5
  <2> DEFINE p == m + k
  <2>3. p \in DOMAIN account /\ TargetRead < p /\ p <= TargetNext /\ rows[k] = account[p]
    <3> HIDE DEF n, rows
    <3> QED
      BY <2>1, <2>2, <1>1, <1>2, <1>4
  <2> HIDE DEF p, rows
  <2> QED
    BY <2>3 DEF TargetRows
<1>7. ASSUME NEW p \in DOMAIN account, TargetRead < p, p <= TargetNext
      PROVE  \E k \in DOMAIN rows : rows[k] = account[p]
  <2>1. p \in Nat /\ p <= n /\ m < p
    BY <1>2, <1>7
  <2>2. p - m \in DOMAIN rows
    <3> HIDE DEF m, n, rows
    <3> QED
      BY <1>1, <1>4, <1>5, <2>1
  <2>3. m + (p - m) = p
    BY <1>1, <2>1
  <2> HIDE DEF m, n, rows
  <2> QED
    BY <1>5, <2>2, <2>3
<1> HIDE DEF rows
<1> QED
  BY <1>3, <1>6, <1>7 DEF TargetRows

-----------------------------------------------------------------------------
(* What a step leaves as it was is still true: of the instances that exist  *)
(* no more are this session's own.                                          *)

TargetShrinks ==
  \A i \in Instances : i \in made' /\ i \in (Target!Holds)' => i \in made /\ i \in Target!Holds

LEMMA TargetMadeStays ==
    ASSUME TargetAccount, TargetAccount', TargetMade, TargetMoves, made' = made
    PROVE  TargetMade' /\ TargetShrinks
<1>1. \A i \in Instances : presentAt[i] \in Int /\ presentAt'[i] \in Int
  BY DEF TargetAccount
<1> QED
  BY <1>1 DEF TargetMade, TargetMoves, TargetShrinks, Target!Never

LEMMA TargetRegistryStays ==
    ASSUME TargetAccount, TargetAccount', TargetTyped, TargetRegistry, TargetMoves, TargetShrinks,
           registry' = registry
    PROVE  TargetRegistry'
<1>1. \A i \in Instances : /\ presentAt[i] \in Int /\ presentAt'[i] \in Int
                           /\ absentAt[i] \in Int /\ absentAt'[i] \in Int
  BY DEF TargetAccount
<1>2. registry.at \in Int
  BY DEF TargetTyped, TargetRegistries
<1>3. SUFFICES ASSUME registry.at # Target!Never, ~registry.failed, ~registry.truncated,
                      NEW i \in Instances \ registry.wrong
               PROVE  /\ i \in registry.known => presentAt'[i] >= registry.at
                      /\ i \notin registry.known =>
                           /\ absentAt'[i] >= registry.at
                           /\ registry.invalid \/ ~(i \in made' /\ i \in (Target!Holds)')
  BY DEF TargetRegistry
<1>4. /\ i \in registry.known => presentAt[i] >= registry.at
      /\ i \notin registry.known =>
           /\ absentAt[i] >= registry.at
           /\ registry.invalid \/ ~(i \in made /\ i \in Target!Holds)
  BY <1>3 DEF TargetRegistry
<1>5. presentAt'[i] >= presentAt[i] /\ absentAt'[i] >= absentAt[i]
  BY DEF TargetMoves
<1>6. i \in made' /\ i \in (Target!Holds)' => i \in made /\ i \in Target!Holds
  BY DEF TargetShrinks
<1>7. i \in registry.known => presentAt'[i] >= registry.at
  BY <1>1, <1>2, <1>4, <1>5
<1>8. i \notin registry.known => absentAt'[i] >= registry.at
  BY <1>1, <1>2, <1>4, <1>5
<1> QED
  BY <1>4, <1>6, <1>7, <1>8, Zenon

\* A registry that was just loaded from everything the account holds, is truncated, or comes
\* from a torn listing.
LEMMA TargetRegistryLoads ==
    ASSUME TargetAccount, TargetAccount', TargetMoves, NEW S \in SUBSET Instances, NEW total \in Nat,
           ~(total > Cardinality(S)) => S = Target!Holds \/ Target!Torn,
           UNCHANGED <<account, time, presentAt, absentAt, made>>,
           registry' = Target!Synced(S, total)
    PROVE  TargetRegistry' /\ registry' \in TargetRegistries /\ registry'.at <= time
<1> DEFINE wrong == IF Target!Torn THEN (S \ Target!Holds) \cup (Target!Holds \ S) ELSE {}
<1>1. registry' = [known |-> S, at |-> time, failed |-> FALSE,
                   truncated |-> total > Cardinality(S), invalid |-> FALSE, wrong |-> wrong]
  BY TargetCardinality DEF Target!Synced
<1>2. registry' \in TargetRegistries /\ registry'.at <= time
  <2>1. wrong \subseteq Instances
    BY DEF TargetAccount, Target!Holds
  <2> HIDE DEF wrong
  <2> QED
    BY <1>1, <2>1 DEF TargetRegistries, TargetAccount
<1>3. ASSUME ~registry'.truncated, NEW i \in Instances \ registry'.wrong
      PROVE  /\ i \in registry'.known => presentAt'[i] >= registry'.at
             /\ i \notin registry'.known => /\ absentAt'[i] >= registry'.at
                                            /\ i \notin (Target!Holds)'
  <2>1. /\ registry'.known = S /\ registry'.at = time /\ registry'.wrong = wrong
        /\ registry'.truncated = (total > Cardinality(S))
    <3> HIDE DEF wrong
    <3> QED
      BY <1>1
  <2>2. S = Target!Holds \/ Target!Torn
    BY <1>3, <2>1, Zenon
  <2>3. i \in S <=> i \in Target!Holds
    BY <1>3, <2>1, <2>2
  <2> HIDE DEF wrong
  <2> QED
    BY <2>1, <2>3, TargetHolds DEF TargetAccount
<1>4. TargetRegistry'
  BY <1>3 DEF TargetRegistry
<1> QED
  BY <1>2, <1>4

LEMMA TargetListingOver ==
    ASSUME listing' = Target!NoList
    PROVE  TargetListing' /\ listing' \in TargetListings
<1>1. listing' = [seen |-> {}, page |-> 0, total |-> 0, moved |-> {}]
  BY DEF Target!NoList
<1>2. listing' \in TargetListings
  BY <1>1 DEF TargetListings
<1>3. /\ listing'.seen = {} /\ listing'.page = 0 /\ listing'.total = 0 /\ listing'.moved = {}
  BY <1>1
<1>4. IsFiniteSet(listing'.seen)
  BY <1>3, FS_EmptySet
<1>5. ~(listing'.page > 0) /\ listing'.moved # {"lost"} /\ \A i \in listing'.seen : FALSE
  BY <1>3
<1> QED
  BY <1>2, <1>3, <1>4, <1>5 DEF TargetListing

LEMMA TargetListingStays ==
    ASSUME TargetTyped, TargetAccount, TargetAccount', TargetListing, TargetMoves,
           account' = account, listing' = listing, turnAt' = turnAt,
           readStage' \in {"warm", "list"} \/ listing = Target!NoList
    PROVE  TargetListing'
<1>1. /\ TargetRead' = TargetRead /\ (Target!Holds)' = Target!Holds /\ TargetUnread' = TargetUnread
  BY TargetHolds DEF TargetRead, TargetUnread
<1>2. \A i \in listing.seen : presentAt'[i] >= turnAt
  <2>1. listing.seen \subseteq Instances /\ turnAt \in Nat
    BY DEF TargetTyped, TargetListings
  <2>2. \A i \in Instances : /\ presentAt[i] \in Int /\ presentAt'[i] \in Int
                             /\ presentAt'[i] >= presentAt[i]
    BY DEF TargetAccount, TargetMoves
  <2>3. \A i \in listing.seen : presentAt[i] >= turnAt
    BY DEF TargetListing
  <2> QED
    BY <2>1, <2>2, <2>3
<1>3. readStage' \notin {"warm", "list"} => listing' = Target!NoList
  BY DEF TargetListing
<1> QED
  BY <1>1, <1>2, <1>3 DEF TargetListing

LEMMA TargetEvidenceStays ==
    ASSUME TargetTyped, TargetAccount, TargetAccount', TargetEvidenced, TargetMoves,
           UNCHANGED <<evidence, turnAt>>
    PROVE  TargetEvidenced'
<1>1. evidence \subseteq Instances /\ turnAt \in Nat
  BY DEF TargetTyped
<1>2. \A i \in Instances : presentAt[i] \in Int /\ presentAt'[i] \in Int /\ presentAt'[i] >= presentAt[i]
  BY DEF TargetAccount, TargetMoves
<1>3. \A i \in evidence : presentAt[i] >= turnAt
  BY DEF TargetEvidenced
<1>4. \A i \in evidence : presentAt'[i] >= turnAt
  BY <1>1, <1>2, <1>3
<1> QED
  BY <1>4 DEF TargetEvidenced

LEMMA TargetJudgedStays ==
    ASSUME Target!TargetConstants, TargetTyped, TargetAccount, TargetAccount', TargetJudged,
           TargetMoves, TargetShrinks, UNCHANGED <<verdict, proposal, judgedAt>>,
           turnAt' = turnAt \/ verdict = "none", registry' = registry \/ verdict = "none",
           readStage' \notin {"verify", "disk", "resolve", "card"} => verdict = "none",
           readStage' = "verify" => readStage = "verify",
           readStage' \in {"disk", "resolve"} => readStage \in {"disk", "resolve"}
    PROVE  TargetJudged'
<1>1. \A i \in Instances : /\ presentAt[i] \in Int /\ presentAt'[i] \in Int /\ presentAt'[i] >= presentAt[i]
                           /\ absentAt[i] \in Int /\ absentAt'[i] \in Int /\ absentAt'[i] >= absentAt[i]
  BY DEF TargetAccount, TargetMoves
<1>2. judgedAt \in Nat /\ turnAt \in Nat /\ Ttl \in Nat
      /\ proposal.host \in Instances \cup {Target!NoInstance}
  BY DEF TargetTyped, Target!TargetConstants
<1>3. verdict # "none" => TargetMisled' = TargetMisled
  BY DEF TargetMisled
<1>4. verdict = "notFound" =>
        /\ proposal.host \in Instances
        /\ \/ TargetMisled'
           \/ /\ absentAt'[proposal.host] >= judgedAt - Ttl
              /\ ~(proposal.host \in made' /\ proposal.host \in (Target!Holds)')
  <2> SUFFICES ASSUME verdict = "notFound"
               PROVE  /\ proposal.host \in Instances
                      /\ \/ TargetMisled'
                         \/ /\ absentAt'[proposal.host] >= judgedAt - Ttl
                            /\ ~(proposal.host \in made' /\ proposal.host \in (Target!Holds)')
    OBVIOUS
  <2>1. /\ proposal.host \in Instances
        /\ \/ TargetMisled
           \/ /\ absentAt[proposal.host] >= judgedAt - Ttl
              /\ ~(proposal.host \in made /\ proposal.host \in Target!Holds)
    BY DEF TargetJudged
  <2> QED
    BY <2>1, <1>1, <1>2, <1>3 DEF TargetShrinks
<1>5. verdict = "verified" /\ proposal.host # Target!NoInstance =>
        \/ TargetMisled'
        \/ presentAt'[proposal.host] >= judgedAt - Ttl
        \/ presentAt'[proposal.host] >= turnAt'
  <2> SUFFICES ASSUME verdict = "verified", proposal.host # Target!NoInstance, ~TargetMisled'
               PROVE  presentAt'[proposal.host] >= judgedAt - Ttl \/ presentAt'[proposal.host] >= turnAt'
    OBVIOUS
  <2>1. presentAt[proposal.host] >= judgedAt - Ttl \/ presentAt[proposal.host] >= turnAt
    BY <1>3 DEF TargetJudged
  <2>2. turnAt' = turnAt /\ proposal.host \in Instances
    BY <1>2
  <2> QED
    BY <2>1, <2>2, <1>1, <1>2
<1>6. /\ readStage' \notin {"verify", "disk", "resolve", "card"} => verdict = "none"
      /\ readStage' = "verify" => proposal.host \in Instances
      /\ readStage' \in {"disk", "resolve"} => verdict \notin {"none", "unknown"}
      /\ verdict \in {"none", "unknown", "verified", "notFound", "unavailable", "diskNotFound"}
  BY DEF TargetJudged
<1> QED
  BY <1>4, <1>5, <1>6 DEF TargetJudged

LEMMA TargetQuiet == ASSUME Target!Quiet PROVE Target!TargetIsEvidenced'
  BY DEF Target!Quiet, Target!Nothing, Target!TargetIsEvidenced, Target!NoInstance

\* At the end of a write nothing is known of a target any more.
LEMMA TargetJudgedOver ==
    ASSUME verdict' = "none", readStage' \notin {"verify", "disk", "resolve"}
    PROVE  TargetJudged'
  BY DEF TargetJudged

-----------------------------------------------------------------------------
(* The steps.                                                               *)

LEMMA TargetSame ==
    ASSUME TargetInv, UNCHANGED <<Target!world, made>>
    PROVE  /\ TargetAccount' /\ TargetMoves /\ TargetShrinks /\ TargetMade'
           /\ (Target!Holds)' = Target!Holds /\ time' = time /\ account' = account
           /\ presentAt' = presentAt /\ absentAt' = absentAt
<1>1. UNCHANGED <<account, time, presentAt, absentAt>> /\ made' = made
  BY DEF Target!world
<1>2. TargetAccount' /\ TargetMoves /\ (Target!Holds)' = Target!Holds
  BY <1>1, TargetStays DEF TargetInv
<1> QED
  BY <1>1, <1>2, TargetMadeStays DEF TargetInv

LEMMA TargetTickKeeps ==
    ASSUME Target!TargetConstants, TargetInv, Target!Tick
    PROVE  TargetInv' /\ Target!TargetIsEvidenced'
<1>1. TargetAccount' /\ TargetMoves /\ time' = time + 1
  BY TargetTicks DEF TargetInv
<1>2. UNCHANGED <<account, made, registry, turnAt, evidence, readStage, reading, listing, proposal,
                  verdict, judgedAt>> /\ Target!Quiet
  BY DEF Target!Tick
<1>3. TargetMade' /\ TargetShrinks
  BY <1>1, <1>2, TargetMadeStays DEF TargetInv
<1>4. TargetRegistry'
  BY <1>1, <1>2, <1>3, TargetRegistryStays DEF TargetInv
<1>5. TargetListing'
  <2>1. readStage' \in {"warm", "list"} \/ listing = Target!NoList
    BY <1>2 DEF TargetInv, TargetListing
  <2> QED
    BY <1>1, <1>2, <2>1, TargetListingStays DEF TargetInv
<1>6. TargetWarm'
  <2>1. TargetWarm
    BY DEF TargetInv
  <2> QED
    BY <2>1, <1>2 DEF TargetWarm
<1>7. TargetJudged'
  BY <1>1, <1>2, <1>3, TargetJudgedStays DEF TargetInv, TargetJudged
<1>8. TargetEvidenced'
  BY <1>1, <1>2, TargetEvidenceStays DEF TargetInv
<1>9. TargetTyped'
  <2>1. TargetTyped /\ time \in Nat
    BY DEF TargetInv, TargetAccount
  <2>2. registry.at \in Int
    BY <2>1 DEF TargetTyped, TargetRegistries
  <2>3. TargetReading(reading)'
    BY <2>1, <1>1, <1>2 DEF TargetTyped, TargetReading
  <2> QED
    BY <2>1, <2>2, <2>3, <1>1, <1>2 DEF TargetTyped
<1> QED
  BY <1>1, <1>2, <1>3, <1>4, <1>5, <1>6, <1>7, <1>8, <1>9, TargetQuiet DEF TargetInv

\* What a listing in progress has seen and may see yet.
LEMMA TargetUnreadFinite ==
    ASSUME TargetInv
    PROVE  /\ TargetUnread \subseteq Target!Holds
           /\ IsFiniteSet(listing.seen \cup TargetUnread)
           /\ Cardinality(listing.seen \cup TargetUnread) \in Nat
<1>1. IsFiniteSet(Target!Holds)
  BY TargetHolds, TargetCount DEF TargetInv, TargetAccount
<1>2. TargetUnread \subseteq Target!Holds
  BY DEF TargetUnread, Target!Holds
<1>3. IsFiniteSet(TargetUnread)
  BY <1>1, <1>2, FS_Subset
<1>4. IsFiniteSet(listing.seen)
  BY DEF TargetInv, TargetListing
<1>5. IsFiniteSet(listing.seen \cup TargetUnread)
  BY <1>3, <1>4, FS_Union
<1> QED
  BY <1>2, <1>5, FS_CardinalityType

\* What is deleted while an account that did not grow is listed takes with it the last chance
\* of the listing to be complete.
LEMMA TargetListingLoses ==
    ASSUME Target!TargetConstants, TargetInv, TargetAccount', NEW d \in DOMAIN account,
           account' = Target!Without(account, d),
           (Target!Holds)' = Target!Holds \ {account[d]},
           listing.page > 0, listing'.seen = listing.seen, listing'.page = listing.page,
           listing'.total = listing.total, listing.moved \in {{}, {"lost"}}
    PROVE  /\ listing'.total >= Len(account')
           /\ Cardinality(listing'.seen \cup TargetUnread') < listing'.total
<1> DEFINE now  == listing.seen \cup TargetUnread
           then == listing.seen \cup TargetUnread'
<1>1. TargetTyped /\ TargetListing /\ listing.total \in Nat
  BY DEF TargetInv, TargetTyped, TargetListings
<1>2. /\ account \in Seq(Instances) /\ TargetUnique(account) /\ Len(account) \in Nat
      /\ DOMAIN account = 1..Len(account)
  BY DEF TargetInv, TargetAccount
<1>3. /\ Len(account') = Len(account) - 1 /\ account' \in Seq(Instances)
      /\ DOMAIN account' = 1..Len(account) - 1
      /\ \A k \in 1..Len(account) - 1 :
           account'[k] = IF k < d THEN account[k] ELSE account[k + 1]
  <2> DEFINE new == Target!Without(account, d)
  <2>1. /\ Len(new) = Len(account) - 1 /\ new \in Seq(Instances)
        /\ \A k \in 1..Len(account) - 1 :
             new[k] = IF k < d THEN account[k] ELSE account[k + 1]
    BY <1>2, TargetRemoved, Zenon
  <2>2. account' = new
    OBVIOUS
  <2> HIDE DEF new
  <2>3. /\ Len(account') = Len(account) - 1 /\ account' \in Seq(Instances)
        /\ \A k \in 1..Len(account) - 1 :
             account'[k] = IF k < d THEN account[k] ELSE account[k + 1]
    BY <2>1, <2>2, Zenon
  <2>4. DOMAIN account' = 1..Len(account')
    BY <2>3
  <2> QED
    BY <2>3, <2>4, Zenon
<1>4. TargetRead' = TargetRead /\ TargetRead \in Nat
  BY <1>1, TargetPaging DEF TargetRead
<1>5. ASSUME NEW k \in DOMAIN account', TargetRead < k
      PROVE  \E j \in DOMAIN account : /\ TargetRead < j /\ account'[k] = account[j]
                                      /\ (d <= TargetRead => TargetRead + 1 < j)
  <2>1. CASE k < d
    <3>1. k \in DOMAIN account /\ account'[k] = account[k] /\ ~(d <= TargetRead)
      <4> HIDE DEF TargetRead
      <4> QED
        BY <2>1, <1>2, <1>3, <1>4, <1>5
    <3> QED
      BY <3>1, <1>5
  <2>2. CASE ~(k < d)
    <3>1. k + 1 \in DOMAIN account /\ account'[k] = account[k + 1] /\ TargetRead + 1 < k + 1
      <4> HIDE DEF TargetRead
      <4> QED
        BY <2>2, <1>2, <1>3, <1>4, <1>5
    <3>2. TargetRead < k + 1
      <4> HIDE DEF TargetRead
      <4> QED
        BY <3>1, <1>2, <1>4
    <3> QED
      BY <3>1, <3>2
  <2> QED
    BY <2>1, <2>2
<1>6. TargetUnread' \subseteq TargetUnread
  <2>1. \A x \in TargetUnread' : \E k \in DOMAIN account' : TargetRead < k /\ x = account'[k]
    BY <1>4 DEF TargetUnread
  <2> QED
    BY <2>1, <1>5 DEF TargetUnread
<1>7. then \subseteq now
  BY <1>6
<1>8. /\ IsFiniteSet(now) /\ Cardinality(now) \in Nat
      /\ IsFiniteSet(then) /\ Cardinality(then) \in Nat /\ Cardinality(then) <= Cardinality(now)
      /\ (Cardinality(then) = Cardinality(now) => then = now)
  <2>1. IsFiniteSet(now) /\ Cardinality(now) \in Nat
    BY TargetUnreadFinite
  <2> HIDE DEF now, then
  <2> QED
    BY <1>7, <2>1, FS_Subset, FS_CardinalityType
<1>9. CASE listing.moved = {"lost"}
  <2>1. listing.total >= Len(account) /\ Cardinality(now) < listing.total
    BY <1>1, <1>9 DEF TargetListing
  <2> HIDE DEF now
  <2> QED
    BY <2>1, <1>1, <1>2, <1>3, <1>8
<1>10. CASE listing.moved = {}
  <2>1. /\ listing.seen = {account[k] : k \in {j \in DOMAIN account : j <= TargetRead}}
        /\ listing.total = Len(account) /\ TargetRead < Len(account)
    BY <1>1, <1>10 DEF TargetListing
  <2>2. now = Target!Holds
    <3>1. \A j \in DOMAIN account : j <= TargetRead \/ TargetRead < j
      BY <1>2, <1>4
    <3> QED
      BY <2>1, <3>1 DEF TargetUnread, Target!Holds
  <2>3. Cardinality(now) = Len(account)
    BY <2>2, TargetHolds, TargetCount, <1>2
  <2>4. \E x \in now : x \notin then
    <3>1. CASE d <= TargetRead
      <4> DEFINE e == TargetRead + 1
      <4>1. e \in DOMAIN account /\ TargetRead < e
        <5> HIDE DEF TargetRead
        <5> QED
          BY <2>1, <1>2, <1>4
      <4>2. account[e] \notin listing.seen
        <5> HIDE DEF TargetRead, e
        <5> QED
          BY <2>1, <4>1, <1>2, <1>4 DEF TargetUnique
      <4>3. account[e] \notin TargetUnread'
        <5>1. ASSUME NEW k \in DOMAIN account', TargetRead < k, account'[k] = account[e]
              PROVE  FALSE
          <6>1. PICK j \in DOMAIN account : account'[k] = account[j] /\ e < j
            BY <3>1, <5>1, <1>5
          <6>2. account[j] = account[e] /\ e \in DOMAIN account
            BY <6>1, <5>1, <4>1
          <6> HIDE DEF e
          <6>3. j = e
            BY <6>2, <1>2 DEF TargetUnique
          <6> QED
            BY <6>1, <6>2, <6>3, <1>2
        <5> QED
          BY <5>1, <1>4 DEF TargetUnread
      <4>4. account[e] \in now
        BY <2>2, <4>1 DEF Target!Holds
      <4> QED
        BY <4>2, <4>3, <4>4
    <3>2. CASE ~(d <= TargetRead)
      <4>1. account[d] \notin listing.seen
        <5> HIDE DEF TargetRead
        <5> QED
          BY <2>1, <3>2, <1>2, <1>4 DEF TargetUnique
      <4>2. TargetUnread' \subseteq (Target!Holds)'
        BY TargetHolds DEF TargetUnread, TargetThere
      <4>3. account[d] \in now /\ account[d] \notin then
        BY <2>2, <4>1, <4>2 DEF Target!Holds
      <4> QED
        BY <4>3
    <3> QED
      BY <3>1, <3>2
  <2> HIDE DEF now, then
  <2>5. Cardinality(then) < Len(account)
    BY <2>3, <2>4, <1>2, <1>8
  <2>6. listing'.seen \cup TargetUnread' = then
    BY DEF then
  <2>7. Cardinality(listing'.seen \cup TargetUnread') < Len(account)
    BY <2>5, <2>6
  <2>8. listing'.total = Len(account)
    BY <2>1
  <2> QED
    BY <2>7, <2>8, <1>2, <1>3
<1> QED
  BY <1>9, <1>10

\* A listing in progress when the account changes.
LEMMA TargetListingMoves ==
    ASSUME Target!TargetConstants, TargetInv, TargetAccount', TargetMoves, turnAt' = turnAt,
           readStage' = readStage,
           \/ Target!Holds \subseteq (Target!Holds)' /\ Target!Moves("gained")
           \/ \E d \in DOMAIN account : /\ (Target!Holds)' = Target!Holds \ {account[d]}
                                        /\ account' = Target!Without(account, d)
                                        /\ Target!Moves("lost")
    PROVE  TargetListing' /\ listing' \in TargetListings
<1>1. /\ TargetTyped /\ TargetListing /\ listing \in TargetListings /\ listing.page \in Nat
      /\ listing.moved \subseteq {"gained", "lost"}
  BY DEF TargetInv, TargetTyped, TargetListings
<1>2. CASE listing.page = 0
  <2>1. listing' = listing /\ listing.seen = {} /\ listing.total = 0 /\ listing.moved = {}
    BY <1>1, <1>2 DEF Target!Moves, TargetListing
  <2> QED
    BY <2>1, <1>1, <1>2 DEF TargetListing
<1>3. ASSUME listing.page > 0, NEW how \in {"gained", "lost"}, Target!Moves(how)
      PROVE  /\ listing'.seen = listing.seen /\ listing'.page = listing.page
             /\ listing'.total = listing.total /\ listing'.moved = listing.moved \cup {how}
             /\ listing' \in TargetListings
             /\ readStage \in {"warm", "list"}
             /\ IsFiniteSet(listing'.seen) /\ \A i \in listing'.seen : presentAt'[i] >= turnAt'
  <2>1. listing' = [seen |-> listing.seen, page |-> listing.page, total |-> listing.total,
                    moved |-> listing.moved \cup {how}]
    BY <1>1, <1>3 DEF Target!Moves, TargetListings
  <2>2. readStage \in {"warm", "list"}
    BY <1>1, <1>3 DEF TargetListing, Target!NoList
  <2>3. \A i \in listing.seen : presentAt'[i] >= turnAt
    <3>1. listing.seen \subseteq Instances /\ turnAt \in Nat
      BY <1>1 DEF TargetTyped, TargetListings
    <3>2. \A i \in Instances : /\ presentAt[i] \in Int /\ presentAt'[i] \in Int
                               /\ presentAt'[i] >= presentAt[i]
      BY DEF TargetInv, TargetAccount, TargetMoves
    <3>3. \A i \in listing.seen : presentAt[i] >= turnAt
      BY <1>1 DEF TargetListing
    <3> QED
      BY <3>1, <3>2, <3>3
  <2>4. IsFiniteSet(listing.seen)
    BY <1>1 DEF TargetListing
  <2>5. listing' \in TargetListings
    BY <1>1, <2>1 DEF TargetListings
  <2> QED
    BY <2>1, <2>2, <2>3, <2>4, <2>5
<1>4. CASE /\ listing.page > 0 /\ Target!Holds \subseteq (Target!Holds)'
           /\ Target!Moves("gained")
  <2>1. "lost" \notin listing'.moved => listing'.seen \subseteq (Target!Holds)'
    BY <1>1, <1>3, <1>4 DEF TargetListing
  <2>2. listing'.moved # {} /\ listing'.moved # {"lost"} /\ listing'.page # 0
    BY <1>1, <1>3, <1>4
  <2> QED
    BY <2>1, <2>2, <1>3, <1>4 DEF TargetListing
<1>5. ASSUME listing.page > 0, NEW d \in DOMAIN account,
             (Target!Holds)' = Target!Holds \ {account[d]},
             account' = Target!Without(account, d), Target!Moves("lost")
      PROVE  TargetListing' /\ listing' \in TargetListings
  <2>1. listing'.moved # {} /\ "lost" \in listing'.moved /\ listing'.page # 0
    BY <1>1, <1>3, <1>5
  <2>2. ASSUME listing'.moved = {"lost"}
        PROVE  /\ listing'.total >= Len(account')
               /\ Cardinality(listing'.seen \cup TargetUnread') < listing'.total
    <3>1. listing.moved \in {{}, {"lost"}}
      BY <2>2, <1>3, <1>5
    <3> QED
      BY <3>1, <1>3, <1>5, TargetListingLoses
  <2> QED
    BY <2>1, <2>2, <1>3, <1>5 DEF TargetListing
<1> QED
  BY <1>1, <1>2, <1>4, <1>5

LEMMA TargetElsewhereKeeps ==
    ASSUME Target!TargetConstants, TargetInv, Target!Elsewhere
    PROVE  TargetInv' /\ Target!TargetIsEvidenced'
<1>1. /\ UNCHANGED <<time, made, registry, turnAt, evidence, readStage, reading, proposal, verdict,
                     judgedAt>>
      /\ Target!Quiet
  BY DEF Target!Elsewhere
<1>2. /\ TargetAccount' /\ TargetMoves
      /\ \/ Target!Holds \subseteq (Target!Holds)' /\ Target!Moves("gained")
         \/ \E d \in DOMAIN account : /\ (Target!Holds)' = Target!Holds \ {account[d]}
                                      /\ account' = Target!Without(account, d)
                                      /\ Target!Moves("lost")
  <2>1. ASSUME NEW i \in Instances, Target!Unused(i),
               Target!Becomes(Append(account, i)) \/ Target!Becomes(<<i>> \o account)
        PROVE  TargetAccount' /\ TargetMoves /\ Target!Holds \subseteq (Target!Holds)'
    BY <2>1, <1>1, TargetCreates DEF TargetInv
  <2>2. ASSUME NEW d \in DOMAIN account, Target!Becomes(Target!Without(account, d))
        PROVE  /\ TargetAccount' /\ TargetMoves
               /\ (Target!Holds)' = Target!Holds \ {account[d]}
               /\ account' = Target!Without(account, d)
    <3>1. account' = Target!Without(account, d)
      BY <2>2 DEF Target!Becomes
    <3> QED
      BY <2>2, <3>1, <1>1, TargetDeletes DEF TargetInv
  <2>3. \/ /\ \E i \in Instances :
                 Target!Unused(i) /\ (\/ Target!Becomes(Append(account, i))
                                       \/ Target!Becomes(<<i>> \o account))
           /\ Target!Moves("gained")
        \/ /\ \E d \in DOMAIN account : Target!Becomes(Target!Without(account, d))
           /\ Target!Moves("lost")
    BY DEF Target!Elsewhere
  <2> QED
    BY <2>1, <2>2, <2>3
<1>3. TargetMade' /\ TargetShrinks
  BY <1>1, <1>2, TargetMadeStays DEF TargetInv
<1>4. TargetRegistry'
  BY <1>1, <1>2, <1>3, TargetRegistryStays DEF TargetInv
<1>5. TargetListing' /\ listing' \in TargetListings
  BY <1>1, <1>2, TargetListingMoves
<1>6. TargetWarm'
  <2>1. TargetWarm
    BY DEF TargetInv
  <2> QED
    BY <2>1, <1>1 DEF TargetWarm
<1>7. TargetJudged'
  BY <1>1, <1>2, <1>3, TargetJudgedStays DEF TargetInv, TargetJudged
<1>8. TargetEvidenced'
  BY <1>1, <1>2, TargetEvidenceStays DEF TargetInv
<1>9. TargetTyped'
  <2>1. TargetTyped
    BY DEF TargetInv
  <2>2. TargetReading(reading)'
    BY <2>1, <1>1 DEF TargetTyped, TargetReading
  <2> QED
    BY <2>1, <2>2, <1>1, <1>5 DEF TargetTyped
<1> QED
  BY <1>1, <1>2, <1>3, <1>4, <1>5, <1>6, <1>7, <1>8, <1>9, TargetQuiet DEF TargetInv

LEMMA TargetNewTurnKeeps ==
    ASSUME Target!TargetConstants, TargetInv, Target!NewTurn
    PROVE  TargetInv' /\ Target!TargetIsEvidenced'
<1>1. /\ UNCHANGED <<Target!world, made, registry, readStage, reading, listing, proposal, verdict,
                     judgedAt>>
      /\ turnAt' = time /\ evidence' = {} /\ readStage = "idle" /\ Target!Quiet
  BY DEF Target!NewTurn
<1>2. /\ TargetAccount' /\ TargetMoves /\ TargetShrinks /\ TargetMade' /\ time' = time
      /\ account' = account
  BY <1>1, TargetSame
<1>3. TargetRegistry'
  BY <1>1, <1>2, TargetRegistryStays DEF TargetInv
<1>4. TargetListing'
  <2>1. listing' = Target!NoList
    BY <1>1 DEF TargetInv, TargetListing
  <2> QED
    BY <2>1, <1>2, TargetListingOver
<1>5. TargetWarm' /\ TargetEvidenced'
  BY <1>1 DEF TargetWarm, TargetEvidenced
<1>6. TargetJudged'
  <2>1. verdict = "none"
    BY <1>1 DEF TargetInv, TargetJudged
  <2> QED
    BY <2>1, <1>1, TargetJudgedOver
<1>7. TargetTyped'
  <2>1. TargetTyped /\ time \in Nat
    BY DEF TargetInv, TargetAccount
  <2>2. TargetReading(reading)'
    BY <2>1, <1>1, <1>2 DEF TargetTyped, TargetReading
  <2> QED
    BY <2>1, <2>2, <1>1, <1>2 DEF TargetTyped
<1> QED
  BY <1>1, <1>2, <1>3, <1>4, <1>5, <1>6, <1>7, TargetQuiet DEF TargetInv

LEMMA TargetLoadRegistryKeeps ==
    ASSUME Target!TargetConstants, TargetInv, Target!LoadRegistry
    PROVE  TargetInv' /\ Target!TargetIsEvidenced'
<1> DEFINE S == {account[k] : k \in {j \in DOMAIN account : j <= PageSize}}
<1>1. /\ UNCHANGED <<Target!world, made, turnAt, evidence, readStage, reading, listing, proposal,
                     verdict, judgedAt>>
      /\ registry' = Target!Synced(S, Len(account)) \/ registry' = [registry EXCEPT !.failed = TRUE]
      /\ Target!Quiet
  BY DEF Target!LoadRegistry
<1>2. /\ TargetAccount' /\ TargetMoves /\ TargetShrinks /\ TargetMade' /\ time' = time
      /\ account' = account /\ presentAt' = presentAt /\ absentAt' = absentAt
  BY <1>1, TargetSame
<1>3. TargetAccount /\ TargetTyped /\ account \in Seq(Instances) /\ Len(account) \in Nat
  BY DEF TargetInv, TargetAccount
<1>4. S \subseteq Target!Holds /\ S \subseteq Instances
  BY <1>3 DEF Target!Holds
<1>5. TargetRegistry' /\ registry' \in TargetRegistries /\ registry'.at <= time
  <2>1. CASE registry' = Target!Synced(S, Len(account))
    <3> HIDE DEF S
    <3>1. ~(Len(account) > Cardinality(S)) => S = Target!Holds
      <4>1. Len(account) >= Len(account)
        BY <1>3
      <4> QED
        BY <4>1, <1>3, <1>4, TargetComplete
    <3> QED
      BY <2>1, <3>1, <1>1, <1>2, <1>3, <1>4, TargetRegistryLoads
  <2>2. CASE registry' = [registry EXCEPT !.failed = TRUE]
    <3>1. registry'.failed
      BY <2>2, <1>3 DEF TargetTyped, TargetRegistries
    <3>2. registry' \in TargetRegistries /\ registry'.at <= time
      BY <2>2, <1>3 DEF TargetTyped, TargetRegistries
    <3> QED
      BY <3>1, <3>2 DEF TargetRegistry
  <2> QED
    BY <1>1, <2>1, <2>2
<1> HIDE DEF S
<1>6. TargetListing'
  <2>1. listing = Target!NoList \/ readStage' \in {"warm", "list"}
    BY <1>1 DEF TargetInv, TargetListing
  <2> QED
    BY <2>1, <1>1, <1>2, TargetListingStays DEF TargetInv
<1>7. TargetWarm'
  <2>1. readStage = "idle"
    BY DEF Target!LoadRegistry
  <2> QED
    BY <2>1, <1>1 DEF TargetWarm
<1>8. TargetJudged'
  <2>1. readStage = "idle" /\ verdict = "none"
    BY DEF Target!LoadRegistry, TargetInv, TargetJudged
  <2> QED
    BY <2>1, <1>1, TargetJudgedOver
<1>9. TargetEvidenced'
  BY <1>1, <1>2, TargetEvidenceStays DEF TargetInv
<1>10. TargetTyped'
  <2>1. TargetReading(reading)'
    BY <1>3, <1>1, <1>2 DEF TargetTyped, TargetReading
  <2> QED
    BY <2>1, <1>1, <1>2, <1>3, <1>5 DEF TargetTyped
<1> QED
  BY <1>1, <1>2, <1>5, <1>6, <1>7, <1>8, <1>9, <1>10, TargetQuiet DEF TargetInv

\* A statement about what does not exist, by a read.
LEMMA TargetSays ==
    ASSUME TargetInv, verdict = "none", NEW A, Target!Says(A, Target!NoInstance),
           UNCHANGED <<Target!world>>,
           \A i \in A : \/ i \in registry'.wrong /\ Target!CanAssertAbsence(registry', time)
                        \/ absentAt[i] >= time - Ttl /\ ~(i \in made /\ i \in Target!Holds)
    PROVE  Target!TargetIsEvidenced'
<1>1. /\ said'.absent = A /\ said'.card = Target!NoInstance /\ said'.at = time
      /\ said'.standing = made \cap Target!Holds
  BY DEF Target!Says
<1>2. absentAt' = absentAt
  BY DEF Target!world
<1> QED
  BY <1>1, <1>2 DEF Target!TargetIsEvidenced, Target!Misled

\* What a registry that may deny an id says of it.
LEMMA TargetMayDeny ==
    ASSUME Target!TargetConstants, TargetInv, NEW i \in Instances \ registry.wrong,
           NEW when \in Nat, when <= time, Target!CanAssertAbsence(registry, when)
    PROVE  /\ i \notin registry.known =>
                absentAt[i] >= when - Ttl /\ ~(i \in made /\ i \in Target!Holds)
           /\ i \in registry.known => presentAt[i] >= when - Ttl
<1>1. /\ registry.at # Target!Never /\ ~registry.invalid /\ ~registry.failed /\ ~registry.truncated
      /\ when - registry.at <= Ttl
  BY DEF Target!CanAssertAbsence, Target!Fresh
<1>2. /\ i \in registry.known => presentAt[i] >= registry.at
      /\ i \notin registry.known => absentAt[i] >= registry.at /\ ~(i \in made /\ i \in Target!Holds)
  BY <1>1 DEF TargetInv, TargetRegistry
<1>3. registry.at \in Int /\ presentAt[i] \in Int /\ absentAt[i] \in Int /\ Ttl \in Nat
  BY DEF TargetInv, TargetTyped, TargetRegistries, TargetAccount, Target!TargetConstants
<1>4. \A x \in Int : x >= registry.at => x >= when - Ttl
  BY <1>1, <1>3
<1> QED
  BY <1>2, <1>3, <1>4, Zenon

LEMMA TargetStartReadKeeps ==
    ASSUME Target!TargetConstants, TargetInv, NEW refs \in Reads, Target!StartRead(refs)
    PROVE  TargetInv' /\ Target!TargetIsEvidenced'
<1> DEFINE reason == Target!Reason(refs, registry, time)
           read == [refs |-> refs, ids |-> Target!Ids(refs, registry), reason |-> reason, now |-> time]
<1>1. /\ readStage = "idle"
      /\ UNCHANGED <<Target!world, made, registry, turnAt, evidence, listing, proposal, verdict, judgedAt>>
      /\ \/ refs = <<>> /\ readStage' = "list" /\ reading' = read /\ Target!Quiet
         \/ refs # <<>> /\ reason = "none" /\ readStage' = "query" /\ reading' = read /\ Target!Quiet
         \/ /\ reason # "none" /\ Target!CanAssertAbsence(registry, time)
            /\ Target!Says(Target!Denied(refs, registry, time), Target!NoInstance)
            /\ UNCHANGED <<readStage, reading>>
         \/ /\ reason # "none" /\ ~Target!CanAssertAbsence(registry, time)
            /\ readStage' = "warm" /\ reading' = read /\ Target!Quiet
  BY DEF Target!StartRead
<1>2. /\ TargetAccount' /\ TargetMoves /\ TargetShrinks /\ TargetMade' /\ time' = time
      /\ account' = account
  BY <1>1, TargetSame
<1>3. verdict = "none" /\ listing = Target!NoList
  BY <1>1 DEF TargetInv, TargetJudged, TargetListing
<1>4. TargetTyped /\ registry \in TargetRegistries /\ time \in Nat
  BY DEF TargetInv, TargetTyped, TargetAccount
<1>5. TargetReading(read) /\ read.refs = refs /\ read.now = time
  <2>1. TargetReading([refs |-> refs, ids |-> {}, reason |-> reason, now |-> time])
    BY <1>4 DEF TargetReading, Target!TargetConstants
  <2>2. Target!Ids(refs, registry) \subseteq Instances
    BY <1>4, <2>1, TargetIds
  <2> QED
    BY <2>1, <2>2 DEF TargetReading
<1>6. reason # "none" => Target!Failing(refs, registry, time) # {}
  BY DEF Target!Reason
<1> HIDE DEF reason
<1>7. readStage' \in {"idle", "list", "query", "warm"} /\ (reading' = read \/ reading' = reading)
  BY <1>1
<1> HIDE DEF read
<1>8. TargetWarm'
  <2> SUFFICES ASSUME readStage' = "warm"
               PROVE  /\ Target!Failing(reading'.refs, registry', reading'.now) # {}
                      /\ ~Target!CanAssertAbsence(registry', reading'.now)
    BY DEF TargetWarm
  <2>1. reason # "none" /\ ~Target!CanAssertAbsence(registry, time) /\ reading' = read
    BY <1>1
  <2>2. registry' = registry /\ reading'.refs = refs /\ reading'.now = time
    BY <2>1, <1>1, <1>5
  <2> QED
    BY <2>1, <2>2, <1>6
<1>9. Target!TargetIsEvidenced'
  <2>1. CASE Target!Quiet
    BY <2>1, TargetQuiet
  <2>2. CASE /\ reason # "none" /\ Target!CanAssertAbsence(registry, time)
             /\ Target!Says(Target!Denied(refs, registry, time), Target!NoInstance)
    <3>1. ASSUME NEW i \in Target!Denied(refs, registry, time)
          PROVE  \/ i \in registry'.wrong /\ Target!CanAssertAbsence(registry', time)
                 \/ absentAt[i] >= time - Ttl /\ ~(i \in made /\ i \in Target!Holds)
      <4>1. i \in Instances /\ i \notin registry.known
        BY <2>2, <1>4, <1>5, <1>6, TargetDenied
      <4>2. time <= time
        BY <1>4
      <4> QED
        BY <2>2, <4>1, <4>2, <1>1, <1>4, TargetMayDeny
    <3> QED
      BY <2>2, <3>1, <1>1, <1>3, TargetSays
  <2> QED
    BY <1>1, <2>1, <2>2
<1>10. TargetRegistry'
  BY <1>1, <1>2, TargetRegistryStays DEF TargetInv
<1>11. TargetListing'
  BY <1>1, <1>2, <1>3, TargetListingOver
<1>12. TargetJudged'
  BY <1>1, <1>3, <1>7, TargetJudgedOver
<1>13. TargetEvidenced'
  BY <1>1, <1>2, TargetEvidenceStays DEF TargetInv
<1>14. TargetTyped'
  <2>1. TargetReading(reading)'
    <3>1. TargetReading(reading)
      BY <1>4 DEF TargetTyped
    <3> QED
      BY <3>1, <1>2, <1>5, <1>7 DEF TargetReading
  <2>2. readStage' \in TargetStages
    BY <1>7 DEF TargetStages
  <2> QED
    BY <2>1, <2>2, <1>1, <1>2, <1>4 DEF TargetTyped
<1> QED
  BY <1>2, <1>8, <1>9, <1>10, <1>11, <1>12, <1>13, <1>14 DEF TargetInv

\* The end of a read.
LEMMA TargetRests ==
    ASSUME Target!TargetConstants, TargetInv, verdict = "none",
           UNCHANGED <<Target!world, made, turnAt, proposal, verdict, judgedAt>>,
           readStage' = "idle", reading' = Target!NoRead, listing' = Target!NoList,
           TargetRegistry', registry' \in TargetRegistries, registry'.at <= time,
           evidence' \subseteq Instances, \A i \in evidence' : presentAt[i] >= turnAt
    PROVE  TargetInv'
<1>1. /\ TargetAccount' /\ TargetMade' /\ time' = time /\ presentAt' = presentAt
  BY TargetSame
<1>2. TargetListing' /\ listing' \in TargetListings
  BY <1>1, TargetListingOver
<1>3. TargetWarm' /\ TargetJudged'
  BY TargetJudgedOver DEF TargetWarm
<1>4. TargetEvidenced'
  BY <1>1 DEF TargetEvidenced
<1>5. TargetTyped /\ time \in Nat
  BY DEF TargetInv, TargetAccount
<1>6. TargetReading(reading)'
  BY <1>1, <1>5 DEF TargetReading, Target!NoRead
<1>7. TargetTyped'
  BY <1>1, <1>2, <1>5, <1>6 DEF TargetTyped, TargetStages
<1> QED
  BY <1>1, <1>2, <1>3, <1>4, <1>7 DEF TargetInv

\* What the account holds exists now.
LEMMA TargetHeld ==
    ASSUME Target!TargetConstants, TargetInv
    PROVE  /\ Target!Holds \subseteq Instances
           /\ \A i \in Target!Holds : presentAt[i] = time /\ presentAt[i] >= turnAt
           /\ \A i \in Instances \ Target!Holds : absentAt[i] = time
           /\ \A i \in evidence : i \in Instances /\ presentAt[i] >= turnAt
           /\ time >= time - Ttl /\ time \in Nat /\ Ttl \in Nat /\ turnAt \in Nat
<1>1. /\ account \in Seq(Instances) /\ time \in Nat /\ turnAt \in Nat /\ turnAt <= time /\ Ttl \in Nat
      /\ presentAt \in [Instances -> Int]
  BY DEF TargetInv, TargetAccount, TargetTyped, Target!TargetConstants
<1>2. Target!Holds \subseteq Instances
  BY <1>1 DEF Target!Holds
<1>3. \A i \in Instances : /\ i \in Target!Holds => presentAt[i] = time
                           /\ i \notin Target!Holds => absentAt[i] = time
  BY DEF TargetInv, TargetAccount
<1>4. \A i \in evidence : i \in Instances /\ presentAt[i] >= turnAt
  BY DEF TargetInv, TargetEvidenced, TargetTyped
<1> QED
  BY <1>1, <1>2, <1>3, <1>4

LEMMA TargetPageFailsKeeps ==
    ASSUME Target!TargetConstants, TargetInv, Target!PageFails
    PROVE  TargetInv' /\ Target!TargetIsEvidenced'
<1> DEFINE A == IF readStage = "warm" THEN Target!Denied(reading.refs, registry, reading.now) ELSE {}
<1>1. /\ UNCHANGED <<Target!world, made, registry, turnAt, evidence, proposal, verdict, judgedAt>>
      /\ readStage' = "idle" /\ reading' = Target!NoRead /\ listing' = Target!NoList
      /\ Target!Says(A, Target!NoInstance) /\ readStage \in {"warm", "list"}
  BY DEF Target!PageFails, Target!Rests
<1>2. TargetTyped /\ verdict = "none"
  BY <1>1 DEF TargetInv, TargetJudged
<1>3. ASSUME NEW i \in A
      PROVE  FALSE
  <2>1. /\ readStage = "warm" /\ i \in Target!Denied(reading.refs, registry, reading.now)
    BY <1>3
  <2>2. /\ Target!Failing(reading.refs, registry, reading.now) # {}
        /\ ~Target!CanAssertAbsence(registry, reading.now)
    BY <2>1 DEF TargetInv, TargetWarm
  <2> QED
    BY <2>1, <2>2, <1>2, TargetDenied DEF TargetTyped
<1> HIDE DEF A
<1>4. Target!TargetIsEvidenced'
  BY <1>1, <1>2, <1>3, TargetSays
<1>5. TargetRegistry' /\ registry' \in TargetRegistries /\ registry'.at <= time
  BY <1>1, <1>2, TargetSame, TargetRegistryStays DEF TargetInv, TargetTyped
<1>6. TargetInv'
  BY <1>1, <1>2, <1>5, TargetHeld, TargetRests DEF TargetTyped
<1> QED
  BY <1>4, <1>6

LEMMA TargetQueryFailsKeeps ==
    ASSUME Target!TargetConstants, TargetInv, Target!QueryFails
    PROVE  TargetInv' /\ Target!TargetIsEvidenced'
<1>1. /\ UNCHANGED <<Target!world, made, registry, turnAt, evidence, proposal, verdict, judgedAt>>
      /\ readStage' = "idle" /\ reading' = Target!NoRead /\ listing' = Target!NoList
      /\ Target!Says({}, Target!NoInstance) /\ readStage = "query"
  BY DEF Target!QueryFails, Target!Rests
<1>2. TargetTyped /\ verdict = "none"
  BY <1>1 DEF TargetInv, TargetJudged
<1>3. Target!TargetIsEvidenced'
  BY <1>1, <1>2, TargetSays
<1>4. TargetRegistry' /\ registry' \in TargetRegistries /\ registry'.at <= time
  BY <1>1, <1>2, TargetSame, TargetRegistryStays DEF TargetInv, TargetTyped
<1>5. TargetInv'
  BY <1>1, <1>2, <1>4, TargetHeld, TargetRests DEF TargetTyped
<1> QED
  BY <1>3, <1>5

LEMMA TargetQueryKeeps ==
    ASSUME Target!TargetConstants, TargetInv, Target!Query
    PROVE  TargetInv' /\ Target!TargetIsEvidenced'
<1>1. PICK rows \in {Target!Holds, Target!Holds \cap reading.ids} :
        /\ evidence' = evidence \cup (rows \cap reading.ids)
        /\ Target!Says(reading.ids \ rows, Target!NoInstance)
  BY DEF Target!Query
<1>2. /\ UNCHANGED <<Target!world, made, registry, turnAt, proposal, verdict, judgedAt>>
      /\ readStage' = "idle" /\ reading' = Target!NoRead /\ listing' = Target!NoList
      /\ readStage = "query"
  BY DEF Target!Query, Target!Rests
<1>3. TargetTyped /\ verdict = "none" /\ reading.ids \subseteq Instances
  BY <1>2 DEF TargetInv, TargetJudged, TargetTyped, TargetReading
<1>4. \A i \in reading.ids \ rows : i \in Instances \ Target!Holds
  BY <1>1, <1>3
<1>5. Target!TargetIsEvidenced'
  <2>1. \A i \in reading.ids \ rows :
          absentAt[i] >= time - Ttl /\ ~(i \in made /\ i \in Target!Holds)
    BY <1>4, TargetHeld
  <2> QED
    BY <1>1, <1>2, <1>3, <2>1, TargetSays
<1>6. TargetRegistry' /\ registry' \in TargetRegistries /\ registry'.at <= time
  BY <1>2, <1>3, TargetSame, TargetRegistryStays DEF TargetInv, TargetTyped
<1>7. evidence' \subseteq Instances /\ \A i \in evidence' : presentAt[i] >= turnAt
  BY <1>1, TargetHeld
<1>8. TargetInv'
  BY <1>2, <1>3, <1>6, <1>7, TargetRests
<1> QED
  BY <1>5, <1>8

-----------------------------------------------------------------------------
(* A page of the listing, and the end of the listing.                       *)

TargetSeen == listing.seen \cup TargetRows
TargetTotal == IF Len(account) > listing.total THEN Len(account) ELSE listing.total

\* What a listing has seen after the next page, and what it may see after that.
TargetAfter == {account[k] : k \in {j \in DOMAIN account : TargetNext < j}}

LEMMA TargetSeenOn ==
    ASSUME Target!TargetConstants, TargetInv
    PROVE  /\ TargetSeen \subseteq Instances /\ TargetTotal \in Nat /\ TargetTotal >= Len(account)
           /\ IsFiniteSet(TargetSeen) /\ Cardinality(TargetSeen) \in Nat
           /\ \A i \in TargetSeen : presentAt[i] >= turnAt
           /\ listing.moved = {} =>
                /\ TargetSeen = {account[k] : k \in {j \in DOMAIN account : j <= TargetNext}}
                /\ TargetTotal = Len(account)
           /\ "lost" \notin listing.moved => TargetSeen \subseteq Target!Holds
           /\ listing.moved = {"lost"} =>
                /\ Cardinality(TargetSeen) < TargetTotal
                /\ Cardinality(TargetSeen \cup TargetAfter) < TargetTotal
<1>1. /\ TargetTyped /\ TargetListing /\ account \in Seq(Instances)
      /\ Len(account) \in Nat /\ DOMAIN account = 1..Len(account)
  BY DEF TargetInv, TargetAccount
<1>2. listing.seen \subseteq Instances /\ listing.total \in Nat /\ listing.page \in Nat
  BY <1>1 DEF TargetTyped, TargetListings
<1>3. /\ TargetRead \in Nat /\ TargetNext \in Nat /\ TargetRead < TargetNext
      /\ (listing.page = 0 <=> TargetRead = 0)
  BY <1>1, TargetPaging
<1>4. TargetRows \subseteq Target!Holds /\ TargetRows \subseteq TargetUnread
  BY DEF TargetRows, TargetUnread, Target!Holds
<1>5. TargetSeen \subseteq Instances /\ \A i \in TargetSeen : presentAt[i] >= turnAt
  <2>1. \A i \in listing.seen : presentAt[i] >= turnAt
    BY <1>1 DEF TargetListing
  <2> QED
    BY <1>2, <1>4, <2>1, TargetHeld DEF TargetSeen
<1>6. TargetTotal \in Nat /\ TargetTotal >= Len(account) /\ TargetTotal >= listing.total
  BY <1>1, <1>2 DEF TargetTotal
<1>7. ASSUME listing.moved = {}
      PROVE  /\ TargetSeen = {account[k] : k \in {j \in DOMAIN account : j <= TargetNext}}
             /\ TargetTotal = Len(account)
  <2>1. /\ listing.seen = {account[k] : k \in {j \in DOMAIN account : j <= TargetRead}}
        /\ TargetTotal = Len(account)
    <3>1. CASE listing.page = 0
      <4>1. TargetRead = 0 /\ listing.seen = {} /\ listing.total = 0
        BY <3>1, <1>1, <1>3 DEF TargetListing
      <4>2. {j \in DOMAIN account : j <= 0} = {}
        BY <1>1
      <4>3. {account[k] : k \in {j \in DOMAIN account : j <= TargetRead}} = {}
        BY <4>1, <4>2
      <4> QED
        BY <4>1, <4>3, <1>1 DEF TargetTotal
    <3>2. CASE listing.page > 0
      BY <3>2, <1>1, <1>7 DEF TargetListing, TargetTotal
    <3> QED
      BY <3>1, <3>2, <1>2
  <2>2. \A j \in DOMAIN account :
          j <= TargetNext <=> (j <= TargetRead \/ (TargetRead < j /\ j <= TargetNext))
    BY <1>1, <1>3
  <2> QED
    BY <2>1, <2>2 DEF TargetSeen, TargetRows
<1>8. "lost" \notin listing.moved => TargetSeen \subseteq Target!Holds
  BY <1>1, <1>4 DEF TargetListing, TargetSeen
<1>9. /\ IsFiniteSet(listing.seen \cup TargetUnread)
      /\ Cardinality(listing.seen \cup TargetUnread) \in Nat
  BY TargetUnreadFinite
<1>10. /\ IsFiniteSet(TargetSeen) /\ Cardinality(TargetSeen) \in Nat
       /\ Cardinality(TargetSeen) <= Cardinality(listing.seen \cup TargetUnread)
  <2>1. TargetSeen \subseteq listing.seen \cup TargetUnread
    BY <1>4 DEF TargetSeen
  <2> QED
    BY <2>1, <1>9, FS_Subset, FS_CardinalityType
<1>11. TargetSeen \cup TargetAfter = listing.seen \cup TargetUnread
  <2>1. \A j \in DOMAIN account :
          TargetRead < j <=> (TargetNext < j \/ (TargetRead < j /\ j <= TargetNext))
    BY <1>1, <1>3
  <2>2. TargetUnread = TargetRows \cup TargetAfter
    BY <2>1 DEF TargetUnread, TargetRows, TargetAfter
  <2> QED
    BY <2>2 DEF TargetSeen
<1>12. ASSUME listing.moved = {"lost"}
       PROVE  /\ Cardinality(TargetSeen) < TargetTotal
              /\ Cardinality(TargetSeen \cup TargetAfter) < TargetTotal
  <2>1. Cardinality(listing.seen \cup TargetUnread) < listing.total
    BY <1>1, <1>12 DEF TargetListing
  <2>2. Cardinality(TargetSeen \cup TargetAfter) = Cardinality(listing.seen \cup TargetUnread)
    BY <1>11
  <2> DEFINE n == Cardinality(listing.seen \cup TargetUnread)
  <2>3. n \in Nat /\ n < TargetTotal /\ Cardinality(TargetSeen) <= n
    BY <2>1, <1>2, <1>6, <1>9, <1>10
  <2> HIDE DEF n
  <2>4. Cardinality(TargetSeen) < TargetTotal
    BY <2>3, <1>6, <1>10
  <2> QED
    BY <2>2, <2>3, <2>4 DEF n
<1> QED
  BY <1>5, <1>6, <1>7, <1>8, <1>10, <1>12

\* A listing that is not torn and not too small has seen what the account holds.
LEMMA TargetSeenAll ==
    ASSUME Target!TargetConstants, TargetInv, ~Target!Torn,
           ~(TargetTotal > Cardinality(TargetSeen))
    PROVE  TargetSeen = Target!Holds
<1>1. listing.moved \subseteq {"gained", "lost"}
  BY DEF TargetInv, TargetTyped, TargetListings
<1>2. listing.moved # {"lost"}
  BY TargetSeenOn
<1>3. "lost" \notin listing.moved
  BY <1>1, <1>2 DEF Target!Torn
<1>4. TargetSeen \in SUBSET Target!Holds /\ TargetTotal \in Nat /\ TargetTotal >= Len(account)
  BY <1>3, TargetSeenOn
<1> QED
  BY <1>4, TargetComplete DEF TargetInv

TargetListedTotal ==
  IF TargetTotal > Cardinality(TargetSeen) THEN TargetTotal ELSE Cardinality(TargetSeen)

LEMMA TargetPageIs ==
    ASSUME Target!TargetConstants, TargetInv, Target!Page
    PROVE  /\ readStage \in {"warm", "list"}
           /\ UNCHANGED <<Target!world, ops, made, turnAt, proposal, verdict, judgedAt>>
           /\ \/ Target!Listed(TargetSeen, TargetListedTotal)
              \/ /\ ~(Cardinality(TargetSeen) >= TargetTotal)
                 /\ listing' = [listing EXCEPT !.seen = TargetSeen, !.page = @ + 1,
                                               !.total = TargetTotal]
                 /\ UNCHANGED <<registry, evidence, readStage, reading>> /\ Target!Quiet
<1>1. {TargetPageRows[k] : k \in DOMAIN TargetPageRows} = TargetRows
  BY TargetPageSeen DEF TargetInv
<1>2. listing.seen \cup {TargetPageRows[k] : k \in DOMAIN TargetPageRows} = TargetSeen
  BY <1>1 DEF TargetSeen
<1>3. /\ readStage \in {"warm", "list"}
      /\ UNCHANGED <<Target!world, ops, made, turnAt, proposal, verdict, judgedAt>>
  BY DEF Target!Page
<1> DEFINE seen == listing.seen \cup {TargetPageRows[k] : k \in DOMAIN TargetPageRows}
<1>4. IF \/ Target!Cardinality(seen) >= TargetTotal \/ seen = listing.seen
         \/ listing.page + 1 = TargetPages
      THEN Target!Listed(seen, IF TargetTotal > Target!Cardinality(seen) THEN TargetTotal
                               ELSE Target!Cardinality(seen))
      ELSE /\ listing' = [listing EXCEPT !.seen = seen, !.page = @ + 1, !.total = TargetTotal]
           /\ UNCHANGED <<registry, evidence, readStage, reading>> /\ Target!Quiet
  BY DEF Target!Page, TargetPageRows, TargetTotal
<1>5. seen = TargetSeen
  BY <1>2
<1> HIDE DEF seen
<1>6. Target!Cardinality(seen) = Cardinality(TargetSeen)
  BY <1>5, TargetCardinality
<1> QED
  BY <1>3, <1>4, <1>5, <1>6, Zenon DEF TargetListedTotal

LEMMA TargetPageGoesOn ==
    ASSUME Target!TargetConstants, TargetInv, readStage \in {"warm", "list"},
           UNCHANGED <<Target!world, made, turnAt, proposal, verdict, judgedAt>>,
           ~(Cardinality(TargetSeen) >= TargetTotal),
           listing' = [listing EXCEPT !.seen = TargetSeen, !.page = @ + 1, !.total = TargetTotal],
           UNCHANGED <<registry, evidence, readStage, reading>>
    PROVE  TargetInv'
<1>1. /\ TargetAccount' /\ TargetMoves /\ TargetShrinks /\ TargetMade' /\ time' = time
      /\ account' = account /\ presentAt' = presentAt /\ (Target!Holds)' = Target!Holds
  BY TargetSame
<1>2. TargetTyped /\ listing \in TargetListings /\ listing.page \in Nat /\ Len(account) \in Nat
      /\ DOMAIN account = 1..Len(account)
  BY DEF TargetInv, TargetTyped, TargetListings, TargetAccount
<1>3. /\ listing'.seen = TargetSeen /\ listing'.page = listing.page + 1
      /\ listing'.total = TargetTotal /\ listing'.moved = listing.moved
      /\ listing' \in TargetListings
  <2>1. TargetSeen \subseteq Instances /\ TargetTotal \in Nat
    BY TargetSeenOn
  <2>2. listing' = [seen |-> TargetSeen, page |-> listing.page + 1, total |-> TargetTotal,
                    moved |-> listing.moved]
    BY <1>2 DEF TargetListings
  <2>3. listing.page + 1 \in Nat /\ listing.moved \in SUBSET {"gained", "lost"}
    BY <1>2 DEF TargetListings
  <2> QED
    BY <2>1, <2>2, <2>3 DEF TargetListings
<1>4. TargetRead' = TargetNext /\ TargetRead \in Nat /\ TargetNext \in Nat /\ TargetRead < TargetNext
  BY <1>2, <1>3, TargetPaging DEF TargetRead, TargetNext
<1>5. listing'.page > 0 /\ listing'.page # 0
  BY <1>2, <1>3
<1>6. listing.moved = {} => TargetNext < Len(account)
  <2> SUFFICES ASSUME listing.moved = {}, ~(TargetNext < Len(account))
               PROVE  FALSE
    OBVIOUS
  <2>1. \A j \in DOMAIN account : j <= TargetNext
    BY <1>2, <1>4
  <2>2. TargetSeen = Target!Holds /\ TargetTotal = Len(account)
    BY <2>1, TargetSeenOn DEF Target!Holds
  <2>3. Cardinality(TargetSeen) = Len(account)
    BY <2>2, TargetHolds, TargetCount DEF TargetInv, TargetAccount
  <2> QED
    BY <2>2, <2>3, <1>2
<1>7. TargetListing'
  <2>1. IsFiniteSet(listing'.seen) /\ \A i \in listing'.seen : presentAt'[i] >= turnAt'
    BY <1>1, <1>3, TargetSeenOn
  <2>2. listing'.moved = {} =>
          /\ listing'.seen = {account'[k] : k \in {j \in DOMAIN account' : j <= TargetRead'}}
          /\ listing'.total = Len(account') /\ TargetRead' < Len(account')
    BY <1>1, <1>3, <1>4, <1>6, TargetSeenOn
  <2>3. "lost" \notin listing'.moved => listing'.seen \subseteq (Target!Holds)'
    BY <1>1, <1>3, TargetSeenOn
  <2>4. listing'.moved = {"lost"} =>
          /\ listing'.total >= Len(account')
          /\ Cardinality(listing'.seen \cup TargetUnread') < listing'.total
    <3>1. TargetUnread' = TargetAfter
      BY <1>1, <1>4 DEF TargetUnread, TargetAfter
    <3> QED
      BY <3>1, <1>1, <1>3, TargetSeenOn
  <2> QED
    BY <2>1, <2>2, <2>3, <2>4, <1>5 DEF TargetListing
<1>8. TargetRegistry'
  BY <1>1, <1>2, TargetRegistryStays DEF TargetInv
<1>9. TargetWarm'
  <2>1. TargetWarm
    BY DEF TargetInv
  <2> QED
    BY <2>1 DEF TargetWarm
<1>10. TargetJudged'
  BY <1>1, TargetJudgedStays DEF TargetInv, TargetJudged
<1>11. TargetEvidenced'
  BY <1>1, TargetEvidenceStays DEF TargetInv
<1>12. TargetTyped'
  <2>1. TargetReading(reading)'
    BY <1>1, <1>2 DEF TargetTyped, TargetReading
  <2> QED
    BY <2>1, <1>1, <1>2, <1>3 DEF TargetTyped
<1> QED
  BY <1>1, <1>7, <1>8, <1>9, <1>10, <1>11, <1>12 DEF TargetInv

LEMMA TargetPageEnds ==
    ASSUME Target!TargetConstants, TargetInv, readStage \in {"warm", "list"},
           UNCHANGED <<Target!world, made, turnAt, proposal, verdict, judgedAt>>,
           Target!Listed(TargetSeen, TargetListedTotal)
    PROVE  TargetInv' /\ Target!TargetIsEvidenced'
<1> DEFINE r == Target!Synced(TargetSeen, TargetListedTotal)
           reason == Target!Reason(reading.refs, r, reading.now)
           ended == readStage' = "idle" /\ reading' = Target!NoRead
<1>1. /\ registry' = r /\ listing' = Target!NoList
      /\ \/ /\ readStage = "list" /\ evidence' = evidence \cup TargetSeen
            /\ ended /\ Target!Says({}, Target!NoInstance)
         \/ /\ readStage = "warm" /\ readStage' = "query" /\ evidence' = evidence /\ Target!Quiet
            /\ reading' = [reading EXCEPT !.ids = Target!Ids(reading.refs, r), !.reason = "none"]
         \/ /\ readStage = "warm" /\ reason # "none" /\ ended /\ evidence' = evidence
            /\ Target!Says(Target!Denied(reading.refs, r, reading.now), Target!NoInstance)
  BY DEF Target!Listed
<1>2. /\ TargetAccount' /\ TargetMoves /\ TargetShrinks /\ TargetMade' /\ time' = time
      /\ account' = account /\ presentAt' = presentAt /\ absentAt' = absentAt
      /\ (Target!Holds)' = Target!Holds
  BY TargetSame
<1>3. TargetTyped /\ verdict = "none" /\ TargetReading(reading)
  BY DEF TargetInv, TargetJudged, TargetTyped
<1>4. /\ TargetListedTotal \in Nat
      /\ ~(TargetListedTotal > Cardinality(TargetSeen)) => TargetSeen = Target!Holds \/ Target!Torn
  <2>1. TargetTotal \in Nat /\ Cardinality(TargetSeen) \in Nat
    BY TargetSeenOn
  <2> QED
    BY <2>1, TargetSeenAll DEF TargetListedTotal
<1>5. TargetRegistry' /\ registry' \in TargetRegistries /\ registry'.at <= time
  <2>1. UNCHANGED <<account, time, presentAt, absentAt, made>>
    BY <1>2
  <2> QED
    BY <2>1, <1>1, <1>2, <1>4, TargetSeenOn, TargetRegistryLoads DEF TargetInv
<1>6. /\ r \in TargetRegistries /\ r.known = TargetSeen /\ r.at = time
      /\ ~r.truncated => TargetSeen = Target!Holds \/ Target!Torn
      /\ Target!Torn => Target!Holds \ TargetSeen \subseteq r.wrong
  <2> DEFINE wrong == IF Target!Torn THEN (TargetSeen \ Target!Holds) \cup (Target!Holds \ TargetSeen)
                      ELSE {}
  <2>1. r = [known |-> TargetSeen, at |-> time, failed |-> FALSE,
             truncated |-> TargetListedTotal > Cardinality(TargetSeen), invalid |-> FALSE,
             wrong |-> wrong]
    BY TargetCardinality DEF Target!Synced
  <2>2. /\ r.truncated = (TargetListedTotal > Cardinality(TargetSeen)) /\ r.known = TargetSeen
        /\ r.at = time /\ r.wrong = wrong
    <3> HIDE DEF wrong
    <3> QED
      BY <2>1
  <2>3. Target!Torn => Target!Holds \ TargetSeen \subseteq wrong
    OBVIOUS
  <2> HIDE DEF r, wrong
  <2> QED
    BY <2>2, <2>3, <1>1, <1>4, <1>5, Zenon
<1>7. evidence' \subseteq Instances /\ \A i \in evidence' : presentAt[i] >= turnAt
  BY <1>1, TargetHeld, TargetSeenOn
<1>8. reason # "none" => Target!Failing(reading.refs, r, reading.now) # {}
  BY DEF Target!Reason
<1>9. ASSUME reason # "none", NEW i \in Target!Denied(reading.refs, r, reading.now)
      PROVE  \/ i \in registry'.wrong /\ Target!CanAssertAbsence(registry', time)
             \/ absentAt[i] >= time - Ttl /\ ~(i \in made /\ i \in Target!Holds)
  <2> HIDE DEF r, reason
  <2>1. i \in Instances /\ i \notin r.known /\ Target!CanAssertAbsence(r, reading.now)
    BY <1>3, <1>6, <1>8, <1>9, TargetDenied
  <2>2. ~r.truncated /\ Target!CanAssertAbsence(r, time)
    BY <2>1, <1>6, TargetHeld DEF Target!CanAssertAbsence, Target!Fresh
  <2>3. i \in r.wrong \/ i \in Instances \ Target!Holds
    BY <2>1, <2>2, <1>6
  <2> QED
    BY <2>2, <2>3, <1>1, TargetHeld
<1> HIDE DEF r, reason
<1>10. Target!TargetIsEvidenced'
  <2>1. CASE Target!Says({}, Target!NoInstance)
    BY <2>1, <1>3, TargetSays
  <2>2. CASE Target!Quiet
    BY <2>2, TargetQuiet
  <2>3. CASE reason # "none"
             /\ Target!Says(Target!Denied(reading.refs, r, reading.now), Target!NoInstance)
    BY <2>3, <1>3, <1>9, TargetSays
  <2> QED
    BY <1>1, <2>1, <2>2, <2>3
<1>11. CASE ended
  BY <1>1, <1>3, <1>5, <1>7, <1>10, <1>11, TargetRests
<1>12. CASE /\ readStage' = "query" /\ evidence' = evidence
            /\ reading' = [reading EXCEPT !.ids = Target!Ids(reading.refs, r), !.reason = "none"]
  <2>1. TargetListing' /\ listing' \in TargetListings
    BY <1>1, <1>2, TargetListingOver
  <2>2. TargetWarm' /\ TargetJudged'
    BY <1>3, <1>12, TargetJudgedOver DEF TargetWarm
  <2>3. TargetEvidenced'
    BY <1>2, <1>7 DEF TargetEvidenced
  <2>4. TargetReading(reading)'
    <3>1. Target!Ids(reading.refs, r) \subseteq Instances
      BY <1>3, <1>6, TargetIds
    <3>2. /\ reading'.refs = reading.refs /\ reading'.now = reading.now
          /\ reading'.ids \subseteq Instances
      <4>1. reading'.ids = Target!Ids(reading.refs, r) \/ reading'.ids = reading.ids
        BY <1>12
      <4>2. reading'.refs = reading.refs /\ reading'.now = reading.now
        BY <1>12
      <4> QED
        BY <4>1, <4>2, <3>1, <1>3 DEF TargetReading
    <3> QED
      BY <3>2, <1>2, <1>3 DEF TargetReading
  <2>5. TargetTyped'
    BY <2>1, <2>4, <1>2, <1>3, <1>5, <1>7, <1>12 DEF TargetTyped, TargetStages
  <2> QED
    BY <2>1, <2>2, <2>3, <2>5, <1>2, <1>5, <1>10 DEF TargetInv
<1> QED
  BY <1>1, <1>11, <1>12

LEMMA TargetPageKeeps ==
    ASSUME Target!TargetConstants, TargetInv, Target!Page
    PROVE  TargetInv' /\ Target!TargetIsEvidenced'
<1>1. /\ readStage \in {"warm", "list"}
      /\ UNCHANGED <<Target!world, made, turnAt, proposal, verdict, judgedAt>>
  BY TargetPageIs
<1>2. CASE Target!Listed(TargetSeen, TargetListedTotal)
  BY <1>1, <1>2, TargetPageEnds
<1>3. CASE /\ ~(Cardinality(TargetSeen) >= TargetTotal)
           /\ listing' = [listing EXCEPT !.seen = TargetSeen, !.page = @ + 1,
                                         !.total = TargetTotal]
           /\ UNCHANGED <<registry, evidence, readStage, reading>> /\ Target!Quiet
  BY <1>1, <1>3, TargetPageGoesOn, TargetQuiet
<1> QED
  BY <1>2, <1>3, TargetPageIs

-----------------------------------------------------------------------------
(* Writes.                                                                  *)

\* A step of a write that changes neither the account nor what is known of it.
LEMMA TargetWrites ==
    ASSUME Target!TargetConstants, TargetInv, readStage \notin {"warm", "list"},
           readStage' \in {"idle", "verify", "disk", "resolve", "card"},
           UNCHANGED <<Target!world, made, registry, turnAt, evidence, reading, listing>>,
           proposal'.host \in Instances \cup {Target!NoInstance},
           judgedAt' \in Nat, judgedAt' <= time, TargetJudged'
    PROVE  TargetInv'
<1>1. /\ TargetAccount' /\ TargetMoves /\ TargetShrinks /\ TargetMade' /\ time' = time
      /\ account' = account
  BY TargetSame
<1>2. TargetTyped
  BY DEF TargetInv
<1>3. TargetRegistry'
  BY <1>1, <1>2, TargetRegistryStays DEF TargetInv
<1>4. TargetListing' /\ listing' \in TargetListings
  BY <1>1, TargetListingOver DEF TargetInv, TargetListing
<1>5. TargetWarm'
  BY DEF TargetWarm
<1>6. TargetEvidenced'
  BY <1>1, TargetEvidenceStays DEF TargetInv
<1>7. TargetReading(reading)'
  BY <1>1, <1>2 DEF TargetTyped, TargetReading
<1>8. TargetTyped'
  BY <1>1, <1>2, <1>4, <1>7 DEF TargetTyped, TargetStages
<1> QED
  BY <1>1, <1>3, <1>4, <1>5, <1>6, <1>8 DEF TargetInv

LEMMA TargetStartWriteKeeps ==
    ASSUME Target!TargetConstants, TargetInv, NEW p \in Proposals, Target!StartWrite(p)
    PROVE  TargetInv' /\ Target!TargetIsEvidenced'
<1>1. /\ readStage = "idle" /\ proposal' = p /\ judgedAt' = time
      /\ verdict' = IF p.host = Target!NoInstance THEN "verified" ELSE Target!Known(p.host)
      /\ readStage' = IF verdict' = "unknown" THEN "verify"
                      ELSE IF p.disk # "none" THEN "disk" ELSE "resolve"
      /\ UNCHANGED <<Target!world, made, registry, turnAt, evidence, reading, listing>>
      /\ Target!Quiet
  BY DEF Target!StartWrite
<1>2. /\ TargetAccount' /\ TargetShrinks /\ time' = time /\ presentAt' = presentAt
      /\ absentAt' = absentAt /\ (Target!Holds)' = Target!Holds
  BY <1>1, TargetSame
<1>3. p.host \in Instances \cup {Target!NoInstance}
  BY DEF Target!TargetConstants
<1> DEFINE misled == p.host \in registry.wrong /\ Target!CanAssertAbsence(registry, time)
<1>4. ASSUME p.host # Target!NoInstance
      PROVE  /\ verdict' \in {"verified", "unknown", "notFound"} /\ p.host \in Instances
             /\ verdict' = "notFound" =>
                  \/ misled
                  \/ absentAt[p.host] >= time - Ttl /\ ~(p.host \in made /\ p.host \in Target!Holds)
             /\ verdict' = "verified" =>
                  misled \/ presentAt[p.host] >= time - Ttl \/ presentAt[p.host] >= turnAt
  <2>1. p.host \in Instances /\ verdict' = Target!Known(p.host)
    BY <1>1, <1>3, <1>4
  <2>2. p.host \in evidence => presentAt[p.host] >= turnAt
    BY TargetHeld
  <2>3. Target!CanAssertAbsence(registry, time) /\ p.host \notin registry.wrong =>
          /\ p.host \notin registry.known =>
               absentAt[p.host] >= time - Ttl /\ ~(p.host \in made /\ p.host \in Target!Holds)
          /\ p.host \in registry.known => presentAt[p.host] >= time - Ttl
    <3>1. time \in Nat /\ time <= time
      BY TargetHeld
    <3> QED
      BY <2>1, <3>1, TargetMayDeny
  <2> QED
    BY <2>1, <2>2, <2>3 DEF Target!Known
<1>5. p.host = Target!NoInstance => verdict' = "verified"
  BY <1>1
<1>6. TargetJudged'
  <2>1. /\ readStage' \in {"verify", "disk", "resolve"}
        /\ readStage' = "verify" => verdict' = "unknown"
        /\ readStage' \in {"disk", "resolve"} => verdict' # "unknown"
    BY <1>1
  <2>2. verdict' \in {"verified", "unknown", "notFound"}
    BY <1>4, <1>5
  <2>3. readStage' = "verify" => p.host \in Instances
    BY <1>4, <1>5, <2>1
  <2>4. verdict' = "notFound" =>
          /\ p.host \in Instances
          /\ \/ misled
             \/ absentAt'[p.host] >= judgedAt' - Ttl /\ p.host \notin made' \cap (Target!Holds)'
    <3> HIDE DEF misled
    <3> QED
      BY <1>1, <1>2, <1>4, <1>5
  <2>5. verdict' = "verified" /\ p.host # Target!NoInstance =>
          misled \/ presentAt'[p.host] >= judgedAt' - Ttl \/ presentAt'[p.host] >= turnAt'
    <3> HIDE DEF misled
    <3> QED
      BY <1>1, <1>2, <1>4
  <2>6. proposal'.host = p.host /\ TargetMisled' = misled
    BY <1>1 DEF TargetMisled
  <2> HIDE DEF misled
  <2> QED
    BY <2>1, <2>2, <2>3, <2>4, <2>5, <2>6 DEF TargetJudged
<1>7. TargetInv'
  <2>1. judgedAt' \in Nat /\ judgedAt' <= time
    BY <1>1, TargetHeld
  <2>2. proposal'.host \in Instances \cup {Target!NoInstance}
    BY <1>1, <1>3
  <2>3. /\ readStage \notin {"warm", "list"}
        /\ readStage' \in {"idle", "verify", "disk", "resolve", "card"}
    BY <1>1
  <2> QED
    BY <1>1, <1>6, <2>1, <2>2, <2>3, TargetWrites
<1> QED
  BY <1>1, <1>7, TargetQuiet

LEMMA TargetPointQueryKeeps ==
    ASSUME Target!TargetConstants, TargetInv, Target!PointQuery
    PROVE  TargetInv' /\ Target!TargetIsEvidenced'
<1>1. /\ readStage = "verify" /\ judgedAt' = time
      /\ readStage' \in {"disk", "resolve"}
      /\ UNCHANGED <<Target!world, made, registry, turnAt, evidence, reading, listing, proposal>>
      /\ Target!Quiet
  BY DEF Target!PointQuery
<1>2. \/ \E rows \in {Target!Holds, Target!Holds \cap {proposal.host}} :
           verdict' = IF proposal.host \in rows THEN "verified" ELSE "notFound"
      \/ verdict' = "unavailable"
  BY DEF Target!PointQuery
<1>3. proposal.host \in Instances
  BY <1>1 DEF TargetInv, TargetJudged
<1>4. /\ TargetAccount' /\ TargetShrinks /\ time' = time /\ presentAt' = presentAt
      /\ absentAt' = absentAt /\ (Target!Holds)' = Target!Holds
  BY <1>1, TargetSame
<1>5. /\ verdict' \in {"verified", "notFound", "unavailable"}
      /\ verdict' = "verified" => proposal.host \in Target!Holds
      /\ verdict' = "notFound" => proposal.host \in Instances \ Target!Holds
  BY <1>2, <1>3
<1>6. TargetJudged'
  <2>1. verdict' = "notFound" =>
          /\ absentAt'[proposal.host] >= judgedAt' - Ttl
          /\ proposal.host \notin made' \cap (Target!Holds)'
    BY <1>1, <1>4, <1>5, TargetHeld
  <2>2. verdict' = "verified" => presentAt'[proposal.host] >= judgedAt' - Ttl
    BY <1>1, <1>4, <1>5, TargetHeld
  <2> QED
    BY <2>1, <2>2, <1>1, <1>3, <1>5 DEF TargetJudged
<1>7. TargetInv'
  <2>1. judgedAt' \in Nat /\ judgedAt' <= time
    BY <1>1, TargetHeld
  <2>2. proposal'.host \in Instances \cup {Target!NoInstance}
    BY <1>1, <1>3
  <2>3. /\ readStage \notin {"warm", "list"}
        /\ readStage' \in {"idle", "verify", "disk", "resolve", "card"}
    BY <1>1
  <2> QED
    BY <1>1, <1>6, <2>1, <2>2, <2>3, TargetWrites
<1> QED
  BY <1>1, <1>7, TargetQuiet

LEMMA TargetQueryDiskKeeps ==
    ASSUME Target!TargetConstants, TargetInv, Target!QueryDisk
    PROVE  TargetInv' /\ Target!TargetIsEvidenced'
<1>1. /\ readStage = "disk" /\ readStage' = "resolve"
      /\ UNCHANGED <<Target!world, made, registry, turnAt, evidence, reading, listing, proposal,
                     judgedAt>>
      /\ Target!Quiet
  BY DEF Target!QueryDisk
<1>2. verdict' \in {verdict, "unavailable", "diskNotFound"}
  BY DEF Target!QueryDisk
<1>3. TargetTyped /\ TargetJudged /\ verdict \notin {"none", "unknown"}
  BY <1>1 DEF TargetInv, TargetJudged
<1>4. /\ TargetAccount' /\ TargetShrinks /\ time' = time /\ presentAt' = presentAt
      /\ absentAt' = absentAt /\ (Target!Holds)' = Target!Holds
  BY <1>1, TargetSame
<1>5. TargetJudged'
  <2>1. CASE verdict' = verdict
    <3>1. TargetMisled' = TargetMisled
      BY <1>1 DEF TargetMisled
    <3> QED
      BY <2>1, <3>1, <1>1, <1>3, <1>4 DEF TargetJudged
  <2>2. CASE verdict' \in {"unavailable", "diskNotFound"}
    BY <2>2, <1>1 DEF TargetJudged
  <2> QED
    BY <1>2, <2>1, <2>2
<1>6. TargetInv'
  <2>1. judgedAt' \in Nat /\ judgedAt' <= time
        /\ proposal'.host \in Instances \cup {Target!NoInstance}
    BY <1>1, <1>3 DEF TargetTyped
  <2>2. /\ readStage \notin {"warm", "list"}
        /\ readStage' \in {"idle", "verify", "disk", "resolve", "card"}
    BY <1>1
  <2> QED
    BY <1>1, <1>5, <2>1, <2>2, TargetWrites
<1> QED
  BY <1>1, <1>6, TargetQuiet

LEMMA TargetResolveKeeps ==
    ASSUME Target!TargetConstants, TargetInv, Target!Resolve
    PROVE  TargetInv' /\ Target!TargetIsEvidenced'
<1>1. /\ readStage = "resolve"
      /\ UNCHANGED <<Target!world, made, registry, turnAt, evidence, reading, listing>>
      /\ \/ /\ Target!ReadyForConfirmation \/ Target!ReadyForIntake
            /\ readStage' = "card" /\ Target!Says({}, proposal.host)
            /\ UNCHANGED <<proposal, verdict, judgedAt>>
         \/ /\ Target!Says(IF verdict = "notFound" THEN {proposal.host} ELSE {}, Target!NoInstance)
            /\ proposal' = Target!NoProposal /\ verdict' = "none" /\ judgedAt' = 0
            /\ readStage' = "idle"
  BY DEF Target!Resolve
<1>2. /\ TargetTyped /\ TargetJudged /\ verdict \notin {"none", "unknown"}
      /\ verdict \in {"none", "unknown", "verified", "notFound", "unavailable", "diskNotFound"}
  BY <1>1 DEF TargetInv, TargetJudged
<1>3. /\ TargetAccount' /\ TargetShrinks /\ time' = time /\ presentAt' = presentAt
      /\ absentAt' = absentAt /\ (Target!Holds)' = Target!Holds
  BY <1>1, TargetSame
<1>4. CASE /\ Target!ReadyForConfirmation \/ Target!ReadyForIntake
           /\ readStage' = "card" /\ Target!Says({}, proposal.host)
           /\ UNCHANGED <<proposal, verdict, judgedAt>>
  <2>1. verdict = "verified"
    BY <1>2, <1>4 DEF Target!ReadyForConfirmation, Target!ReadyForIntake, Target!Unavailable,
                      Target!Structural
  <2>2. proposal.host # Target!NoInstance =>
          \/ TargetMisled
          \/ presentAt[proposal.host] >= judgedAt - Ttl
          \/ presentAt[proposal.host] >= turnAt
    BY <2>1, <1>2 DEF TargetJudged
  <2>3. said'.absent = {} /\ said'.card = proposal.host /\ said'.at = judgedAt
    BY <1>4, <2>1 DEF Target!Says
  <2>4. Target!TargetIsEvidenced'
    BY <2>2, <2>3, <1>1, <1>3 DEF Target!TargetIsEvidenced, Target!Misled, TargetMisled
  <2>5. TargetJudged'
    <3>1. TargetMisled' = TargetMisled
      BY <1>1, <1>4 DEF TargetMisled
    <3> QED
      BY <3>1, <1>1, <1>2, <1>3, <1>4 DEF TargetJudged
  <2>6. TargetInv'
    <3>1. judgedAt' \in Nat /\ judgedAt' <= time
          /\ proposal'.host \in Instances \cup {Target!NoInstance}
      BY <1>2, <1>4 DEF TargetTyped
    <3>2. /\ readStage \notin {"warm", "list"}
          /\ readStage' \in {"idle", "verify", "disk", "resolve", "card"}
      BY <1>1, <1>4
    <3> QED
      BY <1>1, <2>5, <3>1, <3>2, TargetWrites
  <2> QED
    BY <2>4, <2>6
<1>5. CASE /\ Target!Says(IF verdict = "notFound" THEN {proposal.host} ELSE {}, Target!NoInstance)
           /\ proposal' = Target!NoProposal /\ verdict' = "none" /\ judgedAt' = 0
           /\ readStage' = "idle"
  <2>1. verdict = "notFound" =>
          \/ TargetMisled
          \/ /\ absentAt[proposal.host] >= judgedAt - Ttl
             /\ ~(proposal.host \in made /\ proposal.host \in Target!Holds)
    BY <1>2 DEF TargetJudged
  <2>2. /\ said'.absent = IF verdict = "notFound" THEN {proposal.host} ELSE {}
        /\ said'.card = Target!NoInstance /\ said'.at = judgedAt
        /\ said'.standing = made \cap Target!Holds
    BY <1>2, <1>5 DEF Target!Says
  <2>3. Target!TargetIsEvidenced'
    BY <2>1, <2>2, <1>1, <1>3 DEF Target!TargetIsEvidenced, Target!Misled, TargetMisled
  <2>4. TargetJudged'
    BY <1>5, TargetJudgedOver
  <2>5. TargetInv'
    <3>1. judgedAt' \in Nat /\ judgedAt' <= time
      BY <1>5, TargetHeld
    <3>2. proposal'.host \in Instances \cup {Target!NoInstance}
      BY <1>5 DEF Target!NoProposal
    <3>3. /\ readStage \notin {"warm", "list"}
          /\ readStage' \in {"idle", "verify", "disk", "resolve", "card"}
      BY <1>1, <1>5
    <3> QED
      BY <1>1, <2>4, <3>1, <3>2, <3>3, TargetWrites
  <2> QED
    BY <2>3, <2>5
<1> QED
  BY <1>1, <1>4, <1>5

LEMMA TargetDeclineKeeps ==
    ASSUME Target!TargetConstants, TargetInv, Target!Decline
    PROVE  TargetInv' /\ Target!TargetIsEvidenced'
<1>1. /\ readStage = "card" /\ readStage' = "idle" /\ proposal' = Target!NoProposal
      /\ verdict' = "none" /\ judgedAt' = 0 /\ Target!Quiet
      /\ UNCHANGED <<Target!world, made, registry, turnAt, evidence, reading, listing>>
  BY DEF Target!Decline, Target!Ends
<1>2. judgedAt' \in Nat /\ judgedAt' <= time /\ TargetJudged'
  BY <1>1, TargetHeld, TargetJudgedOver
<1>3. proposal'.host \in Instances \cup {Target!NoInstance}
  BY <1>1 DEF Target!NoProposal
<1>4. /\ readStage \notin {"warm", "list"}
      /\ readStage' \in {"idle", "verify", "disk", "resolve", "card"}
  BY <1>1
<1> QED
  BY <1>1, <1>2, <1>3, <1>4, TargetQuiet, TargetWrites

\* The end of a write that may have changed the account.
LEMMA TargetEnds ==
    ASSUME Target!TargetConstants, TargetInv, TargetAccount', TargetMade', TargetMoves, time' = time,
           readStage = "card", Target!Ends, Target!Quiet, TargetRegistry',
           registry' \in TargetRegistries, registry'.at <= time,
           UNCHANGED <<turnAt, evidence, reading, listing>>
    PROVE  TargetInv' /\ Target!TargetIsEvidenced'
<1>1. /\ readStage' = "idle" /\ proposal' = Target!NoProposal /\ verdict' = "none" /\ judgedAt' = 0
  BY DEF Target!Ends
<1>2. TargetTyped
  BY DEF TargetInv
<1>3. TargetListing' /\ listing' \in TargetListings
  BY TargetListingOver DEF TargetInv, TargetListing
<1>4. TargetWarm' /\ TargetJudged'
  BY <1>1, TargetJudgedOver DEF TargetWarm
<1>5. TargetEvidenced'
  BY <1>2, TargetEvidenceStays DEF TargetInv
<1>6. TargetTyped'
  <2>1. TargetReading(reading)'
    BY <1>2 DEF TargetTyped, TargetReading
  <2>2. judgedAt' \in Nat /\ judgedAt' <= time
    BY <1>1, TargetHeld
  <2> QED
    BY <2>1, <2>2, <1>1, <1>2, <1>3 DEF TargetTyped, TargetStages, Target!NoProposal
<1> QED
  BY <1>3, <1>4, <1>5, <1>6, TargetQuiet DEF TargetInv

\* A registry that a write ends the life of may say less, never more.
LEMMA TargetRegistryEnds ==
    ASSUME TargetInv, TargetAccount', TargetMoves, registry' = [registry EXCEPT !.invalid = TRUE]
    PROVE  TargetRegistry' /\ registry' \in TargetRegistries /\ registry'.at <= time
<1>1. TargetTyped /\ TargetRegistry
  BY DEF TargetInv
<1>2. /\ registry'.known = registry.known /\ registry'.at = registry.at
      /\ registry'.failed = registry.failed /\ registry'.truncated = registry.truncated
      /\ registry'.wrong = registry.wrong /\ registry'.invalid = TRUE /\ registry' \in TargetRegistries /\ registry'.at <= time
  BY <1>1 DEF TargetTyped, TargetRegistries
<1>3. registry.at \in Int
  BY <1>1 DEF TargetTyped, TargetRegistries
<1>4. \A i \in Instances : /\ presentAt[i] \in Int /\ presentAt'[i] \in Int
                           /\ absentAt[i] \in Int /\ absentAt'[i] \in Int
                           /\ presentAt'[i] >= presentAt[i] /\ absentAt'[i] >= absentAt[i]
  BY DEF TargetInv, TargetAccount, TargetMoves
<1>5. ASSUME registry.at # Target!Never, ~registry.failed, ~registry.truncated,
             NEW i \in Instances \ registry.wrong
      PROVE  /\ i \in registry.known => presentAt'[i] >= registry.at
             /\ i \notin registry.known => absentAt'[i] >= registry.at
  <2>1. /\ i \in registry.known => presentAt[i] >= registry.at
        /\ i \notin registry.known => absentAt[i] >= registry.at
    BY <1>1, <1>5 DEF TargetRegistry
  <2> QED
    BY <2>1, <1>3, <1>4
<1>6. TargetRegistry'
  BY <1>2, <1>5 DEF TargetRegistry
<1> QED
  BY <1>2, <1>6

LEMMA TargetCommitKeeps ==
    ASSUME Target!TargetConstants, TargetInv, Target!Commit
    PROVE  TargetInv' /\ Target!TargetIsEvidenced'
<1>1. /\ readStage = "card" /\ Target!Ends /\ Target!Quiet
      /\ registry' = [registry EXCEPT !.invalid = TRUE] /\ time' = time
      /\ UNCHANGED <<turnAt, evidence, reading, listing>>
  BY DEF Target!Commit
<1>2. \/ \E i \in Instances : /\ Target!Unused(i) /\ Target!Becomes(<<i>> \o account)
                              /\ made' = made \cup {i}
      \/ UNCHANGED <<account, presentAt, absentAt, made>>
  BY DEF Target!Commit
<1>3. TargetAccount' /\ TargetMade' /\ TargetMoves
  <2>1. ASSUME NEW i \in Instances, Target!Unused(i), Target!Becomes(<<i>> \o account),
               made' = made \cup {i}
        PROVE  TargetAccount' /\ TargetMade' /\ TargetMoves
    <3>1. TargetAccount' /\ TargetMoves /\ (Target!Holds)' = Target!Holds \cup {i}
      BY <2>1, <1>1, TargetCreates DEF TargetInv
    <3>2. presentAt'[i] = time' /\ time' \in Nat
      BY <2>1, <3>1 DEF TargetAccount
    <3>3. \A j \in made : j \in Instances /\ presentAt'[j] >= 0
      <4>1. \A j \in made : j \in Instances /\ presentAt[j] >= 0
        BY DEF TargetInv, TargetMade
      <4>2. \A j \in Instances : /\ presentAt[j] \in Int /\ presentAt'[j] \in Int
                                 /\ presentAt'[j] >= presentAt[j]
        BY <3>1 DEF TargetInv, TargetAccount, TargetMoves
      <4> QED
        BY <4>1, <4>2
    <3> QED
      BY <2>1, <3>1, <3>2, <3>3 DEF TargetMade
  <2>2. CASE UNCHANGED <<account, presentAt, absentAt, made>>
    <3>1. TargetAccount' /\ TargetMoves
      BY <2>2, <1>1, TargetStays DEF TargetInv
    <3> QED
      BY <2>2, <3>1, TargetMadeStays DEF TargetInv
  <2> QED
    BY <1>2, <2>1, <2>2
<1>4. TargetRegistry' /\ registry' \in TargetRegistries /\ registry'.at <= time
  BY <1>1, <1>3, TargetRegistryEnds
<1> QED
  BY <1>1, <1>3, <1>4, TargetEnds

LEMMA TargetFailKeeps ==
    ASSUME Target!TargetConstants, TargetInv, Target!Fail
    PROVE  TargetInv' /\ Target!TargetIsEvidenced'
<1>1. /\ readStage = "card" /\ Target!Ends /\ Target!Quiet /\ time' = time /\ made' = made
      /\ UNCHANGED <<turnAt, evidence, reading, listing>>
      /\ registry' = registry \/ registry' = [registry EXCEPT !.invalid = TRUE]
      /\ \/ \E i \in Instances : Target!Unused(i) /\ Target!Becomes(<<i>> \o account)
         \/ UNCHANGED <<account, presentAt, absentAt>>
  BY DEF Target!Fail
<1>2. TargetAccount' /\ TargetMoves
  <2>1. ASSUME NEW i \in Instances, Target!Unused(i), Target!Becomes(<<i>> \o account)
        PROVE  TargetAccount' /\ TargetMoves
    BY <2>1, <1>1, TargetCreates DEF TargetInv
  <2>2. CASE UNCHANGED <<account, presentAt, absentAt>>
    BY <2>2, <1>1, TargetStays DEF TargetInv
  <2> QED
    BY <1>1, <2>1, <2>2
<1>3. TargetMade' /\ TargetShrinks
  BY <1>1, <1>2, TargetMadeStays DEF TargetInv
<1>4. TargetTyped /\ TargetRegistry
  BY DEF TargetInv
<1>5. TargetRegistry' /\ registry' \in TargetRegistries /\ registry'.at <= time
  <2>1. CASE registry' = registry
    BY <2>1, <1>2, <1>3, <1>4, TargetRegistryStays DEF TargetInv, TargetTyped
  <2>2. CASE registry' = [registry EXCEPT !.invalid = TRUE]
    BY <2>2, <1>2, TargetRegistryEnds
  <2> QED
    BY <1>1, <2>1, <2>2
<1> QED
  BY <1>1, <1>2, <1>3, <1>5, TargetEnds

-----------------------------------------------------------------------------

LEMMA TargetStarts ==
    ASSUME Target!TargetConstants, Target!Init
    PROVE  TargetInv /\ Target!TargetIsEvidenced
<1>1. /\ account \in Accounts /\ time = 0
      /\ presentAt = [i \in Instances |-> IF i \in Target!Holds THEN 0 ELSE -1]
      /\ absentAt  = [i \in Instances |-> IF i \in Target!Holds THEN -1 ELSE 0]
      /\ made = {} /\ registry = Target!Cold /\ turnAt = 0 /\ evidence = {} /\ readStage = "idle"
      /\ reading = Target!NoRead /\ listing = Target!NoList /\ proposal = Target!NoProposal
      /\ verdict = "none" /\ judgedAt = 0 /\ said = Target!Nothing
  BY DEF Target!Init, Target!Never
<1>2. account \in Seq(Instances) /\ TargetUnique(account)
  BY <1>1 DEF Target!TargetConstants, TargetUnique
<1>3. TargetAccount
  BY <1>1, <1>2 DEF TargetAccount
<1>4. TargetMade /\ TargetEvidenced /\ TargetWarm /\ TargetJudged
  BY <1>1 DEF TargetMade, TargetEvidenced, TargetWarm, TargetJudged
<1>5. TargetRegistry
  BY <1>1 DEF TargetRegistry, Target!Cold
<1>6. TargetListing /\ listing \in TargetListings
  <2>1. /\ listing.seen = {} /\ listing.page = 0 /\ listing.total = 0 /\ listing.moved = {}
        /\ listing \in TargetListings
    BY <1>1 DEF Target!NoList, TargetListings
  <2>2. IsFiniteSet(listing.seen)
    BY <2>1, FS_EmptySet
  <2>3. ~(listing.page > 0) /\ listing.moved # {"lost"} /\ \A i \in listing.seen : FALSE
    BY <2>1
  <2> QED
    BY <2>1, <2>2, <2>3, <1>1 DEF TargetListing
<1>7. TargetTyped
  <2>1. TargetReading(reading)
    BY <1>1 DEF TargetReading, Target!NoRead
  <2>2. registry \in TargetRegistries /\ registry.at <= time
    BY <1>1 DEF TargetRegistries, Target!Cold, Target!Never
  <2> QED
    BY <2>1, <2>2, <1>1, <1>6 DEF TargetTyped, TargetStages, Target!NoProposal
<1>8. Target!TargetIsEvidenced
  BY <1>1 DEF Target!TargetIsEvidenced, Target!Nothing, Target!NoInstance
<1> QED
  BY <1>3, <1>4, <1>5, <1>6, <1>7, <1>8 DEF TargetInv

LEMMA TargetStep ==
    ASSUME Target!TargetConstants, TargetInv, Target!TargetIsEvidenced, [Target!Next]_(Target!vars)
    PROVE  TargetInv' /\ Target!TargetIsEvidenced'
<1>1. CASE Target!Tick
  BY <1>1, TargetTickKeeps
<1>2. CASE Target!Elsewhere
  BY <1>2, TargetElsewhereKeeps
<1>3. CASE Target!NewTurn
  BY <1>3, TargetNewTurnKeeps
<1>4. CASE Target!LoadRegistry
  BY <1>4, TargetLoadRegistryKeeps
<1>5. ASSUME NEW refs \in Reads, Target!StartRead(refs)
      PROVE  TargetInv' /\ Target!TargetIsEvidenced'
  BY <1>5, TargetStartReadKeeps
<1>6. CASE Target!Page
  BY <1>6, TargetPageKeeps
<1>7. CASE Target!PageFails
  BY <1>7, TargetPageFailsKeeps
<1>8. CASE Target!Query
  BY <1>8, TargetQueryKeeps
<1>9. CASE Target!QueryFails
  BY <1>9, TargetQueryFailsKeeps
<1>10. ASSUME NEW p \in Proposals, Target!StartWrite(p)
       PROVE  TargetInv' /\ Target!TargetIsEvidenced'
  BY <1>10, TargetStartWriteKeeps
<1>11. CASE Target!PointQuery
  BY <1>11, TargetPointQueryKeeps
<1>12. CASE Target!QueryDisk
  BY <1>12, TargetQueryDiskKeeps
<1>13. CASE Target!Resolve
  BY <1>13, TargetResolveKeeps
<1>14. CASE Target!Decline
  BY <1>14, TargetDeclineKeeps
<1>15. CASE Target!Commit
  BY <1>15, TargetCommitKeeps
<1>16. CASE Target!Fail
  BY <1>16, TargetFailKeeps
<1>17. CASE UNCHANGED Target!vars
  <2>1. UNCHANGED <<Target!world, made, turnAt, evidence, registry, readStage, reading, listing,
                    proposal, verdict, judgedAt, said>>
    BY <1>17 DEF Target!vars, Target!world
  <2>2. /\ TargetAccount' /\ TargetMoves /\ TargetShrinks /\ TargetMade' /\ time' = time
        /\ account' = account /\ presentAt' = presentAt /\ absentAt' = absentAt
        /\ (Target!Holds)' = Target!Holds
    BY <2>1, TargetSame
  <2>3. TargetRegistry' /\ TargetEvidenced' /\ TargetJudged' /\ TargetListing' /\ TargetWarm'
    BY <2>1, <2>2, TargetRegistryStays, TargetEvidenceStays, TargetJudgedStays
       DEF TargetInv, TargetListing, TargetRead, TargetUnread, TargetWarm, TargetJudged
  <2>4. TargetTyped'
    BY <2>1, <2>2 DEF TargetInv, TargetTyped, TargetReading
  <2>5. Target!TargetIsEvidenced'
    BY <2>1, <2>2 DEF Target!TargetIsEvidenced, Target!Misled
  <2> QED
    BY <2>2, <2>3, <2>4, <2>5 DEF TargetInv
<1> QED
  BY <1>1, <1>2, <1>3, <1>4, <1>5, <1>6, <1>7, <1>8, <1>9, <1>10, <1>11, <1>12, <1>13, <1>14,
     <1>15, <1>16, <1>17 DEF Target!Next

\* Unless a listing was torn, an instance is only denied by a session that could know it missing
\* within the life of its registry and that did not create it, and a card only names one seen
\* within that life or during the turn (registry.go, target_evidence.go).
THEOREM TargetsEvidenced ==
    ASSUME Target!TargetConstants
    PROVE  Target!Spec => []Target!TargetIsEvidenced
<1>1. Target!Init => TargetInv /\ Target!TargetIsEvidenced
  BY TargetStarts
<1>2. TargetInv /\ Target!TargetIsEvidenced /\ [Target!Next]_(Target!vars)
        => (TargetInv /\ Target!TargetIsEvidenced)'
  BY TargetStep
<1> QED
  BY <1>1, <1>2, PTL DEF Target!Spec

LEMMA TargetAlone ==
    /\ ActionsInit => Target!Init
    /\ [ActionsNext]_allVars => [Target!Next]_(Target!vars)
<1>1. ActionsInit => Target!Init
  BY DEF ActionsInit
<1>2. ActionsNext \/ UNCHANGED allVars => Target!Next \/ UNCHANGED targetVars
  BY DEF ActionsNext, Step, allVars, partVars
<1>3. UNCHANGED targetVars => UNCHANGED Target!vars
  BY DEF targetVars, Target!vars
<1> QED
  BY <1>1, <1>2, <1>3

\* No instance is denied, and no card names one, without evidence, be it that of a listing that
\* was torn (target_evidence.go, describe_instances.go).
THEOREM TargetsStayEvidenced == ActionsSpec => []TargetIsEvidenced
<1>1. ActionsSpec => Target!Spec
  BY TargetAlone, PTL DEF ActionsSpec, Target!Spec
<1>2. Target!Spec => []Target!TargetIsEvidenced
  BY ActionsAssumption, TargetsEvidenced DEF ActionsAssumption
<1> QED
  BY <1>1, <1>2, PTL DEF TargetIsEvidenced

-----------------------------------------------------------------------------
(* The stock read, for any models, zones, catalogues and inventories.  The   *)
(* invariant: what was read is what the upstream may answer (StockTyped),    *)
(* and a read that came to its checks was asked about zones that are known,  *)
(* checks the rows of those zones only, and has said nothing yet             *)
(* (StockAsked).  The rest is about the operators that render the reply:     *)
(* every claim they can make is grounded in the state they are applied in,   *)
(* and the step that replies changes nothing else.                           *)

StockTyped ==
  /\ wish \in StockRequests
  /\ offers \in StockCatalogs \cup {<<>>}
  /\ listed \in StockZoneLists \cup {{}}
  /\ replies \in [official : StockInventories \cup {Stock!NoAnswer},
                  pod : StockInventories \cup {Stock!NoAnswer}]
  /\ checks \subseteq [model : StockModels, zone : StockZones, result : Stock!Results]

StockAsked ==
  /\ stockStage # "done" => reply = Stock!Silent
  /\ stockStage \in {"image", "check"} => left \subseteq Stock!InZones /\ Stock!Unmatched = {}
  /\ \A c \in checks : wish.zones = {} \/ c.zone \in wish.zones
  /\ stockStage \in {"official", "pod", "inventoried"} /\ Stock!Entries # {}
       => Stock!Unmatched = {}

StockInv == StockTyped /\ StockAsked /\ Stock!NoInventedShortage

StockSound(S) == \A c \in S : Stock!Grounded(c) /\ Stock!Scoped(c)

LEMMA LeastPlace ==
    ASSUME NEW S \in SUBSET Nat, S # {}
    PROVE  \E m \in S : \A k \in S : m <= k
<1> DEFINE R == {ss \in Nat \X Nat : ss[1] < ss[2]}
<1>1. IsWellFoundedOn(R, Nat)
  BY NatLessThanWellFounded DEF OpToRel
<1>2. PICK m \in S : \A k \in S : ~(<<k, m>> \in R)
  <2> HIDE DEF R
  <2> QED
    BY <1>1, WFMin
<1>3. \A k \in S : ~(k < m)
  BY <1>2
<1> QED
  BY <1>3

\* The rows of a catalogue.
LEMMA StockRows ==
    ASSUME Stock!StockConstants, StockTyped
    PROVE  /\ DOMAIN offers \subseteq Nat /\ 0 \notin DOMAIN offers
           /\ \A i \in DOMAIN offers : \A j \in Nat : j >= 1 /\ j <= i => j \in DOMAIN offers
           /\ \A i \in DOMAIN offers : /\ offers[i] = <<offers[i][1], offers[i][2], offers[i][3]>>
                                       /\ offers[i][1] \in StockModels
                                       /\ offers[i][2] \in StockZones \cup {Stock!NoZone}
                                       /\ offers[i][3] \in Stock!Statuses
<1> DEFINE Row == StockModels \X (StockZones \cup {Stock!NoZone}) \X Stock!Statuses
<1>1. offers \in Seq(Row)
  <2> <<>> \in Seq(Row)
    OBVIOUS
  <2> QED
    BY DEF StockTyped, Stock!StockConstants
<1>2. Len(offers) \in Nat /\ DOMAIN offers = 1..Len(offers)
  BY <1>1
<1>3. ASSUME NEW i \in DOMAIN offers
      PROVE  offers[i] \in Row
  BY <1>1, <1>2
<1> QED
  BY <1>2, <1>3

\* Among rows there is a first.
LEMMA StockFirst ==
    ASSUME Stock!StockConstants, StockTyped, NEW S \in SUBSET DOMAIN offers, S # {}
    PROVE  \E i \in S : \A j \in S : i <= j
BY StockRows, LeastPlace

\* The listing shows a model with a status of the catalogue.
LEMMA StockStatus ==
    ASSUME Stock!StockConstants, StockTyped, NEW m \in Stock!Names
    PROVE  Stock!FirstStatus(m) \in Stock!Statuses
<1> DEFINE S == {i \in DOMAIN offers : offers[i][1] = m}
           P(i) == offers[i][1] = m /\ \A j \in 1..(i - 1) : offers[j][1] # m
<1>1. S # {}
  BY DEF Stock!Names
<1>2. PICK i \in S : \A j \in S : i <= j
  BY <1>1, StockFirst
<1>3. \A j \in 1..(i - 1) : offers[j][1] # m
  <2>1. i \in Nat
    BY StockRows
  <2>2. ASSUME NEW j \in 1..(i - 1), offers[j][1] = m PROVE FALSE
    <3>1. j \in DOMAIN offers
      BY <2>1, StockRows
    <3> QED
      BY <1>2, <2>1, <2>2, <3>1
  <2> QED
    BY <2>2
<1>4. i \in DOMAIN offers /\ P(i)
  BY <1>3
<1>5. (CHOOSE k \in DOMAIN offers : P(k)) \in DOMAIN offers
  BY <1>4
<1> QED
  BY <1>5, StockRows DEF Stock!FirstStatus

\* A model's first row is one of those that are checked.
LEMMA StockFirstZone ==
    ASSUME Stock!StockConstants, StockTyped, NEW k \in Stock!InZones
    PROVE  wish.zones = {} \/ Stock!FirstZoneOf(offers[k][1]) \in wish.zones
<1> DEFINE m == offers[k][1]
           S == {i \in Stock!InZones : offers[i][1] = m}
           P(i) == offers[i][1] = m /\ \A j \in Stock!InZones : offers[j][1] = m => i <= j
<1>1. S # {} /\ S \subseteq DOMAIN offers
  BY DEF Stock!InZones, Stock!Entries
<1>2. PICK i \in S : \A j \in S : i <= j
  BY <1>1, StockFirst
<1>3. (CHOOSE i1 \in Stock!InZones : P(i1)) \in Stock!InZones
  BY <1>2
<1>4. Stock!FirstZoneOf(m) = offers[CHOOSE i1 \in Stock!InZones : P(i1)][2]
  BY DEF Stock!FirstZoneOf
<1> QED
  BY <1>3, <1>4 DEF Stock!InZones

\* The answer of the backend that owns a zone.
StockOwner(z) == IF z \in StockPods THEN replies.pod ELSE replies.official

\* A row of the merged inventory is one of the owner's answer, about a listed zone.
LEMMA StockMerged ==
    ASSUME Stock!StockConstants, StockTyped, NEW z, NEW m, NEW p \in Stock!Pools
    PROVE  /\ Stock!Present(p, z, m) <=> z \in listed /\ <<p, z, m>> \in DOMAIN StockOwner(z).rows
           /\ Stock!Present(p, z, m) => /\ Stock!Cards(p, z, m) = StockOwner(z).rows[<<p, z, m>>]
           /\ Stock!Cards(p, z, m) \in Nat
<1> DEFINE c == <<p, z, m>>
           o == Stock!Merge(replies.official, StockZones \ StockPods)
           d == Stock!Merge(replies.pod, StockPods)
<1>1. listed \subseteq StockZones
  BY DEF StockTyped, Stock!StockConstants
<1>2. ASSUME NEW a \in StockInventories \cup {Stock!NoAnswer}
      PROVE  /\ ~a.came => DOMAIN a.rows = {}
             /\ \A e \in DOMAIN a.rows : a.rows[e] \in Nat
  <2>1. CASE a = Stock!NoAnswer
    BY <2>1 DEF Stock!NoAnswer
  <2>2. CASE a \in StockInventories
    BY <2>2 DEF Stock!StockConstants
  <2> QED
    BY <2>1, <2>2
<1>3. /\ replies.official \in StockInventories \cup {Stock!NoAnswer}
      /\ replies.pod \in StockInventories \cup {Stock!NoAnswer}
  BY DEF StockTyped
<1>4. /\ DOMAIN o = {e \in DOMAIN replies.official.rows : e[2] \in (StockZones \ StockPods) \cap listed}
      /\ \A e \in DOMAIN o : o[e] = replies.official.rows[e]
      /\ DOMAIN d = {e \in DOMAIN replies.pod.rows : e[2] \in StockPods \cap listed}
      /\ \A e \in DOMAIN d : d[e] = replies.pod.rows[e]
  BY DEF Stock!Merge
<1>5. /\ c \in DOMAIN o <=> c \in DOMAIN replies.official.rows /\ z \in listed /\ z \notin StockPods
      /\ c \in DOMAIN o => o[c] = replies.official.rows[c]
      /\ c \in DOMAIN d <=> c \in DOMAIN replies.pod.rows /\ z \in listed /\ z \in StockPods
      /\ c \in DOMAIN d => d[c] = replies.pod.rows[c]
  <2> HIDE DEF o, d
  <2> QED
    BY <1>1, <1>4
<1>6. /\ DOMAIN Stock!Counts = DOMAIN o \cup DOMAIN d
      /\ \A e \in DOMAIN o \cup DOMAIN d : Stock!Counts[e] = IF e \in DOMAIN d THEN d[e] ELSE o[e]
  BY DEF Stock!Counts
<1>7. /\ c \in DOMAIN Stock!Counts <=> z \in listed /\ c \in DOMAIN StockOwner(z).rows
      /\ c \in DOMAIN Stock!Counts => Stock!Counts[c] = StockOwner(z).rows[c]
  <2> HIDE DEF o, d, c
  <2> QED
    BY <1>5, <1>6 DEF StockOwner
<1>8. c \in DOMAIN StockOwner(z).rows => StockOwner(z).came /\ StockOwner(z).rows[c] \in Nat
  BY <1>2, <1>3 DEF StockOwner
<1>9. Stock!Answered(z) <=> z \in listed /\ StockOwner(z).came
  BY DEF Stock!Answered, StockOwner
<1>10. Stock!Present(p, z, m) <=> z \in listed /\ c \in DOMAIN StockOwner(z).rows
  BY <1>7, <1>8, <1>9 DEF Stock!Present
<1>11. Stock!Present(p, z, m) => Stock!Cards(p, z, m) = StockOwner(z).rows[c]
  BY <1>7, <1>10 DEF Stock!Cards
<1>12. Stock!Cards(p, z, m) \in Nat
  <2>1. CASE Stock!Present(p, z, m)
    BY <2>1, <1>8, <1>10, <1>11
  <2>2. CASE ~Stock!Present(p, z, m)
    BY <2>2 DEF Stock!Cards
  <2> QED
    BY <2>1, <2>2
<1> QED
  BY <1>10, <1>11, <1>12

\* What was told of a listed zone is what the merged inventory has.
LEMMA StockTold ==
    ASSUME Stock!StockConstants, StockTyped, NEW z \in listed, NEW m, NEW t
    PROVE  t \in Stock!Told(z, m)
             <=> \E p \in Stock!Pools : Stock!Present(p, z, m) /\ t = <<p, Stock!Cards(p, z, m)>>
<1> DEFINE Q == {q \in Stock!Pools : <<q, z, m>> \in DOMAIN StockOwner(z).rows}
<1>1. Stock!Told(z, m) = {<<p, StockOwner(z).rows[<<p, z, m>>]>> : p \in Q}
  BY DEF Stock!Told, StockOwner
<1>2. \A p \in Stock!Pools : /\ p \in Q <=> Stock!Present(p, z, m)
                             /\ p \in Q => Stock!Cards(p, z, m) = StockOwner(z).rows[<<p, z, m>>]
  BY StockMerged
<1>3. t \in Stock!Told(z, m) <=> \E p \in Q : t = <<p, StockOwner(z).rows[<<p, z, m>>]>>
  BY <1>1
<1> HIDE DEF Q
<1>4. Q \subseteq Stock!Pools
  BY DEF Q
<1> QED
  BY <1>2, <1>3, <1>4

\* Kinds of claims that say nothing of the inventory, the checks or the catalogue.
StockPlain == {"down", "noRow", "unconfirmed", "incomplete", "creatable", "onSale",
               "sampleNegative"} \cup Stock!Statuses

LEMMA StockPlainClaim ==
    ASSUME NEW kind \in StockPlain, NEW m, NEW z, NEW p
    PROVE  Stock!Grounded(Stock!Claim(kind, m, z, p))
BY DEF StockPlain, Stock!Statuses, Stock!Grounded, Stock!Claim

\* A number, or a zero, about one pool of a listed zone.
LEMMA StockPoolClaim ==
    ASSUME Stock!StockConstants, StockTyped, NEW z, NEW m, NEW p \in Stock!Pools,
           Stock!Present(p, z, m)
    PROVE  Stock!Grounded(Stock!Claim(IF Stock!Cards(p, z, m) = 0 THEN "zero" ELSE "cards", m, z, p))
<1> DEFINE c == Stock!Claim(IF Stock!Cards(p, z, m) = 0 THEN "zero" ELSE "cards", m, z, p)
           t == <<p, Stock!Cards(p, z, m)>>
<1>1. /\ c.model = m /\ c.zone = z /\ c.pool = p
      /\ c.kind = IF Stock!Cards(p, z, m) = 0 THEN "zero" ELSE "cards"
  BY DEF Stock!Claim
<1>2. z \in listed /\ z \in StockZones /\ z # Stock!NoZone
  BY StockMerged DEF StockTyped, Stock!StockConstants
<1>3. Stock!About(c) = Stock!Told(z, m)
  BY <1>1, <1>2 DEF Stock!About
<1>4. p # "any"
  BY DEF Stock!Pools
<1> HIDE DEF c
<1>5. t \in Stock!Told(z, m)
  BY <1>2, StockTold
<1>6. t \in Stock!OfPool(c)
  BY <1>1, <1>3, <1>5 DEF Stock!OfPool
<1>7. ASSUME NEW u \in Stock!OfPool(c) PROVE u = t
  <2>1. u \in Stock!Told(z, m) /\ p \in {u[1], "any"}
    BY <1>1, <1>3, <1>7 DEF Stock!OfPool
  <2>2. PICK q \in Stock!Pools : u = <<q, Stock!Cards(q, z, m)>>
    BY <1>2, <2>1, StockTold
  <2> QED
    BY <1>4, <2>1, <2>2
<1>8. Stock!Cards(p, z, m) \in Nat
  BY StockMerged
<1>9. /\ Stock!Cards(p, z, m) = 0 => c.kind = "zero" /\ \A u \in Stock!OfPool(c) : u[2] = 0
      /\ Stock!Cards(p, z, m) # 0 => c.kind = "cards" /\ t[2] > 0
  BY <1>1, <1>7, <1>8
<1>10. Stock!Grounded(c)
  BY <1>6, <1>9 DEF Stock!Grounded
<1> QED
  BY <1>10 DEF c

\* Numbers of both pools of a listed zone.
LEMMA StockZoneClaim ==
    ASSUME Stock!StockConstants, StockTyped, NEW z, NEW m,
           \E p \in Stock!Pools : Stock!Present(p, z, m)
    PROVE  Stock!Grounded(Stock!Claim(Stock!Numbers(z, m), m, z, "any"))
<1> DEFINE c == Stock!Claim(Stock!Numbers(z, m), m, z, "any")
           e == Stock!Cards("exclusive", z, m)
           s == Stock!Cards("spot", z, m)
<1>1. PICK p \in Stock!Pools : Stock!Present(p, z, m)
  OBVIOUS
<1>2. c.model = m /\ c.zone = z /\ c.pool = "any" /\ c.kind = Stock!Numbers(z, m)
  BY DEF Stock!Claim
<1>3. z \in listed /\ z \in StockZones /\ z # Stock!NoZone
  BY <1>1, StockMerged DEF StockTyped, Stock!StockConstants
<1>4. Stock!About(c) = Stock!Told(z, m)
  BY <1>2, <1>3 DEF Stock!About
<1> SUFFICES Stock!Grounded(c)
  OBVIOUS
<1> HIDE DEF c
<1>5. Stock!OfPool(c) = Stock!Told(z, m)
  BY <1>2, <1>4 DEF Stock!OfPool
<1>6. \A u : u \in Stock!OfPool(c)
               <=> \E q \in Stock!Pools : Stock!Present(q, z, m) /\ u = <<q, Stock!Cards(q, z, m)>>
  BY <1>3, <1>5, StockTold
<1>7. e \in Nat /\ s \in Nat
  BY StockMerged DEF Stock!Pools
<1>8. \A q \in Stock!Pools : Stock!Cards(q, z, m) = e \/ Stock!Cards(q, z, m) = s
  BY DEF Stock!Pools
<1>9. \A q \in Stock!Pools : ~Stock!Present(q, z, m) => Stock!Cards(q, z, m) = 0
  BY DEF Stock!Cards
<1>10. CASE e + s = 0
  <2>1. c.kind = "zero"
    BY <1>2, <1>10 DEF Stock!Numbers
  <2>2. \A u \in Stock!OfPool(c) : u[2] = 0
    <3>1. e = 0 /\ s = 0
      BY <1>7, <1>10
    <3> QED
      BY <1>6, <1>8, <3>1
  <2>3. Stock!OfPool(c) # {}
    BY <1>1, <1>6
  <2> QED
    BY <2>1, <2>2, <2>3 DEF Stock!Grounded
<1>11. CASE e + s # 0
  <2>1. c.kind = "cards"
    <3>1. e + s > 0
      BY <1>7, <1>11
    <3> QED
      BY <1>2, <3>1 DEF Stock!Numbers
  <2>2. PICK q \in Stock!Pools : Stock!Cards(q, z, m) > 0
    <3>1. e > 0 \/ s > 0
      BY <1>7, <1>11
    <3> QED
      BY <3>1 DEF Stock!Pools
  <2>3. Stock!Present(q, z, m)
    BY <1>9, <2>2
  <2>4. <<q, Stock!Cards(q, z, m)>> \in Stock!OfPool(c)
    BY <1>6, <2>3
  <2>5. \E u \in Stock!OfPool(c) : u[2] > 0
    BY <2>2, <2>4
  <2> QED
    BY <2>1, <2>5 DEF Stock!Grounded
<1> QED
  BY <1>10, <1>11

\* A pool that a zone does not sell.
LEMMA StockRefusedClaim ==
    ASSUME Stock!StockConstants, StockTyped, NEW z, NEW m, NEW p \in Stock!Pools,
           Stock!PoolSupported(z, m, p) = "no"
    PROVE  Stock!Grounded(Stock!Claim("unsupported", m, z, p))
<1> DEFINE c == Stock!Claim("unsupported", m, z, p)
<1>1. c.model = m /\ c.zone = z /\ c.pool = p /\ c.kind = "unsupported"
  BY DEF Stock!Claim
<1>2. z \in listed
  BY DEF Stock!PoolSupported, Stock!Answered
<1>3. z \in StockZones /\ z # Stock!NoZone
  BY <1>2 DEF StockTyped, Stock!StockConstants
<1>4. Stock!About(c) = Stock!Told(z, m)
  BY <1>1, <1>3 DEF Stock!About
<1> SUFFICES Stock!Grounded(c)
  OBVIOUS
<1> HIDE DEF c
<1>5. CASE z \in StockPods
  <2>1. ~Stock!Present(p, z, m) /\ \E q \in Stock!Pools : Stock!Present(q, z, m)
    BY <1>5 DEF Stock!PoolSupported
  <2>2. Stock!About(c) # {}
    BY <1>2, <1>4, <2>1, StockTold
  <2>3. Stock!OfPool(c) = {}
    <3>1. ASSUME NEW u \in Stock!OfPool(c) PROVE FALSE
      <4>1. u \in Stock!Told(z, m) /\ p \in {u[1], "any"}
        BY <1>1, <1>4, <3>1 DEF Stock!OfPool
      <4>2. PICK q \in Stock!Pools : Stock!Present(q, z, m) /\ u = <<q, Stock!Cards(q, z, m)>>
        BY <1>2, <4>1, StockTold
      <4> QED
        BY <2>1, <4>1, <4>2 DEF Stock!Pools
    <3> QED
      BY <3>1
  <2> QED
    BY <1>1, <1>5, <2>2, <2>3 DEF Stock!Grounded
<1>6. CASE z \notin StockPods
  BY <1>1, <1>6 DEF Stock!Grounded, Stock!PoolSupported, Stock!Answered
<1> QED
  BY <1>5, <1>6

\* The rows of the raw snapshot.
LEMMA StockSnapshot ==
    ASSUME Stock!StockConstants, StockTyped, NEW models
    PROVE  StockSound(Stock!InventoryRows(models))
<1>1. ASSUME NEW z \in listed, NEW m PROVE Stock!Grounded(Stock!InventoryRow(z, m))
  <2> DEFINE c == Stock!InventoryRow(z, m)
  <2>1. wish.pool \in Stock!Pools \cup {"any"}
    BY DEF StockTyped, Stock!StockConstants
  <2>2. CASE ~Stock!Answered(z)
    <3>1. c = Stock!Claim("down", m, z, wish.pool)
      BY <2>2 DEF Stock!InventoryRow
    <3> QED
      BY <3>1, StockPlainClaim DEF StockPlain
  <2>3. CASE /\ Stock!Answered(z) /\ wish.pool \in Stock!Pools
             /\ Stock!PoolSupported(z, m, wish.pool) = "no"
    <3>1. c = Stock!Claim("unsupported", m, z, wish.pool)
      BY <2>3 DEF Stock!InventoryRow
    <3> QED
      BY <2>3, <3>1, StockRefusedClaim
  <2>4. CASE /\ Stock!Answered(z) /\ wish.pool \in Stock!Pools
             /\ Stock!PoolSupported(z, m, wish.pool) # "no"
    <3>1. CASE Stock!Present(wish.pool, z, m)
      <4>1. c = Stock!Claim(IF Stock!Cards(wish.pool, z, m) = 0 THEN "zero" ELSE "cards", m, z, wish.pool)
        BY <2>4, <3>1 DEF Stock!InventoryRow
      <4> QED
        BY <2>4, <3>1, <4>1, StockPoolClaim
    <3>2. CASE ~Stock!Present(wish.pool, z, m)
      <4>1. c = Stock!Claim("noRow", m, z, wish.pool)
        BY <2>4, <3>2 DEF Stock!InventoryRow
      <4> QED
        BY <4>1, StockPlainClaim DEF StockPlain
    <3> QED
      BY <3>1, <3>2
  <2>5. CASE Stock!Answered(z) /\ wish.pool \notin Stock!Pools
    <3>1. CASE \E p \in Stock!Pools : Stock!Present(p, z, m)
      <4>1. c = Stock!Claim(Stock!Numbers(z, m), m, z, "any")
        BY <2>1, <2>5, <3>1 DEF Stock!InventoryRow
      <4> QED
        BY <3>1, <4>1, StockZoneClaim
    <3>2. CASE ~\E p \in Stock!Pools : Stock!Present(p, z, m)
      <4>1. c = Stock!Claim("noRow", m, z, wish.pool)
        BY <2>5, <3>2 DEF Stock!InventoryRow
      <4> QED
        BY <4>1, StockPlainClaim DEF StockPlain
    <3> QED
      BY <3>1, <3>2
  <2> QED
    BY <2>2, <2>3, <2>4, <2>5
<1>2. ASSUME NEW c \in Stock!InventoryRows(models)
      PROVE  \E z \in listed : \E m : c = Stock!InventoryRow(z, m) /\ (wish.zones = {} \/ z \in wish.zones)
  BY <1>2 DEF Stock!InventoryRows
<1>3. \A z, m : Stock!InventoryRow(z, m).zone = z
  BY DEF Stock!InventoryRow, Stock!Claim
<1>4. ASSUME NEW c \in Stock!InventoryRows(models)
      PROVE  Stock!Grounded(c) /\ Stock!Scoped(c)
  <2>1. PICK z \in listed : \E m : c = Stock!InventoryRow(z, m) /\ (wish.zones = {} \/ z \in wish.zones)
    BY <1>2, <1>4
  <2>2. PICK m : c = Stock!InventoryRow(z, m)
    BY <2>1
  <2>3. c.zone = z
    BY <1>3, <2>2
  <2> QED
    BY <1>1, <2>1, <2>2, <2>3 DEF Stock!Scoped
<1> QED
  BY <1>4 DEF StockSound

\* The quantity on a line of the plain listing.
LEMMA StockTotal ==
    ASSUME Stock!StockConstants, StockTyped, NEW m
    PROVE  StockSound(Stock!Totals(m))
<1> DEFINE told == {z \in listed : \E p \in Stock!Pools : Stock!Present(p, z, m)}
           c == Stock!Claim(IF \E z \in told : Stock!Numbers(z, m) = "cards" THEN "cards" ELSE "zero",
                            m, Stock!NoZone, "any")
<1>1. Stock!Totals(m) = IF told = {} THEN {} ELSE {c}
  BY DEF Stock!Totals
<1>2. /\ c.model = m /\ c.zone = Stock!NoZone /\ c.pool = "any"
      /\ c.kind = IF \E z \in told : Stock!Numbers(z, m) = "cards" THEN "cards" ELSE "zero"
  BY DEF Stock!Claim
<1>3. Stock!About(c) = UNION {Stock!Told(z, m) : z \in listed}
  BY <1>2 DEF Stock!About
<1>4. told \subseteq listed /\ \A z \in told : \E p \in Stock!Pools : Stock!Present(p, z, m)
  OBVIOUS
<1>5. ASSUME told # {} PROVE Stock!Grounded(c)
  <2> HIDE DEF c
  <2>1. Stock!OfPool(c) = Stock!About(c)
    BY <1>2 DEF Stock!OfPool
  <2>2. \A u : u \in Stock!OfPool(c)
                <=> \E z \in listed : \E q \in Stock!Pools :
                      Stock!Present(q, z, m) /\ u = <<q, Stock!Cards(q, z, m)>>
    <3>1. \A u : u \in Stock!OfPool(c) <=> \E z \in listed : u \in Stock!Told(z, m)
      BY <1>3, <2>1
    <3> QED
      BY <3>1, StockTold
  <2>3. \A z \in listed : \A q \in Stock!Pools : Stock!Present(q, z, m) => z \in told
    OBVIOUS
  <2> HIDE DEF told
  <2>4. \A z : /\ Stock!Cards("exclusive", z, m) \in Nat /\ Stock!Cards("spot", z, m) \in Nat
    BY StockMerged DEF Stock!Pools
  <2>5. CASE \E z \in told : Stock!Numbers(z, m) = "cards"
    <3>1. PICK z \in told : Stock!Numbers(z, m) = "cards"
      BY <2>5
    <3>2. Stock!Cards("exclusive", z, m) + Stock!Cards("spot", z, m) > 0
      BY <3>1 DEF Stock!Numbers
    <3>3. Stock!Cards("exclusive", z, m) > 0 \/ Stock!Cards("spot", z, m) > 0
      BY <2>4, <3>2
    <3>4. PICK q \in Stock!Pools : Stock!Cards(q, z, m) > 0
      BY <3>3 DEF Stock!Pools
    <3>5. Stock!Present(q, z, m)
      BY <3>4 DEF Stock!Cards
    <3>6. <<q, Stock!Cards(q, z, m)>> \in Stock!OfPool(c)
      BY <1>4, <2>2, <3>1, <3>5
    <3>7. \E u \in Stock!OfPool(c) : u[2] > 0
      BY <3>4, <3>6
    <3>8. c.kind = "cards"
      BY <1>2, <2>5
    <3> QED
      BY <3>7, <3>8 DEF Stock!Grounded
  <2>6. CASE ~\E z \in told : Stock!Numbers(z, m) = "cards"
    <3>1. ASSUME NEW z \in told, NEW q \in Stock!Pools PROVE Stock!Cards(q, z, m) = 0
      <4>1. ~(Stock!Cards("exclusive", z, m) + Stock!Cards("spot", z, m) > 0)
        BY <2>6, <3>1 DEF Stock!Numbers
      <4>2. Stock!Cards("exclusive", z, m) = 0 /\ Stock!Cards("spot", z, m) = 0
        BY <2>4, <4>1
      <4> QED
        BY <4>2 DEF Stock!Pools
    <3>2. \A u \in Stock!OfPool(c) : u[2] = 0
      BY <2>2, <2>3, <3>1
    <3>3. Stock!OfPool(c) # {}
      BY <1>4, <1>5, <2>2
    <3>4. c.kind = "zero"
      BY <1>2, <2>6
    <3> QED
      BY <3>2, <3>3, <3>4 DEF Stock!Grounded
  <2> QED
    BY <2>5, <2>6
<1>6. Stock!Scoped(c)
  BY <1>2 DEF Stock!Scoped
<1> HIDE DEF told, c
<1> QED
  BY <1>1, <1>5, <1>6 DEF StockSound

\* The listing of what is sold.
LEMMA StockListing ==
    ASSUME Stock!StockConstants, StockTyped
    PROVE  StockSound(Stock!Listing) /\ StockSound(Stock!ScopedListing)
<1>1. ASSUME NEW c \in Stock!Listing PROVE Stock!Grounded(c) /\ Stock!Scoped(c)
  <2>1. \/ c = Stock!Claim("notFound", wish.gpu, Stock!NoZone, "any") /\ Stock!Matched = {}
        \/ \E m \in Stock!Names : \/ c = Stock!Claim(Stock!FirstStatus(m), m, Stock!NoZone, "any")
                                  \/ c \in Stock!Totals(m)
    BY <1>1 DEF Stock!Listing, Stock!Matched
  <2>2. CASE c = Stock!Claim("notFound", wish.gpu, Stock!NoZone, "any") /\ Stock!Matched = {}
    <3>1. c.kind = "notFound" /\ c.model = wish.gpu /\ c.zone = Stock!NoZone
      BY <2>2 DEF Stock!Claim
    <3>2. \A i \in DOMAIN offers : offers[i][1] # wish.gpu
      BY <2>2 DEF Stock!Matched, Stock!Names
    <3> QED
      BY <3>1, <3>2 DEF Stock!Grounded, Stock!Scoped
  <2>3. ASSUME NEW m \in Stock!Names, c = Stock!Claim(Stock!FirstStatus(m), m, Stock!NoZone, "any")
        PROVE  Stock!Grounded(c) /\ Stock!Scoped(c)
    <3>1. Stock!FirstStatus(m) \in StockPlain
      BY StockStatus DEF StockPlain
    <3>2. c.zone = Stock!NoZone
      BY <2>3 DEF Stock!Claim
    <3> QED
      BY <2>3, <3>1, <3>2, StockPlainClaim DEF Stock!Scoped
  <2>4. ASSUME NEW m \in Stock!Names, c \in Stock!Totals(m)
        PROVE  Stock!Grounded(c) /\ Stock!Scoped(c)
    BY <2>4, StockTotal DEF StockSound
  <2> QED
    BY <2>1, <2>2, <2>3, <2>4
<1>2. StockSound(Stock!ScopedListing)
  BY StockSnapshot DEF Stock!ScopedListing
<1> QED
  BY <1>1, <1>2 DEF StockSound

\* The lines about checks that were made, or that stand for checks that were not.
LEMMA StockSummary ==
    ASSUME Stock!StockConstants, StockTyped, NEW S,
           \A c \in S : /\ c \in checks \/ c.result = "failed"
                        /\ wish.zones = {} \/ c.zone \in wish.zones
    PROVE  StockSound(Stock!Summary(S))
<1>1. ASSUME NEW d \in Stock!Summary(S)
      PROVE  \/ \E c \in S : d = Stock!Claim("passed", c.model, c.zone, wish.pool) /\ c.result = "enough"
             \/ \E c \in S : d = Stock!Claim("notPassed", c.model, c.zone, wish.pool) /\ c.result = "short"
             \/ \E c \in S : d = Stock!Claim("incomplete", c.model, c.zone, wish.pool)
             \/ \E kind \in StockPlain : \E m : d = Stock!Claim(kind, m, Stock!NoZone, wish.pool)
  <2>1. \/ \E c \in S : d = Stock!Claim("passed", c.model, c.zone, wish.pool) /\ c.result = "enough"
        \/ \E c \in S : d = Stock!Claim("notPassed", c.model, c.zone, wish.pool) /\ c.result = "short"
        \/ \E c \in S : d = Stock!Claim("incomplete", c.model, c.zone, wish.pool)
        \/ \E m : d = Stock!Claim(IF \E e \in S : e.result = "enough" THEN "creatable"
                                  ELSE IF \A e \in S : e.result \in {"failed", "empty"} THEN "onSale"
                                  ELSE "sampleNegative", m, Stock!NoZone, wish.pool)
    BY <1>1 DEF Stock!Summary
  <2>2. (IF \E e \in S : e.result = "enough" THEN "creatable"
         ELSE IF \A e \in S : e.result \in {"failed", "empty"} THEN "onSale"
         ELSE "sampleNegative") \in StockPlain
    BY DEF StockPlain
  <2> QED
    BY <2>1, <2>2
<1>2. ASSUME NEW kind, NEW c \in S, kind \in {"passed", "notPassed", "incomplete"},
             kind = "passed" => c.result = "enough", kind = "notPassed" => c.result = "short"
      PROVE  LET d == Stock!Claim(kind, c.model, c.zone, wish.pool)
             IN  Stock!Grounded(d) /\ Stock!Scoped(d)
  <2> DEFINE d == Stock!Claim(kind, c.model, c.zone, wish.pool)
  <2>1. d.kind = kind /\ d.model = c.model /\ d.zone = c.zone
    BY DEF Stock!Claim
  <2>2. kind # "incomplete" => c \in checks
    BY <1>2
  <2>3. kind # "incomplete" => c = [model |-> c.model, zone |-> c.zone, result |-> c.result]
    BY <2>2 DEF StockTyped
  <2> HIDE DEF d
  <2>4. /\ kind = "passed" => [model |-> d.model, zone |-> d.zone, result |-> "enough"] \in checks
        /\ kind = "notPassed" => [model |-> d.model, zone |-> d.zone, result |-> "short"] \in checks
    BY <1>2, <2>1, <2>2, <2>3
  <2>5. Stock!Grounded(d)
    BY <1>2, <2>1, <2>4 DEF Stock!Grounded
  <2>6. Stock!Scoped(d)
    BY <2>1 DEF Stock!Scoped
  <2> QED
    BY <2>5, <2>6 DEF d
<1>3. ASSUME NEW kind \in StockPlain, NEW m
      PROVE  LET d == Stock!Claim(kind, m, Stock!NoZone, wish.pool)
             IN  Stock!Grounded(d) /\ Stock!Scoped(d)
  <2>1. Stock!Claim(kind, m, Stock!NoZone, wish.pool).zone = Stock!NoZone
    BY DEF Stock!Claim
  <2> QED
    BY <2>1, StockPlainClaim DEF Stock!Scoped
<1>4. ASSUME NEW d \in Stock!Summary(S) PROVE Stock!Grounded(d) /\ Stock!Scoped(d)
  BY <1>1, <1>2, <1>3, <1>4
<1> QED
  BY <1>4 DEF StockSound

LEMMA StockNotRun ==
    ASSUME Stock!StockConstants, StockTyped
    PROVE  StockSound(Stock!NotRun)
<1> DEFINE S == {[model |-> m, zone |-> Stock!FirstZoneOf(m), result |-> "failed"] :
                   m \in {offers[i][1] : i \in Stock!InZones}}
<1>1. ASSUME NEW c \in S
      PROVE  /\ c \in checks \/ c.result = "failed"
             /\ wish.zones = {} \/ c.zone \in wish.zones
  <2>1. PICK k \in Stock!InZones :
               c = [model |-> offers[k][1], zone |-> Stock!FirstZoneOf(offers[k][1]), result |-> "failed"]
    BY <1>1
  <2> QED
    BY <2>1, StockFirstZone
<1> HIDE DEF S
<1>2. StockSound(Stock!Summary(S))
  BY <1>1, StockSummary
<1> QED
  BY <1>2 DEF S, Stock!NotRun

\* The reply of the checks that were made, for one pool or with the numbers of both.
LEMMA StockChecked ==
    ASSUME Stock!StockConstants, StockTyped, StockAsked
    PROVE  StockSound(Stock!Checked(checks))
<1>1. \A c \in checks : wish.zones = {} \/ c.zone \in wish.zones
  BY DEF StockAsked
<1>2. StockSound(Stock!Summary(checks)) /\ StockSound(Stock!Summary(Stock!Eligible(checks)))
  <2>1. \A c \in Stock!Eligible(checks) : c \in checks
    BY DEF Stock!Eligible
  <2>2. StockSound(Stock!Summary(checks))
    BY <1>1, StockSummary
  <2>3. StockSound(Stock!Summary(Stock!Eligible(checks)))
    BY <1>1, <2>1, StockSummary
  <2> QED
    BY <2>2, <2>3
<1>3. ASSUME NEW c \in checks, wish.pool \in Stock!Pools
      PROVE  Stock!Grounded(Stock!PoolRow(c.zone, c.model))
  <2> DEFINE z == c.zone
             m == c.model
             p == wish.pool
  <2>1. CASE Stock!PoolSupported(z, m, p) = "no"
    <3>1. Stock!PoolRow(z, m) = Stock!Claim("unsupported", m, z, p)
      BY <2>1 DEF Stock!PoolRow
    <3> QED
      BY <1>3, <2>1, <3>1, StockRefusedClaim
  <2>2. CASE Stock!PoolSupported(z, m, p) # "no" /\ ~Stock!Present(p, z, m)
    <3>1. \E kind \in {"unconfirmed", "noRow"} : Stock!PoolRow(z, m) = Stock!Claim(kind, m, z, p)
      BY <2>2 DEF Stock!PoolRow
    <3> QED
      BY <3>1, StockPlainClaim DEF StockPlain
  <2>3. CASE Stock!PoolSupported(z, m, p) # "no" /\ Stock!Present(p, z, m)
    <3>1. \/ Stock!PoolRow(z, m) = Stock!Claim("unconfirmed", m, z, p)
          \/ Stock!PoolRow(z, m) = Stock!Claim(IF Stock!Cards(p, z, m) = 0 THEN "zero" ELSE "cards", m, z, p)
      BY <2>3 DEF Stock!PoolRow
    <3> QED
      BY <1>3, <2>3, <3>1, StockPlainClaim, StockPoolClaim DEF StockPlain
  <2> QED
    BY <2>1, <2>2, <2>3
<1>4. \A z, m : Stock!PoolRow(z, m).zone = z
  BY DEF Stock!PoolRow, Stock!Claim
<1>5. ASSUME wish.pool \in Stock!Pools
      PROVE  StockSound({Stock!PoolRow(c.zone, c.model) : c \in checks})
  <2>1. ASSUME NEW d \in {Stock!PoolRow(c.zone, c.model) : c \in checks}
        PROVE  Stock!Grounded(d) /\ Stock!Scoped(d)
    <3>1. PICK c \in checks : d = Stock!PoolRow(c.zone, c.model)
      BY <2>1
    <3>2. d.zone = c.zone
      BY <1>4, <3>1
    <3> QED
      BY <1>1, <1>3, <1>5, <3>1, <3>2 DEF Stock!Scoped
  <2> QED
    BY <2>1 DEF StockSound
<1>6. StockSound(Stock!Beside(checks))
  <2>1. ASSUME NEW d \in Stock!Beside(checks) PROVE Stock!Grounded(d) /\ Stock!Scoped(d)
    <3>1. PICK c \in checks : /\ d = Stock!Claim(Stock!Numbers(c.zone, c.model), c.model, c.zone, "any")
                              /\ \E p \in Stock!Pools : Stock!Present(p, c.zone, c.model)
      BY <2>1 DEF Stock!Beside
    <3>2. d.zone = c.zone
      BY <3>1 DEF Stock!Claim
    <3> QED
      BY <1>1, <3>1, <3>2, StockZoneClaim DEF Stock!Scoped
  <2> QED
    BY <2>1 DEF StockSound
<1> QED
  BY <1>2, <1>5, <1>6 DEF Stock!Checked, StockSound

\* What is said not to be offered has no row in the catalogue.
LEMMA StockNotOffered ==
    ASSUME Stock!StockConstants, StockTyped, Stock!Entries # {}, Stock!InZones = {}
    PROVE  StockSound({Stock!Claim("notOffered", wish.gpu, z, wish.pool) : z \in wish.zones})
<1>1. Stock!Matched = {wish.gpu}
  BY DEF Stock!Entries, Stock!Matched
<1>2. ASSUME NEW z \in wish.zones, NEW k \in DOMAIN offers, offers[k] = <<wish.gpu, z, "normal">>
      PROVE  FALSE
  <2> DEFINE S == {i \in DOMAIN offers : offers[i] = <<wish.gpu, z, "normal">>}
  <2>1. PICK i \in S : \A j \in S : i <= j
    BY <1>2, StockFirst
  <2>2. \A j \in 1..(i - 1) : offers[j] # offers[i]
    <3>1. i \in Nat
      BY StockRows
    <3>2. ASSUME NEW j \in 1..(i - 1), offers[j] = offers[i] PROVE FALSE
      <4>1. j \in DOMAIN offers
        BY <3>1, StockRows
      <4> QED
        BY <2>1, <3>1, <3>2, <4>1
    <3> QED
      BY <3>2
  <2>3. offers[i][1] = wish.gpu /\ offers[i][2] = z /\ offers[i][3] = "normal"
    BY <2>1
  <2>4. i \in Stock!InZones
    BY <1>1, <2>2, <2>3 DEF Stock!Entries, Stock!InZones
  <2> QED
    BY <2>4
<1>3. ASSUME NEW d \in {Stock!Claim("notOffered", wish.gpu, z, wish.pool) : z \in wish.zones}
      PROVE  Stock!Grounded(d) /\ Stock!Scoped(d)
  <2>1. d.kind = "notOffered" /\ d.model = wish.gpu /\ d.zone \in wish.zones
    BY <1>3 DEF Stock!Claim
  <2> QED
    BY <1>2, <2>1 DEF Stock!Grounded, Stock!Scoped
<1> QED
  BY <1>3 DEF StockSound

\* What a step leaves alone keeps what is derived from it.
LEMMA StockSame ==
    ASSUME UNCHANGED <<wish, offers, listed, replies, checks>>
    PROVE  /\ StockTyped => StockTyped'
           /\ \A c : (Stock!Grounded(c))' = Stock!Grounded(c) /\ (Stock!Scoped(c))' = Stock!Scoped(c)
           /\ (Stock!Unmatched)' = Stock!Unmatched
BY DEF StockTyped, Stock!Grounded, Stock!Scoped, Stock!Unmatched, Stock!OfPool, Stock!About, Stock!Told

LEMMA StockSameRows ==
    ASSUME UNCHANGED <<wish, offers>>
    PROVE  (Stock!Entries)' = Stock!Entries /\ (Stock!InZones)' = Stock!InZones
<1>1. (Stock!Entries)' = Stock!Entries
  BY DEF Stock!Entries, Stock!Matched, Stock!Names
<1> QED
  BY <1>1 DEF Stock!InZones

\* A step that replies leaves a sound state, if its claims are sound.
LEMMA StockReplies ==
    ASSUME StockInv, UNCHANGED <<wish, offers, listed, replies, checks>>,
           NEW st, NEW S, Stock!Ends(st, S), StockSound(S),
           S = {} \/ Stock!Unmatched = {}
    PROVE  StockInv'
<1>1. stockStage' = "done" /\ reply'.claims = S
  BY DEF Stock!Ends
<1>2. StockTyped'
  BY StockSame DEF StockInv
<1>3. StockAsked'
  BY <1>1 DEF StockInv, StockAsked
<1>4. /\ \A c \in S : (Stock!Grounded(c))' /\ (Stock!Scoped(c))'
      /\ S = {} \/ (Stock!Unmatched)' = {}
  BY StockSame DEF StockSound
<1>5. (Stock!NoInventedShortage)'
  BY <1>1, <1>4 DEF Stock!NoInventedShortage
<1> QED
  BY <1>2, <1>3, <1>5 DEF StockInv

\* Nothing is claimed yet.
LEMMA StockIsSilent ==
    ASSUME reply' = Stock!Silent
    PROVE  (Stock!NoInventedShortage)'
<1>1. reply'.claims = {}
  BY DEF Stock!Silent
<1> QED
  BY <1>1 DEF Stock!NoInventedShortage

LEMMA StockStarts == Stock!Init => StockInv
<1> SUFFICES ASSUME Stock!Init PROVE StockInv
  OBVIOUS
<1>1. StockTyped
  BY DEF Stock!Init, StockTyped
<1>2. StockAsked
  BY DEF Stock!Init, StockAsked
<1>3. reply.claims = {}
  BY DEF Stock!Init, Stock!Silent
<1> QED
  BY <1>1, <1>2, <1>3 DEF StockInv, Stock!NoInventedShortage

\* A step that only goes on to another stage.
LEMMA StockGoesOn ==
    ASSUME StockInv, UNCHANGED <<wish, offers, listed, checks, left, reply>>,
           replies' \in [official : StockInventories \cup {Stock!NoAnswer},
                         pod : StockInventories \cup {Stock!NoAnswer}],
           <<stockStage, stockStage'>>
             \in {<<"official", "pod">>, <<"official", "inventoried">>, <<"pod", "inventoried">>,
                  <<"image", "image">>, <<"image", "check">>}
    PROVE  StockInv'
<1>1. StockTyped'
  BY DEF StockInv, StockTyped
<1>2. reply' = Stock!Silent
  BY DEF StockInv, StockAsked
<1>3. \/ {stockStage, stockStage'} \subseteq {"image", "check"}
      \/ {stockStage, stockStage'} \subseteq {"official", "pod", "inventoried"}
  OBVIOUS
<1>4. (Stock!Unmatched)' = Stock!Unmatched
  BY DEF Stock!Unmatched
<1>5. StockAsked'
  BY <1>2, <1>3, <1>4, StockSameRows DEF StockInv, StockAsked
<1> QED
  BY <1>1, <1>2, <1>5, StockIsSilent DEF StockInv

LEMMA StockStep ==
    ASSUME Stock!StockConstants, StockInv, [Stock!Next]_(Stock!vars)
    PROVE  StockInv'
<1> USE DEF StockInv
<1>1. CASE Stock!AskCatalog
  <2>1. UNCHANGED <<wish, listed, replies, checks, left>> /\ stockStage = "catalog"
    BY <1>1 DEF Stock!AskCatalog
  <2>2. StockTyped'
    BY <1>1, <2>1 DEF Stock!AskCatalog, StockTyped
  <2>3. reply'.claims = {} /\ ((stockStage' = "zones" /\ reply' = reply) \/ stockStage' = "done")
    BY <1>1 DEF Stock!AskCatalog, Stock!Ends, StockAsked, Stock!Silent
  <2>4. StockAsked'
    BY <2>1, <2>3 DEF StockAsked
  <2>5. (Stock!NoInventedShortage)'
    BY <2>3 DEF Stock!NoInventedShortage
  <2> QED
    BY <2>2, <2>4, <2>5
<1>2. CASE Stock!AskZones
  <2>1. UNCHANGED <<wish, offers, replies, checks, left>> /\ stockStage = "zones"
    BY <1>2 DEF Stock!AskZones
  <2>2. StockTyped'
    BY <1>2, <2>1 DEF Stock!AskZones, StockTyped
  <2>3. /\ reply'.claims = {}
        /\ \/ stockStage' = "inventoried" /\ reply' = reply /\ Stock!Entries = {}
           \/ /\ stockStage' = "official" /\ reply' = reply
              /\ Stock!Entries = {} \/ wish.zones \ listed' = {}
           \/ stockStage' = "done"
    BY <1>2 DEF Stock!AskZones, Stock!Ends, StockAsked, Stock!Silent
  <2>4. (Stock!Unmatched)' = wish.zones \ listed'
    BY <2>1 DEF Stock!Unmatched
  <2>5. StockAsked'
    BY <2>1, <2>3, <2>4, StockSameRows DEF StockAsked
  <2>6. (Stock!NoInventedShortage)'
    BY <2>3 DEF Stock!NoInventedShortage
  <2> QED
    BY <2>2, <2>5, <2>6
<1>3. CASE Stock!AskOfficial \/ Stock!AskPod
  <2>1. /\ UNCHANGED <<wish, offers, listed, checks, left, reply>>
        /\ <<stockStage, stockStage'>>
             \in {<<"official", "pod">>, <<"official", "inventoried">>, <<"pod", "inventoried">>}
    BY <1>3 DEF Stock!AskOfficial, Stock!AskPod
  <2>2. replies' \in [official : StockInventories \cup {Stock!NoAnswer},
                      pod : StockInventories \cup {Stock!NoAnswer}]
    BY <1>3 DEF Stock!AskOfficial, Stock!AskPod, StockTyped
  <2> QED
    BY <2>1, <2>2, StockGoesOn
<1>4. CASE Stock!AnswerListing
  <2>1. UNCHANGED <<wish, offers, listed, replies, checks>>
    BY <1>4 DEF Stock!AnswerListing
  <2>2. StockSound({})
    BY DEF StockSound
  <2>3. CASE Stock!Unmatched # {}
    <3>1. Stock!Ends("needsInput", {})
      BY <1>4, <2>3 DEF Stock!AnswerListing
    <3> QED
      BY <2>1, <2>2, <3>1, StockReplies
  <2>4. CASE Stock!Unmatched = {}
    <3>1. Stock!Ends("handled", Stock!Listing) \/ Stock!Ends("handled", Stock!ScopedListing)
      BY <1>4, <2>4 DEF Stock!AnswerListing
    <3> QED
      BY <2>1, <2>4, <3>1, StockListing, StockReplies
  <2> QED
    BY <2>3, <2>4
<1>5. CASE Stock!Precheck
  <2>1. /\ UNCHANGED <<wish, offers, listed, replies, checks>>
        /\ stockStage = "inventoried" /\ Stock!Entries # {}
    BY <1>5 DEF Stock!Precheck
  <2>2. Stock!Unmatched = {}
    BY <2>1 DEF StockAsked
  <2>3. CASE Stock!InZones = {}
    <3> DEFINE A == {Stock!Claim("notOffered", wish.gpu, z, wish.pool) : z \in wish.zones}
               B == Stock!InventoryRows(Stock!Matched)
    <3>1. Stock!Ends("handled", A \cup B)
      BY <1>5, <2>3 DEF Stock!Precheck
    <3>2. StockSound(A) /\ StockSound(B)
      BY <2>1, <2>3, StockNotOffered, StockSnapshot
    <3>3. StockSound(A \cup B)
      BY <3>2 DEF StockSound
    <3> QED
      BY <2>1, <2>2, <3>1, <3>3, StockReplies
  <2>4. CASE Stock!InZones # {}
    <3>1. stockStage' = "image" /\ left' = Stock!InZones /\ reply' = reply
      BY <1>5, <2>4 DEF Stock!Precheck
    <3>2. StockTyped'
      BY <2>1, StockSame
    <3>3. reply' = Stock!Silent
      BY <2>1, <3>1 DEF StockAsked
    <3>4. (Stock!Unmatched)' = {}
      BY <2>1, <2>2, StockSame
    <3>5. StockAsked'
      BY <2>1, <3>1, <3>3, <3>4, StockSameRows DEF StockAsked
    <3> QED
      BY <3>2, <3>3, <3>5, StockIsSilent
  <2> QED
    BY <2>3, <2>4
<1>6. ASSUME Stock!NoImage, stockStage = "image", UNCHANGED <<wish, offers, listed, replies, checks, left>>
      PROVE  StockInv'
  <2> DEFINE A == Stock!NotRun
             B == Stock!InventoryRows(Stock!Matched)
  <2>1. Stock!Ends("handled", A \cup B)
    BY <1>6 DEF Stock!NoImage
  <2>2. StockSound(A) /\ StockSound(B)
    BY StockNotRun, StockSnapshot
  <2>3. StockSound(A \cup B)
    BY <2>2 DEF StockSound
  <2>4. Stock!Unmatched = {}
    BY <1>6 DEF StockAsked
  <2> QED
    BY <1>6, <2>1, <2>3, <2>4, StockReplies
<1>7. CASE Stock!SampleImage \/ Stock!FindImage
  <2>1. UNCHANGED <<wish, offers, listed, replies, checks, left>> /\ stockStage = "image"
    BY <1>7 DEF Stock!SampleImage, Stock!FindImage
  <2>2. CASE Stock!NoImage
    BY <1>6, <2>1, <2>2
  <2>3. CASE ~Stock!NoImage
    <3>1. reply' = reply /\ stockStage' \in {"image", "check"}
      BY <1>7, <2>1, <2>3 DEF Stock!SampleImage, Stock!FindImage, Stock!NextSource
    <3>2. replies' \in [official : StockInventories \cup {Stock!NoAnswer},
                        pod : StockInventories \cup {Stock!NoAnswer}]
      BY <2>1 DEF StockTyped
    <3> QED
      BY <2>1, <3>1, <3>2, StockGoesOn
  <2> QED
    BY <2>2, <2>3
<1>8. CASE Stock!CheckNext
  <2>1. UNCHANGED <<stockStage, wish, offers, listed, replies, reply>> /\ stockStage = "check"
    BY <1>8 DEF Stock!CheckNext
  <2>2. PICK i \in left :
          /\ left' = left \ {i}
          /\ \/ checks' = checks
             \/ /\ offers[i][2] # Stock!NoZone
                /\ \E r \in Stock!Results :
                     checks' = checks \cup {[model |-> offers[i][1], zone |-> offers[i][2], result |-> r]}
    BY <1>8 DEF Stock!CheckNext
  <2>3. i \in Stock!InZones
    BY <2>1 DEF StockAsked
  <2>4. /\ i \in DOMAIN offers
        /\ wish.zones = {} \/ offers[i][2] \in wish.zones
    BY <2>3 DEF Stock!InZones, Stock!Entries
  <2>5. offers[i][1] \in StockModels /\ offers[i][2] \in StockZones \cup {Stock!NoZone}
    BY <2>4, StockRows
  <2>6. /\ checks' \subseteq [model : StockModels, zone : StockZones, result : Stock!Results]
        /\ \A c \in checks' : wish.zones = {} \/ c.zone \in wish.zones
    <3>1. CASE checks' = checks
      BY <3>1 DEF StockTyped, StockAsked
    <3>2. CASE checks' # checks
      <4>1. PICK r \in Stock!Results :
              checks' = checks \cup {[model |-> offers[i][1], zone |-> offers[i][2], result |-> r]}
        BY <2>2, <3>2
      <4>2. offers[i][2] \in StockZones
        BY <2>2, <2>5, <3>2
      <4> DEFINE c == [model |-> offers[i][1], zone |-> offers[i][2], result |-> r]
      <4>3. /\ c \in [model : StockModels, zone : StockZones, result : Stock!Results]
            /\ wish.zones = {} \/ c.zone \in wish.zones
        BY <2>4, <2>5, <4>2
      <4> HIDE DEF c
      <4>4. checks' = checks \cup {c}
        BY <4>1 DEF c
      <4> QED
        BY <4>3, <4>4 DEF StockTyped, StockAsked
    <3> QED
      BY <3>1, <3>2
  <2>7. StockTyped'
    BY <2>1, <2>6 DEF StockTyped
  <2>8. reply' = Stock!Silent
    BY <2>1 DEF StockAsked
  <2>9. (Stock!Unmatched)' = Stock!Unmatched
    BY <2>1 DEF Stock!Unmatched
  <2>10. StockAsked'
    BY <2>1, <2>2, <2>6, <2>8, <2>9, StockSameRows DEF StockAsked
  <2> QED
    BY <2>7, <2>8, <2>10, StockIsSilent
<1>9. CASE Stock!AnswerChecks
  <2>1. UNCHANGED <<wish, offers, listed, replies, checks>> /\ stockStage = "check"
    BY <1>9 DEF Stock!AnswerChecks
  <2>2. Stock!Unmatched = {}
    BY <2>1 DEF StockAsked
  <2> DEFINE A == Stock!NotRun
             B == Stock!InventoryRows(Stock!Matched)
  <2>3. Stock!Ends("handled", A \cup B) \/ Stock!Ends("handled", Stock!Checked(checks))
    BY <1>9 DEF Stock!AnswerChecks
  <2>4. StockSound(A) /\ StockSound(B) /\ StockSound(Stock!Checked(checks))
    BY StockNotRun, StockSnapshot, StockChecked
  <2>5. StockSound(A \cup B)
    BY <2>4 DEF StockSound
  <2> QED
    BY <2>1, <2>2, <2>3, <2>4, <2>5, StockReplies
<1>10. CASE UNCHANGED Stock!vars
  <2>1. UNCHANGED <<stockStage, wish, offers, listed, replies, left, checks, reply>>
    BY <1>10 DEF Stock!vars
  <2>2. StockTyped' /\ StockAsked'
    BY <2>1, StockSame, StockSameRows DEF StockAsked
  <2>3. (Stock!NoInventedShortage)'
    BY <2>1, StockSame DEF Stock!NoInventedShortage
  <2> QED
    BY <2>2, <2>3
<1> QED
  BY <1>1, <1>2, <1>3, <1>4, <1>5, <1>7, <1>8, <1>9, <1>10 DEF Stock!Next

\* A number, a zero, a refusal of a pool and the result of a check are what the platform
\* answered in this read, about the zones that were asked for (read_stock.go).
THEOREM ShortagesAreTold ==
    ASSUME Stock!StockConstants
    PROVE  Stock!Spec => []Stock!NoInventedShortage
<1>1. Stock!Init => StockInv
  BY StockStarts
<1>2. StockInv /\ [Stock!Next]_(Stock!vars) => StockInv'
  BY StockStep
<1>3. StockInv => Stock!NoInventedShortage
  BY DEF StockInv
<1> QED
  BY <1>1, <1>2, <1>3, PTL DEF Stock!Spec

LEMMA StockAlone ==
    /\ ActionsInit => Stock!Init
    /\ [ActionsNext]_allVars => [Stock!Next]_(Stock!vars)
<1>1. ActionsInit => Stock!Init
  BY DEF ActionsInit
<1>2. ActionsNext \/ UNCHANGED allVars => Stock!Next \/ UNCHANGED stockVars
  BY DEF ActionsNext, Step, allVars, partVars
<1>3. UNCHANGED stockVars => UNCHANGED Stock!vars
  BY DEF stockVars, Stock!vars
<1> QED
  BY <1>1, <1>2, <1>3

\* No shortage is invented: what is said of the stock was answered (read_stock.go,
\* gpu_inventory.go).
THEOREM ShortagesStayTold == ActionsSpec => []NoInventedShortage
<1>1. ActionsSpec => Stock!Spec
  BY StockAlone, PTL DEF ActionsSpec, Stock!Spec
<1>2. Stock!Spec => []Stock!NoInventedShortage
  BY ActionsAssumption, ShortagesAreTold DEF ActionsAssumption
<1> QED
  BY <1>1, <1>2, PTL DEF NoInventedShortage
-----------------------------------------------------------------------------
(* The cards of a guided creation, for any catalogue, images, requests and   *)
(* replies.  The steps come in one order, so the invariant says, of each     *)
(* thing the draft must get right, from which step on it is settled and that *)
(* no later step unsettles it: where the rows of the image catalogue are     *)
(* from (OrderCatalog), what the image is (OrderImage), and that each card   *)
(* of the hardware was answered, or could offer nothing but the request's    *)
(* value (OrderGpu, OrderZone, OrderCount, OrderSpec).                       *)

OrderDrafted  == {"draft", "check", "confirm"}
OrderCounted  == OrderDrafted \cup {"spec"}
OrderPlaced   == OrderCounted \cup {"capacity", "count"}
OrderEquipped == OrderPlaced \cup {"zone"}
OrderImaged   == OrderEquipped \cup {"charge", "probe", "gpu"}
OrderQueried  == OrderImaged \cup {"browse", "facets", "family", "image"}

OrderAnyGpu   == {"images", "inventory", "source", "requery", "browse", "facets", "family",
                  "image", "charge", "probe", "gpu"}
OrderAnyZone  == OrderAnyGpu \cup {"zone"}
OrderAnyCount == OrderAnyZone \cup {"capacity", "count"}
OrderAnySpec  == OrderAnyCount \cup {"spec"}

\* At one of these steps, or at the end with a draft.
OrderAt(steps) == cardStep \in steps \/ ordered # Guided!NoDraft

OrderForm(a) ==
  a = [source |-> a.source, family |-> a.family, image |-> a.image, charge |-> a.charge,
       gpu |-> a.gpu, zone |-> a.zone, count |-> a.count, spec |-> a.spec]

OrderShaped ==
  /\ request \in OrderRequests
  /\ Guided!IsOrder(orderParams)
  /\ OrderForm(answers)
  /\ ordered \in {Guided!NoDraft, orderParams}
  /\ ordered # Guided!NoDraft => cardStep \in {"check", "confirm", "done"}
  /\ cardStep # "done" => orderEnd = "none"

\* What the request fills stays until its card.
OrderRequested ==
  /\ orderParams.name = request.name
  /\ answers.source \in {orderParams.source, Guided!None}
  /\ answers.charge \in {orderParams.charge, Guided!None}
  /\ cardStep \in OrderAnyGpu => orderParams.gpu = request.gpu /\ answers.gpu = 0
  /\ cardStep \in OrderAnyZone => orderParams.zone \in {request.zone, 0} /\ answers.zone = 0
  /\ cardStep \in OrderAnyCount => orderParams.count \in {request.count, 0} /\ answers.count = 0
  /\ cardStep \in OrderAnySpec => orderParams.spec \in {request.spec, 0} /\ answers.spec = 0

\* The rows are of one source, and what that source lists, the name finds or the request has.
OrderCatalog ==
  /\ catalog \subseteq OrderImages
  /\ \A i \in catalog : i.listed \/ i.id = request.image \/ request.name # Guided!None
  /\ cardStep \in {"images", "inventory", "source"} => orderParams.source = request.source
  /\ cardStep = "requery" /\ orderParams.image # Guided!None => orderParams.source = request.source
  /\ cardStep \in {"inventory", "source", "requery"} => \A i \in catalog : i.source = request.source
  /\ OrderAt(OrderQueried) => \A i \in catalog : i.source = orderParams.source

\* The image is in the catalogue and has what it was narrowed to.
OrderChosen ==
  LET i == Guided!Image(orderParams.image)
  IN  /\ i \in Guided!Catalog /\ i.id = orderParams.image /\ i.source = orderParams.source
      /\ orderParams.facet # Guided!None => orderParams.facet \in i.facets
      /\ orderParams.family # Guided!None => i.family = orderParams.family
      /\ i.listed \/ i.id = request.image \/ request.name # Guided!None

OrderImage ==
  /\ cardStep \in {"images", "inventory", "source", "requery", "browse", "facets", "family"}
       => answers.family = Guided!None
  /\ cardStep \in {"images", "inventory", "source", "requery", "browse", "facets", "family", "image"}
       => /\ answers.image = Guided!None
          /\ answers.family = Guided!None => orderParams.image \in {request.image, Guided!None}
          /\ answers.family # Guided!None => orderParams.image = Guided!None \/ OrderChosen
  /\ OrderAt(OrderImaged) => OrderChosen /\ answers.image \in {orderParams.image, Guided!None}

OrderGpus   == Guided!GpuEnabled
OrderFree   == Guided!ZoneFree(orderParams.gpu)
OrderZones  == Guided!ZoneEnabled(orderParams.gpu)
OrderCounts == Guided!CountEnabled(orderParams.zone)
OrderSpecs  == Guided!SpecEnabled(orderParams.zone, orderParams.count)

\* What a card left settled: its answer, or all that it could have offered.
OrderSettled(answer, value, asked, enabled) ==
  IF answer # 0 THEN value = answer ELSE value = asked /\ enabled = {value}

OrderGpu ==
  OrderAt(OrderEquipped) =>
    /\ OrderSettled(answers.gpu, orderParams.gpu, request.gpu, OrderGpus)
    /\ Guided!Supported # {} => orderParams.gpu \in Guided!Supported

OrderZone ==
  OrderAt(OrderPlaced) =>
    /\ OrderSettled(answers.zone, orderParams.zone, request.zone, OrderZones)
    /\ orderParams.zone \in OrderZones /\ (stood \/ OrderFree # {})

OrderCount ==
  OrderAt(OrderCounted) =>
    /\ OrderSettled(answers.count, orderParams.count, request.count, OrderCounts)
    /\ orderParams.count \in OrderCounts

OrderSpec ==
  OrderAt(OrderDrafted) =>
    /\ OrderSettled(answers.spec, orderParams.spec, request.spec, OrderSpecs)
    /\ orderParams.spec \in OrderSpecs

OrderInv ==
  /\ OrderShaped /\ OrderRequested /\ OrderCatalog /\ OrderImage
  /\ OrderGpu /\ OrderZone /\ OrderCount /\ OrderSpec /\ Guided!CardsForeseeRefusals

\* What a step leaves alone keeps what is derived from it.
LEMMA OrderSameImage ==
    ASSUME UNCHANGED <<request, catalog>>, orderParams'.image = orderParams.image,
           orderParams'.source = orderParams.source
    PROVE  /\ (Guided!Catalog)' = Guided!Catalog
           /\ (Guided!Supported)' = Guided!Supported
<1>1. (Guided!Catalog)' = Guided!Catalog
  BY DEF Guided!Catalog
<1> QED
  BY <1>1 DEF Guided!Supported

LEMMA OrderSameChosen ==
    ASSUME UNCHANGED <<request, catalog>>, orderParams'.image = orderParams.image,
           orderParams'.source = orderParams.source, orderParams'.facet = orderParams.facet,
           orderParams'.family = orderParams.family, orderParams'.name = orderParams.name
    PROVE  OrderChosen' = OrderChosen
BY OrderSameImage DEF OrderChosen

LEMMA OrderSameGpus ==
    ASSUME UNCHANGED <<request, catalog, sells, probe>>, orderParams'.image = orderParams.image,
           orderParams'.source = orderParams.source, orderParams'.gpu = orderParams.gpu,
           orderParams'.charge = orderParams.charge
    PROVE  /\ OrderGpus' = OrderGpus /\ OrderFree' = OrderFree /\ OrderZones' = OrderZones
           /\ (Guided!SkipGpu)' = (Guided!SkipGpu)
<1>1. (Guided!Catalog)' = Guided!Catalog /\ (Guided!Supported)' = Guided!Supported
  BY OrderSameImage
<1>2. (Guided!Offers)' = Guided!Offers
  BY DEF Guided!Offers
<1>3. \A g : (Guided!ZonesOf(g))' = Guided!ZonesOf(g)
  BY <1>2 DEF Guided!ZonesOf
<1>4. (Guided!GpuChoices)' = Guided!GpuChoices
  BY <1>1, <1>2 DEF Guided!GpuChoices
<1>5. OrderGpus' = OrderGpus
  <2>1. \A g : /\ (Guided!SurelyNot(g))' = Guided!SurelyNot(g)
               /\ (Guided!SurelyCreatable(g))' = Guided!SurelyCreatable(g)
    BY <1>3 DEF Guided!SurelyNot, Guided!SurelyCreatable
  <2>2. \A g, z : Guided!PoolRefused(g, z, orderParams.charge)'
                   = Guided!PoolRefused(g, z, orderParams.charge)
    BY DEF Guided!PoolRefused
  <2> DEFINE P(g) == /\ Guided!Supported # {} => g \in Guided!Supported
                     /\ ~\A z \in Guided!ZonesOf(g) : Guided!PoolRefused(g, z, orderParams.charge)
                     /\ ~(Guided!SurelyNot(g) /\ \E h \in Guided!GpuChoices : Guided!SurelyCreatable(h))
  <2>3. ASSUME NEW g PROVE P(g)' = P(g)
    BY <1>1, <1>3, <1>4, <2>1, <2>2
  <2>4. OrderGpus = {g \in Guided!GpuChoices : P(g)}
    BY DEF OrderGpus, Guided!GpuEnabled
  <2>5. OrderGpus' = {g \in (Guided!GpuChoices)' : P(g)'}
    BY DEF OrderGpus, Guided!GpuEnabled
  <2> HIDE DEF P
  <2> QED
    BY <1>4, <2>3, <2>4, <2>5
<1>6. OrderFree' = OrderFree /\ OrderZones' = OrderZones
  BY <1>1, <1>2 DEF OrderFree, OrderZones, Guided!ZoneFree, Guided!ZoneEnabled, Guided!ZonesOf,
     Guided!PoolRefused, Guided!Unboxed
<1> QED
  BY <1>1, <1>5, <1>6 DEF OrderGpus, Guided!SkipGpu

LEMMA OrderSameCounts ==
    ASSUME UNCHANGED <<request, capacity>>, orderParams'.gpu = orderParams.gpu,
           orderParams'.zone = orderParams.zone
    PROVE  /\ OrderCounts' = OrderCounts
           /\ orderParams'.count = orderParams.count => OrderSpecs' = OrderSpecs
<1>1. (Guided!Offers)' = Guided!Offers
  BY DEF Guided!Offers
<1>2. OrderCounts' = OrderCounts
  BY <1>1 DEF OrderCounts, Guided!CountEnabled, Guided!CountsOf, Guided!Known, Guided!Enough
<1>3. ASSUME orderParams'.count = orderParams.count PROVE OrderSpecs' = OrderSpecs
  BY <1>1, <1>3 DEF OrderSpecs, Guided!SpecEnabled, Guided!SpecsOf
<1> QED
  BY <1>2, <1>3

LEMMA OrderSameAll ==
    ASSUME UNCHANGED <<request, orderParams, catalog, sells, probe, capacity>>
    PROVE  /\ OrderChosen' = OrderChosen /\ (Guided!Supported)' = Guided!Supported
           /\ OrderGpus' = OrderGpus /\ OrderFree' = OrderFree /\ OrderZones' = OrderZones
           /\ OrderCounts' = OrderCounts /\ OrderSpecs' = OrderSpecs
BY OrderSameImage, OrderSameChosen, OrderSameGpus, OrderSameCounts

LEMMA OrderStarts ==
    ASSUME Guided!OrderConstants, Guided!Init
    PROVE  OrderInv
<1> USE DEF Guided!Init
<1>1. OrderShaped
  BY DEF OrderShaped, OrderForm, Guided!OrderConstants, Guided!Unanswered, Guided!NoDraft
<1>2. OrderRequested
  BY DEF OrderRequested, Guided!Unanswered
<1>3. ~OrderAt(OrderQueried) /\ ~OrderAt(OrderImaged) /\ ~OrderAt(OrderEquipped)
      /\ ~OrderAt(OrderPlaced) /\ ~OrderAt(OrderCounted) /\ ~OrderAt(OrderDrafted)
  BY DEF OrderAt, OrderQueried, OrderImaged, OrderEquipped, OrderPlaced, OrderCounted, OrderDrafted
<1>4. OrderCatalog /\ OrderImage
  BY <1>3 DEF OrderCatalog, OrderImage, Guided!Unanswered
<1>5. OrderGpu /\ OrderZone /\ OrderCount /\ OrderSpec /\ Guided!CardsForeseeRefusals
  BY <1>3 DEF OrderGpu, OrderZone, OrderCount, OrderSpec, Guided!CardsForeseeRefusals
<1> QED
  BY <1>1, <1>2, <1>4, <1>5 DEF OrderInv

\* The end, with a draft or without, changes nothing that was settled.
LEMMA OrderEnds ==
    ASSUME OrderInv, cardStep' = "done",
           UNCHANGED <<request, orderParams, catalog, sells, probe, capacity, answers, ordered>>,
           stood' = stood \/ ordered = Guided!NoDraft,
           (Guided!CardsForeseeRefusals)'
    PROVE  OrderInv'
<1>1. \A steps : "done" \notin steps => OrderAt(steps)' = (ordered # Guided!NoDraft)
  BY DEF OrderAt
<1>2. \A steps : ordered # Guided!NoDraft => OrderAt(steps)
  BY DEF OrderAt
<1> USE DEF OrderInv
<1>3. OrderShaped'
  BY DEF OrderShaped, OrderForm, Guided!NoDraft, Guided!IsOrder
<1>4. OrderRequested'
  BY DEF OrderRequested, OrderAnyGpu, OrderAnyZone, OrderAnyCount, OrderAnySpec
<1>5. OrderCatalog'
  <2>1. OrderAt(OrderQueried)' = (ordered # Guided!NoDraft)
    BY <1>1 DEF OrderQueried, OrderImaged, OrderEquipped, OrderPlaced, OrderCounted, OrderDrafted
  <2> QED
    BY <1>2, <2>1 DEF OrderCatalog
<1>6. OrderImage'
  <2>1. OrderAt(OrderImaged)' = (ordered # Guided!NoDraft)
    BY <1>1 DEF OrderImaged, OrderEquipped, OrderPlaced, OrderCounted, OrderDrafted
  <2> QED
    BY <1>2, <2>1, OrderSameAll DEF OrderImage
<1>7. OrderGpu' /\ OrderZone' /\ OrderCount' /\ OrderSpec'
  <2>1. /\ OrderAt(OrderEquipped)' = (ordered # Guided!NoDraft)
        /\ OrderAt(OrderPlaced)' = (ordered # Guided!NoDraft)
        /\ OrderAt(OrderCounted)' = (ordered # Guided!NoDraft)
        /\ OrderAt(OrderDrafted)' = (ordered # Guided!NoDraft)
    BY <1>1 DEF OrderEquipped, OrderPlaced, OrderCounted, OrderDrafted
  <2>2. OrderGpu'
    BY <1>2, <2>1, OrderSameAll DEF OrderGpu, OrderSettled
  <2>3. OrderZone'
    BY <1>2, <2>1, OrderSameAll DEF OrderZone, OrderSettled
  <2>4. OrderCount'
    BY <1>2, <2>1, OrderSameAll DEF OrderCount, OrderSettled
  <2>5. OrderSpec'
    BY <1>2, <2>1, OrderSameAll DEF OrderSpec, OrderSettled
  <2> QED
    BY <2>2, <2>3, <2>4, <2>5
<1> QED
  BY <1>3, <1>4, <1>5, <1>6, <1>7

\* Before the draft there is none, and nothing is refused.
LEMMA OrderOpen ==
    ASSUME OrderInv, cardStep \in OrderAnySpec \cup {"draft"}
    PROVE  /\ ordered = Guided!NoDraft /\ orderEnd = "none"
           /\ \A steps : OrderAt(steps) = (cardStep \in steps)
BY DEF OrderInv, OrderShaped, OrderAt, OrderAnySpec, OrderAnyCount, OrderAnyZone, OrderAnyGpu

\* A step to another card or query, by what is left to show of it.
LEMMA OrderMoves ==
    ASSUME OrderInv, cardStep \in OrderAnySpec, cardStep' # "done",
           UNCHANGED <<request, ordered, orderEnd>>,
           Guided!IsOrder(orderParams'),
           OrderForm(answers')
    PROVE  /\ OrderShaped' /\ (Guided!CardsForeseeRefusals)'
           /\ \A steps : OrderAt(steps)' = (cardStep' \in steps)
<1>1. ordered = Guided!NoDraft /\ orderEnd = "none"
  BY OrderOpen
<1>2. request' \in OrderRequests
  BY DEF OrderInv, OrderShaped
<1>3. OrderShaped'
  BY <1>1, <1>2 DEF OrderShaped, OrderForm, Guided!NoDraft, Guided!IsOrder
<1>4. (Guided!CardsForeseeRefusals)'
  BY <1>1 DEF Guided!CardsForeseeRefusals
<1>5. \A steps : OrderAt(steps)' = (cardStep' \in steps)
  BY <1>1 DEF OrderAt, Guided!NoDraft
<1> QED
  BY <1>3, <1>4, <1>5

\* The queries, which leave the order and the answers alone.
LEMMA OrderQueries ==
    ASSUME Guided!OrderConstants, OrderInv,
           \/ Guided!QueryImages \/ Guided!QueryInventory \/ Guided!Requery \/ Guided!Browse
           \/ Guided!Probe \/ Guided!QueryCapacity
    PROVE  OrderInv'
<1> USE DEF Guided!QueryImages, Guided!QueryInventory, Guided!Requery, Guided!Browse,
    Guided!Probe, Guided!QueryCapacity, Guided!Goto, Guided!ending
<1>1. /\ UNCHANGED <<request, orderParams, answers, stood, ordered, orderEnd>>
      /\ <<cardStep, cardStep'>> \in
           {<<"images", "inventory">>, <<"inventory", "source">>, <<"requery", "browse">>,
            <<"browse", "facets">>, <<"probe", "gpu">>, <<"capacity", "count">>}
  OBVIOUS
<1>2. cardStep \in OrderAnySpec /\ cardStep' # "done"
  BY <1>1 DEF OrderAnySpec, OrderAnyCount, OrderAnyZone, OrderAnyGpu
<1>3. /\ OrderShaped' /\ (Guided!CardsForeseeRefusals)'
      /\ \A steps : OrderAt(steps)' = (cardStep' \in steps)
  BY <1>1, <1>2, OrderMoves DEF OrderInv, OrderShaped, OrderForm, Guided!IsOrder
<1>4. \A steps : OrderAt(steps) = (cardStep \in steps)
  BY <1>2, OrderOpen
<1>5. OrderRequested'
  BY <1>1 DEF OrderInv, OrderRequested, OrderAnyGpu, OrderAnyZone, OrderAnyCount, OrderAnySpec
<1>6. OrderCatalog'
  <2>1. CASE cardStep \in {"images", "requery", "browse"}
    <3>1. orderParams.name = request.name
      BY DEF OrderInv, OrderRequested
    <3>2. cardStep = "images" => /\ orderParams.source = request.source
                                 /\ orderParams.image \in {request.image, Guided!None}
      BY DEF OrderInv, OrderCatalog, OrderImage
    <3>3. ASSUME NEW i \in catalog', i \notin catalog
          PROVE  /\ i \in OrderImages /\ i.source = orderParams.source
                 /\ i.listed \/ i.id = request.image \/ request.name # Guided!None
      <4>1. CASE cardStep = "images"
        <5>1. i \in Guided!FirstReply
          BY <3>3, <4>1
        <5> QED
          BY <3>1, <3>2, <4>1, <5>1 DEF Guided!FirstReply, Guided!Listed, Guided!Named
      <4>2. CASE cardStep = "requery"
        <5>1. PICK S \in Guided!OtherReplies : i \in S
          BY <3>3, <4>2
        <5> QED
          BY <3>1, <5>1 DEF Guided!OtherReplies, Guided!Listed, Guided!Named
      <4>3. CASE cardStep = "browse"
        BY <3>3, <4>3 DEF Guided!Listed
      <4> QED
        BY <2>1, <4>1, <4>2, <4>3
    <3>4. cardStep = "requery" => \A i \in catalog' : i.source = orderParams.source
      <4>1. CASE cardStep = "requery" /\ catalog' \in Guided!OtherReplies
        BY <4>1 DEF Guided!OtherReplies, Guided!Listed, Guided!Named
      <4>2. CASE cardStep = "requery" /\ (orderParams.image # Guided!None \/ orderParams.source = request.source)
        BY <4>2 DEF OrderInv, OrderCatalog
      <4> QED
        BY <4>1, <4>2
    <3>5. cardStep = "images" => \A i \in catalog' : i.source = request.source
      BY <3>2 DEF Guided!FirstReply, Guided!Listed, Guided!Named
    <3>6. cardStep = "browse" => \A i \in catalog' : i.source = orderParams.source
      BY <1>4, <3>3 DEF OrderInv, OrderCatalog, OrderQueried
    <3>7. /\ catalog' \subseteq OrderImages
          /\ \A i \in catalog' : i.listed \/ i.id = request.image \/ request.name # Guided!None
      BY <3>3 DEF OrderInv, OrderCatalog
    <3> QED
      BY <1>1, <1>3, <2>1, <3>2, <3>4, <3>5, <3>6, <3>7
         DEF OrderCatalog, OrderQueried, OrderImaged, OrderEquipped, OrderPlaced, OrderCounted, OrderDrafted
  <2>2. CASE cardStep \in {"inventory", "probe", "capacity"}
    <3>1. catalog' = catalog
      BY <2>2
    <3> QED
      BY <1>1, <1>3, <1>4, <2>2, <3>1
         DEF OrderInv, OrderCatalog, OrderQueried, OrderImaged, OrderEquipped, OrderPlaced, OrderCounted,
             OrderDrafted
  <2> QED
    BY <1>1, <2>1, <2>2
<1>7. cardStep \in {"probe", "capacity"} => OrderChosen' = OrderChosen
  BY <1>1, OrderSameChosen
<1>8. OrderImage'
  BY <1>1, <1>3, <1>4, <1>7
     DEF OrderInv, OrderImage, OrderImaged, OrderEquipped, OrderPlaced, OrderCounted, OrderDrafted
<1>9. cardStep = "capacity" => /\ OrderGpus' = OrderGpus /\ OrderFree' = OrderFree
                               /\ OrderZones' = OrderZones /\ (Guided!Supported)' = Guided!Supported
  BY <1>1, OrderSameGpus, OrderSameImage
<1>10. OrderGpu' /\ OrderZone'
  <2>1. CASE cardStep = "capacity"
    BY <1>1, <1>3, <1>4, <1>9, <2>1
       DEF OrderInv, OrderGpu, OrderZone, OrderSettled, OrderEquipped, OrderPlaced, OrderCounted, OrderDrafted
  <2>2. CASE cardStep # "capacity"
    BY <1>1, <1>3, <2>2 DEF OrderGpu, OrderZone, OrderEquipped, OrderPlaced, OrderCounted, OrderDrafted
  <2> QED
    BY <2>1, <2>2
<1>11. OrderCount' /\ OrderSpec'
  BY <1>1, <1>3 DEF OrderCount, OrderSpec, OrderCounted, OrderDrafted
<1> QED
  BY <1>3, <1>5, <1>6, <1>8, <1>10, <1>11 DEF OrderInv

\* A card that ends the creation.
LEMMA OrderDeadEnd ==
    ASSUME OrderInv, NEW options, Guided!DeadEnd(options)
    PROVE  OrderInv'
<1>1. /\ cardStep' = "done" /\ orderEnd' = "dead end"
      /\ UNCHANGED <<request, orderParams, catalog, sells, probe, capacity, answers, stood, ordered>>
  BY DEF Guided!DeadEnd, Guided!Stops, Guided!replies
<1>2. (Guided!CardsForeseeRefusals)'
  BY <1>1 DEF Guided!CardsForeseeRefusals
<1> QED
  BY <1>1, <1>2, OrderEnds

\* Before the image is settled, what the later cards settle is not at stake.
LEMMA OrderNotYet ==
    ASSUME \A steps : OrderAt(steps)' = (cardStep' \in steps),
           cardStep' \in {"requery", "facets", "family", "image", "charge", "probe", "gpu"}
    PROVE  OrderGpu' /\ OrderZone' /\ OrderCount' /\ OrderSpec'
BY DEF OrderGpu, OrderZone, OrderCount, OrderSpec, OrderEquipped, OrderPlaced, OrderCounted, OrderDrafted

\* An answer is noted beside the others.
LEMMA OrderNoted ==
    ASSUME OrderForm(answers), NEW v
    PROVE  /\ [answers EXCEPT !.source = v]
              = [source |-> v, family |-> answers.family, image |-> answers.image, charge |-> answers.charge,
               gpu |-> answers.gpu, zone |-> answers.zone, count |-> answers.count, spec |-> answers.spec]
           /\ [answers EXCEPT !.family = v]
              = [source |-> answers.source, family |-> v, image |-> answers.image, charge |-> answers.charge,
               gpu |-> answers.gpu, zone |-> answers.zone, count |-> answers.count, spec |-> answers.spec]
           /\ [answers EXCEPT !.image = v]
              = [source |-> answers.source, family |-> answers.family, image |-> v, charge |-> answers.charge,
               gpu |-> answers.gpu, zone |-> answers.zone, count |-> answers.count, spec |-> answers.spec]
           /\ [answers EXCEPT !.charge = v]
              = [source |-> answers.source, family |-> answers.family, image |-> answers.image, charge |-> v,
               gpu |-> answers.gpu, zone |-> answers.zone, count |-> answers.count, spec |-> answers.spec]
           /\ [answers EXCEPT !.gpu = v]
              = [source |-> answers.source, family |-> answers.family, image |-> answers.image, charge |-> answers.charge,
               gpu |-> v, zone |-> answers.zone, count |-> answers.count, spec |-> answers.spec]
           /\ [answers EXCEPT !.zone = v]
              = [source |-> answers.source, family |-> answers.family, image |-> answers.image, charge |-> answers.charge,
               gpu |-> answers.gpu, zone |-> v, count |-> answers.count, spec |-> answers.spec]
           /\ [answers EXCEPT !.count = v]
              = [source |-> answers.source, family |-> answers.family, image |-> answers.image, charge |-> answers.charge,
               gpu |-> answers.gpu, zone |-> answers.zone, count |-> v, spec |-> answers.spec]
           /\ [answers EXCEPT !.spec = v]
              = [source |-> answers.source, family |-> answers.family, image |-> answers.image, charge |-> answers.charge,
               gpu |-> answers.gpu, zone |-> answers.zone, count |-> answers.count, spec |-> v]
<1> DEFINE a == [source |-> answers.source, family |-> answers.family, image |-> answers.image,
                 charge |-> answers.charge, gpu |-> answers.gpu, zone |-> answers.zone,
                 count |-> answers.count, spec |-> answers.spec]
<1>1. answers = a
  BY DEF OrderForm
<1>2. [answers EXCEPT !.source = v]
         = [source |-> v, family |-> answers.family, image |-> answers.image, charge |-> answers.charge,
               gpu |-> answers.gpu, zone |-> answers.zone, count |-> answers.count, spec |-> answers.spec]
  BY <1>1
<1>3. [answers EXCEPT !.family = v]
         = [source |-> answers.source, family |-> v, image |-> answers.image, charge |-> answers.charge,
               gpu |-> answers.gpu, zone |-> answers.zone, count |-> answers.count, spec |-> answers.spec]
  BY <1>1
<1>4. [answers EXCEPT !.image = v]
         = [source |-> answers.source, family |-> answers.family, image |-> v, charge |-> answers.charge,
               gpu |-> answers.gpu, zone |-> answers.zone, count |-> answers.count, spec |-> answers.spec]
  BY <1>1
<1>5. [answers EXCEPT !.charge = v]
         = [source |-> answers.source, family |-> answers.family, image |-> answers.image, charge |-> v,
               gpu |-> answers.gpu, zone |-> answers.zone, count |-> answers.count, spec |-> answers.spec]
  BY <1>1
<1>6. [answers EXCEPT !.gpu = v]
         = [source |-> answers.source, family |-> answers.family, image |-> answers.image, charge |-> answers.charge,
               gpu |-> v, zone |-> answers.zone, count |-> answers.count, spec |-> answers.spec]
  BY <1>1
<1>7. [answers EXCEPT !.zone = v]
         = [source |-> answers.source, family |-> answers.family, image |-> answers.image, charge |-> answers.charge,
               gpu |-> answers.gpu, zone |-> v, count |-> answers.count, spec |-> answers.spec]
  BY <1>1
<1>8. [answers EXCEPT !.count = v]
         = [source |-> answers.source, family |-> answers.family, image |-> answers.image, charge |-> answers.charge,
               gpu |-> answers.gpu, zone |-> answers.zone, count |-> v, spec |-> answers.spec]
  BY <1>1
<1>9. [answers EXCEPT !.spec = v]
         = [source |-> answers.source, family |-> answers.family, image |-> answers.image, charge |-> answers.charge,
               gpu |-> answers.gpu, zone |-> answers.zone, count |-> answers.count, spec |-> v]
  BY <1>1
<1> QED
  BY <1>2, <1>3, <1>4, <1>5, <1>6, <1>7, <1>8, <1>9

LEMMA OrderSource ==
    ASSUME OrderInv, Guided!ChooseSource
    PROVE  OrderInv'
<1> USE DEF Guided!ChooseSource, Guided!Skip, Guided!Answer, Guided!Goto, Guided!Kept, Guided!replies,
    Guided!ending, Guided!None
<1>1. /\ cardStep = "source" /\ cardStep' = "requery"
      /\ UNCHANGED <<request, catalog, ordered, orderEnd>>
  OBVIOUS
<1>2. \/ orderParams' = orderParams /\ answers' = answers /\ orderParams.image # "none"
      \/ \E s : /\ orderParams' = Guided!FromSource(s)
               /\ answers' = [answers EXCEPT !.source = s]
               /\ orderParams.image = "none"
  OBVIOUS
<1>3. Guided!IsOrder(orderParams) /\ OrderForm(answers)
  BY DEF OrderInv, OrderShaped
<1>4. /\ Guided!IsOrder(orderParams')
      /\ orderParams'.name = orderParams.name /\ orderParams'.charge = orderParams.charge
      /\ orderParams'.gpu = orderParams.gpu /\ orderParams'.zone = orderParams.zone
      /\ orderParams'.count = orderParams.count /\ orderParams'.spec = orderParams.spec
      /\ orderParams'.image = orderParams.image
      /\ orderParams.image # "none" => orderParams'.source = orderParams.source
  BY <1>2, <1>3 DEF Guided!FromSource, Guided!IsOrder
<1>5. \/ answers' = answers /\ orderParams' = orderParams
      \/ answers'.source = orderParams'.source
  <2>1. ASSUME NEW s, orderParams' = Guided!FromSource(s), answers' = [answers EXCEPT !.source = s]
        PROVE  answers'.source = orderParams'.source
    <3>1. answers' = [source |-> s, family |-> answers.family, image |-> answers.image,
                      charge |-> answers.charge, gpu |-> answers.gpu, zone |-> answers.zone,
                      count |-> answers.count, spec |-> answers.spec]
      BY <1>3, <2>1, OrderNoted
    <3>2. orderParams'.source = s
      BY <1>3, <2>1 DEF Guided!FromSource, Guided!IsOrder
    <3> QED
      BY <3>1, <3>2
  <2> QED
    BY <1>2, <2>1
<1>6. /\ answers'.family = answers.family /\ answers'.image = answers.image
      /\ answers'.charge = answers.charge /\ answers'.gpu = answers.gpu
      /\ answers'.zone = answers.zone /\ answers'.count = answers.count /\ answers'.spec = answers.spec
      /\ OrderForm(answers')
  <2>1. ASSUME NEW s, answers' = [answers EXCEPT !.source = s]
        PROVE  answers' = [source |-> s, family |-> answers.family, image |-> answers.image,
                           charge |-> answers.charge, gpu |-> answers.gpu, zone |-> answers.zone,
                           count |-> answers.count, spec |-> answers.spec]
    BY <1>3, <2>1, OrderNoted
  <2>2. CASE answers' = answers
    BY <1>3, <2>2
  <2>3. CASE \E s : answers' = [answers EXCEPT !.source = s]
    BY <2>1, <2>3 DEF OrderForm
  <2> QED
    BY <1>2, <2>2, <2>3
<1>7. /\ OrderShaped' /\ (Guided!CardsForeseeRefusals)'
      /\ \A steps : OrderAt(steps)' = (cardStep' \in steps)
  BY <1>1, <1>4, <1>6, OrderMoves DEF OrderAnySpec, OrderAnyCount, OrderAnyZone, OrderAnyGpu
<1>8. OrderRequested'
  BY <1>1, <1>4, <1>5, <1>6
     DEF OrderInv, OrderRequested, OrderAnyGpu, OrderAnyZone, OrderAnyCount, OrderAnySpec
<1>9. OrderCatalog'
  BY <1>1, <1>4, <1>7
     DEF OrderInv, OrderCatalog, OrderQueried, OrderImaged, OrderEquipped, OrderPlaced, OrderCounted,
         OrderDrafted
<1>10. OrderImage'
  BY <1>1, <1>4, <1>6, <1>7
     DEF OrderInv, OrderImage, OrderImaged, OrderEquipped, OrderPlaced, OrderCounted, OrderDrafted
<1> QED
  BY <1>1, <1>7, <1>8, <1>9, <1>10, OrderNotYet DEF OrderInv

\* An image that the catalogue has, and that is now chosen.
LEMMA OrderPicked ==
    ASSUME Guided!OrderConstants, OrderInv, OrderAt(OrderQueried), UNCHANGED <<request, catalog>>,
           NEW i \in Guided!Catalog, i \in catalog \/ orderParams.image \in {request.image, Guided!None},
           orderParams'.image = i.id, orderParams'.source = orderParams.source,
           orderParams'.facet # Guided!None => orderParams'.facet \in i.facets,
           orderParams'.family # Guided!None => i.family = orderParams'.family
    PROVE  OrderChosen'
<1>1. i \in OrderImages /\ i.source = orderParams.source /\ i.id # Guided!None
  BY DEF OrderInv, OrderCatalog, Guided!Catalog, Guided!OrderConstants
<1>2. Guided!Image(i.id) = i
  <2>1. \A j \in OrderImages : j.id = i.id <=> j = i
    BY <1>1 DEF Guided!OrderConstants
  <2>2. i = CHOOSE j \in OrderImages : j.id = i.id
    BY <1>1, <2>1
  <2> QED
    BY <2>2 DEF Guided!Image
<1>3. i \in (Guided!Catalog)'
  BY DEF Guided!Catalog
<1>4. i.listed \/ i.id = request.image \/ request.name # Guided!None
  BY <1>1 DEF OrderInv, OrderCatalog, Guided!Catalog
<1>5. (Guided!Image(orderParams.image))' = i
  BY <1>2 DEF Guided!Image
<1> QED
  BY <1>1, <1>3, <1>4, <1>5 DEF OrderChosen

LEMMA OrderFacets ==
    ASSUME OrderInv, Guided!ChooseFacets
    PROVE  OrderInv'
<1> USE DEF Guided!ChooseFacets, Guided!Skip, Guided!Goto, Guided!Kept, Guided!replies, Guided!ending
<1>1. /\ cardStep = "facets" /\ cardStep' = "family"
      /\ UNCHANGED <<request, catalog, answers, ordered, orderEnd>>
      /\ orderParams' = orderParams
         \/ \E f : orderParams' = [orderParams EXCEPT !.facet = f, !.family = Guided!None]
  OBVIOUS
<1>2. Guided!IsOrder(orderParams) /\ OrderForm(answers)
  BY DEF OrderInv, OrderShaped
<1>3. /\ Guided!IsOrder(orderParams')
      /\ orderParams'.name = orderParams.name /\ orderParams'.charge = orderParams.charge
      /\ orderParams'.gpu = orderParams.gpu /\ orderParams'.zone = orderParams.zone
      /\ orderParams'.count = orderParams.count /\ orderParams'.spec = orderParams.spec
      /\ orderParams'.image = orderParams.image /\ orderParams'.source = orderParams.source
  BY <1>1, <1>2 DEF Guided!IsOrder
<1>4. /\ OrderShaped' /\ (Guided!CardsForeseeRefusals)'
      /\ \A steps : OrderAt(steps)' = (cardStep' \in steps)
  BY <1>1, <1>2, <1>3, OrderMoves DEF OrderForm, OrderAnySpec, OrderAnyCount, OrderAnyZone, OrderAnyGpu
<1>5. \A steps : OrderAt(steps) = (cardStep \in steps)
  BY <1>1, OrderOpen DEF OrderAnySpec, OrderAnyCount, OrderAnyZone, OrderAnyGpu
<1>6. OrderRequested'
  BY <1>1, <1>3 DEF OrderInv, OrderRequested, OrderAnyGpu, OrderAnyZone, OrderAnyCount, OrderAnySpec
<1>7. OrderCatalog'
  BY <1>1, <1>3, <1>4, <1>5 DEF OrderInv, OrderCatalog, OrderQueried
<1>8. OrderImage'
  BY <1>1, <1>3, <1>4
     DEF OrderInv, OrderImage, OrderImaged, OrderEquipped, OrderPlaced, OrderCounted, OrderDrafted
<1> QED
  BY <1>1, <1>4, <1>6, <1>7, <1>8, OrderNotYet DEF OrderInv

LEMMA OrderFamily ==
    ASSUME Guided!OrderConstants, OrderInv, Guided!ChooseFamily
    PROVE  OrderInv'
<1>1. CASE Guided!DeadEnd(Guided!FamilyEnabled)
  BY <1>1, OrderDeadEnd
<1>2. CASE ~Guided!DeadEnd(Guided!FamilyEnabled)
  <2> USE DEF Guided!Skip, Guided!Answer, Guided!Goto, Guided!Kept, Guided!replies, Guided!ending
  <2>1. /\ cardStep = "family" /\ cardStep' = "image"
        /\ UNCHANGED <<request, catalog, ordered, orderEnd>>
        /\ \/ orderParams' = orderParams /\ answers' = answers
           \/ \E f \in Guided!FamilyEnabled :
                /\ orderParams' = Guided!FromFamily(f) /\ answers' = [answers EXCEPT !.family = f]
                /\ Guided!AsksFamily
    BY <1>2 DEF Guided!ChooseFamily
  <2>2. Guided!IsOrder(orderParams) /\ OrderForm(answers)
    BY DEF OrderInv, OrderShaped
  <2>3. /\ Guided!IsOrder(orderParams')
        /\ orderParams'.name = orderParams.name /\ orderParams'.charge = orderParams.charge
        /\ orderParams'.gpu = orderParams.gpu /\ orderParams'.zone = orderParams.zone
        /\ orderParams'.count = orderParams.count /\ orderParams'.spec = orderParams.spec
        /\ orderParams'.source = orderParams.source /\ orderParams'.facet = orderParams.facet
    BY <2>1, <2>2 DEF Guided!FromFamily, Guided!IsOrder
  <2>4. /\ answers'.source = answers.source /\ answers'.image = answers.image
        /\ answers'.charge = answers.charge /\ answers'.gpu = answers.gpu
        /\ answers'.zone = answers.zone /\ answers'.count = answers.count /\ answers'.spec = answers.spec
        /\ OrderForm(answers')
    <3>1. ASSUME NEW f, answers' = [answers EXCEPT !.family = f]
          PROVE  answers' = [source |-> answers.source, family |-> f, image |-> answers.image,
                             charge |-> answers.charge, gpu |-> answers.gpu, zone |-> answers.zone,
                             count |-> answers.count, spec |-> answers.spec]
      BY <2>2, <3>1, OrderNoted
    <3>2. CASE answers' = answers
      BY <2>2, <3>2
    <3>3. CASE \E f : answers' = [answers EXCEPT !.family = f]
      BY <3>1, <3>3 DEF OrderForm
    <3> QED
      BY <2>1, <3>2, <3>3
  <2>5. /\ OrderShaped' /\ (Guided!CardsForeseeRefusals)'
        /\ \A steps : OrderAt(steps)' = (cardStep' \in steps)
    BY <2>1, <2>3, <2>4, OrderMoves DEF OrderAnySpec, OrderAnyCount, OrderAnyZone, OrderAnyGpu
  <2>6. \A steps : OrderAt(steps) = (cardStep \in steps)
    BY <2>1, OrderOpen DEF OrderAnySpec, OrderAnyCount, OrderAnyZone, OrderAnyGpu
  <2>7. OrderRequested'
    BY <2>1, <2>3, <2>4
       DEF OrderInv, OrderRequested, OrderAnyGpu, OrderAnyZone, OrderAnyCount, OrderAnySpec
  <2>8. OrderCatalog'
    BY <2>1, <2>3, <2>5, <2>6 DEF OrderInv, OrderCatalog, OrderQueried
  <2>9. /\ answers.family = Guided!None /\ answers.image = Guided!None
        /\ orderParams.image \in {request.image, Guided!None}
    BY <2>1 DEF OrderInv, OrderImage
  <2>10. ASSUME NEW f \in Guided!FamilyEnabled, orderParams' = Guided!FromFamily(f), Guided!AsksFamily
         PROVE  orderParams'.image = Guided!None \/ OrderChosen'
    <3> DEFINE i == CHOOSE j \in Guided!Members(f) : TRUE
    <3>1. orderParams'.family = f /\ orderParams'.image \in {i.id, Guided!None}
      BY <2>2, <2>10 DEF Guided!FromFamily, Guided!IsOrder
    <3>2. i \in Guided!Members(f)
      <4>1. Guided!Members(f) # {}
        BY <2>10 DEF Guided!FamilyEnabled, Guided!Families, Guided!Members
      <4> QED
        BY <4>1
    <3> HIDE DEF i
    <3>3. /\ i \in Guided!Catalog /\ i.family = f
          /\ orderParams.facet # Guided!None => orderParams.facet \in i.facets
      BY <3>2 DEF Guided!Members, Guided!Final, Guided!Base
    <3>4. OrderAt(OrderQueried)
      BY <2>1, <2>6 DEF OrderQueried
    <3>5. CASE orderParams'.image = i.id
      BY <2>1, <2>3, <2>9, <3>1, <3>3, <3>4, <3>5, OrderPicked
    <3> QED
      BY <3>1, <3>5
  <2>11. ASSUME NEW f \in Guided!FamilyEnabled, answers' = [answers EXCEPT !.family = f]
         PROVE  answers'.family # Guided!None
    <3>1. PICK i \in Guided!Catalog : i.family = f
      BY DEF Guided!FamilyEnabled, Guided!Families, Guided!Final, Guided!Base
    <3>2. i \in OrderImages
      BY DEF Guided!Catalog, OrderInv, OrderCatalog
    <3>3. f # Guided!None
      BY <3>1, <3>2 DEF Guided!OrderConstants
    <3>4. answers' = [source |-> answers.source, family |-> f, image |-> answers.image,
                      charge |-> answers.charge, gpu |-> answers.gpu, zone |-> answers.zone,
                      count |-> answers.count, spec |-> answers.spec]
      BY <2>2, <2>11, OrderNoted
    <3> QED
      BY <3>3, <3>4
  <2>12. OrderImage'
    <3>1. \/ answers'.family = Guided!None /\ orderParams'.image = orderParams.image
          \/ answers'.family # Guided!None /\ (orderParams'.image = Guided!None \/ OrderChosen')
      BY <2>1, <2>9, <2>10, <2>11
    <3> QED
      BY <2>1, <2>4, <2>5, <2>9, <3>1
         DEF OrderImage, OrderImaged, OrderEquipped, OrderPlaced, OrderCounted, OrderDrafted
  <2> QED
    BY <2>1, <2>5, <2>7, <2>8, <2>12, OrderNotYet DEF OrderInv
<1> QED
  BY <1>1, <1>2

LEMMA OrderImageCard ==
    ASSUME Guided!OrderConstants, OrderInv, Guided!ChooseImage
    PROVE  OrderInv'
<1>1. CASE Guided!DeadEnd(Guided!ImageEnabled)
  BY <1>1, OrderDeadEnd
<1>2. CASE ~Guided!DeadEnd(Guided!ImageEnabled)
  <2> USE DEF Guided!Skip, Guided!Answer, Guided!Goto, Guided!Kept, Guided!replies, Guided!ending
  <2>1. /\ cardStep = "image" /\ cardStep' = "charge"
        /\ UNCHANGED <<request, catalog, ordered, orderEnd>>
        /\ \/ /\ orderParams' = orderParams /\ answers' = answers
              /\ orderParams.image # Guided!None /\ answers.family # Guided!None
           \/ /\ ~(orderParams.image # Guided!None /\ answers.family # Guided!None)
              /\ \E i \in Guided!ImageEnabled :
                   /\ orderParams' = [orderParams EXCEPT !.image = i.id]
                   /\ answers' = [answers EXCEPT !.image = i.id]
    BY <1>2 DEF Guided!ChooseImage
  <2>2. Guided!IsOrder(orderParams) /\ OrderForm(answers)
    BY DEF OrderInv, OrderShaped
  <2>3. /\ Guided!IsOrder(orderParams')
        /\ orderParams'.name = orderParams.name /\ orderParams'.charge = orderParams.charge
        /\ orderParams'.gpu = orderParams.gpu /\ orderParams'.zone = orderParams.zone
        /\ orderParams'.count = orderParams.count /\ orderParams'.spec = orderParams.spec
        /\ orderParams'.source = orderParams.source /\ orderParams'.facet = orderParams.facet
        /\ orderParams'.family = orderParams.family
    BY <2>1, <2>2 DEF Guided!IsOrder
  <2>4. ASSUME NEW v, answers' = [answers EXCEPT !.image = v]
        PROVE  answers' = [source |-> answers.source, family |-> answers.family, image |-> v,
                           charge |-> answers.charge, gpu |-> answers.gpu, zone |-> answers.zone,
                           count |-> answers.count, spec |-> answers.spec]
    BY <2>2, <2>4, OrderNoted
  <2>5. /\ answers'.source = answers.source /\ answers'.family = answers.family
        /\ answers'.charge = answers.charge /\ answers'.gpu = answers.gpu
        /\ answers'.zone = answers.zone /\ answers'.count = answers.count /\ answers'.spec = answers.spec
        /\ OrderForm(answers')
    <3>1. CASE answers' = answers
      BY <2>2, <3>1
    <3>2. CASE \E v : answers' = [answers EXCEPT !.image = v]
      BY <2>4, <3>2 DEF OrderForm
    <3> QED
      BY <2>1, <3>1, <3>2
  <2>6. /\ OrderShaped' /\ (Guided!CardsForeseeRefusals)'
        /\ \A steps : OrderAt(steps)' = (cardStep' \in steps)
    BY <2>1, <2>3, <2>5, OrderMoves DEF OrderAnySpec, OrderAnyCount, OrderAnyZone, OrderAnyGpu
  <2>7. \A steps : OrderAt(steps) = (cardStep \in steps)
    BY <2>1, OrderOpen DEF OrderAnySpec, OrderAnyCount, OrderAnyZone, OrderAnyGpu
  <2>8. OrderRequested'
    BY <2>1, <2>3, <2>5
       DEF OrderInv, OrderRequested, OrderAnyGpu, OrderAnyZone, OrderAnyCount, OrderAnySpec
  <2>9. OrderCatalog'
    BY <2>1, <2>3, <2>6, <2>7 DEF OrderInv, OrderCatalog, OrderQueried, OrderImaged
  <2>10. /\ answers.image = Guided!None
         /\ answers.family = Guided!None => orderParams.image \in {request.image, Guided!None}
         /\ answers.family # Guided!None => orderParams.image = Guided!None \/ OrderChosen
    BY <2>1 DEF OrderInv, OrderImage
  <2>11. OrderChosen' /\ answers'.image \in {orderParams'.image, Guided!None}
    <3>1. CASE /\ orderParams' = orderParams /\ answers' = answers
               /\ orderParams.image # Guided!None /\ answers.family # Guided!None
      BY <2>1, <2>10, <3>1, OrderSameChosen
    <3>2. ASSUME NEW i \in Guided!ImageEnabled, orderParams' = [orderParams EXCEPT !.image = i.id],
                 answers' = [answers EXCEPT !.image = i.id],
                 ~(orderParams.image # Guided!None /\ answers.family # Guided!None)
          PROVE  OrderChosen' /\ answers'.image \in {orderParams'.image, Guided!None}
      <4>1. orderParams'.image = i.id
        BY <2>2, <3>2 DEF Guided!IsOrder
      <4>2. answers'.image = i.id
        BY <2>4, <3>2
      <4>3. /\ i \in Guided!Catalog
            /\ orderParams.facet # Guided!None => orderParams.facet \in i.facets
            /\ orderParams.family # Guided!None => i.family = orderParams.family
        BY DEF Guided!ImageEnabled, Guided!Final, Guided!Base
      <4>4. OrderAt(OrderQueried) /\ orderParams.image \in {request.image, Guided!None}
        BY <2>1, <2>7, <2>10, <3>2 DEF OrderQueried
      <4> QED
        BY <2>1, <2>3, <4>1, <4>2, <4>3, <4>4, OrderPicked
    <3> QED
      BY <2>1, <3>1, <3>2
  <2>12. OrderImage'
    BY <2>1, <2>11 DEF OrderImage
  <2> QED
    BY <2>1, <2>6, <2>8, <2>9, <2>12, OrderNotYet DEF OrderInv
<1> QED
  BY <1>1, <1>2

\* A step among the cards of the hardware leaves what is known of the image.
LEMMA OrderKeepsImage ==
    ASSUME OrderInv, UNCHANGED <<request, catalog>>, OrderAt(OrderImaged),
           cardStep' \in OrderImaged,
           orderParams'.image = orderParams.image, orderParams'.source = orderParams.source,
           orderParams'.facet = orderParams.facet, orderParams'.family = orderParams.family,
           orderParams'.name = orderParams.name, answers'.image = answers.image
    PROVE  OrderCatalog' /\ OrderImage'
<1>1. OrderAt(OrderQueried)
  BY DEF OrderAt, OrderQueried
<1>2. OrderCatalog'
  BY <1>1 DEF OrderInv, OrderCatalog, OrderImaged, OrderEquipped, OrderPlaced, OrderCounted, OrderDrafted
<1>3. OrderImage'
  BY OrderSameChosen
     DEF OrderInv, OrderImage, OrderImaged, OrderEquipped, OrderPlaced, OrderCounted, OrderDrafted
<1> QED
  BY <1>2, <1>3

LEMMA OrderCharge ==
    ASSUME OrderInv, Guided!ChooseCharge
    PROVE  OrderInv'
<1>1. CASE Guided!DeadEnd(Guided!ChargeEnabled)
  BY <1>1, OrderDeadEnd
<1>2. CASE ~Guided!DeadEnd(Guided!ChargeEnabled)
  <2> USE DEF Guided!Skip, Guided!Answer, Guided!Goto, Guided!Kept, Guided!replies, Guided!ending
  <2>1. /\ cardStep = "charge" /\ cardStep' = "probe"
        /\ UNCHANGED <<request, catalog, ordered, orderEnd>>
        /\ \/ orderParams' = orderParams /\ answers' = answers
           \/ \E c : /\ orderParams' = [orderParams EXCEPT !.charge = c]
                     /\ answers' = [answers EXCEPT !.charge = c]
    BY <1>2 DEF Guided!ChooseCharge
  <2>2. Guided!IsOrder(orderParams) /\ OrderForm(answers)
    BY DEF OrderInv, OrderShaped
  <2>3. /\ Guided!IsOrder(orderParams')
        /\ orderParams'.name = orderParams.name /\ orderParams'.image = orderParams.image
        /\ orderParams'.gpu = orderParams.gpu /\ orderParams'.zone = orderParams.zone
        /\ orderParams'.count = orderParams.count /\ orderParams'.spec = orderParams.spec
        /\ orderParams'.source = orderParams.source /\ orderParams'.facet = orderParams.facet
        /\ orderParams'.family = orderParams.family
    BY <2>1, <2>2 DEF Guided!IsOrder
  <2>4. /\ answers'.source = answers.source /\ answers'.family = answers.family
        /\ answers'.image = answers.image /\ answers'.gpu = answers.gpu
        /\ answers'.zone = answers.zone /\ answers'.count = answers.count /\ answers'.spec = answers.spec
        /\ \/ answers'.charge = answers.charge /\ orderParams'.charge = orderParams.charge
           \/ answers'.charge = orderParams'.charge
        /\ OrderForm(answers')
    <3>1. CASE orderParams' = orderParams /\ answers' = answers
      BY <2>2, <3>1
    <3>2. ASSUME NEW c, orderParams' = [orderParams EXCEPT !.charge = c],
                 answers' = [answers EXCEPT !.charge = c]
          PROVE  /\ answers' = [source |-> answers.source, family |-> answers.family,
                                image |-> answers.image, charge |-> c, gpu |-> answers.gpu,
                                zone |-> answers.zone, count |-> answers.count, spec |-> answers.spec]
                 /\ orderParams'.charge = c
      <4>1. orderParams'.charge = c
        BY <2>2, <3>2 DEF Guided!IsOrder
      <4> QED
        BY <2>2, <3>2, <4>1, OrderNoted
    <3> QED
      BY <2>1, <3>1, <3>2 DEF OrderForm
  <2>5. /\ OrderShaped' /\ (Guided!CardsForeseeRefusals)'
        /\ \A steps : OrderAt(steps)' = (cardStep' \in steps)
    BY <2>1, <2>3, <2>4, OrderMoves DEF OrderAnySpec, OrderAnyCount, OrderAnyZone, OrderAnyGpu
  <2>6. \A steps : OrderAt(steps) = (cardStep \in steps)
    BY <2>1, OrderOpen DEF OrderAnySpec, OrderAnyCount, OrderAnyZone, OrderAnyGpu
  <2>7. OrderRequested'
    BY <2>1, <2>3, <2>4
       DEF OrderInv, OrderRequested, OrderAnyGpu, OrderAnyZone, OrderAnyCount, OrderAnySpec
  <2>8. OrderCatalog' /\ OrderImage'
    BY <2>1, <2>3, <2>4, <2>6, OrderKeepsImage DEF OrderImaged
  <2> QED
    BY <2>1, <2>5, <2>7, <2>8, OrderNotYet DEF OrderInv
<1> QED
  BY <1>1, <1>2

LEMMA OrderGpuCard ==
    ASSUME Guided!OrderConstants, OrderInv, Guided!ChooseGpu
    PROVE  OrderInv'
<1>1. CASE Guided!DeadEnd(Guided!GpuEnabled)
  BY <1>1, OrderDeadEnd
<1>2. CASE ~Guided!DeadEnd(Guided!GpuEnabled)
  <2> USE DEF Guided!Skip, Guided!Answer, Guided!Goto, Guided!Kept, Guided!replies, Guided!ending
  <2>1. /\ cardStep = "gpu" /\ cardStep' = "zone"
        /\ UNCHANGED <<request, catalog, sells, probe, capacity, ordered, orderEnd>>
        /\ \/ Guided!SkipGpu /\ orderParams' = orderParams /\ answers' = answers
           \/ \E g \in OrderGpus : /\ orderParams' = Guided!FromGpu(g)
                                   /\ answers' = [answers EXCEPT !.gpu = g]
    BY <1>2 DEF Guided!ChooseGpu, OrderGpus
  <2>2. Guided!IsOrder(orderParams) /\ OrderForm(answers)
    BY DEF OrderInv, OrderShaped
  <2>3. \A g \in OrderGpus : g # 0 /\ (Guided!Supported # {} => g \in Guided!Supported)
    <3>1. ASSUME NEW g \in OrderGpus
          PROVE  (\E r \in OrderRows : r.gpu = g) /\ (Guided!Supported # {} => g \in Guided!Supported)
      BY DEF OrderGpus, Guided!GpuEnabled, Guided!GpuChoices, Guided!Offers
    <3>2. \A r \in OrderRows : r.gpu # 0
      BY DEF Guided!OrderConstants
    <3> QED
      BY <3>1, <3>2
  <2>4. ASSUME NEW g \in OrderGpus, orderParams' = Guided!FromGpu(g)
        PROVE  /\ Guided!IsOrder(orderParams') /\ orderParams'.gpu = g
               /\ orderParams'.name = orderParams.name /\ orderParams'.image = orderParams.image
               /\ orderParams'.charge = orderParams.charge /\ orderParams'.source = orderParams.source
               /\ orderParams'.facet = orderParams.facet /\ orderParams'.family = orderParams.family
               /\ orderParams'.zone \in {orderParams.zone, 0}
               /\ orderParams'.count \in {orderParams.count, 0}
               /\ orderParams'.spec \in {orderParams.spec, 0}
    <3>1. \/ orderParams' = [orderParams EXCEPT !.gpu = g]
          \/ orderParams' = [orderParams EXCEPT !.gpu = g, !.zone = 0, !.count = 0, !.spec = 0,
                                                !.image = orderParams.image]
      BY <2>2, <2>3, <2>4 DEF Guided!FromGpu, Guided!IsOrder
    <3> QED
      BY <2>2, <3>1 DEF Guided!IsOrder
  <2>5. /\ Guided!IsOrder(orderParams')
        /\ orderParams'.name = orderParams.name /\ orderParams'.image = orderParams.image
        /\ orderParams'.charge = orderParams.charge /\ orderParams'.source = orderParams.source
        /\ orderParams'.facet = orderParams.facet /\ orderParams'.family = orderParams.family
        /\ orderParams'.zone \in {orderParams.zone, 0}
        /\ orderParams'.count \in {orderParams.count, 0}
        /\ orderParams'.spec \in {orderParams.spec, 0}
    BY <2>1, <2>2, <2>4
  <2>6. ASSUME NEW g, answers' = [answers EXCEPT !.gpu = g]
        PROVE  answers' = [source |-> answers.source, family |-> answers.family, image |-> answers.image,
                           charge |-> answers.charge, gpu |-> g, zone |-> answers.zone,
                           count |-> answers.count, spec |-> answers.spec]
    BY <2>2, <2>6, OrderNoted
  <2>7. /\ answers'.source = answers.source /\ answers'.family = answers.family
        /\ answers'.image = answers.image /\ answers'.charge = answers.charge
        /\ answers'.zone = answers.zone /\ answers'.count = answers.count /\ answers'.spec = answers.spec
        /\ OrderForm(answers')
    <3>1. CASE answers' = answers
      BY <2>2, <3>1
    <3>2. CASE \E g : answers' = [answers EXCEPT !.gpu = g]
      BY <2>6, <3>2 DEF OrderForm
    <3> QED
      BY <2>1, <3>1, <3>2
  <2>8. /\ OrderShaped' /\ (Guided!CardsForeseeRefusals)'
        /\ \A steps : OrderAt(steps)' = (cardStep' \in steps)
    BY <2>1, <2>5, <2>7, OrderMoves DEF OrderAnySpec, OrderAnyCount, OrderAnyZone, OrderAnyGpu
  <2>9. \A steps : OrderAt(steps) = (cardStep \in steps)
    BY <2>1, OrderOpen DEF OrderAnySpec, OrderAnyCount, OrderAnyZone, OrderAnyGpu
  <2>10. OrderRequested'
    BY <2>1, <2>5, <2>7
       DEF OrderInv, OrderRequested, OrderAnyGpu, OrderAnyZone, OrderAnyCount, OrderAnySpec
  <2>11. OrderCatalog' /\ OrderImage'
    BY <2>1, <2>5, <2>7, <2>9, OrderKeepsImage DEF OrderImaged, OrderEquipped
  <2>12. orderParams.gpu = request.gpu /\ answers.gpu = 0
    BY <2>1 DEF OrderInv, OrderRequested, OrderAnyGpu
  <2>13. (Guided!Supported)' = Guided!Supported
    BY <2>1, <2>5, OrderSameImage
  <2>14. OrderGpu'
    <3>1. CASE Guided!SkipGpu /\ orderParams' = orderParams /\ answers' = answers
      <4>1. OrderGpus' = OrderGpus
        BY <2>1, <3>1, OrderSameGpus
      <4>2. OrderGpus = {orderParams.gpu}
        BY <3>1 DEF Guided!SkipGpu, OrderGpus
      <4> QED
        BY <2>1, <2>3, <2>12, <2>13, <3>1, <4>1, <4>2 DEF OrderGpu, OrderSettled
    <3>2. ASSUME NEW g \in OrderGpus, orderParams' = Guided!FromGpu(g),
                 answers' = [answers EXCEPT !.gpu = g]
          PROVE  OrderGpu'
      <4>1. orderParams'.gpu = g /\ answers'.gpu = g
        BY <2>4, <2>6, <3>2
      <4> QED
        BY <2>3, <2>13, <4>1 DEF OrderGpu, OrderSettled
    <3> QED
      BY <2>1, <3>1, <3>2
  <2>15. OrderZone' /\ OrderCount' /\ OrderSpec'
    BY <2>1, <2>8 DEF OrderZone, OrderCount, OrderSpec, OrderPlaced, OrderCounted, OrderDrafted
  <2> QED
    BY <2>8, <2>10, <2>11, <2>14, <2>15 DEF OrderInv
<1> QED
  BY <1>1, <1>2

LEMMA OrderZoneCard ==
    ASSUME Guided!OrderConstants, OrderInv, Guided!ChooseZone
    PROVE  OrderInv'
<1> USE DEF Guided!Goto, Guided!replies
<1>1. /\ cardStep = "zone" /\ stood' = (OrderFree = {})
      /\ UNCHANGED <<request, catalog, sells, probe, capacity, ordered>>
      /\ \/ /\ Guided!SkipZone /\ cardStep' = "capacity" /\ orderEnd' = orderEnd
            /\ orderParams' = orderParams /\ answers' = answers
         \/ \E z \in OrderZones : /\ orderParams' = Guided!FromZone(z) /\ orderEnd' = orderEnd
                                  /\ answers' = [answers EXCEPT !.zone = z] /\ cardStep' = "capacity"
         \/ /\ cardStep' = "done" /\ orderEnd' = "dead end"
            /\ orderParams' = orderParams /\ answers' = answers
  BY DEF Guided!ChooseZone, Guided!Stops, OrderFree, OrderZones
<1>2. CASE cardStep' = "done"
  <2>1. /\ orderEnd' = "dead end" /\ orderParams' = orderParams /\ answers' = answers
    BY <1>1, <1>2
  <2>2. ordered = Guided!NoDraft
    BY <1>1, OrderOpen DEF OrderAnySpec, OrderAnyCount, OrderAnyZone
  <2>3. (Guided!CardsForeseeRefusals)'
    BY <2>1 DEF Guided!CardsForeseeRefusals
  <2> QED
    BY <1>1, <1>2, <2>1, <2>2, <2>3, OrderEnds
<1>3. CASE cardStep' # "done"
  <2>1. /\ cardStep' = "capacity" /\ orderEnd' = orderEnd
        /\ \/ Guided!SkipZone /\ orderParams' = orderParams /\ answers' = answers
           \/ \E z \in OrderZones : /\ orderParams' = Guided!FromZone(z)
                                    /\ answers' = [answers EXCEPT !.zone = z]
    BY <1>1, <1>3
  <2>2. Guided!IsOrder(orderParams) /\ OrderForm(answers)
    BY DEF OrderInv, OrderShaped
  <2>3. \A z \in OrderZones : z # 0
    <3>1. ASSUME NEW z \in OrderZones PROVE \E r \in OrderRows : r.zone = z
      BY DEF OrderZones, Guided!ZoneEnabled, Guided!ZoneFree, Guided!ZonesOf, Guided!Offers
    <3>2. \A r \in OrderRows : r.zone # 0
      BY DEF Guided!OrderConstants
    <3> QED
      BY <3>1, <3>2
  <2>4. ASSUME NEW z, orderParams' = Guided!FromZone(z)
        PROVE  /\ Guided!IsOrder(orderParams') /\ orderParams'.zone = z
               /\ orderParams'.name = orderParams.name /\ orderParams'.image = orderParams.image
               /\ orderParams'.charge = orderParams.charge /\ orderParams'.source = orderParams.source
               /\ orderParams'.facet = orderParams.facet /\ orderParams'.family = orderParams.family
               /\ orderParams'.gpu = orderParams.gpu
               /\ orderParams'.count \in {orderParams.count, 0}
               /\ orderParams'.spec \in {orderParams.spec, 0}
    <3>1. \/ orderParams' = [orderParams EXCEPT !.zone = z]
          \/ orderParams' = [orderParams EXCEPT !.zone = z, !.count = 0, !.spec = 0]
      BY <2>4 DEF Guided!FromZone
    <3> QED
      BY <2>2, <3>1 DEF Guided!IsOrder
  <2>5. /\ Guided!IsOrder(orderParams')
        /\ orderParams'.name = orderParams.name /\ orderParams'.image = orderParams.image
        /\ orderParams'.charge = orderParams.charge /\ orderParams'.source = orderParams.source
        /\ orderParams'.facet = orderParams.facet /\ orderParams'.family = orderParams.family
        /\ orderParams'.gpu = orderParams.gpu
        /\ orderParams'.count \in {orderParams.count, 0}
        /\ orderParams'.spec \in {orderParams.spec, 0}
    BY <2>1, <2>2, <2>4
  <2>6. ASSUME NEW z, answers' = [answers EXCEPT !.zone = z]
        PROVE  answers' = [source |-> answers.source, family |-> answers.family, image |-> answers.image,
                           charge |-> answers.charge, gpu |-> answers.gpu, zone |-> z,
                           count |-> answers.count, spec |-> answers.spec]
    BY <2>2, <2>6, OrderNoted
  <2>7. /\ answers'.source = answers.source /\ answers'.family = answers.family
        /\ answers'.image = answers.image /\ answers'.charge = answers.charge
        /\ answers'.gpu = answers.gpu /\ answers'.count = answers.count /\ answers'.spec = answers.spec
        /\ OrderForm(answers')
    <3>1. CASE answers' = answers
      BY <2>2, <3>1
    <3>2. CASE \E z : answers' = [answers EXCEPT !.zone = z]
      BY <2>6, <3>2 DEF OrderForm
    <3> QED
      BY <2>1, <3>1, <3>2
  <2>8. /\ OrderShaped' /\ (Guided!CardsForeseeRefusals)'
        /\ \A steps : OrderAt(steps)' = (cardStep' \in steps)
    BY <1>1, <2>1, <2>5, <2>7, OrderMoves DEF OrderAnySpec, OrderAnyCount, OrderAnyZone
  <2>9. \A steps : OrderAt(steps) = (cardStep \in steps)
    BY <1>1, OrderOpen DEF OrderAnySpec, OrderAnyCount, OrderAnyZone
  <2>10. OrderRequested'
    BY <1>1, <2>1, <2>5, <2>7
       DEF OrderInv, OrderRequested, OrderAnyGpu, OrderAnyZone, OrderAnyCount, OrderAnySpec
  <2>11. OrderCatalog' /\ OrderImage'
    BY <1>1, <2>1, <2>5, <2>7, <2>9, OrderKeepsImage DEF OrderImaged, OrderEquipped, OrderPlaced
  <2>12. /\ OrderGpus' = OrderGpus /\ OrderFree' = OrderFree /\ OrderZones' = OrderZones
         /\ (Guided!Supported)' = Guided!Supported
    BY <1>1, <2>5, OrderSameGpus, OrderSameImage
  <2>13. OrderGpu'
    BY <1>1, <2>5, <2>7, <2>9, <2>12 DEF OrderInv, OrderGpu, OrderSettled, OrderEquipped
  <2>14. orderParams.zone \in {request.zone, 0} /\ answers.zone = 0
    BY <1>1 DEF OrderInv, OrderRequested, OrderAnyZone
  <2>15. stood' \/ OrderFree' # {}
    BY <1>1, <2>12
  <2>16. OrderZone'
    <3>1. CASE Guided!SkipZone /\ orderParams' = orderParams /\ answers' = answers
      <4>1. OrderZones = {orderParams.zone}
        BY <3>1 DEF Guided!SkipZone, OrderZones
      <4>2. orderParams.zone = request.zone
        BY <2>3, <2>14, <4>1
      <4> QED
        BY <1>1, <2>12, <2>14, <2>15, <3>1, <4>1, <4>2 DEF OrderZone, OrderSettled
    <3>2. ASSUME NEW z \in OrderZones, orderParams' = Guided!FromZone(z),
                 answers' = [answers EXCEPT !.zone = z]
          PROVE  OrderZone'
      <4>1. orderParams'.zone = z /\ answers'.zone = z
        BY <2>4, <2>6, <3>2
      <4> QED
        BY <2>3, <2>12, <2>15, <4>1 DEF OrderZone, OrderSettled
    <3> QED
      BY <2>1, <3>1, <3>2
  <2>17. OrderCount' /\ OrderSpec'
    BY <2>1, <2>8 DEF OrderCount, OrderSpec, OrderCounted, OrderDrafted
  <2> QED
    BY <2>8, <2>10, <2>11, <2>13, <2>16, <2>17 DEF OrderInv
<1> QED
  BY <1>2, <1>3

\* The defaults written once more are what was chosen.
LEMMA OrderDefaults ==
    ASSUME OrderInv
    PROVE  /\ OrderAt(OrderPlaced) => Guided!ZoneNow = orderParams.zone
           /\ OrderAt(OrderCounted) => Guided!CountNow = orderParams.count
<1>1. OrderAt(OrderPlaced) => Guided!ZoneNow = orderParams.zone
  BY DEF OrderInv, OrderZone, OrderZones, Guided!ZoneNow, Guided!Default
<1>2. OrderAt(OrderCounted) => OrderAt(OrderPlaced)
  BY DEF OrderAt, OrderPlaced
<1>3. OrderAt(OrderCounted) => Guided!CountNow = orderParams.count
  BY <1>1, <1>2 DEF OrderInv, OrderCount, OrderCounts, Guided!CountNow, Guided!Default
<1> QED
  BY <1>1, <1>3

LEMMA OrderCountCard ==
    ASSUME Guided!OrderConstants, OrderInv, Guided!ChooseCount
    PROVE  OrderInv'
<1> USE DEF Guided!Skip, Guided!Answer, Guided!Goto, Guided!Kept, Guided!replies, Guided!ending
<1>1. cardStep = "count"
  BY DEF Guided!ChooseCount
<1>2. \A steps : OrderAt(steps) = (cardStep \in steps)
  BY <1>1, OrderOpen DEF OrderAnySpec, OrderAnyCount
<1>3. Guided!ZoneNow = orderParams.zone
  BY <1>1, <1>2, OrderDefaults DEF OrderPlaced
<1>4. CASE Guided!DeadEnd(Guided!CountEnabled(Guided!ZoneNow))
  BY <1>4, OrderDeadEnd
<1>5. CASE ~Guided!DeadEnd(Guided!CountEnabled(Guided!ZoneNow))
  <2>1. /\ cardStep' = "spec"
        /\ UNCHANGED <<request, catalog, sells, probe, capacity, stood, ordered, orderEnd>>
        /\ \/ Guided!SkipCount /\ orderParams' = orderParams /\ answers' = answers
           \/ \E n \in OrderCounts : /\ orderParams' = Guided!FromCount(n)
                                     /\ answers' = [answers EXCEPT !.count = n]
    BY <1>3, <1>5 DEF Guided!ChooseCount, OrderCounts
  <2>2. Guided!IsOrder(orderParams) /\ OrderForm(answers)
    BY DEF OrderInv, OrderShaped
  <2>3. \A n \in OrderCounts : n # 0
    <3>1. ASSUME NEW n \in OrderCounts PROVE \E r \in OrderRows : r.count = n
      BY DEF OrderCounts, Guided!CountEnabled, Guided!CountsOf, Guided!Offers
    <3>2. \A r \in OrderRows : r.count # 0
      BY DEF Guided!OrderConstants
    <3> QED
      BY <3>1, <3>2
  <2>4. ASSUME NEW n, orderParams' = Guided!FromCount(n)
        PROVE  /\ Guided!IsOrder(orderParams') /\ orderParams'.count = n
               /\ orderParams'.name = orderParams.name /\ orderParams'.image = orderParams.image
               /\ orderParams'.charge = orderParams.charge /\ orderParams'.source = orderParams.source
               /\ orderParams'.facet = orderParams.facet /\ orderParams'.family = orderParams.family
               /\ orderParams'.gpu = orderParams.gpu /\ orderParams'.zone = orderParams.zone
               /\ orderParams'.spec \in {orderParams.spec, 0}
    <3>1. \/ orderParams' = [orderParams EXCEPT !.zone = orderParams.zone, !.count = n]
          \/ orderParams' = [orderParams EXCEPT !.zone = orderParams.zone, !.count = n, !.spec = 0]
      BY <1>3, <2>4 DEF Guided!FromCount
    <3> QED
      BY <2>2, <3>1 DEF Guided!IsOrder
  <2>5. /\ Guided!IsOrder(orderParams')
        /\ orderParams'.name = orderParams.name /\ orderParams'.image = orderParams.image
        /\ orderParams'.charge = orderParams.charge /\ orderParams'.source = orderParams.source
        /\ orderParams'.facet = orderParams.facet /\ orderParams'.family = orderParams.family
        /\ orderParams'.gpu = orderParams.gpu /\ orderParams'.zone = orderParams.zone
        /\ orderParams'.spec \in {orderParams.spec, 0}
    BY <2>1, <2>2, <2>4
  <2>6. ASSUME NEW n, answers' = [answers EXCEPT !.count = n]
        PROVE  answers' = [source |-> answers.source, family |-> answers.family, image |-> answers.image,
                           charge |-> answers.charge, gpu |-> answers.gpu, zone |-> answers.zone,
                           count |-> n, spec |-> answers.spec]
    BY <2>2, <2>6, OrderNoted
  <2>7. /\ answers'.source = answers.source /\ answers'.family = answers.family
        /\ answers'.image = answers.image /\ answers'.charge = answers.charge
        /\ answers'.gpu = answers.gpu /\ answers'.zone = answers.zone /\ answers'.spec = answers.spec
        /\ OrderForm(answers')
    <3>1. CASE answers' = answers
      BY <2>2, <3>1
    <3>2. CASE \E n : answers' = [answers EXCEPT !.count = n]
      BY <2>6, <3>2 DEF OrderForm
    <3> QED
      BY <2>1, <3>1, <3>2
  <2>8. /\ OrderShaped' /\ (Guided!CardsForeseeRefusals)'
        /\ \A steps : OrderAt(steps)' = (cardStep' \in steps)
    BY <1>1, <2>1, <2>5, <2>7, OrderMoves DEF OrderAnySpec, OrderAnyCount
  <2>9. OrderRequested'
    BY <1>1, <2>1, <2>5, <2>7
       DEF OrderInv, OrderRequested, OrderAnyGpu, OrderAnyZone, OrderAnyCount, OrderAnySpec
  <2>10. OrderCatalog' /\ OrderImage'
    BY <1>1, <1>2, <2>1, <2>5, <2>7, OrderKeepsImage
       DEF OrderImaged, OrderEquipped, OrderPlaced, OrderCounted
  <2>11. /\ OrderGpus' = OrderGpus /\ OrderFree' = OrderFree /\ OrderZones' = OrderZones
         /\ (Guided!Supported)' = Guided!Supported /\ OrderCounts' = OrderCounts
    BY <2>1, <2>5, OrderSameGpus, OrderSameImage, OrderSameCounts
  <2>12. OrderGpu' /\ OrderZone'
    BY <1>1, <1>2, <2>1, <2>5, <2>7, <2>11
       DEF OrderInv, OrderGpu, OrderZone, OrderSettled, OrderEquipped, OrderPlaced
  <2>13. orderParams.count \in {request.count, 0} /\ answers.count = 0
    BY <1>1 DEF OrderInv, OrderRequested, OrderAnyCount
  <2>14. OrderCount'
    <3>1. CASE Guided!SkipCount /\ orderParams' = orderParams /\ answers' = answers
      <4>1. OrderCounts = {orderParams.count}
        BY <3>1 DEF Guided!SkipCount, OrderCounts
      <4>2. orderParams.count = request.count
        BY <2>3, <2>13, <4>1
      <4> QED
        BY <2>1, <2>11, <2>13, <3>1, <4>1, <4>2 DEF OrderCount, OrderSettled
    <3>2. ASSUME NEW n \in OrderCounts, orderParams' = Guided!FromCount(n),
                 answers' = [answers EXCEPT !.count = n]
          PROVE  OrderCount'
      <4>1. orderParams'.count = n /\ answers'.count = n
        BY <2>4, <2>6, <3>2
      <4> QED
        BY <2>3, <2>11, <4>1 DEF OrderCount, OrderSettled
    <3> QED
      BY <2>1, <3>1, <3>2
  <2>15. OrderSpec'
    BY <2>1, <2>8 DEF OrderSpec, OrderDrafted
  <2> QED
    BY <2>8, <2>9, <2>10, <2>12, <2>14, <2>15 DEF OrderInv
<1> QED
  BY <1>4, <1>5

LEMMA OrderSpecCard ==
    ASSUME Guided!OrderConstants, OrderInv, Guided!ChooseSpec
    PROVE  OrderInv'
<1> USE DEF Guided!Skip, Guided!Answer, Guided!Goto, Guided!Kept, Guided!replies, Guided!ending
<1>1. cardStep = "spec"
  BY DEF Guided!ChooseSpec
<1>2. \A steps : OrderAt(steps) = (cardStep \in steps)
  BY <1>1, OrderOpen DEF OrderAnySpec
<1>3. Guided!ZoneNow = orderParams.zone /\ Guided!CountNow = orderParams.count
  BY <1>1, <1>2, OrderDefaults DEF OrderPlaced, OrderCounted
<1>4. CASE Guided!DeadEnd(Guided!SpecEnabled(Guided!ZoneNow, Guided!CountNow))
  BY <1>4, OrderDeadEnd
<1>5. CASE ~Guided!DeadEnd(Guided!SpecEnabled(Guided!ZoneNow, Guided!CountNow))
  <2>1. /\ cardStep' = "draft"
        /\ UNCHANGED <<request, catalog, sells, probe, capacity, stood, ordered, orderEnd>>
        /\ \/ Guided!SkipSpec /\ orderParams' = orderParams /\ answers' = answers
           \/ \E s \in OrderSpecs : /\ orderParams' = Guided!FromSpec(s)
                                    /\ answers' = [answers EXCEPT !.spec = s]
    BY <1>3, <1>5 DEF Guided!ChooseSpec, OrderSpecs
  <2>2. Guided!IsOrder(orderParams) /\ OrderForm(answers)
    BY DEF OrderInv, OrderShaped
  <2>3. \A s \in OrderSpecs : s # 0
    <3>1. ASSUME NEW s \in OrderSpecs PROVE \E r \in OrderRows : r.spec = s
      BY DEF OrderSpecs, Guided!SpecEnabled, Guided!SpecsOf, Guided!Offers
    <3>2. \A r \in OrderRows : r.spec # 0
      BY DEF Guided!OrderConstants
    <3> QED
      BY <3>1, <3>2
  <2>4. ASSUME NEW s, orderParams' = Guided!FromSpec(s)
        PROVE  /\ Guided!IsOrder(orderParams') /\ orderParams'.spec = s
               /\ orderParams'.name = orderParams.name /\ orderParams'.image = orderParams.image
               /\ orderParams'.charge = orderParams.charge /\ orderParams'.source = orderParams.source
               /\ orderParams'.facet = orderParams.facet /\ orderParams'.family = orderParams.family
               /\ orderParams'.gpu = orderParams.gpu /\ orderParams'.zone = orderParams.zone
               /\ orderParams'.count = orderParams.count
    <3>1. orderParams' = [orderParams EXCEPT !.zone = orderParams.zone, !.count = orderParams.count,
                                             !.spec = s]
      BY <1>3, <2>4 DEF Guided!FromSpec
    <3> QED
      BY <2>2, <3>1 DEF Guided!IsOrder
  <2>5. /\ Guided!IsOrder(orderParams')
        /\ orderParams'.name = orderParams.name /\ orderParams'.image = orderParams.image
        /\ orderParams'.charge = orderParams.charge /\ orderParams'.source = orderParams.source
        /\ orderParams'.facet = orderParams.facet /\ orderParams'.family = orderParams.family
        /\ orderParams'.gpu = orderParams.gpu /\ orderParams'.zone = orderParams.zone
        /\ orderParams'.count = orderParams.count
    BY <2>1, <2>2, <2>4
  <2>6. ASSUME NEW s, answers' = [answers EXCEPT !.spec = s]
        PROVE  answers' = [source |-> answers.source, family |-> answers.family, image |-> answers.image,
                           charge |-> answers.charge, gpu |-> answers.gpu, zone |-> answers.zone,
                           count |-> answers.count, spec |-> s]
    BY <2>2, <2>6, OrderNoted
  <2>7. /\ answers'.source = answers.source /\ answers'.family = answers.family
        /\ answers'.image = answers.image /\ answers'.charge = answers.charge
        /\ answers'.gpu = answers.gpu /\ answers'.zone = answers.zone /\ answers'.count = answers.count
        /\ OrderForm(answers')
    <3>1. CASE answers' = answers
      BY <2>2, <3>1
    <3>2. CASE \E s : answers' = [answers EXCEPT !.spec = s]
      BY <2>6, <3>2 DEF OrderForm
    <3> QED
      BY <2>1, <3>1, <3>2
  <2>8. /\ OrderShaped' /\ (Guided!CardsForeseeRefusals)'
        /\ \A steps : OrderAt(steps)' = (cardStep' \in steps)
    BY <1>1, <2>1, <2>5, <2>7, OrderMoves DEF OrderAnySpec
  <2>9. OrderRequested'
    BY <1>1, <2>1, <2>5, <2>7
       DEF OrderInv, OrderRequested, OrderAnyGpu, OrderAnyZone, OrderAnyCount, OrderAnySpec
  <2>10. OrderCatalog' /\ OrderImage'
    BY <1>1, <1>2, <2>1, <2>5, <2>7, OrderKeepsImage
       DEF OrderImaged, OrderEquipped, OrderPlaced, OrderCounted, OrderDrafted
  <2>11. /\ OrderGpus' = OrderGpus /\ OrderFree' = OrderFree /\ OrderZones' = OrderZones
         /\ (Guided!Supported)' = Guided!Supported /\ OrderCounts' = OrderCounts
         /\ OrderSpecs' = OrderSpecs
    BY <2>1, <2>5, OrderSameGpus, OrderSameImage, OrderSameCounts
  <2>12. OrderGpu' /\ OrderZone' /\ OrderCount'
    BY <1>1, <1>2, <2>1, <2>5, <2>7, <2>11
       DEF OrderInv, OrderGpu, OrderZone, OrderCount, OrderSettled, OrderEquipped, OrderPlaced,
           OrderCounted
  <2>13. orderParams.spec \in {request.spec, 0} /\ answers.spec = 0
    BY <1>1 DEF OrderInv, OrderRequested, OrderAnySpec
  <2>14. OrderSpec'
    <3>1. CASE Guided!SkipSpec /\ orderParams' = orderParams /\ answers' = answers
      <4>1. OrderSpecs = {orderParams.spec}
        BY <3>1 DEF Guided!SkipSpec, OrderSpecs
      <4>2. orderParams.spec = request.spec
        BY <2>3, <2>13, <4>1
      <4> QED
        BY <2>1, <2>11, <2>13, <3>1, <4>1, <4>2 DEF OrderSpec, OrderSettled
    <3>2. ASSUME NEW s \in OrderSpecs, orderParams' = Guided!FromSpec(s),
                 answers' = [answers EXCEPT !.spec = s]
          PROVE  OrderSpec'
      <4>1. orderParams'.spec = s /\ answers'.spec = s
        BY <2>4, <2>6, <3>2
      <4> QED
        BY <2>3, <2>11, <4>1 DEF OrderSpec, OrderSettled
    <3> QED
      BY <2>1, <3>1, <3>2
  <2> QED
    BY <2>8, <2>9, <2>10, <2>12, <2>14 DEF OrderInv
<1> QED
  BY <1>4, <1>5

\* The gate refuses what no card asks about, or what a card that stood down let through.
LEMMA OrderRefusal ==
    ASSUME Guided!OrderConstants, OrderInv, cardStep = "draft"
    PROVE  \/ Guided!Refusal \in {Guided!None, "type", "disk"}
           \/ stood /\ Guided!Refusal \in {"pool", "container"}
<1>1. \A steps : OrderAt(steps) = (cardStep \in steps)
  BY OrderOpen
<1>2. Guided!Resolves
  <2>1. orderParams.count \in OrderCounts /\ orderParams.spec \in OrderSpecs
    BY <1>1 DEF OrderInv, OrderCount, OrderSpec, OrderCounted, OrderDrafted
  <2>2. orderParams.count # 0
    <3>1. \E r \in OrderRows : r.count = orderParams.count
      BY <2>1 DEF OrderCounts, Guided!CountEnabled, Guided!CountsOf, Guided!Offers
    <3> QED
      BY <3>1 DEF Guided!OrderConstants
  <2>3. orderParams.spec \in Guided!SpecsOf(orderParams.gpu, orderParams.zone, orderParams.count)
    BY <2>1 DEF OrderSpecs, Guided!SpecEnabled
  <2> QED
    BY <2>2, <2>3 DEF Guided!Resolves
<1>3. OrderChosen
  BY <1>1 DEF OrderInv, OrderImage, OrderImaged, OrderEquipped, OrderPlaced, OrderCounted, OrderDrafted
<1>4. orderParams.image \in Guided!IdsOf(Guided!Catalog)
  BY <1>3 DEF OrderChosen, Guided!IdsOf
<1>5. ASSUME ~stood
      PROVE  /\ ~Guided!PoolRefused(orderParams.gpu, orderParams.zone, orderParams.charge)
             /\ ~Guided!Unboxed(orderParams.zone)
  <2>1. orderParams.zone \in OrderZones /\ OrderFree # {}
    BY <1>1, <1>5 DEF OrderInv, OrderZone, OrderPlaced, OrderCounted, OrderDrafted
  <2>2. orderParams.zone \in OrderFree
    BY <2>1 DEF OrderZones, OrderFree, Guided!ZoneEnabled
  <2> QED
    BY <2>2 DEF OrderFree, Guided!ZoneFree
<1>6. Guided!Fits(Guided!Image(orderParams.image), orderParams.gpu)
  <2>1. Guided!Supported = Guided!Image(orderParams.image).gpus
    <3>1. orderParams.image # Guided!None
      BY <1>3 DEF OrderChosen, OrderInv, OrderCatalog, Guided!Catalog, Guided!OrderConstants
    <3> QED
      BY <1>4, <3>1 DEF Guided!Supported
  <2>2. Guided!Supported # {} => orderParams.gpu \in Guided!Supported
    BY <1>1 DEF OrderInv, OrderGpu, OrderEquipped, OrderPlaced, OrderCounted, OrderDrafted
  <2> QED
    BY <2>1, <2>2 DEF Guided!Fits
<1> QED
  BY <1>2, <1>4, <1>5, <1>6 DEF Guided!Refusal

\* The steps after the cards.
LEMMA OrderDrafts ==
    ASSUME Guided!OrderConstants, OrderInv, Guided!ResolveDraft \/ Guided!Check
    PROVE  OrderInv'
<1> USE DEF Guided!ResolveDraft, Guided!Check, Guided!Goto, Guided!Stops, Guided!replies
<1>1. /\ UNCHANGED <<request, orderParams, catalog, sells, probe, capacity, answers, stood>>
      /\ \/ /\ cardStep = "draft" /\ cardStep' = "check" /\ ordered' = orderParams
            /\ orderEnd' = orderEnd
         \/ /\ cardStep = "check" /\ cardStep' = "confirm" /\ ordered' = ordered
            /\ orderEnd' = orderEnd
         \/ /\ cardStep = "draft" /\ cardStep' = "done" /\ ordered' = ordered
            /\ orderEnd' = "refused" /\ endReason' = Guided!Refusal /\ Guided!Refusal # Guided!None
         \/ /\ cardStep = "check" /\ cardStep' = "done" /\ ordered' = ordered /\ orderEnd' = "failed"
  OBVIOUS
<1>2. CASE cardStep' = "done"
  <2>1. (Guided!CardsForeseeRefusals)'
    <3>1. orderEnd' = "refused"
            => cardStep = "draft" /\ endReason' = Guided!Refusal /\ Guided!Refusal # Guided!None
      BY <1>1, <1>2
    <3> QED
      BY <1>1, <3>1, OrderRefusal DEF Guided!CardsForeseeRefusals
  <2>2. ordered' = ordered
    BY <1>1, <1>2
  <2> QED
    BY <1>1, <1>2, <2>1, <2>2, OrderEnds
<1>3. CASE cardStep' # "done"
  <2>1. /\ {cardStep, cardStep'} \subseteq OrderDrafted /\ cardStep' \in {"check", "confirm"}
        /\ ordered' \in {ordered, orderParams} /\ orderEnd' = orderEnd /\ cardStep # "done"
    BY <1>1, <1>3 DEF OrderDrafted
  <2>2. \A steps : OrderDrafted \subseteq steps => OrderAt(steps) /\ OrderAt(steps)'
    BY <2>1 DEF OrderAt
  <2>3. /\ OrderDrafted \subseteq OrderCounted /\ OrderCounted \subseteq OrderPlaced
        /\ OrderPlaced \subseteq OrderEquipped /\ OrderEquipped \subseteq OrderImaged
        /\ OrderImaged \subseteq OrderQueried
    BY DEF OrderCounted, OrderPlaced, OrderEquipped, OrderImaged, OrderQueried
  <2>4. /\ OrderAt(OrderDrafted) /\ OrderAt(OrderCounted) /\ OrderAt(OrderPlaced)
        /\ OrderAt(OrderEquipped) /\ OrderAt(OrderImaged) /\ OrderAt(OrderQueried)
    BY <2>2, <2>3
  <2>5. OrderShaped'
    BY <1>1, <2>1 DEF OrderInv, OrderShaped, OrderForm, Guided!IsOrder, Guided!NoDraft
  <2>6. OrderRequested'
    BY <1>1, <2>1
       DEF OrderInv, OrderRequested, OrderAnyGpu, OrderAnyZone, OrderAnyCount, OrderAnySpec
  <2>7. OrderCatalog'
    BY <1>1, <2>1, <2>4 DEF OrderInv, OrderCatalog
  <2>8. OrderImage'
    BY <1>1, <2>1, <2>4, OrderSameAll DEF OrderInv, OrderImage
  <2>9. OrderGpu' /\ OrderZone'
    BY <1>1, <2>4, OrderSameAll DEF OrderInv, OrderGpu, OrderZone, OrderSettled
  <2>10. OrderCount' /\ OrderSpec'
    BY <1>1, <2>4, OrderSameAll DEF OrderInv, OrderCount, OrderSpec, OrderSettled
  <2>11. (Guided!CardsForeseeRefusals)'
    BY <2>1 DEF OrderInv, OrderShaped, Guided!CardsForeseeRefusals
  <2> QED
    BY <2>5, <2>6, <2>7, <2>8, <2>9, <2>10, <2>11 DEF OrderInv
<1> QED
  BY <1>2, <1>3

LEMMA OrderStep ==
    ASSUME Guided!OrderConstants, OrderInv, [Guided!Next]_(Guided!vars)
    PROVE  OrderInv'
<1>1. CASE Guided!Create \/ Guided!Cancel
  <2>1. /\ cardStep' = "done" /\ orderEnd' \in {"created", "cancelled"}
        /\ UNCHANGED <<request, orderParams, catalog, sells, probe, capacity, answers, stood, ordered>>
    BY <1>1 DEF Guided!Create, Guided!Cancel, Guided!Stops, Guided!replies
  <2>2. (Guided!CardsForeseeRefusals)'
    BY <2>1 DEF Guided!CardsForeseeRefusals
  <2> QED
    BY <2>1, <2>2, OrderEnds
<1>2. CASE UNCHANGED Guided!vars
  <2>1. UNCHANGED <<cardStep, request, orderParams, catalog, sells, probe, capacity, answers, stood,
                    ordered, orderEnd, endReason>>
    BY <1>2 DEF Guided!vars
  <2>2. \A steps : OrderAt(steps)' = OrderAt(steps)
    BY <2>1 DEF OrderAt
  <2>3. OrderShaped' /\ OrderRequested' /\ OrderCatalog' /\ (Guided!CardsForeseeRefusals)'
    BY <2>1, <2>2 DEF OrderInv, OrderShaped, OrderForm, Guided!IsOrder, OrderRequested, OrderCatalog,
       Guided!CardsForeseeRefusals
  <2>4. OrderImage' /\ OrderGpu' /\ OrderZone' /\ OrderCount' /\ OrderSpec'
    BY <2>1, <2>2, OrderSameAll
       DEF OrderInv, OrderImage, OrderGpu, OrderZone, OrderCount, OrderSpec, OrderSettled
  <2> QED
    BY <2>3, <2>4 DEF OrderInv
<1> QED
  BY <1>1, <1>2, OrderQueries, OrderSource, OrderFacets, OrderFamily, OrderImageCard, OrderCharge,
     OrderGpuCard, OrderZoneCard, OrderCountCard, OrderSpecCard, OrderDrafts DEF Guided!Next

\* What the invariant says of the parameters the draft was resolved from.
LEMMA OrderDecides ==
    ASSUME OrderInv
    PROVE  Guided!CardsDecideTheDraft
<1>1. ASSUME ordered # Guided!NoDraft
      PROVE  Guided!DraftIsChosen
  <2>1. ordered = orderParams
    BY <1>1 DEF OrderInv, OrderShaped
  <2>2. \A steps : OrderAt(steps)
    BY <1>1 DEF OrderAt
  <2>3. /\ OrderSettled(answers.gpu, ordered.gpu, request.gpu, Guided!GpuEnabled)
        /\ OrderSettled(answers.zone, ordered.zone, request.zone, Guided!ZoneEnabled(ordered.gpu))
        /\ OrderSettled(answers.count, ordered.count, request.count, Guided!CountEnabled(ordered.zone))
        /\ OrderSettled(answers.spec, ordered.spec, request.spec,
                        Guided!SpecEnabled(ordered.zone, ordered.count))
    BY <2>1, <2>2 DEF OrderInv, OrderGpu, OrderZone, OrderCount, OrderSpec, OrderGpus, OrderZones,
       OrderCounts, OrderSpecs
  <2>4. OrderChosen /\ answers.image \in {ordered.image, Guided!None}
    BY <2>1, <2>2 DEF OrderInv, OrderImage
  <2>5. /\ answers.charge \in {ordered.charge, Guided!None}
        /\ answers.source \in {ordered.source, Guided!None}
    BY <2>1 DEF OrderInv, OrderRequested
  <2> QED
    BY <2>1, <2>3, <2>4, <2>5 DEF Guided!DraftIsChosen, OrderSettled, OrderChosen
<1>2. ordered = Guided!NoDraft => Guided!DraftIsChosen
  BY DEF Guided!DraftIsChosen
<1> QED
  BY <1>1, <1>2 DEF OrderInv, Guided!CardsDecideTheDraft

\* The draft is what the cards were answered, or the request's where nothing else could be
\* offered, and the gate refuses nothing a card asked about (create_instance_guided_options.go).
THEOREM CardsDecide ==
    ASSUME Guided!OrderConstants
    PROVE  Guided!Spec => []Guided!CardsDecideTheDraft
<1>1. Guided!Init => OrderInv
  BY OrderStarts
<1>2. OrderInv /\ [Guided!Next]_(Guided!vars) => OrderInv'
  BY OrderStep
<1>3. OrderInv => Guided!CardsDecideTheDraft
  BY OrderDecides
<1> QED
  BY <1>1, <1>2, <1>3, PTL DEF Guided!Spec

LEMMA OrderAlone ==
    /\ ActionsInit => Guided!Init
    /\ [ActionsNext]_allVars => [Guided!Next]_(Guided!vars)
<1>1. ActionsInit => Guided!Init
  BY DEF ActionsInit
<1>2. ActionsNext \/ UNCHANGED allVars => Guided!Next \/ UNCHANGED createVars
  BY DEF ActionsNext, Step, allVars, partVars
<1>3. UNCHANGED createVars => UNCHANGED Guided!vars
  BY DEF createVars, Guided!vars
<1> QED
  BY <1>1, <1>2, <1>3

\* The cards of a creation decide its draft (create_instance_guided_overrides.go).
THEOREM CardsKeepDeciding == ActionsSpec => []CardsDecideTheDraft
<1>1. ActionsSpec => Guided!Spec
  BY OrderAlone, PTL DEF ActionsSpec, Guided!Spec
<1>2. Guided!Spec => []Guided!CardsDecideTheDraft
  BY ActionsAssumption, CardsDecide DEF ActionsAssumption
<1> QED
  BY <1>1, <1>2, PTL DEF CardsDecideTheDraft
===============================================================================
