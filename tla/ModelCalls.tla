------------------------------ MODULE ModelCalls ------------------------------
(***************************************************************************)
(* One call of the model, Client.Chat (internal/llm/client.go): requests   *)
(* to the configured tiers in their order, re-sent narrower where an       *)
(* endpoint rejects a feature, repeated elsewhere where the failure is the *)
(* upstream's, each one observed, and the text of one of them shown.       *)
(*                                                                         *)
(* A request is its tier and its shape; its text is its number, once for   *)
(* each chunk.  A failure is a class:                                      *)
(*   "cancelled"  the caller's context is done                             *)
(*   "usage"      stream_options is not supported                          *)
(*   "forcing"    a forced tool is not supported in thinking mode          *)
(*   "rejected"   any other 4xx, and what has no typed signal              *)
(*   "overload"   429 or 5xx                                               *)
(*   "broken"     a stream without a finish reason, a reset, a timeout     *)
(***************************************************************************)
EXTENDS Naturals, Sequences

CONSTANTS MaxTiers,     \* bound: tiers a client is configured with
          MinAttempts,  \* minChatAttempts
          MaxChunks     \* bound: text chunks of one response

ModelConstants == {MaxTiers, MinAttempts, MaxChunks} \subseteq Nat \ {0}

VARIABLES tiers,      \* the tiers configured: one, or more with fallbacks
          forced,     \* the caller forces a tool
          phase, slot,
          usage,      \* requestShape.includeUsage
          degraded,   \* requestShape.forcingDegraded
          requests,   \* the actual requests, in order
          buffer,     \* text deltas of the current request
          failure,    \* the class of the last failure, "none" before one
          records,    \* results observed: retried for a failure that was, else how it ended
          shown,      \* text deltas passed to the caller
          result,     \* what Chat returned
          cancelled   \* the caller's context is done

given == <<tiers, forced>>
shape == <<usage, degraded>>
vars  == <<given, phase, slot, shape, requests, buffer, failure, records, shown, result, cancelled>>

Failures == {"cancelled", "usage", "forcing", "rejected", "overload", "broken"}

TypeOK ==
  /\ tiers \in 1..MaxTiers
  /\ {forced, usage, degraded, cancelled} \subseteq BOOLEAN
  /\ phase \in {"send", "stream", "failed", "backoff", "done"}
  /\ slot \in Nat
  /\ requests \in Seq([tier : 1..tiers, usage : BOOLEAN, forced : BOOLEAN])
  /\ buffer \in Seq(Nat) /\ shown \in Seq(Nat)
  /\ failure \in Failures \cup {"none"}
  /\ records \in Seq({"success", "retried", "failed"})
  /\ result \in {"none", "error", "response", "degraded"}

Init ==
  /\ tiers \in 1..MaxTiers /\ forced \in BOOLEAN
  /\ phase = "send" /\ slot = 0
  /\ usage = TRUE /\ degraded = FALSE
  /\ requests = <<>> /\ buffer = <<>> /\ failure = "none"
  /\ records = <<>> /\ shown = <<>> /\ result = "none"
  /\ cancelled = FALSE

\* maxChatAttempts, and the tier of a slot.
Budget == IF tiers > MinAttempts THEN tiers ELSE MinAttempts
TierOf(s) == (s % tiers) + 1

Records(r) == records' = Append(records, r)
Returns(r) == result' = r /\ phase' = "done"

-----------------------------------------------------------------------------
(* attemptOnce and chatOnce: a request in the shape found so far.          *)
Send ==
  /\ phase = "send"
  /\ requests' = Append(requests, [tier |-> TierOf(slot), usage |-> usage,
                                   forced |-> forced /\ ~degraded])
  /\ buffer' = <<>>
  /\ phase' = "stream"
  /\ UNCHANGED <<given, slot, shape, failure, records, shown, result, cancelled>>

\* MUTANT: text is shown as it arrives.
ChunkShown ==
  /\ phase = "stream" /\ Len(buffer) < MaxChunks
  /\ buffer' = Append(buffer, Len(requests))
  /\ shown' = Append(shown, Len(requests))
  /\ UNCHANGED <<given, phase, slot, shape, requests, failure, records, result, cancelled>>

(* A chunk of text waits for the end of its stream.                        *)
Chunk ==
  /\ phase = "stream" /\ Len(buffer) < MaxChunks
  /\ buffer' = Append(buffer, Len(requests))
  /\ UNCHANGED <<given, phase, slot, shape, requests, failure, records, shown, result, cancelled>>

(* A finish reason and a clean end: observed, shown, returned.             *)
Finish ==
  /\ phase = "stream"
  /\ Records("success")
  /\ shown' = shown \o buffer
  /\ Returns(IF degraded THEN "degraded" ELSE "response")
  /\ UNCHANGED <<given, slot, shape, requests, buffer, failure, cancelled>>

(* The errors a request may end with: an endpoint rejects a feature only   *)
(* of a request that has it, and a done context ends a request as such,    *)
(* unless the upstream's failure came first.                               *)
Fail ==
  /\ phase = "stream"
  /\ LET sent == requests[Len(requests)] IN
       failure' \in Failures \ ((IF cancelled THEN {} ELSE {"cancelled"})
                                \cup (IF sent.usage THEN {} ELSE {"usage"})
                                \cup (IF sent.forced THEN {} ELSE {"forcing"}))
  /\ phase' = "failed"
  /\ UNCHANGED <<given, slot, shape, requests, buffer, records, shown, result, cancelled>>

-----------------------------------------------------------------------------
(* chatWithTier: the request is narrowed once for each feature.            *)
Narrows == (usage /\ failure = "usage") \/ (forced /\ ~degraded /\ failure = "forcing")

Narrow ==
  /\ phase = "failed" /\ Narrows
  /\ usage' = (usage /\ failure # "usage")
  /\ degraded' = (degraded \/ failure = "forcing")
  /\ Records("retried")
  /\ phase' = "send"
  /\ UNCHANGED <<given, slot, requests, buffer, failure, shown, result, cancelled>>

\* isTransientChatError.
Transient(f) == f \in {"overload", "broken"}

(* Chat gives up: the failure is not the upstream's, or it was the last    *)
(* slot.                                                                   *)
GiveUp ==
  /\ phase = "failed" /\ ~Narrows
  /\ ~Transient(failure) \/ slot + 1 >= Budget
  /\ Records("failed") /\ Returns("error")
  /\ UNCHANGED <<given, slot, shape, requests, buffer, failure, shown, cancelled>>

(* The next slot: at once on another tier, or on the same one after a      *)
(* pause if it is overloaded.                                              *)
Waits == TierOf(slot + 1) = TierOf(slot) /\ failure = "overload"

Proceed ==
  /\ Records("retried")
  /\ slot' = slot + 1 /\ phase' = "send"

Retry ==
  /\ phase = "failed" /\ ~Narrows /\ Transient(failure) /\ slot + 1 < Budget
  /\ IF Waits THEN phase' = "backoff" /\ UNCHANGED <<slot, records>> ELSE Proceed
  /\ UNCHANGED <<given, shape, requests, buffer, failure, shown, result, cancelled>>

(* The pause ends, or the caller goes away during it.                      *)
Resume ==
  /\ phase = "backoff"
  /\ Proceed
  /\ UNCHANGED <<given, shape, requests, buffer, failure, shown, result, cancelled>>

Abandon ==
  /\ phase = "backoff" /\ cancelled
  /\ Records("failed") /\ Returns("error")
  /\ UNCHANGED <<given, slot, shape, requests, buffer, failure, shown, cancelled>>

Cancel ==
  /\ phase # "done" /\ ~cancelled
  /\ cancelled' = TRUE
  /\ UNCHANGED <<given, phase, slot, shape, requests, buffer, failure, records, shown, result>>

Next ==
  \/ Send \/ Chunk \/ Finish \/ Fail \/ Narrow \/ GiveUp \/ Retry \/ Resume \/ Abandon \/ Cancel

Spec == Init /\ [][Next]_vars

-----------------------------------------------------------------------------
(* The text the caller has been shown is the text of the response it gets, *)
(* whole and in order: no prefix of a request that failed is shown, before *)
(* or among it.  And a response is marked as unforced exactly if a tool    *)
(* was forced and the request it answers did not say so.                   *)
ShownIsReturned ==
  /\ shown = IF result \in {"response", "degraded"} THEN buffer ELSE <<>>
  /\ \A n \in DOMAIN shown : shown[n] = Len(requests)
  /\ result = "response" => requests[Len(requests)].forced = forced
  /\ result = "degraded" => forced /\ ~requests[Len(requests)].forced

(* The trace accounts for every request: one result for each, in order,    *)
(* and one that claims a retry has a request after it.  The requests stay  *)
(* within one per slot and one per feature given up.                       *)
AttemptsAreAccounted ==
  /\ phase = "done" => Len(records) = Len(requests)
  /\ \A n \in DOMAIN records :
       (records[n] = "retried") = (n < Len(requests) \/ (n = Len(requests) /\ phase = "send"))
  /\ Len(requests) <= Budget + (IF forced THEN 2 ELSE 1)

(* The retries of a call show in its trace and nowhere else.               *)
RetriesAreTold == ShownIsReturned /\ AttemptsAreAccounted
=============================================================================
