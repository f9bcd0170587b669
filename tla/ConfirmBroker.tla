---------------------------- MODULE ConfirmBroker ----------------------------
(***************************************************************************)
(* Confirmation cards: internal/httpapi/confirm_broker.go, the two gates   *)
(* of handlers_chat.go that wait on it, and the two transports that answer *)
(* it, the read loop of the turn's WebSocket (ws.go) and the POST handler  *)
(* (handlers_confirm.go).                                                  *)
(*                                                                         *)
(* A turn registers a card, writes it to its socket and waits; a handler   *)
(* claims the card for a frame it read and hands the decision over.  A     *)
(* claim that is refused leaves the card as it was.                        *)
(***************************************************************************)
EXTENDS Integers

CONSTANTS Turns,    \* chat turns, each with a socket and the read loop of it
          Posts,    \* goroutines that serve POST ConfirmCSAgentAction
          Owners,   \* tenants
          Cards,    \* ConfirmationIds
          NoTurn,   \* the asker of an id that was not drawn yet
          NoCard,   \* no card is open
          NoFrame   \* no frame is being handled

Handlers == Turns \cup Posts

\* Overrides are absent, pass form.ValidateOverrides, or fail it.
Frames == [card : Cards, owner : Owners, confirmed : BOOLEAN,
           overrides : {"none", "valid", "invalid"}]

ASSUME BrokerAssumption ==
    /\ Turns \cap Posts = {}
    /\ NoTurn \notin Turns
    /\ NoCard \notin Cards
    /\ NoFrame \notin Frames

VARIABLES owner,    \* the tenant a turn's connection authenticated as
          live,     \* the turn's connection context is not cancelled
          pc,       \* where a turn is
          card,     \* the card a turn has open
          asker,    \* the turn that registered a card
          form,     \* the card carries an editable form
          outcome,  \* TerminalReason of a card
          pending,  \* the ids in ConfirmBroker.pending
          chan,     \* the card's channel: open and empty, closed, or a decision
          step,     \* where a handler is
          frame,    \* the frame a handler is serving
          claim,    \* history variable: the frame that claimed a card
          told      \* history variable: what clients were told about a card

turnVars == <<owner, live, pc, card>>
cardVars == <<asker, form, outcome, pending, chan>>
handlerVars == <<step, frame>>
ghostVars == <<claim, told>>
vars == <<turnVars, cardVars, handlerVars, ghostVars>>

Outcomes == {"none", "user_confirmed", "user_declined", "broker_cancelled",
             "client_disconnect", "timeout", "delivery_failed"}

TypeOK ==
    /\ owner \in [Turns -> Owners]
    /\ live \in [Turns -> BOOLEAN]
    /\ pc \in [Turns -> {"working", "showing", "asking", "leaving", "ended"}]
    /\ card \in [Turns -> Cards \cup {NoCard}]
    /\ asker \in [Cards -> Turns \cup {NoTurn}]
    /\ form \in [Cards -> BOOLEAN]
    /\ outcome \in [Cards -> Outcomes]
    /\ pending \subseteq Cards
    /\ chan \in [Cards -> {"open", "closed", "yes", "no"}]
    /\ step \in [Handlers -> {"idle", "read", "claimed", "acked", "delivered"}]
    /\ frame \in [Handlers -> Frames \cup {NoFrame}]
    /\ claim \in [Cards -> Frames \cup {NoFrame}]
    /\ told \in [Cards -> SUBSET {"accepted", "declined"}]

Init ==
    /\ owner \in [Turns -> Owners]
    /\ live = [t \in Turns |-> TRUE]
    /\ pc = [t \in Turns |-> "working"]
    /\ card = [t \in Turns |-> NoCard]
    /\ asker = [c \in Cards |-> NoTurn]
    /\ form = [c \in Cards |-> FALSE]
    /\ outcome = [c \in Cards |-> "none"]
    /\ pending = {}
    /\ chan = [c \in Cards |-> "open"]
    /\ step = [h \in Handlers |-> "idle"]
    /\ frame = [h \in Handlers |-> NoFrame]
    /\ claim = [c \in Cards |-> NoFrame]
    /\ told = [c \in Cards |-> {}]

-----------------------------------------------------------------------------
(* The turn: ConfirmResultFunc and confirmEditsFuncFor.                      *)

\* uuid.NewString draws an id no card has had.
Register(t) ==
    /\ pc[t] = "working"
    /\ \E c \in Cards, withForm \in BOOLEAN :
        /\ asker[c] = NoTurn
        /\ asker' = [asker EXCEPT ![c] = t]
        /\ form' = [form EXCEPT ![c] = withForm]
        /\ pending' = pending \cup {c}
        /\ card' = [card EXCEPT ![t] = c]
    /\ pc' = [pc EXCEPT ![t] = "showing"]
    /\ UNCHANGED <<owner, live, outcome, chan, handlerVars, ghostVars>>

ShowCard(t) ==
    /\ pc[t] = "showing"
    /\ pc' = [pc EXCEPT ![t] = "asking"]
    /\ UNCHANGED <<owner, live, card, cardVars, handlerVars, ghostVars>>

\* The gate returns r to the engine; its deferred Cancel still has to run.
Settle(t, r) ==
    /\ outcome' = [outcome EXCEPT ![card[t]] = r]
    /\ pc' = [pc EXCEPT ![t] = "leaving"]
    /\ UNCHANGED <<owner, card, asker, form, pending, chan, handlerVars, ghostVars>>

\* A failed write ends the connection (ws.Writer.noteStall).
ShowFails(t) ==
    /\ pc[t] = "showing"
    /\ live' = [live EXCEPT ![t] = FALSE]
    /\ Settle(t, "delivery_failed")

\* WaitForConfirmationOutcome selects any ready case: the channel,
Hear(t) ==
    /\ pc[t] = "asking"
    /\ chan[card[t]] # "open"
    /\ Settle(t, CASE chan[card[t]] = "yes" -> "user_confirmed"
                   [] chan[card[t]] = "no" -> "user_declined"
                   [] OTHER -> "broker_cancelled")
    /\ UNCHANGED live

\* the context of the connection,
Gone(t) ==
    /\ pc[t] = "asking"
    /\ ~live[t]
    /\ Settle(t, "client_disconnect")
    /\ UNCHANGED live

\* MUTANT: an expired card counts as approved.
TimeOutApproves(t) ==
    /\ pc[t] = "asking"
    /\ Settle(t, "user_confirmed")
    /\ UNCHANGED live

\* or the timer.
TimeOut(t) ==
    /\ pc[t] = "asking"
    /\ Settle(t, "timeout")
    /\ UNCHANGED live

\* MUTANT: the gate does not defer Cancel.
CancelSkipped(t) ==
    /\ pc[t] = "leaving"
    /\ pc' = [pc EXCEPT ![t] = "working"]
    /\ card' = [card EXCEPT ![t] = NoCard]
    /\ UNCHANGED <<owner, live, cardVars, handlerVars, ghostVars>>

\* defer h.confirmBroker.Cancel(confirmID)
Cancel(t) ==
    /\ pc[t] = "leaving"
    /\ pending' = pending \ {card[t]}
    /\ chan' = [chan EXCEPT ![card[t]] = IF card[t] \in pending THEN "closed" ELSE @]
    /\ pc' = [pc EXCEPT ![t] = "working"]
    /\ card' = [card EXCEPT ![t] = NoCard]
    /\ UNCHANGED <<owner, live, asker, form, outcome, handlerVars, ghostVars>>

\* The chat goroutine returns and cancels the connection context.
EndTurn(t) ==
    /\ pc[t] = "working"
    /\ pc' = [pc EXCEPT ![t] = "ended"]
    /\ live' = [live EXCEPT ![t] = FALSE]
    /\ UNCHANGED <<owner, card, cardVars, handlerVars, ghostVars>>

\* The client leaves, the lifetime of the connection ends, or the server drains.
Disconnect(t) ==
    /\ live[t]
    /\ live' = [live EXCEPT ![t] = FALSE]
    /\ UNCHANGED <<owner, pc, card, cardVars, handlerVars, ghostVars>>

-----------------------------------------------------------------------------
(* The handlers.                                                             *)

\* What a client can send: an id it was shown, as the owner it authenticated as;
\* POST is boolean-only.
Receive(h) ==
    /\ step[h] = "idle"
    /\ \E f \in Frames :
        /\ asker[f.card] # NoTurn
        /\ h \in Turns => live[h] /\ f.owner = owner[h]
        /\ h \in Posts => f.overrides = "none"
        /\ frame' = [frame EXCEPT ![h] = f]
    /\ step' = [step EXCEPT ![h] = "read"]
    /\ UNCHANGED <<turnVars, cardVars, ghostVars>>

\* ClaimResolution: a known id, its owner, and overrides its form accepts.  A
\* denial needs no validation.
Claimable(f) ==
    /\ f.card \in pending
    /\ f.owner = owner[asker[f.card]]
    /\ f.confirmed /\ f.overrides # "none" => form[f.card] /\ f.overrides = "valid"

\* MUTANT: the claim leaves the card in the map until it is delivered.
ClaimKeepsPending(h) ==
    /\ step[h] = "read"
    /\ Claimable(frame[h])
    /\ claim' = [claim EXCEPT ![frame[h].card] = frame[h]]
    /\ step' = [step EXCEPT ![h] = "claimed"]
    /\ UNCHANGED <<turnVars, cardVars, frame, told>>

Claim(h) ==
    /\ step[h] = "read"
    /\ Claimable(frame[h])
    /\ pending' = pending \ {frame[h].card}
    /\ claim' = [claim EXCEPT ![frame[h].card] = frame[h]]
    /\ step' = [step EXCEPT ![h] = "claimed"]
    /\ UNCHANGED <<turnVars, asker, form, outcome, chan, frame, told>>

Finish(h) ==
    /\ step' = [step EXCEPT ![h] = "idle"]
    /\ frame' = [frame EXCEPT ![h] = NoFrame]

\* The card is still pending and still answerable, or was never this client's.
Refuse(h) ==
    /\ step[h] = "read"
    /\ ~Claimable(frame[h])
    /\ Finish(h)
    /\ UNCHANGED <<turnVars, cardVars, ghostVars>>

\* The client reads whether its answer was accepted.
Tell(h) ==
    told' = [told EXCEPT ![frame[h].card] =
                @ \cup {IF frame[h].confirmed THEN "accepted" ELSE "declined"}]

\* resolveConfirmFrame acknowledges before it wakes the turn,
Acknowledge(h) ==
    /\ h \in Turns
    /\ step[h] = "claimed"
    /\ Tell(h)
    /\ step' = [step EXCEPT ![h] = "acked"]
    /\ UNCHANGED <<turnVars, cardVars, frame, claim>>

\* MUTANT: the decision is dropped and the connection lives on.
AcknowledgeFailsQuietly(h) ==
    /\ h \in Turns
    /\ step[h] = "claimed"
    /\ Finish(h)
    /\ UNCHANGED <<turnVars, cardVars, ghostVars>>

\* and drops the decision and ends its connection if it cannot.
AcknowledgeFails(h) ==
    /\ h \in Turns
    /\ step[h] = "claimed"
    /\ live' = [live EXCEPT ![h] = FALSE]
    /\ Finish(h)
    /\ UNCHANGED <<owner, pc, card, cardVars, ghostVars>>

\* MUTANT: the socket delivers first and acknowledges later.
ReadyEarly(h) == "claimed"

\* The step a handler hands the decision over from.
Ready(h) == IF h \in Turns THEN "acked" ELSE "claimed"

\* deliver(): the send and the close.
Send(h) ==
    chan' = [chan EXCEPT ![frame[h].card] = IF frame[h].confirmed THEN "yes" ELSE "no"]

Deliver(h) ==
    /\ step[h] = Ready(h)
    /\ Send(h)
    /\ IF h \in Turns THEN Finish(h)
       ELSE step' = [step EXCEPT ![h] = "delivered"] /\ UNCHANGED frame
    /\ UNCHANGED <<turnVars, asker, form, outcome, pending, ghostVars>>

\* handleConfirm answers once Resolve has returned.
Respond(h) ==
    /\ step[h] = "delivered"
    /\ Tell(h)
    /\ Finish(h)
    /\ UNCHANGED <<turnVars, cardVars, claim>>

-----------------------------------------------------------------------------
TurnStep(t) == ShowCard(t) \/ ShowFails(t) \/ Hear(t) \/ Gone(t) \/ Cancel(t)

HandlerStep(h) ==
    Claim(h) \/ Refuse(h) \/ Acknowledge(h) \/ AcknowledgeFails(h) \/ Deliver(h) \/ Respond(h)

Next ==
    \/ \E t \in Turns : Register(t) \/ TurnStep(t) \/ TimeOut(t) \/ EndTurn(t) \/ Disconnect(t)
    \/ \E h \in Handlers : Receive(h) \/ HandlerStep(h)

\* Goroutines that can run do, and every write has a deadline of its own.  The
\* timer of a card is deliberately left out.
Fairness ==
    /\ \A t \in Turns : WF_vars(TurnStep(t))
    /\ \A h \in Handlers : WF_vars(HandlerStep(h))

Spec == Init /\ [][Next]_vars
FairSpec == Spec /\ Fairness

-----------------------------------------------------------------------------
(* Properties.                                                               *)

Claiming == {"claimed", "acked"}

\* A turn goes ahead only on a yes of its own tenant, and only after the client
\* was told so: the acknowledgement of a socket comes before the decision, and a
\* POST that has delivered one still owes its response.
ActsOnAgreement ==
    \A c \in Cards : outcome[c] = "user_confirmed" =>
        /\ claim[c] # NoFrame
        /\ claim[c].confirmed /\ claim[c].owner = owner[asker[c]]
        /\ \/ "accepted" \in told[c]
           \/ \E h \in Posts : step[h] = "delivered" /\ frame[h] = claim[c]

\* The send of deliver() finds the channel open and empty, so it neither panics
\* nor blocks: a claimed card is out of reach of Cancel and of every other claim.
SendsOnOpenChannel ==
    \A h \in Handlers : step[h] \in Claiming => chan[frame[h].card] = "open"

\* Clients are never given both answers for one card, whichever transports race.
OneAnswerPerCard == \A c \in Cards : told[c] # {"accepted", "declined"}

\* No card outlives its gate: the ids of the broker are those of the gates still
\* running, on every path out of them.
NoOrphanedCard == \A c \in pending : asker[c] \in Turns /\ card[asker[c]] = c

\* A card is settled by whoever claims it: its answer finds its gate waiting, and
\* its gate takes it out of the broker however it returns.
CardsAreSettled == SendsOnOpenChannel /\ NoOrphanedCard

\* A gate never finds its channel closed under it: only its own Cancel closes it.
NeverBrokerCancelled == \A c \in Cards : outcome[c] # "broker_cancelled"

\* A turn's open card is the one it registered, unsettled until the gate returns.
TurnsAgree ==
    \A t \in Turns :
        /\ pc[t] \in {"showing", "asking", "leaving"} <=> card[t] # NoCard
        /\ card[t] # NoCard => asker[card[t]] = t
        /\ pc[t] \in {"showing", "asking"} =>
            chan[card[t]] # "closed" /\ outcome[card[t]] = "none"

\* A card is untouched until it is registered, unclaimed while it is pending, and
\* what happens to it afterwards follows the one frame that claimed it.
CardsAgree ==
    \A c \in Cards :
        /\ asker[c] = NoTurn => c \notin pending /\ claim[c] = NoFrame /\ chan[c] = "open"
                                /\ outcome[c] = "none"
        /\ c \in pending => claim[c] = NoFrame /\ card[asker[c]] = c /\ chan[c] = "open"
        /\ claim[c] = NoFrame => chan[c] \in {"open", "closed"} /\ told[c] = {}
        /\ claim[c] # NoFrame =>
            /\ claim[c].card = c /\ claim[c].owner = owner[asker[c]]
            /\ chan[c] \in {"open", IF claim[c].confirmed THEN "yes" ELSE "no"}
            /\ told[c] \subseteq {IF claim[c].confirmed THEN "accepted" ELSE "declined"}
        /\ chan[c] \in {"yes", "no"} =>
            \/ told[c] # {}
            \/ \E h \in Posts : step[h] = "delivered" /\ frame[h] = claim[c]
        /\ outcome[c] = "user_confirmed" => chan[c] = "yes"

\* A handler past its claim serves the frame that claimed the card, alone, and
\* finds the channel of the card open until it delivers.
HandlersAgree ==
    \A h \in Handlers :
        /\ step[h] = "idle" <=> frame[h] = NoFrame
        /\ step[h] = "read" => asker[frame[h].card] # NoTurn
        /\ step[h] \in {"claimed", "acked", "delivered"} => claim[frame[h].card] = frame[h]
        /\ step[h] \in Claiming => chan[frame[h].card] = "open"
        /\ step[h] = "acked" => h \in Turns /\ told[frame[h].card] # {}
        /\ step[h] = "delivered" => h \in Posts
        /\ \A g \in Handlers :
            h # g /\ step[h] \in Claiming /\ step[g] \in Claiming =>
                frame[h].card # frame[g].card

\* How the pending ids, the claims and the channels fit together: the invariant
\* that the properties above rest on.
CardInvariant == TurnsAgree /\ CardsAgree /\ HandlersAgree

\* An answer given on the socket that shows the card settles the card, even if
\* its timer never fires: an acknowledgement that cannot be written ends the turn.
OwnAnswerSettles ==
    \A t \in Turns, c \in Cards :
        (step[t] = "claimed" /\ frame[t].card = c /\ asker[c] = t) ~> outcome[c] # "none"

\* What the acknowledgement is for: client and server agree on what was authorized.
AcknowledgedIsHonoured ==
    \A c \in Cards : "accepted" \in told[c] => outcome[c] # "timeout"

\* A card seen from outside: what became of it, and what its owner answered.
Fate == [c \in Cards |-> IF asker[c] = NoTurn THEN "unasked"
                         ELSE IF outcome[c] = "none" THEN "open"
                         ELSE IF outcome[c] = "user_confirmed" THEN "acted" ELSE "dropped"]
Answer == [c \in Cards |-> IF claim[c] = NoFrame THEN "none"
                           ELSE IF claim[c].confirmed THEN "yes" ELSE "no"]

Gate == INSTANCE ConsentGate WITH fate <- Fate, answer <- Answer

\* The broker, its gates and its two transports implement ConsentGate.
ImplementsConsentGate == Gate!Spec
==============================================================================
