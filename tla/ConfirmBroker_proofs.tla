------------------------- MODULE ConfirmBroker_proofs -------------------------
(* Proofs about ConfirmBroker: the card invariant, what follows from it, and *)
(* the refinement of ConsentGate.                                            *)
EXTENDS ConfirmBroker, TLAPS

\* The type of every variable is preserved by every step.
LEMMA TypeStep == ASSUME TypeOK, [Next]_vars PROVE TypeOK'
  <1> USE BrokerAssumption DEF TypeOK, Handlers, Outcomes
  <1>1. ASSUME NEW t \in Turns, Register(t) PROVE TypeOK'
    BY <1>1 DEF Register, handlerVars, ghostVars
  <1>2. ASSUME NEW t \in Turns, ShowCard(t) PROVE TypeOK'
    BY <1>2 DEF ShowCard, cardVars, handlerVars, ghostVars
  <1>3. ASSUME NEW t \in Turns, ShowFails(t) PROVE TypeOK'
    BY <1>3 DEF ShowFails, Settle, handlerVars, ghostVars
  <1>4. ASSUME NEW t \in Turns, Hear(t) PROVE TypeOK'
    BY <1>4 DEF Hear, Settle, handlerVars, ghostVars
  <1>5. ASSUME NEW t \in Turns, Gone(t) \/ TimeOut(t) PROVE TypeOK'
    BY <1>5 DEF Gone, TimeOut, Settle, handlerVars, ghostVars
  <1>6. ASSUME NEW t \in Turns, Cancel(t) PROVE TypeOK'
    BY <1>6 DEF Cancel, handlerVars, ghostVars
  <1>7. ASSUME NEW t \in Turns, EndTurn(t) \/ Disconnect(t) PROVE TypeOK'
    BY <1>7 DEF EndTurn, Disconnect, cardVars, handlerVars, ghostVars
  <1>8. ASSUME NEW h \in Handlers, Receive(h) PROVE TypeOK'
    BY <1>8 DEF Receive, turnVars, cardVars, ghostVars
  <1>9. ASSUME NEW h \in Handlers, Claim(h) PROVE TypeOK'
    BY <1>9 DEF Claim, turnVars
  <1>10. ASSUME NEW h \in Handlers, Refuse(h) PROVE TypeOK'
    BY <1>10 DEF Refuse, Finish, turnVars, cardVars, ghostVars
  <1>11. ASSUME NEW h \in Handlers, Acknowledge(h) PROVE TypeOK'
    BY <1>11 DEF Acknowledge, Tell, turnVars, cardVars
  <1>12. ASSUME NEW h \in Handlers, AcknowledgeFails(h) PROVE TypeOK'
    BY <1>12 DEF AcknowledgeFails, Finish, cardVars, ghostVars
  <1>13. ASSUME NEW h \in Handlers, Deliver(h) PROVE TypeOK'
    BY <1>13 DEF Deliver, Send, Finish, turnVars, ghostVars
  <1>14. ASSUME NEW h \in Handlers, Respond(h) PROVE TypeOK'
    BY <1>14 DEF Respond, Tell, Finish, turnVars, cardVars
  <1>15. ASSUME UNCHANGED vars PROVE TypeOK'
    BY <1>15 DEF vars, turnVars, cardVars, handlerVars, ghostVars
  <1> QED
    BY <1>1, <1>2, <1>3, <1>4, <1>5, <1>6, <1>7, <1>8, <1>9, <1>10, <1>11, <1>12,
       <1>13, <1>14, <1>15 DEF Next, TurnStep, HandlerStep

\* Telling a client about a card touches no other card and leaves the card told.
LEMMA TellTells ==
    ASSUME TypeOK, NEW h \in Handlers, NEW d \in Cards, d = frame[h].card, Tell(h)
    PROVE  /\ told' = [told EXCEPT ![d] =
                          @ \cup {IF frame[h].confirmed THEN "accepted" ELSE "declined"}]
           /\ told'[d] # {}
           /\ \A c \in Cards \ {d} : told'[c] = told[c]
  <1>1. told' = [told EXCEPT ![d] =
                   @ \cup {IF frame[h].confirmed THEN "accepted" ELSE "declined"}]
    BY DEF Tell
  <1>2. told'[d] = told[d] \cup {IF frame[h].confirmed THEN "accepted" ELSE "declined"}
    BY <1>1 DEF TypeOK
  <1>3. \A c \in Cards \ {d} : told'[c] = told[c]
    BY <1>1 DEF TypeOK
  <1>4. (IF frame[h].confirmed THEN "accepted" ELSE "declined") \in told'[d]
    <2> HIDE DEF TypeOK
    <2> QED BY <1>2, Zenon
  <1>5. told'[d] # {}
    BY <1>4
  <1> QED
    BY <1>1, <1>3, <1>5

\* A turn and its open card stay in agreement.
LEMMA TurnsStep == ASSUME TypeOK, TypeOK', CardInvariant, [Next]_vars PROVE TurnsAgree'
  <1> USE BrokerAssumption DEF TypeOK, Frames, Handlers, Claiming, CardInvariant, TurnsAgree, CardsAgree, HandlersAgree
  <1>1. ASSUME NEW t \in Turns, Register(t) PROVE TurnsAgree'
    BY <1>1 DEF Register, handlerVars, ghostVars
  <1>2. ASSUME NEW t \in Turns, ShowCard(t) PROVE TurnsAgree'
    BY <1>2 DEF ShowCard, cardVars, handlerVars, ghostVars
  <1>3. ASSUME NEW t \in Turns, ShowFails(t) PROVE TurnsAgree'
    BY <1>3 DEF ShowFails, Settle, handlerVars, ghostVars
  <1>4. ASSUME NEW t \in Turns, Hear(t) PROVE TurnsAgree'
    BY <1>4 DEF Hear, Settle, handlerVars, ghostVars
  <1>5. ASSUME NEW t \in Turns, Gone(t) \/ TimeOut(t) PROVE TurnsAgree'
    BY <1>5 DEF Gone, TimeOut, Settle, handlerVars, ghostVars
  <1>6. ASSUME NEW t \in Turns, Cancel(t) PROVE TurnsAgree'
    BY <1>6 DEF Cancel, handlerVars, ghostVars
  <1>7. ASSUME NEW t \in Turns, EndTurn(t) \/ Disconnect(t) PROVE TurnsAgree'
    BY <1>7 DEF EndTurn, Disconnect, cardVars, handlerVars, ghostVars
  <1>8. ASSUME NEW h \in Handlers, Receive(h) PROVE TurnsAgree'
    BY <1>8 DEF Receive, turnVars, cardVars, ghostVars
  <1>9. ASSUME NEW h \in Handlers, Claim(h) PROVE TurnsAgree'
    BY <1>9 DEF Claim, Claimable, turnVars
  <1>10. ASSUME NEW h \in Handlers, Refuse(h) PROVE TurnsAgree'
    BY <1>10 DEF Refuse, Finish, turnVars, cardVars, ghostVars
  <1>11. ASSUME NEW h \in Handlers, Acknowledge(h) PROVE TurnsAgree'
    BY <1>11 DEF Acknowledge, Tell, turnVars, cardVars
  <1>12. ASSUME NEW h \in Handlers, AcknowledgeFails(h) PROVE TurnsAgree'
    BY <1>12 DEF AcknowledgeFails, Finish, cardVars, ghostVars
  <1>13. ASSUME NEW h \in Handlers, Deliver(h) PROVE TurnsAgree'
    BY <1>13 DEF Deliver, Ready, Send, Finish, turnVars, ghostVars
  <1>14. ASSUME NEW h \in Handlers, Respond(h) PROVE TurnsAgree'
    BY <1>14 DEF Respond, Tell, Finish, turnVars, cardVars
  <1>15. ASSUME UNCHANGED vars PROVE TurnsAgree'
    BY <1>15 DEF vars, turnVars, cardVars, handlerVars, ghostVars
  <1> QED
    BY <1>1, <1>2, <1>3, <1>4, <1>5, <1>6, <1>7, <1>8, <1>9, <1>10, <1>11, <1>12, <1>13, <1>14, <1>15 DEF Next, TurnStep, HandlerStep

\* A card and the frame that claimed it stay in agreement.
LEMMA CardsStep == ASSUME TypeOK, TypeOK', CardInvariant, [Next]_vars PROVE CardsAgree'
  <1> USE BrokerAssumption DEF TypeOK, Frames, Handlers, Claiming, CardInvariant, TurnsAgree, CardsAgree, HandlersAgree
  <1>1. ASSUME NEW t \in Turns, Register(t) PROVE CardsAgree'
    BY <1>1 DEF Register, handlerVars, ghostVars
  <1>2. ASSUME NEW t \in Turns, ShowCard(t) PROVE CardsAgree'
    BY <1>2 DEF ShowCard, cardVars, handlerVars, ghostVars
  <1>3. ASSUME NEW t \in Turns, ShowFails(t) PROVE CardsAgree'
    BY <1>3 DEF ShowFails, Settle, handlerVars, ghostVars
  <1>4. ASSUME NEW t \in Turns, Hear(t) PROVE CardsAgree'
    BY <1>4 DEF Hear, Settle, handlerVars, ghostVars
  <1>5. ASSUME NEW t \in Turns, Gone(t) \/ TimeOut(t) PROVE CardsAgree'
    BY <1>5 DEF Gone, TimeOut, Settle, handlerVars, ghostVars
  <1>6. ASSUME NEW t \in Turns, Cancel(t) PROVE CardsAgree'
    BY <1>6 DEF Cancel, handlerVars, ghostVars
  <1>7. ASSUME NEW t \in Turns, EndTurn(t) \/ Disconnect(t) PROVE CardsAgree'
    BY <1>7 DEF EndTurn, Disconnect, cardVars, handlerVars, ghostVars
  <1>8. ASSUME NEW h \in Handlers, Receive(h) PROVE CardsAgree'
    BY <1>8 DEF Receive, turnVars, cardVars, ghostVars
  <1>9. ASSUME NEW h \in Handlers, Claim(h) PROVE CardsAgree'
    BY <1>9 DEF Claim, Claimable, turnVars
  <1>10. ASSUME NEW h \in Handlers, Refuse(h) PROVE CardsAgree'
    BY <1>10 DEF Refuse, Finish, turnVars, cardVars, ghostVars
  <1>11. ASSUME NEW h \in Handlers, Acknowledge(h) PROVE CardsAgree'
    BY <1>11 DEF Acknowledge, Tell, turnVars, cardVars
  <1>12. ASSUME NEW h \in Handlers, AcknowledgeFails(h) PROVE CardsAgree'
    BY <1>12 DEF AcknowledgeFails, Finish, cardVars, ghostVars
  <1>13. ASSUME NEW h \in Handlers, Deliver(h) PROVE CardsAgree'
    <2>1. /\ frame[h] \in Frames /\ claim[frame[h].card] = frame[h]
          /\ step[h] = Ready(h) /\ step[h] \in Claiming
          /\ UNCHANGED <<turnVars, asker, form, outcome, pending, ghostVars>>
      BY <1>13 DEF Deliver, Ready
    <2>2. PICK d \in Cards : d = frame[h].card
      BY <2>1
    <2>3. PICK a \in {"yes", "no"} : a = IF frame[h].confirmed THEN "yes" ELSE "no"
      OBVIOUS
    <2>4. chan' = [chan EXCEPT ![d] = a]
      BY <1>13, <2>2, <2>3 DEF Deliver, Send
    <2>5. claim[d] = frame[h] /\ claim[d] # NoFrame /\ d \notin pending /\ chan[d] = "open"
      BY <2>1, <2>2
    <2>6. \A c \in Cards : \A g \in Posts :
            step[g] = "delivered" /\ frame[g] = claim[c] =>
              step'[g] = "delivered" /\ frame'[g] = frame[g]
      BY <1>13, <2>1 DEF Deliver, Ready, Finish
    <2>7. CASE h \in Turns
      <3>1. told[d] # {}
        BY <2>1, <2>2, <2>7 DEF Ready
      <3> QED
        BY <2>1, <2>2, <2>3, <2>4, <2>5, <2>6, <3>1 DEF turnVars, ghostVars
    <2>8. CASE h \in Posts
      <3>1. step'[h] = "delivered" /\ frame'[h] = claim[d]
        BY <1>13, <2>1, <2>5, <2>8 DEF Deliver
      <3> QED
        BY <2>1, <2>2, <2>3, <2>4, <2>5, <2>6, <2>8, <3>1 DEF turnVars, ghostVars
    <2> QED
      BY <2>7, <2>8
  <1>14. ASSUME NEW h \in Handlers, Respond(h) PROVE CardsAgree'
    <2>1. /\ frame[h] \in Frames /\ claim[frame[h].card] = frame[h] /\ h \in Posts
          /\ step[h] = "delivered"
      BY <1>14 DEF Respond
    <2>2. PICK d \in Cards : d = frame[h].card
      BY <2>1
    <2>3. /\ told' = [told EXCEPT ![d] =
                        @ \cup {IF frame[h].confirmed THEN "accepted" ELSE "declined"}]
          /\ told'[d] # {}
          /\ \A c \in Cards \ {d} : told'[c] = told[c]
      <3> HIDE DEF TypeOK, Handlers, Frames, CardInvariant
      <3> QED BY <1>14, <2>2, TellTells DEF Respond
    <2>5. \A c \in Cards \ {d} : \A g \in Posts :
            step[g] = "delivered" /\ frame[g] = claim[c] => g # h
      <3> SUFFICES ASSUME NEW c \in Cards \ {d}, frame[h] = claim[c] PROVE FALSE
        OBVIOUS
      <3> QED BY <2>1, <2>2
    <2>6. UNCHANGED <<turnVars, cardVars, claim>> /\ step' = [step EXCEPT ![h] = "idle"]
          /\ frame' = [frame EXCEPT ![h] = NoFrame]
      BY <1>14 DEF Respond, Finish
    <2>7. ASSUME NEW c \in Cards, chan[c] \in {"yes", "no"}
          PROVE told'[c] # {} \/ \E g \in Posts : step'[g] = "delivered" /\ frame'[g] = claim[c]
      <3>1. CASE c = d
        BY <2>3, <3>1
      <3>2. CASE c # d /\ told[c] # {}
        BY <2>3, <3>2
      <3>3. CASE c # d /\ told[c] = {}
        <4>1. PICK g \in Posts : step[g] = "delivered" /\ frame[g] = claim[c]
          BY <2>7, <3>3
        <4>2. g # h
          BY <2>5, <3>3, <4>1
        <4> QED
          BY <2>1, <2>6, <4>1, <4>2
      <3> QED
        BY <3>1, <3>2, <3>3
    <2>8. told'[d] \subseteq {IF claim[d].confirmed THEN "accepted" ELSE "declined"}
      BY <2>1, <2>2, <2>3
    <2> QED
      BY <2>1, <2>2, <2>3, <2>6, <2>7, <2>8 DEF turnVars, cardVars
  <1>15. ASSUME UNCHANGED vars PROVE CardsAgree'
    BY <1>15 DEF vars, turnVars, cardVars, handlerVars, ghostVars
  <1> QED
    BY <1>1, <1>2, <1>3, <1>4, <1>5, <1>6, <1>7, <1>8, <1>9, <1>10, <1>11, <1>12, <1>13, <1>14, <1>15 DEF Next, TurnStep, HandlerStep

\* A handler and the card it claimed stay in agreement.
LEMMA HandlersStep == ASSUME TypeOK, TypeOK', CardInvariant, [Next]_vars PROVE HandlersAgree'
  <1> USE BrokerAssumption DEF TypeOK, Frames, Handlers, Claiming, CardInvariant, TurnsAgree, CardsAgree, HandlersAgree
  <1>1. ASSUME NEW t \in Turns, Register(t) PROVE HandlersAgree'
    BY <1>1 DEF Register, handlerVars, ghostVars
  <1>2. ASSUME NEW t \in Turns, ShowCard(t) PROVE HandlersAgree'
    BY <1>2 DEF ShowCard, cardVars, handlerVars, ghostVars
  <1>3. ASSUME NEW t \in Turns, ShowFails(t) PROVE HandlersAgree'
    BY <1>3 DEF ShowFails, Settle, handlerVars, ghostVars
  <1>4. ASSUME NEW t \in Turns, Hear(t) PROVE HandlersAgree'
    BY <1>4 DEF Hear, Settle, handlerVars, ghostVars
  <1>5. ASSUME NEW t \in Turns, Gone(t) \/ TimeOut(t) PROVE HandlersAgree'
    BY <1>5 DEF Gone, TimeOut, Settle, handlerVars, ghostVars
  <1>6. ASSUME NEW t \in Turns, Cancel(t) PROVE HandlersAgree'
    BY <1>6 DEF Cancel, handlerVars, ghostVars
  <1>7. ASSUME NEW t \in Turns, EndTurn(t) \/ Disconnect(t) PROVE HandlersAgree'
    BY <1>7 DEF EndTurn, Disconnect, cardVars, handlerVars, ghostVars
  <1>8. ASSUME NEW h \in Handlers, Receive(h) PROVE HandlersAgree'
    BY <1>8 DEF Receive, turnVars, cardVars, ghostVars
  <1>9. ASSUME NEW h \in Handlers, Claim(h) PROVE HandlersAgree'
    BY <1>9 DEF Claim, Claimable, turnVars
  <1>10. ASSUME NEW h \in Handlers, Refuse(h) PROVE HandlersAgree'
    BY <1>10 DEF Refuse, Finish, turnVars, cardVars, ghostVars
  <1>11. ASSUME NEW h \in Handlers, Acknowledge(h) PROVE HandlersAgree'
    <2>1. PICK d \in Cards : d = frame[h].card
      BY <1>11 DEF Acknowledge
    <2>2. told'[d] # {} /\ \A c \in Cards : told[c] # {} => told'[c] # {}
      <3> HIDE DEF TypeOK, Handlers, Frames, CardInvariant
      <3>1. told'[d] # {} /\ \A c \in Cards \ {d} : told'[c] = told[c]
        BY <1>11, <2>1, TellTells DEF Acknowledge
      <3> QED BY <3>1
    <2>3. /\ h \in Turns /\ step[h] = "claimed" /\ step' = [step EXCEPT ![h] = "acked"]
          /\ UNCHANGED <<turnVars, cardVars, frame, claim>>
      BY <1>11 DEF Acknowledge
    <2> QED
      BY <2>1, <2>2, <2>3 DEF turnVars, cardVars
  <1>12. ASSUME NEW h \in Handlers, AcknowledgeFails(h) PROVE HandlersAgree'
    BY <1>12 DEF AcknowledgeFails, Finish, cardVars, ghostVars
  <1>13. ASSUME NEW h \in Handlers, Deliver(h) PROVE HandlersAgree'
    BY <1>13 DEF Deliver, Ready, Send, Finish, turnVars, ghostVars
  <1>14. ASSUME NEW h \in Handlers, Respond(h) PROVE HandlersAgree'
    BY <1>14 DEF Respond, Tell, Finish, turnVars, cardVars
  <1>15. ASSUME UNCHANGED vars PROVE HandlersAgree'
    BY <1>15 DEF vars, turnVars, cardVars, handlerVars, ghostVars
  <1> QED
    BY <1>1, <1>2, <1>3, <1>4, <1>5, <1>6, <1>7, <1>8, <1>9, <1>10, <1>11, <1>12, <1>13, <1>14, <1>15 DEF Next, TurnStep, HandlerStep

\* The card invariant holds in every reachable state, with the types.
LEMMA CardInvariantHolds == Spec => [](TypeOK /\ CardInvariant)
  <1>1. Init => TypeOK /\ CardInvariant
    <2> SUFFICES ASSUME Init PROVE TypeOK /\ CardInvariant
      OBVIOUS
    <2>1. TypeOK
      BY DEF Init, TypeOK, Handlers, Outcomes
    <2>2. TurnsAgree
      BY BrokerAssumption DEF Init, TurnsAgree
    <2>3. CardsAgree
      BY BrokerAssumption DEF Init, CardsAgree
    <2>4. HandlersAgree
      BY BrokerAssumption DEF Init, HandlersAgree, Claiming, Handlers
    <2> QED
      BY <2>1, <2>2, <2>3, <2>4 DEF CardInvariant
  <1>2. TypeOK /\ CardInvariant /\ [Next]_vars => (TypeOK /\ CardInvariant)'
    <2> SUFFICES ASSUME TypeOK, CardInvariant, [Next]_vars PROVE (TypeOK /\ CardInvariant)'
      OBVIOUS
    <2>1. TypeOK'
      BY TypeStep
    <2> QED
      BY <2>1, TurnsStep, CardsStep, HandlersStep DEF CardInvariant
  <1> QED
    BY <1>1, <1>2, PTL DEF Spec

\* The variables of the broker, its turns and its handlers keep their types.
THEOREM BrokerTyped == Spec => []TypeOK
  BY CardInvariantHolds, PTL

\* Ids, claims and channels fit together, for any number of turns, handlers and cards.
THEOREM CardsConsistent == Spec => []CardInvariant
  BY CardInvariantHolds, PTL

\* A turn goes ahead only on its own tenant's yes, told to the client before it.
THEOREM AgreementBeforeAction == Spec => []ActsOnAgreement
  <1>1. TypeOK /\ CardInvariant => ActsOnAgreement
    <2> SUFFICES ASSUME TypeOK, CardInvariant, NEW c \in Cards, outcome[c] = "user_confirmed"
                 PROVE  /\ claim[c] # NoFrame
                        /\ claim[c].confirmed /\ claim[c].owner = owner[asker[c]]
                        /\ \/ "accepted" \in told[c]
                           \/ \E h \in Posts : step[h] = "delivered" /\ frame[h] = claim[c]
      BY DEF ActsOnAgreement
    <2>1. chan[c] = "yes" /\ claim[c] # NoFrame
      BY DEF CardInvariant, CardsAgree
    <2>2. claim[c].confirmed /\ claim[c].owner = owner[asker[c]] /\ told[c] \subseteq {"accepted"}
      BY <2>1 DEF CardInvariant, CardsAgree
    <2>3. told[c] # {} \/ \E h \in Posts : step[h] = "delivered" /\ frame[h] = claim[c]
      BY <2>1 DEF CardInvariant, CardsAgree
    <2>4. told[c] # {} => "accepted" \in told[c]
      BY <2>2
    <2> QED
      BY <2>1, <2>2, <2>3, <2>4
  <1> QED
    BY <1>1, CardInvariantHolds, PTL

\* deliver() never sends on a channel that is closed or already full.
THEOREM DeliverSafe == Spec => []SendsOnOpenChannel
  <1>1. CardInvariant => SendsOnOpenChannel
    BY DEF CardInvariant, HandlersAgree, SendsOnOpenChannel
  <1> QED
    BY <1>1, CardInvariantHolds, PTL

\* No card is acknowledged both as accepted and as declined.
THEOREM SingleAnswer == Spec => []OneAnswerPerCard
  <1>1. TypeOK /\ CardInvariant => OneAnswerPerCard
    <2> SUFFICES ASSUME CardInvariant, NEW c \in Cards, told[c] = {"accepted", "declined"}
                 PROVE  FALSE
      BY DEF OneAnswerPerCard
    <2>1. claim[c] # NoFrame
      BY DEF CardInvariant, CardsAgree
    <2>2. PICK a : told[c] \subseteq {a}
      BY <2>1 DEF CardInvariant, CardsAgree
    <2> QED
      BY <2>2
  <1> QED
    BY <1>1, CardInvariantHolds, PTL

\* Every pending id is the open card of the turn that registered it.
THEOREM NoCardLeaks == Spec => []NoOrphanedCard
  <1>1. TypeOK /\ CardInvariant => NoOrphanedCard
    BY DEF TypeOK, CardInvariant, CardsAgree, NoOrphanedCard
  <1> QED
    BY <1>1, CardInvariantHolds, PTL

\* Claim, Deliver and Cancel settle every card: no answer is sent to a gate that is
\* gone, and no gate leaves its card behind.
THEOREM CardsSettled == Spec => []CardsAreSettled
  <1>1. SendsOnOpenChannel /\ NoOrphanedCard => CardsAreSettled
    BY DEF CardsAreSettled
  <1> QED
    BY <1>1, DeliverSafe, NoCardLeaks, PTL

\* No gate ever finds its channel closed under it.
THEOREM GateKeepsItsChannel == Spec => []NeverBrokerCancelled
  <1>1. Init => NeverBrokerCancelled
    BY DEF Init, NeverBrokerCancelled
  <1>2. TypeOK /\ CardInvariant /\ NeverBrokerCancelled /\ [Next]_vars => NeverBrokerCancelled'
    <2> SUFFICES ASSUME TypeOK, CardInvariant, NeverBrokerCancelled, [Next]_vars
                 PROVE  NeverBrokerCancelled'
      OBVIOUS
    <2> USE DEF NeverBrokerCancelled
    <2>1. ASSUME NEW t \in Turns, NEW r \in Outcomes \ {"broker_cancelled"}, Settle(t, r)
          PROVE  NeverBrokerCancelled'
      BY <2>1 DEF Settle, TypeOK
    <2>2. ASSUME NEW t \in Turns, Hear(t) PROVE NeverBrokerCancelled'
      <3>1. chan[card[t]] \in {"yes", "no"}
        BY <2>2 DEF Hear, TypeOK, CardInvariant, TurnsAgree
      <3> QED
        BY <2>1, <2>2, <3>1 DEF Hear, Outcomes
    <2>3. ASSUME NEW t \in Turns, ShowFails(t) \/ Gone(t) \/ TimeOut(t)
          PROVE  NeverBrokerCancelled'
      BY <2>1, <2>3 DEF ShowFails, Gone, TimeOut, Outcomes
    <2>4. ASSUME UNCHANGED outcome PROVE NeverBrokerCancelled'
      BY <2>4
    <2> QED
      BY <2>2, <2>3, <2>4 DEF Next, TurnStep, HandlerStep, Register, ShowCard, Cancel, EndTurn,
         Disconnect, Receive, Claim, Refuse, Acknowledge, AcknowledgeFails, Deliver, Respond,
         vars, turnVars, cardVars, handlerVars, ghostVars
  <1> QED
    BY <1>1, <1>2, CardInvariantHolds, PTL DEF Spec

\* A step of the broker is a step of ConsentGate or leaves fate and answer alone.
LEMMA StepRefines ==
    ASSUME TypeOK, CardInvariant, [Next]_vars
    PROVE  [Gate!Next]_<<Fate, Answer>>
  <1> USE BrokerAssumption DEF TypeOK, CardInvariant, TurnsAgree, CardsAgree, HandlersAgree, Handlers
  <1> DEFINE Same == UNCHANGED <<Fate, Answer>>
  <1>1. ASSUME NEW t \in Turns, Register(t) PROVE \E c \in Cards : Gate!Ask(c)
    <2>1. PICK c \in Cards : asker[c] = NoTurn /\ asker' = [asker EXCEPT ![c] = t]
      BY <1>1 DEF Register
    <2>2. UNCHANGED <<outcome, claim>>
      BY <1>1 DEF Register, ghostVars
    <2>3. outcome[c] = "none"
      BY <2>1
    <2>4. Fate[c] = "unasked" /\ Fate' = [Fate EXCEPT ![c] = "open"]
      <3>1. /\ asker'[c] # NoTurn /\ outcome'[c] = "none"
            /\ \A x \in Cards \ {c} : asker'[x] = asker[x] /\ outcome'[x] = outcome[x]
        BY <2>1, <2>2, <2>3
      <3> HIDE DEF TypeOK, CardInvariant
      <3> QED
        BY <2>1, <3>1 DEF Fate
    <2>5. Answer' = Answer
      BY <2>2 DEF Answer
    <2> QED
      BY <2>4, <2>5 DEF Gate!Ask
  <1>2. ASSUME NEW t \in Turns, NEW r \in Outcomes \ {"none"}, Settle(t, r),
               pc[t] \in {"showing", "asking"},
               r = "user_confirmed" => chan[card[t]] = "yes"
        PROVE  \E c \in Cards : Gate!Act(c) \/ Gate!Drop(c)
    <2>1. PICK c \in Cards : c = card[t]
      BY <1>2
    <2>2. asker[c] = t /\ outcome[c] = "none"
      BY <1>2, <2>1
    <2>3. outcome' = [outcome EXCEPT ![c] = r] /\ UNCHANGED <<asker, claim>>
      BY <1>2, <2>1 DEF Settle, ghostVars
    <2>4. Fate[c] = "open"
      BY <2>2 DEF Fate
    <2>5. Answer' = Answer
      BY <2>3 DEF Answer
    <2>6. Fate' = [Fate EXCEPT ![c] = IF r = "user_confirmed" THEN "acted" ELSE "dropped"]
      <3>1. /\ asker'[c] # NoTurn /\ outcome'[c] = r
            /\ \A x \in Cards \ {c} : asker'[x] = asker[x] /\ outcome'[x] = outcome[x]
        BY <2>2, <2>3
      <3> HIDE DEF TypeOK, CardInvariant, Outcomes
      <3> QED
        BY <1>2, <3>1 DEF Fate
    <2>7. CASE r = "user_confirmed"
      <3>1. Answer[c] = "yes"
        BY <1>2, <2>1, <2>7 DEF Answer
      <3> QED
        BY <2>4, <2>5, <2>6, <2>7, <3>1 DEF Gate!Act
    <2>8. CASE r # "user_confirmed"
      BY <2>4, <2>5, <2>6, <2>8 DEF Gate!Drop
    <2> QED
      BY <2>7, <2>8
  <1>3. ASSUME NEW t \in Turns, Hear(t) PROVE \E c \in Cards : Gate!Act(c) \/ Gate!Drop(c)
    <2>1. chan[card[t]] \in {"yes", "no"} /\ pc[t] = "asking"
      BY <1>3 DEF Hear
    <2> QED
      BY <1>2, <1>3, <2>1 DEF Hear, Outcomes
  <1>4. ASSUME NEW t \in Turns, ShowFails(t) \/ Gone(t) \/ TimeOut(t)
        PROVE  \E c \in Cards : Gate!Act(c) \/ Gate!Drop(c)
    BY <1>2, <1>4 DEF ShowFails, Gone, TimeOut, Outcomes
  <1>5. ASSUME NEW h \in Handlers, Claim(h) PROVE \E c \in Cards : Gate!Answer(c)
    <2>1. PICK c \in Cards : c = frame[h].card /\ c \in pending
      BY <1>5 DEF Claim, Claimable
    <2>2. claim[c] = NoFrame /\ asker[c] # NoTurn /\ frame[h] \in Frames
      BY <1>5, <2>1 DEF Claim
    <2>3. claim' = [claim EXCEPT ![c] = frame[h]] /\ UNCHANGED <<asker, outcome>>
      BY <1>5, <2>1 DEF Claim
    <2>4. Fate' = Fate /\ Fate[c] # "unasked"
      BY <2>2, <2>3 DEF Fate
    <2>5. Answer[c] = "none"
          /\ Answer' = [Answer EXCEPT ![c] = IF frame[h].confirmed THEN "yes" ELSE "no"]
      <3>1. /\ claim'[c] = frame[h] /\ claim'[c] # NoFrame
            /\ \A x \in Cards \ {c} : claim'[x] = claim[x]
        BY <2>2, <2>3
      <3> HIDE DEF TypeOK, CardInvariant
      <3> QED
        BY <2>2, <3>1 DEF Answer
    <2> QED
      BY <2>4, <2>5 DEF Gate!Answer
  <1>6. ASSUME UNCHANGED <<asker, outcome, claim>> PROVE Same
    BY <1>6 DEF Fate, Answer
  <1> HIDE DEF TypeOK, CardInvariant, TurnsAgree, CardsAgree, HandlersAgree, Handlers
  <1>7. ASSUME Next PROVE Gate!Next \/ Same
    <2>1. ASSUME NEW t \in Turns, ShowCard(t) \/ Cancel(t) \/ EndTurn(t) \/ Disconnect(t)
          PROVE  Same
      BY <1>6, <2>1 DEF ShowCard, Cancel, EndTurn, Disconnect, cardVars, ghostVars
    <2>2. ASSUME NEW h \in Handlers,
                 Receive(h) \/ Refuse(h) \/ Acknowledge(h) \/ AcknowledgeFails(h)
                   \/ Deliver(h) \/ Respond(h)
          PROVE  Same
      BY <1>6, <2>2 DEF Receive, Refuse, Acknowledge, AcknowledgeFails, Deliver, Respond,
         cardVars, ghostVars
    <2>3. (\E t \in Turns : Register(t) \/ Hear(t) \/ ShowFails(t) \/ Gone(t) \/ TimeOut(t))
            => Gate!Next
      BY <1>1, <1>3, <1>4 DEF Gate!Next
    <2>4. (\E h \in Handlers : Claim(h)) => Gate!Next
      BY <1>5 DEF Gate!Next
    <2> QED
      BY <1>7, <2>1, <2>2, <2>3, <2>4 DEF Next, TurnStep, HandlerStep
  <1>8. ASSUME UNCHANGED vars PROVE Same
    BY <1>6, <1>8 DEF vars, cardVars, ghostVars
  <1> QED
    BY <1>7, <1>8

\* Hidden behind the ids, the channels and the transports, every behaviour of the
\* broker is one of ConsentGate: asked once, answered once, acted on after a yes.
THEOREM BrokerImplementsConsentGate == Spec => ImplementsConsentGate
  <1>1. Init => Gate!Init
    BY DEF Init, Gate!Init, Fate, Answer
  <1>2. TypeOK /\ CardInvariant /\ [Next]_vars => [Gate!Next]_<<Fate, Answer>>
    BY StepRefines
  <1> QED
    BY <1>1, <1>2, CardInvariantHolds, PTL DEF Spec, ImplementsConsentGate, Gate!Spec
==============================================================================
