----------------------------- MODULE ConsentGate -----------------------------
(***************************************************************************)
(* What the confirmation gate of a chat turn promises, with no broker, no  *)
(* channel and no transport: a card is asked once, it is answered at most  *)
(* once, and the action behind it starts only if the answer was yes.       *)
(***************************************************************************)
CONSTANT Cards  \* confirmation cards, one per ConfirmationId

VARIABLES fate,   \* what became of a card
          answer  \* how its owner answered it, possibly too late

Init ==
    /\ fate = [c \in Cards |-> "unasked"]
    /\ answer = [c \in Cards |-> "none"]

Ask(c) ==
    /\ fate[c] = "unasked"
    /\ fate' = [fate EXCEPT ![c] = "open"]
    /\ UNCHANGED answer

Answer(c) ==
    /\ fate[c] # "unasked"
    /\ answer[c] = "none"
    /\ \E a \in {"yes", "no"} : answer' = [answer EXCEPT ![c] = a]
    /\ UNCHANGED fate

Act(c) ==
    /\ fate[c] = "open"
    /\ answer[c] = "yes"
    /\ fate' = [fate EXCEPT ![c] = "acted"]
    /\ UNCHANGED answer

Drop(c) ==
    /\ fate[c] = "open"
    /\ fate' = [fate EXCEPT ![c] = "dropped"]
    /\ UNCHANGED answer

Next == \E c \in Cards : Ask(c) \/ Answer(c) \/ Act(c) \/ Drop(c)

Spec == Init /\ [][Next]_<<fate, answer>>
==============================================================================
