------------------------------ MODULE Selections ------------------------------
(***************************************************************************)
(* Parts of a sequence, in its order.                                      *)
(***************************************************************************)
EXTENDS Naturals, Sequences

\* What a sequence has of a set.
Among(seq, S) ==
  LET kept[i \in 0..Len(seq)] ==
        IF i = 0 THEN <<>>
        ELSE IF seq[i] \in S THEN Append(kept[i - 1], seq[i]) ELSE kept[i - 1]
  IN kept[Len(seq)]

\* Positions of a sequence in ascending order, and what is there.
Ascending(s, positions) == Among([i \in DOMAIN s |-> i], positions)
At(s, is) == [n \in DOMAIN is |-> s[is[n]]]
Picked(s, positions) == At(s, Ascending(s, positions))
=============================================================================
