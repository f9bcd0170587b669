-------------------------- MODULE MCConfirmBroker --------------------------
(* Instances of ConfirmBroker for TLC. *)
EXTENDS ConfirmBroker, TLC

\* Owners and cards only differ by identity, and nothing orders them.
IdSymmetry == Permutations(Owners) \cup Permutations(Cards)
=============================================================================
