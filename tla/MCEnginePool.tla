---------------------------- MODULE MCEnginePool ----------------------------
(* Instances of EnginePool for TLC. *)
EXTENDS EnginePool, TLC

\* Requests, sessions and entries only differ by identity: safety runs only.
IdSymmetry == Permutations(Requests) \cup Permutations(Keys) \cup Permutations(Entries)
=============================================================================
