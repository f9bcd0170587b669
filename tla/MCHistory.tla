------------------------------- MODULE MCHistory -------------------------------
(***************************************************************************)
(* An instance of CanonicalHistory with two questions and one answer, so   *)
(* that turns repeat and only the tool work behind the answer differs.     *)
(***************************************************************************)
EXTENDS CanonicalHistory

Yes == Text("yes", 1)
Ask(id) == [id |-> id, valid |-> TRUE, kind |-> "plain"]
Work(sizes) ==
  [rounds |-> <<[say |-> Empty, calls |-> [i \in DOMAIN sizes |-> Ask(i)],
                 results |-> [i \in DOMAIN sizes |-> Text("result", sizes[i])]]>>,
   answer |-> Yes, shown |-> FALSE]

MCUsers   == {Text("u", 1), Text("v", 1)}
MCScripts == {Work(<<1>>), Work(<<5>>), Work(<<4, 4>>)}
MCForeign == {}
=============================================================================
