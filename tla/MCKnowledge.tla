---------------------------- MODULE MCKnowledge ----------------------------
(* Bounds for Knowledge: two agents with two items of two fragments, so     *)
(* that one may stop between rows of an item that the other is storing too. *)
EXTENDS Knowledge

CONSTANTS a1, a2

TwoAgents == {a1, a2}
==============================================================================
