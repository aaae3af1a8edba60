------------------------ MODULE MCTwitterInteractions ------------------------
(* Bounds for TwitterInteractions: three mentions, of which the second is  *)
(* the agent's own and the third replies to the first; two polls, which    *)
(* overlap or not.                                                         *)
EXTENDS TwitterInteractions, TLC

CONSTANTS p1, p2

TwoPolls == {p1, p2}

MCOwn == {2}
MCParent == (1 :> 0) @@ (2 :> 1) @@ (3 :> 1)
MCAncestors[t \in 1..3] == IF MCParent[t] = 0 THEN {} ELSE {MCParent[t]} \cup MCAncestors[MCParent[t]]
==============================================================================
