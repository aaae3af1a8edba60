-------------------------- MODULE MCTwitterActions --------------------------
(* Bounds for TwitterActions: two tweets, so that a pass is cut short while *)
(* one of them is still to come, and two crashes; passes are unbounded.     *)
EXTENDS TwitterActions

MCTweets == 1..2
=============================================================================
