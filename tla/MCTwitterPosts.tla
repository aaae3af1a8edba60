--------------------------- MODULE MCTwitterPosts ---------------------------
(* Bounds for TwitterPosts, given in the .cfg files: delays of two or three *)
(* units, so that a loop may draw a longer delay than the one it slept, and *)
(* posting that takes no time or one unit, so that two loops may overlap in *)
(* it; running time is unbounded.                                           *)
EXTENDS TwitterPosts
==============================================================================
