---------------------------- MODULE MCConnection ----------------------------
(* Bounds for Connection: two overlapping calls of one user in one room, so *)
(* that each row has two would-be inserters; slots are reused.  The calls    *)
(* are alike: errors in one of them show what errors in either would.       *)
EXTENDS Connection

CONSTANTS c1, c2, u1, r1, a

MCCalls == {c1, c2}
MCUsers == {u1}
MCRooms == {r1}
MCUnlucky == {c1}
==============================================================================
