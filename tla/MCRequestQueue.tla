--------------------------- MODULE MCRequestQueue ---------------------------
(* Four requests: one in flight, one queued behind it, and two that may be *)
(* added at any later moment, before, during and after a delay.            *)
EXTENDS RequestQueue

CONSTANTS r1, r2, r3, r4

MCRequests == {r1, r2, r3, r4}
==============================================================================
