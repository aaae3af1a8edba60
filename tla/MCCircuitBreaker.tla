-------------------------- MODULE MCCircuitBreaker --------------------------
(* Bounds for CircuitBreaker: three overlapping callers are enough for a   *)
(* call admitted while CLOSED to settle in any later state, together with  *)
(* two probes; two failures trip it, two successes close it.               *)
EXTENDS CircuitBreaker

CONSTANTS c1, c2, c3

MCCalls == {c1, c2, c3}
==============================================================================
