--------------------------- MODULE MCDatabaseGuard ---------------------------
(* Bounds for DatabaseGuard: two concurrent callers, so that one operation  *)
(* is between two of its queries while the other trips, probes or closes    *)
(* the breaker; slots are reused, so sequences of operations are unbounded. *)
EXTENDS DatabaseGuard

CONSTANTS t1, t2

MCTasks == {t1, t2}
==============================================================================
