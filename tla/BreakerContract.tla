--------------------------- MODULE BreakerContract ---------------------------
(***************************************************************************)
(* What DatabaseAdapter's documentation promises of its circuit breaker:   *)
(* requests pass while it is CLOSED, are blocked while it is OPEN, and     *)
(* after a quiet period are let through again to test the service, which   *)
(* a quota of successes closes and any failure re-opens.  How failures are *)
(* counted while CLOSED is left open: a failure may trip the breaker.      *)
(***************************************************************************)
EXTENDS Naturals

CONSTANTS Calls,        \* the calls that may be in flight
          QuietPeriod,  \* how long after a failure an OPEN breaker blocks
          Quota         \* successes in HALF_OPEN that close the breaker

VARIABLES mode,      \* CLOSED, OPEN or HALF_OPEN
          quiet,     \* time since the last failure, as far as it matters
          evidence,  \* successes seen since the breaker became HALF_OPEN
          inflight   \* the calls let through and not finished

vars == <<mode, quiet, evidence, inflight>>

Init == /\ mode = "CLOSED"
        /\ quiet = QuietPeriod + 1
        /\ evidence = 0
        /\ inflight = {}

Elapse == /\ quiet' = quiet + 1
          /\ quiet' <= QuietPeriod + 1
          /\ UNCHANGED <<mode, evidence, inflight>>

\* A call enters, together with those it makes in turn before it waits for anything.
Enter(calls) == /\ calls # {} /\ calls \cap inflight = {}
                /\ inflight' = inflight \cup calls

Pass(calls) == /\ mode # "OPEN"
               /\ Enter(calls)
               /\ UNCHANGED <<mode, quiet, evidence>>

Probe(calls) == /\ mode = "OPEN"
                /\ quiet > QuietPeriod
                /\ Enter(calls)
                /\ mode' = "HALF_OPEN"
                /\ evidence' = 0
                /\ UNCHANGED quiet

Fail(c) == /\ c \in inflight
           /\ inflight' = inflight \ {c}
           /\ quiet' = 0
           /\ IF mode = "CLOSED" THEN mode' \in {"CLOSED", "OPEN"}
                                 ELSE mode' = "OPEN"
           /\ evidence' = 0

Succeed(c) == /\ c \in inflight
              /\ inflight' = inflight \ {c}
              /\ \/ /\ mode # "HALF_OPEN"
                    /\ UNCHANGED <<mode, quiet, evidence>>
                 \/ /\ mode = "HALF_OPEN"
                    /\ evidence + 1 < Quota
                    /\ evidence' = evidence + 1
                    /\ UNCHANGED <<mode, quiet>>
                 \/ /\ mode = "HALF_OPEN"
                    /\ evidence + 1 = Quota
                    /\ mode' = "CLOSED"
                    /\ evidence' = 0
                    /\ quiet' = QuietPeriod + 1

Next == \/ Elapse
        \/ \E calls \in SUBSET Calls : Pass(calls) \/ Probe(calls)
        \/ \E c \in Calls : Fail(c) \/ Succeed(c)

Spec == Init /\ [][Next]_vars
===============================================================================
