--------------------------- MODULE CircuitBreaker ---------------------------
(***************************************************************************)
(* The circuit breaker every database operation of an agent goes through   *)
(* (okai/packages/core/src/database/CircuitBreaker.ts).  execute() is an   *)
(* async method: what it does before awaiting the operation (Reject,       *)
(* Admit) and what it does when the operation settles (Succeed, Fail) are  *)
(* separate steps, and any number of calls may be between the two.         *)
(*                                                                         *)
(* Time appears only as Date.now() - (lastFailureTime || 0), compared with *)
(* resetTimeout: sinceFailure is that difference, saturated one past the   *)
(* timeout; an undefined lastFailureTime is the saturated value.           *)
(***************************************************************************)
EXTENDS Naturals

CONSTANTS Calls,                \* slots for concurrent callers of execute()
          FailureThreshold,
          ResetTimeout,
          HalfOpenMaxAttempts,
          MaxFailures           \* bound: failureCount is counted up to here; it is
                                \* only ever compared with FailureThreshold

ASSUME ConfigAssumption == /\ FailureThreshold \in Nat \ {0}
                           /\ ResetTimeout \in Nat
                           /\ HalfOpenMaxAttempts \in Nat \ {0}
                           /\ MaxFailures \in Nat
                           /\ MaxFailures >= FailureThreshold

VARIABLES state,
          failureCount,
          sinceFailure,       \* Date.now() - lastFailureTime, saturated
          halfOpenSuccesses,
          call,               \* per slot: idle, or awaiting its operation
          serviceUp           \* whether the guarded service answers

breakerVars == <<state, failureCount, sinceFailure, halfOpenSuccesses>>
vars == <<breakerVars, call, serviceUp>>

Long == ResetTimeout + 1     \* any duration beyond the reset timeout

Init == /\ state = "CLOSED"
        /\ failureCount = 0
        /\ sinceFailure = Long
        /\ halfOpenSuccesses = 0
        /\ call = [c \in Calls |-> "idle"]
        /\ serviceUp = TRUE

-----------------------------------------------------------------------------
(* The breaker's own state, as execute(), handleFailure() and reset()      *)
(* change it.                                                              *)

\* Mutant: the reset timeout is never looked at.
BlockedForEver == state = "OPEN"

Blocked == state = "OPEN" /\ ~(sinceFailure > ResetTimeout)

\* The head of execute(), when it does not throw.
Enter == /\ ~Blocked
         /\ IF state = "OPEN"
            THEN /\ state' = "HALF_OPEN"
                 /\ halfOpenSuccesses' = 0
            ELSE UNCHANGED <<state, halfOpenSuccesses>>
         /\ UNCHANGED <<failureCount, sinceFailure>>

\* Mutant: reset() forgets failureCount.
ResetKeepsFailures == /\ state' = "CLOSED"
                      /\ sinceFailure' = Long
                      /\ UNCHANGED failureCount

\* reset(): halfOpenSuccesses keeps its value until the next HALF_OPEN.
Reset == /\ state' = "CLOSED"
         /\ failureCount' = 0
         /\ sinceFailure' = Long

\* Mutant: one success more than halfOpenMaxAttempts closes the breaker.
OnSuccessOffByOne ==
    IF state = "HALF_OPEN"
    THEN /\ halfOpenSuccesses' = halfOpenSuccesses + 1
         /\ IF halfOpenSuccesses' > HalfOpenMaxAttempts
            THEN Reset
            ELSE UNCHANGED <<state, failureCount, sinceFailure>>
    ELSE UNCHANGED breakerVars

\* After the await: this.state is read now, not when the call was admitted.
OnSuccess ==
    IF state = "HALF_OPEN"
    THEN /\ halfOpenSuccesses' = halfOpenSuccesses + 1
         /\ IF halfOpenSuccesses' >= HalfOpenMaxAttempts
            THEN Reset
            ELSE UNCHANGED <<state, failureCount, sinceFailure>>
    ELSE UNCHANGED breakerVars

\* handleFailure(), whatever the state.
OnFailure == /\ failureCount' = IF failureCount < MaxFailures
                                 THEN failureCount + 1 ELSE failureCount
             /\ sinceFailure' = 0
             /\ state' = IF failureCount' >= FailureThreshold THEN "OPEN" ELSE state
             /\ UNCHANGED halfOpenSuccesses

Tick == /\ sinceFailure < Long
        /\ sinceFailure' = sinceFailure + 1
        /\ UNCHANGED <<state, failureCount, halfOpenSuccesses>>

-----------------------------------------------------------------------------
(* Calls.                                                                  *)

Admit(c) == /\ call[c] = "idle"
            /\ Enter
            /\ call' = [call EXCEPT ![c] = "running"]
            /\ UNCHANGED serviceUp

Settle(c) == /\ call[c] = "running"
             /\ call' = [call EXCEPT ![c] = "idle"]
             /\ UNCHANGED serviceUp

Succeed(c) == Settle(c) /\ serviceUp /\ OnSuccess

Fail(c) == Settle(c) /\ ~serviceUp /\ OnFailure

\* A throw at the door changes nothing: the caller sees the error at once.
Reject(c) == /\ call[c] = "idle"
             /\ Blocked
             /\ UNCHANGED vars

PassTime == Tick /\ UNCHANGED <<call, serviceUp>>

Outage == /\ serviceUp' = ~serviceUp
          /\ UNCHANGED <<breakerVars, call>>

Next == \/ PassTime
        \/ Outage
        \/ \E c \in Calls : Admit(c) \/ Reject(c) \/ Succeed(c) \/ Fail(c)

Spec == Init /\ [][Next]_vars

\* Callers keep calling, and an operation that can answer does.
Fairness == /\ WF_vars(PassTime)
            /\ \A c \in Calls : WF_vars(Admit(c)) /\ WF_vars(Succeed(c))

FairSpec == Spec /\ Fairness

-----------------------------------------------------------------------------
(* Properties.                                                             *)

\* Types of the breaker's fields and of the call slots.
TypeOK == /\ state \in {"CLOSED", "OPEN", "HALF_OPEN"}
          /\ failureCount \in 0..MaxFailures
          /\ sinceFailure \in 0..Long
          /\ halfOpenSuccesses \in 0..HalfOpenMaxAttempts
          /\ call \in [Calls -> {"idle", "running"}]
          /\ serviceUp \in BOOLEAN

\* execute() and handleFailure() never compare the state with the count, yet
\* the breaker is tripped exactly while its count is at the threshold: no
\* order of late failures, probes and resets leaves a CLOSED breaker that is
\* one failure past its limit, or a tripped one a single failure cannot re-open.
TrippedIffThreshold == (state = "CLOSED") <=> (failureCount < FailureThreshold)

\* A HALF_OPEN breaker is still short of its quota, whoever the successes
\* counted by execute() came from: it cannot be left half open for ever by a
\* counter that has already passed halfOpenMaxAttempts.
HalfOpenBelowQuota ==
    state = "HALF_OPEN" => halfOpenSuccesses < HalfOpenMaxAttempts

\* Any failure reported by handleFailure() while HALF_OPEN, even of a call
\* admitted long before the breaker tripped, re-opens it and restarts the wait.
FailureReopens ==
    [][\A c \in Calls : state = "HALF_OPEN" /\ Fail(c)
                         => state' = "OPEN" /\ sinceFailure' = 0]_vars

\* If the service stays up from some point on, execute() eventually closes the
\* breaker for good, wherever the outage left it.
Recovery == <>[]serviceUp => <>[](state = "CLOSED")

Contract == INSTANCE BreakerContract
              WITH mode <- state,
                   quiet <- sinceFailure,
                   evidence <- IF state = "HALF_OPEN" THEN halfOpenSuccesses ELSE 0,
                   inflight <- {c \in Calls : call[c] = "running"},
                   QuietPeriod <- ResetTimeout,
                   Quota <- HalfOpenMaxAttempts

\* The breaker keeps the documented contract: the fields of CircuitBreaker.ts,
\* read as the contract's mode, quiet time and evidence, make only its steps.
ImplementsContract == Contract!Spec
===============================================================================
