---------------------------- MODULE DatabaseGuard ----------------------------
(***************************************************************************)
(* Every query of the Postgres adapter runs inside                         *)
(*     withDatabase = circuit breaker ( withRetry ( operation ) )          *)
(* (okai/packages/adapter-postgres/src/index.ts).  This module composes    *)
(* the breaker with the retry loop and with the kinds of operation the     *)
(* adapter hands to it, which differ in what the breaker can see of them:  *)
(*   read     a SELECT; its error is thrown                                *)
(*   log      INSERT with an id drawn inside the retried closure           *)
(*   memory   createMemory: a similarity search that goes through          *)
(*            withDatabase again, then an INSERT with the caller's id      *)
(*   account  createAccount, addParticipant: INSERT; an error is caught    *)
(*            and false returned                                           *)
(*   cache    getCache: a SELECT through query(), hence withDatabase       *)
(*            again; an error is caught and undefined returned             *)
(* Tasks run one operation at a time; the JavaScript between two awaits is *)
(* one step.  Durations of the backoff are left open.                      *)
(***************************************************************************)
EXTENDS Naturals

CONSTANTS Tasks,       \* concurrent callers of the adapter
          MaxRetries,  \* maxRetries of PostgresDatabaseAdapter
          FailureThreshold, ResetTimeout, HalfOpenMaxAttempts, MaxFailures

ASSUME RetryAssumption == MaxRetries \in Nat \ {0}

ASSUME BreakerAssumption == /\ FailureThreshold \in Nat \ {0}
                            /\ ResetTimeout \in Nat
                            /\ HalfOpenMaxAttempts \in Nat \ {0}
                            /\ MaxFailures \in Nat
                            /\ MaxFailures >= FailureThreshold

VARIABLES state, failureCount, sinceFailure, halfOpenSuccesses,
          serviceUp,   \* whether the database answers
          kind,        \* per task: the operation it is running
          pc,          \* per task: where in withDatabase it is
          attempt,     \* per task: attempt of the outer withRetry
          inner,       \* per task: attempt of the nested withRetry
          rows         \* per task: rows its operation has stored

breakerVars == <<state, failureCount, sinceFailure, halfOpenSuccesses>>
taskVars == <<kind, pc, attempt, inner, rows>>
vars == <<breakerVars, serviceUp, taskVars>>

Kinds == {"read", "log", "memory", "account", "cache"}
Nested == {"memory", "cache"}
Swallows == {"account", "cache"}
Writes == {"log", "memory", "account"}
Keyed == {"memory", "account"}

Settled == {"ok", "nothing", "error"}

\* Both frames of a nested operation are calls of one breaker.
Frames == Tasks \X {"outer", "inner"}
Awaiting(f) ==
    IF f[2] = "outer" THEN pc[f[1]] \notin Settled \cup {"idle"}
                      ELSE pc[f[1]] \in {"search", "searchWait"}

Breaker == INSTANCE CircuitBreaker
             WITH Calls <- Frames,
                  call <- [f \in Frames |-> IF Awaiting(f) THEN "running" ELSE "idle"]

Init == /\ kind = [t \in Tasks |-> "read"]
        /\ pc = [t \in Tasks |-> "idle"]
        /\ attempt = [t \in Tasks |-> 0]
        /\ inner = [t \in Tasks |-> 0]
        /\ rows = [t \in Tasks |-> 0]
        /\ Breaker!Init

Goto(t, p) == pc' = [pc EXCEPT ![t] = p]

-----------------------------------------------------------------------------
(* Entering withDatabase.                                                  *)

\* Where the first query of an operation runs.  The nested execute() is
\* reached before the first await, so it finds the state the outer one left.
Start(t, k) ==
    /\ Goto(t, IF k \in Nested THEN "search" ELSE "query")
    /\ inner' = [inner EXCEPT ![t] = IF k \in Nested THEN 1 ELSE 0]

Begin(t, k) == /\ pc[t] = "idle"
               /\ Breaker!Enter
               /\ kind' = [kind EXCEPT ![t] = k]
               /\ attempt' = [attempt EXCEPT ![t] = 1]
               /\ Start(t, k)
               /\ UNCHANGED <<serviceUp, rows>>

Refuse(t, k) == /\ pc[t] = "idle"
                /\ Breaker!Blocked
                /\ kind' = [kind EXCEPT ![t] = k]
                /\ Goto(t, "error")
                /\ UNCHANGED <<breakerVars, serviceUp, attempt, inner, rows>>

-----------------------------------------------------------------------------
(* The nested withDatabase of memory and cache.                            *)

SearchOk(t) == /\ pc[t] = "search"
               /\ serviceUp
               /\ Breaker!OnSuccess
               /\ Goto(t, IF kind[t] = "memory" THEN "query" ELSE "found")
               /\ UNCHANGED <<serviceUp, kind, attempt, inner, rows>>

\* The search throws: the database is away, or it is up and refuses the query
\* (an embedding of the wrong dimension is refused before it is even sent).
SearchFails(t) == /\ pc[t] = "search"
                  /\ IF inner[t] < MaxRetries
                     THEN Goto(t, "searchWait") /\ UNCHANGED breakerVars
                     ELSE Goto(t, "caught") /\ Breaker!OnFailure
                  /\ UNCHANGED <<serviceUp, kind, attempt, inner, rows>>

\* Mutant: the nested loop forgets which attempt it is at.
SearchAgainUncounted(t) == /\ pc[t] = "searchWait"
                           /\ Goto(t, "search")
                           /\ UNCHANGED <<breakerVars, serviceUp, kind, attempt,
                                          inner, rows>>

\* The retry loop does not ask the breaker again.
SearchAgain(t) == /\ pc[t] = "searchWait"
                  /\ inner' = [inner EXCEPT ![t] = @ + 1]
                  /\ Goto(t, "search")
                  /\ UNCHANGED <<breakerVars, serviceUp, kind, attempt, rows>>

-----------------------------------------------------------------------------
(* The outer withRetry.                                                    *)

\* Mutant: every attempt that fails is reported to the breaker.
AttemptFailsReported(t) ==
    /\ Breaker!OnFailure
    /\ Goto(t, IF attempt[t] < MaxRetries THEN "wait" ELSE "error")

\* The operation threw: back off, or give up and tell the breaker.
AttemptFails(t) ==
    IF attempt[t] < MaxRetries
    THEN Goto(t, "wait") /\ UNCHANGED breakerVars
    ELSE Goto(t, "error") /\ Breaker!OnFailure

\* Mutant: the catch branch returns what the try branch would have.
OperationFailsAsDone(t) == IF kind[t] \in Swallows
                           THEN Goto(t, "ok") /\ Breaker!OnSuccess
                           ELSE AttemptFails(t)

\* An operation that swallows its error has succeeded, for all the breaker knows.
OperationFails(t) == IF kind[t] \in Swallows
                     THEN Goto(t, "nothing") /\ Breaker!OnSuccess
                     ELSE AttemptFails(t)

\* The nested call threw into the operation.
Caught(t) == /\ pc[t] = "caught"
             /\ OperationFails(t)
             /\ UNCHANGED <<serviceUp, kind, attempt, inner, rows>>

Found(t) == /\ pc[t] = "found"
            /\ Breaker!OnSuccess
            /\ Goto(t, "ok")
            /\ UNCHANGED <<serviceUp, kind, attempt, inner, rows>>

\* Mutant: each attempt inserts under an id of its own.
NoKey(t) == FALSE

\* The primary key, or UNIQUE("userId", "roomId"), refuses a second row.
Duplicate(t) == kind[t] \in Keyed /\ rows[t] > 0

Store(t) == rows' = [rows EXCEPT ![t] = IF kind[t] \in Writes THEN @ + 1 ELSE @]

QueryOk(t) == /\ pc[t] = "query"
              /\ serviceUp
              /\ ~Duplicate(t)
              /\ Store(t)
              /\ Breaker!OnSuccess
              /\ Goto(t, "ok")
              /\ UNCHANGED <<serviceUp, kind, attempt, inner>>

\* The query throws: the database is away, or it meets the operation's own row,
\* or it is up and refuses (the id is another caller's row, a foreign key is missing).
QueryFails(t) == /\ pc[t] = "query"
                 /\ OperationFails(t)
                 /\ UNCHANGED <<serviceUp, kind, attempt, inner, rows>>

\* The database commits and goes away before its answer arrives.
AckLost(t) == /\ pc[t] = "query"
              /\ serviceUp
              /\ ~Duplicate(t)
              /\ serviceUp' = FALSE
              /\ Store(t)
              /\ OperationFails(t)
              /\ UNCHANGED <<kind, attempt, inner>>

\* After the backoff the operation runs again from its beginning; only a
\* nested call meets the breaker, and its refusal is one more failed attempt.
Again(t) == /\ pc[t] = "wait"
            /\ attempt' = [attempt EXCEPT ![t] = @ + 1]
            /\ \/ /\ kind[t] \notin Nested
                  /\ Start(t, kind[t])
                  /\ UNCHANGED breakerVars
               \/ /\ kind[t] \in Nested
                  /\ Breaker!Enter
                  /\ Start(t, kind[t])
               \/ /\ kind[t] \in Nested
                  /\ Breaker!Blocked
                  /\ Goto(t, "caught")
                  /\ UNCHANGED <<breakerVars, inner>>
            /\ UNCHANGED <<serviceUp, kind, rows>>

\* The caller takes the result; the slot is free for another operation.
Return(t) == /\ pc[t] \in Settled
             /\ Goto(t, "idle")
             /\ kind' = [kind EXCEPT ![t] = "read"]
             /\ attempt' = [attempt EXCEPT ![t] = 0]
             /\ inner' = [inner EXCEPT ![t] = 0]
             /\ rows' = [rows EXCEPT ![t] = 0]
             /\ UNCHANGED <<breakerVars, serviceUp>>

PassTime == Breaker!Tick /\ UNCHANGED <<serviceUp, taskVars>>

Outage == serviceUp' = ~serviceUp /\ UNCHANGED <<breakerVars, taskVars>>

Run(t) == \/ SearchOk(t) \/ SearchFails(t) \/ SearchAgain(t)
          \/ Caught(t) \/ Found(t) \/ Again(t)
          \/ QueryOk(t) \/ QueryFails(t) \/ AckLost(t)

Next == \/ PassTime
        \/ Outage
        \/ \E t \in Tasks : \/ Run(t)
                            \/ Return(t)
                            \/ \E k \in Kinds : Begin(t, k) \/ Refuse(t, k)

Spec == Init /\ [][Next]_vars

\* Timers fire and queries settle; callers keep coming back.
Fairness ==
    /\ WF_vars(PassTime)
    /\ \A t \in Tasks : /\ WF_vars(Run(t))
                        /\ WF_vars(Return(t))
                        /\ WF_vars(\E k \in Kinds : Begin(t, k))

FairSpec == Spec /\ Fairness

-----------------------------------------------------------------------------
(* Properties.                                                             *)

\* Types; neither retry loop runs past maxRetries.
TypeOK == /\ state \in {"CLOSED", "OPEN", "HALF_OPEN"}
          /\ failureCount \in 0..MaxFailures
          /\ sinceFailure \in 0..(ResetTimeout + 1)
          /\ halfOpenSuccesses \in 0..HalfOpenMaxAttempts
          /\ serviceUp \in BOOLEAN
          /\ kind \in [Tasks -> Kinds]
          /\ pc \in [Tasks -> Settled \cup {"idle", "search", "searchWait", "caught",
                                           "found", "query", "wait"}]
          /\ attempt \in [Tasks -> 0..MaxRetries]
          /\ inner \in [Tasks -> 0..MaxRetries]
          /\ rows \in [Tasks -> 0..MaxRetries]

\* A write that withDatabase reports as done has been stored, whatever outages,
\* lost answers, retries and refusals of the nested call came before.
AckedMeansStored ==
    \A t \in Tasks : pc[t] = "ok" /\ kind[t] \in Writes => rows[t] >= 1

\* withRetry may run an INSERT again after its answer was lost; an operation whose
\* id is fixed before the retry (or that is never retried) stores one row only.
KeyedAtMostOnce == \A t \in Tasks : kind[t] \in Keyed => rows[t] <= 1

\* The breaker's own invariant survives calls that are nested in each other and
\* refusals that are retried by the loop around them.
TrippedIffThreshold == Breaker!TrippedIffThreshold

\* Guard and breaker together keep the contract documented for the breaker: whatever runs
\* nested, is retried, is swallowed or is refused in between, exactly one outcome of each
\* call that was let through is reported, and nothing else moves the breaker.
ImplementsContract == Breaker!ImplementsContract

\* A query refused for what it asks, and not because the database is away or because an
\* earlier attempt of the same operation was stored: the breaker counts it like an outage.
Rejected(t) == serviceUp /\ (SearchFails(t) \/ (QueryFails(t) /\ ~Duplicate(t)))

\* No operation is retried for ever: whatever the breaker does meanwhile, the promise
\* withDatabase returned settles.  And once the database stays up and callers stop asking
\* for what it refuses, nested and swallowing operations too bring the breaker back to
\* CLOSED for good, although failed retries keep reporting late.  Refusals must stop:
\* failureCount is not reset while CLOSED, so that any FailureThreshold of them, however
\* far apart, open the breaker of a database that never was away.
Settles ==
    /\ \A t \in Tasks : pc[t] # "idle" ~> pc[t] \in Settled
    /\ <>[]serviceUp /\ <>[][\A t \in Tasks : ~Rejected(t)]_vars => <>[](state = "CLOSED")
==============================================================================
