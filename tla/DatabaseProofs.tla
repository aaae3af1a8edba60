---------------------------- MODULE DatabaseProofs ----------------------------
(***************************************************************************)
(* Proofs about the guard of the database: CircuitBreaker, for every       *)
(* threshold, timeout, quota and number of concurrent callers, with its    *)
(* refinement of BreakerContract, and DatabaseGuard, for any number of     *)
(* concurrent callers and attempts and any configuration of the breaker,   *)
(* with its own refinement of the same contract.                           *)
(***************************************************************************)
EXTENDS DatabaseGuard, TLAPS

CONSTANT Calls
VARIABLE call

CB == INSTANCE CircuitBreaker

-----------------------------------------------------------------------------
(* The breaker *)

\* Neither property is inductive alone: the quota bound of TypeOK needs
\* HalfOpenBelowQuota, and re-opening on a failure needs TrippedIffThreshold.
CallsInv == CB!TypeOK /\ CB!TrippedIffThreshold /\ CB!HalfOpenBelowQuota

LEMMA InitCalls == CB!Init => CallsInv
  BY BreakerAssumption DEF CB!Init, CallsInv, CB!TypeOK, CB!TrippedIffThreshold,
     CB!HalfOpenBelowQuota, CB!Long

\* Steps that leave the calls alone, and those that do not, all keep it.
LEMMA StepCalls == CallsInv /\ [CB!Next]_(CB!vars) => CallsInv'
<1> SUFFICES ASSUME CallsInv, [CB!Next]_(CB!vars) PROVE CallsInv'
  OBVIOUS
<1> USE BreakerAssumption DEF CallsInv, CB!TypeOK, CB!TrippedIffThreshold,
        CB!HalfOpenBelowQuota, CB!Long
<1>1. CASE CB!PassTime
  BY <1>1 DEF CB!PassTime, CB!Tick
<1>2. CASE CB!Outage
  BY <1>2 DEF CB!Outage, CB!breakerVars
<1>3. ASSUME NEW c \in Calls, CB!Admit(c) PROVE CallsInv'
  <2>1. call' \in [Calls -> {"idle", "running"}]
    BY <1>3 DEF CB!Admit
  <2>2. CASE state = "OPEN"
    BY <1>3, <2>1, <2>2 DEF CB!Admit, CB!Enter
  <2>3. CASE state # "OPEN"
    BY <1>3, <2>1, <2>3 DEF CB!Admit, CB!Enter
  <2> QED BY <2>2, <2>3
<1>4. ASSUME NEW c \in Calls, CB!Reject(c) PROVE CallsInv'
  BY <1>4 DEF CB!Reject, CB!vars, CB!breakerVars
<1>5. ASSUME NEW c \in Calls, CB!Succeed(c) PROVE CallsInv'
  <2>1. call' \in [Calls -> {"idle", "running"}] /\ serviceUp' \in BOOLEAN
    BY <1>5 DEF CB!Succeed, CB!Settle
  <2>2. CASE state = "HALF_OPEN" /\ halfOpenSuccesses + 1 >= HalfOpenMaxAttempts
    BY <1>5, <2>1, <2>2 DEF CB!Succeed, CB!OnSuccess, CB!Reset
  <2>3. CASE state = "HALF_OPEN" /\ halfOpenSuccesses + 1 < HalfOpenMaxAttempts
    BY <1>5, <2>1, <2>3 DEF CB!Succeed, CB!OnSuccess
  <2>4. CASE state # "HALF_OPEN"
    BY <1>5, <2>1, <2>4 DEF CB!Succeed, CB!OnSuccess, CB!breakerVars
  <2> QED BY <2>2, <2>3, <2>4
<1>6. ASSUME NEW c \in Calls, CB!Fail(c) PROVE CallsInv'
  <2>1. call' \in [Calls -> {"idle", "running"}] /\ serviceUp' \in BOOLEAN
    BY <1>6 DEF CB!Fail, CB!Settle
  <2> QED BY <1>6, <2>1 DEF CB!Fail, CB!OnFailure
<1>7. CASE UNCHANGED CB!vars
  BY <1>7 DEF CB!vars, CB!breakerVars
<1> QED
  BY <1>1, <1>2, <1>3, <1>4, <1>5, <1>6, <1>7 DEF CB!Next

\* The breaker's fields always have their types, and halfOpenSuccesses never
\* passes the quota it is compared with.
THEOREM BreakerTypeCorrect == CB!Spec => []CB!TypeOK
  BY InitCalls, StepCalls, PTL DEF CB!Spec, CallsInv

\* CircuitBreaker.ts is tripped exactly while failureCount is at its threshold.
THEOREM BreakerTrippedExactly == CB!Spec => []CB!TrippedIffThreshold
  BY InitCalls, StepCalls, PTL DEF CB!Spec, CallsInv

\* A half-open breaker can always still be closed by one more success or more.
THEOREM QuotaReachable == CB!Spec => []CB!HalfOpenBelowQuota
  BY InitCalls, StepCalls, PTL DEF CB!Spec, CallsInv

\* A single failure while HALF_OPEN re-opens the breaker (handleFailure compares
\* only the count, which the invariant keeps at the threshold).
THEOREM ReopensOnFailure == CB!Spec => CB!FailureReopens
<1> DEFINE Reopens == \A c \in Calls : state = "HALF_OPEN" /\ CB!Fail(c)
                                        => state' = "OPEN" /\ sinceFailure' = 0
<1>1. CallsInv => Reopens
  BY BreakerAssumption
     DEF CallsInv, CB!TypeOK, CB!TrippedIffThreshold, CB!Fail, CB!OnFailure
<1> QED BY <1>1, InitCalls, StepCalls, PTL DEF CB!Spec, CB!FailureReopens, Reopens

-----------------------------------------------------------------------------

\* The initial fields are the contract's initial state.
LEMMA ContractInit == CB!Init => CB!Contract!Init
  BY BreakerAssumption DEF CB!Init, CB!Contract!Init, CB!Long

\* One step of execute() or handleFailure() is one step of the contract, or
\* none.
LEMMA ContractStep == CallsInv /\ [CB!Next]_(CB!vars) => [CB!Contract!Next]_(CB!Contract!vars)
<1> SUFFICES ASSUME CallsInv, [CB!Next]_(CB!vars)
             PROVE  CB!Contract!Next \/ UNCHANGED CB!Contract!vars
  OBVIOUS
<1> DEFINE Running == {c \in Calls : call[c] = "running"}
           Seen == IF state = "HALF_OPEN" THEN halfOpenSuccesses ELSE 0
<1> USE BreakerAssumption DEF CallsInv, CB!TypeOK, CB!TrippedIffThreshold,
        CB!HalfOpenBelowQuota, CB!Long
<1>1. CASE CB!PassTime
  <2>1. CB!Contract!Elapse
    BY <1>1 DEF CB!PassTime, CB!Tick, CB!Contract!Elapse
  <2> QED BY <2>1 DEF CB!Contract!Next
<1>2. CASE CB!Outage
  BY <1>2 DEF CB!Outage, CB!breakerVars, CB!Contract!vars
<1>3. ASSUME NEW c \in Calls, CB!Admit(c) PROVE CB!Contract!Next
  <2>1. c \notin Running /\ Running' = Running \cup {c}
    BY <1>3 DEF CB!Admit
  <2>2. CASE state = "OPEN"
    <3>1. CB!Contract!Probe({c})
      BY <1>3, <2>1, <2>2
         DEF CB!Admit, CB!Enter, CB!Blocked, CB!Contract!Probe, CB!Contract!Enter
    <3> QED BY <3>1 DEF CB!Contract!Next
  <2>3. CASE state # "OPEN"
    <3>1. CB!Contract!Pass({c})
      BY <1>3, <2>1, <2>3 DEF CB!Admit, CB!Enter, CB!Contract!Pass, CB!Contract!Enter
    <3> QED BY <3>1 DEF CB!Contract!Next
  <2> QED BY <2>2, <2>3
<1>4. ASSUME NEW c \in Calls, CB!Reject(c) PROVE UNCHANGED CB!Contract!vars
  BY <1>4 DEF CB!Reject, CB!vars, CB!breakerVars, CB!Contract!vars
<1>5. ASSUME NEW c \in Calls, CB!Settle(c)
      PROVE  c \in Running /\ Running' = Running \ {c}
  BY <1>5 DEF CB!Settle
<1>6. ASSUME NEW c \in Calls, CB!Succeed(c) PROVE CB!Contract!Next
  <2>1. c \in Running /\ Running' = Running \ {c}
    BY <1>5, <1>6 DEF CB!Succeed
  <2>2. CB!Contract!Succeed(c)
    <3>1. CASE state = "HALF_OPEN" /\ halfOpenSuccesses + 1 >= HalfOpenMaxAttempts
      BY <1>6, <2>1, <3>1 DEF CB!Succeed, CB!OnSuccess, CB!Reset, CB!Contract!Succeed
    <3>2. CASE state = "HALF_OPEN" /\ halfOpenSuccesses + 1 < HalfOpenMaxAttempts
      BY <1>6, <2>1, <3>2 DEF CB!Succeed, CB!OnSuccess, CB!Contract!Succeed
    <3>3. CASE state # "HALF_OPEN"
      BY <1>6, <2>1, <3>3 DEF CB!Succeed, CB!OnSuccess, CB!breakerVars, CB!Contract!Succeed
    <3> QED BY <3>1, <3>2, <3>3
  <2> QED BY <2>2 DEF CB!Contract!Next
<1>7. ASSUME NEW c \in Calls, CB!Fail(c) PROVE CB!Contract!Next
  <2>1. c \in Running /\ Running' = Running \ {c}
    BY <1>5, <1>7 DEF CB!Fail
  <2>2. CB!Contract!Fail(c)
    BY <1>7, <2>1 DEF CB!Fail, CB!OnFailure, CB!Contract!Fail
  <2> QED BY <2>2 DEF CB!Contract!Next
<1>8. CASE UNCHANGED CB!vars
  BY <1>8 DEF CB!vars, CB!breakerVars, CB!Contract!vars
<1> QED
  BY <1>1, <1>2, <1>3, <1>4, <1>6, <1>7, <1>8 DEF CB!Next

\* CircuitBreaker.ts implements the breaker its documentation describes.
THEOREM Refinement == CB!Spec => CB!ImplementsContract
  BY InitCalls, StepCalls, ContractInit, ContractStep, PTL
     DEF CB!Spec, CB!ImplementsContract, CB!Contract!Spec

-----------------------------------------------------------------------------
(* The breaker around the retry loops *)

Pcs == Settled \cup {"idle", "search", "searchWait", "caught", "found", "query", "wait"}

\* An attempt whose own INSERT is still to come.
Attempting == {"search", "searchWait", "caught", "found", "query"}

BreakerInv == /\ state \in {"CLOSED", "OPEN", "HALF_OPEN"}
              /\ failureCount \in 0..MaxFailures
              /\ sinceFailure \in 0..(ResetTimeout + 1)
              /\ halfOpenSuccesses \in 0..HalfOpenMaxAttempts
              /\ Breaker!TrippedIffThreshold
              /\ Breaker!HalfOpenBelowQuota

TaskTypes == /\ kind \in [Tasks -> Kinds]
             /\ pc \in [Tasks -> Pcs]
             /\ attempt \in [Tasks -> 0..MaxRetries]
             /\ inner \in [Tasks -> 0..MaxRetries]
             /\ rows \in [Tasks -> 0..MaxRetries]

\* Every attempt stores one row at most, so that the rows of an operation are
\* bounded by its attempts; only nested operations search, and only a cache
\* lookup ends after its search.
TaskInv(t) ==
    /\ pc[t] = "idle" => rows[t] = 0
    /\ pc[t] \in {"search", "searchWait"} => kind[t] \in Nested
    /\ pc[t] = "searchWait" => inner[t] < MaxRetries
    /\ pc[t] = "found" => kind[t] = "cache"
    /\ pc[t] \in Attempting => rows[t] < attempt[t]
    /\ pc[t] = "wait" => attempt[t] < MaxRetries
    /\ rows[t] <= attempt[t]
    /\ kind[t] \in Keyed => rows[t] <= 1
    /\ pc[t] = "ok" /\ kind[t] \in Writes => rows[t] >= 1

IInv == /\ BreakerInv
        /\ serviceUp \in BOOLEAN
        /\ TaskTypes
        /\ \A t \in Tasks : TaskInv(t)

\* Only this task moves.
Only(t) == \A u \in Tasks \ {t} : /\ kind'[u] = kind[u] /\ pc'[u] = pc[u]
                                  /\ attempt'[u] = attempt[u] /\ rows'[u] = rows[u]
                                  /\ inner'[u] = inner[u]

-----------------------------------------------------------------------------
(* The breaker.                                                            *)

LEMMA EnterKeeps == ASSUME BreakerInv, Breaker!Enter PROVE BreakerInv'
<1> USE BreakerAssumption
        DEF BreakerInv, Breaker!TrippedIffThreshold, Breaker!HalfOpenBelowQuota
<1>1. CASE state = "OPEN"
  BY <1>1 DEF Breaker!Enter
<1>2. CASE state # "OPEN"
  BY <1>2 DEF Breaker!Enter
<1> QED
  BY <1>1, <1>2

LEMMA SuccessKeeps == ASSUME BreakerInv, Breaker!OnSuccess PROVE BreakerInv'
<1> USE BreakerAssumption
        DEF BreakerInv, Breaker!TrippedIffThreshold, Breaker!HalfOpenBelowQuota
<1>1. CASE state = "HALF_OPEN" /\ halfOpenSuccesses + 1 >= HalfOpenMaxAttempts
  BY <1>1 DEF Breaker!OnSuccess, Breaker!Reset, Breaker!Long
<1>2. CASE state = "HALF_OPEN" /\ halfOpenSuccesses + 1 < HalfOpenMaxAttempts
  BY <1>2 DEF Breaker!OnSuccess
<1>3. CASE state # "HALF_OPEN"
  BY <1>3 DEF Breaker!OnSuccess, Breaker!breakerVars
<1> QED
  BY <1>1, <1>2, <1>3

LEMMA FailureKeeps == ASSUME BreakerInv, Breaker!OnFailure PROVE BreakerInv'
  BY BreakerAssumption
     DEF BreakerInv, Breaker!TrippedIffThreshold, Breaker!HalfOpenBelowQuota,
         Breaker!OnFailure

LEMMA TickKeeps == ASSUME BreakerInv, Breaker!Tick PROVE BreakerInv'
  BY BreakerAssumption
     DEF BreakerInv, Breaker!TrippedIffThreshold, Breaker!HalfOpenBelowQuota,
         Breaker!Tick, Breaker!Long

LEMMA NothingKeeps == ASSUME BreakerInv, UNCHANGED breakerVars PROVE BreakerInv'
  BY DEF BreakerInv, Breaker!TrippedIffThreshold, Breaker!HalfOpenBelowQuota, breakerVars

\* A failed attempt, swallowed or not.
LEMMA FailsKeeps == ASSUME BreakerInv, NEW t \in Tasks, OperationFails(t)
                    PROVE  BreakerInv'
  BY SuccessKeeps, FailureKeeps, NothingKeeps DEF OperationFails, AttemptFails

-----------------------------------------------------------------------------
(* The tasks.                                                              *)

\* What a step of one task does is all there is to show.
LEMMA OneTask == ASSUME IInv, NEW t \in Tasks, Only(t),
                        BreakerInv', serviceUp' \in BOOLEAN, TaskTypes', TaskInv(t)'
                 PROVE  IInv'
<1>1. ASSUME NEW u \in Tasks, u # t PROVE TaskInv(u)'
  BY <1>1 DEF IInv, Only, TaskInv
<1> QED
  BY <1>1 DEF IInv

\* An operation that fails has not stored more rows than it has made attempts.
LEMMA AfterFailure ==
    ASSUME TaskTypes, NEW t \in Tasks, OperationFails(t),
           attempt' = attempt, kind' = kind, attempt[t] > 0,
           rows' \in [Tasks -> 0..MaxRetries],
           rows'[t] <= attempt[t], kind[t] \in Keyed => rows'[t] <= 1
    PROVE  /\ pc' \in [Tasks -> Pcs]
           /\ \A u \in Tasks \ {t} : pc'[u] = pc[u]
           /\ TaskInv(t)'
<1> USE RetryAssumption DEF TaskTypes, Goto, Pcs, Settled
<1>1. CASE kind[t] \in Swallows
  <2>1. pc' = [pc EXCEPT ![t] = "nothing"]
    BY <1>1 DEF OperationFails
  <2> QED
    BY <2>1 DEF TaskInv, Attempting
<1>2. CASE kind[t] \notin Swallows /\ attempt[t] < MaxRetries
  <2>1. pc' = [pc EXCEPT ![t] = "wait"]
    BY <1>2 DEF OperationFails, AttemptFails
  <2> QED
    BY <1>2, <2>1 DEF TaskInv, Attempting
<1>3. CASE kind[t] \notin Swallows /\ ~(attempt[t] < MaxRetries)
  <2>1. pc' = [pc EXCEPT ![t] = "error"]
    BY <1>3 DEF OperationFails, AttemptFails
  <2> QED
    BY <2>1 DEF TaskInv, Attempting
<1> QED
  BY <1>1, <1>2, <1>3

\* A query that runs stores one row of a write, and the first of a keyed one.
LEMMA AfterStore ==
    ASSUME IInv, NEW t \in Tasks, pc[t] = "query", ~Duplicate(t), Store(t)
    PROVE  /\ rows' \in [Tasks -> 0..MaxRetries]
           /\ \A u \in Tasks \ {t} : rows'[u] = rows[u]
           /\ attempt[t] > 0 /\ rows'[t] <= attempt[t]
           /\ kind[t] \in Keyed => rows'[t] <= 1
           /\ kind[t] \in Writes => rows'[t] >= 1
<1>1. /\ rows[t] < attempt[t] /\ rows[t] \in Nat /\ attempt[t] \in 0..MaxRetries
      /\ kind[t] \in Keyed => rows[t] = 0
  BY DEF IInv, TaskTypes, TaskInv, Attempting, Duplicate
<1> QED
  BY <1>1, RetryAssumption DEF IInv, TaskTypes, Store

LEMMA InitEstablishes == Init => IInv
  BY RetryAssumption, BreakerAssumption
     DEF Init, Breaker!Init, Breaker!Long, IInv, BreakerInv, TaskTypes, TaskInv,
         Breaker!TrippedIffThreshold, Breaker!HalfOpenBelowQuota, Kinds, Pcs,
         Attempting, Keyed, Writes

LEMMA BeginPreserves ==
    ASSUME IInv, NEW t \in Tasks, NEW k \in Kinds, Begin(t, k) \/ Refuse(t, k)
    PROVE  IInv'
<1> USE RetryAssumption DEF Goto
<1>1. CASE Begin(t, k)
  <2>1. BreakerInv'
    BY <1>1, EnterKeeps DEF IInv, Begin
  <2>2. TaskTypes' /\ serviceUp' \in BOOLEAN /\ Only(t)
    BY <1>1 DEF IInv, Begin, Start, TaskTypes, Pcs, Only
  <2>3. TaskInv(t)'
    BY <1>1 DEF IInv, Begin, Start, TaskTypes, TaskInv, Attempting
  <2> QED
    BY <2>1, <2>2, <2>3, OneTask
<1>2. CASE Refuse(t, k)
  <2>1. BreakerInv'
    BY <1>2, NothingKeeps DEF IInv, Refuse
  <2>2. TaskTypes' /\ serviceUp' \in BOOLEAN /\ Only(t)
    BY <1>2 DEF IInv, Refuse, TaskTypes, Pcs, Settled, Only
  <2>3. TaskInv(t)'
    BY <1>2 DEF IInv, Refuse, TaskTypes, TaskInv, Attempting
  <2> QED
    BY <2>1, <2>2, <2>3, OneTask
<1> QED
  BY <1>1, <1>2

\* The nested search of memory and cache.
LEMMA SearchPreserves ==
    ASSUME IInv, NEW t \in Tasks, SearchOk(t) \/ SearchFails(t) \/ SearchAgain(t)
    PROVE  IInv'
<1> USE RetryAssumption DEF Goto
<1>1. CASE SearchOk(t)
  <2>1. BreakerInv'
    BY <1>1, SuccessKeeps DEF IInv, SearchOk
  <2>2. TaskTypes' /\ serviceUp' \in BOOLEAN /\ Only(t)
    BY <1>1 DEF IInv, SearchOk, TaskTypes, Pcs, Only
  <2>3. TaskInv(t)'
    BY <1>1 DEF IInv, SearchOk, TaskTypes, TaskInv, Attempting, Nested
  <2> QED
    BY <2>1, <2>2, <2>3, OneTask
<1>2. CASE SearchFails(t)
  <2>1. BreakerInv'
    BY <1>2, FailureKeeps, NothingKeeps DEF IInv, SearchFails
  <2>2. TaskTypes' /\ serviceUp' \in BOOLEAN /\ Only(t)
    BY <1>2 DEF IInv, SearchFails, TaskTypes, Pcs, Only
  <2>3. TaskInv(t)'
    BY <1>2 DEF IInv, SearchFails, TaskTypes, TaskInv, Attempting, Pcs
  <2> QED
    BY <2>1, <2>2, <2>3, OneTask
<1>3. CASE SearchAgain(t)
  <2>1. BreakerInv'
    BY <1>3, NothingKeeps DEF IInv, SearchAgain
  <2>2. TaskTypes' /\ serviceUp' \in BOOLEAN /\ Only(t)
    BY <1>3 DEF IInv, SearchAgain, TaskTypes, TaskInv, Pcs, Only
  <2>3. TaskInv(t)'
    BY <1>3 DEF IInv, SearchAgain, TaskTypes, TaskInv, Attempting
  <2> QED
    BY <2>1, <2>2, <2>3, OneTask
<1> QED
  BY <1>1, <1>2, <1>3

\* The nested call threw, or the lookup is done.
LEMMA NestedPreserves == ASSUME IInv, NEW t \in Tasks, Caught(t) \/ Found(t)
                         PROVE  IInv'
<1>1. CASE Caught(t)
  <2>1. BreakerInv'
    BY <1>1, FailsKeeps DEF IInv, Caught
  <2>2. /\ attempt[t] > 0 /\ rows'[t] <= attempt[t]
        /\ kind[t] \in Keyed => rows'[t] <= 1
    BY <1>1, RetryAssumption DEF IInv, TaskTypes, TaskInv, Attempting, Caught
  <2>3. /\ pc' \in [Tasks -> Pcs]
        /\ \A u \in Tasks \ {t} : pc'[u] = pc[u]
        /\ TaskInv(t)'
    BY <1>1, <2>2, AfterFailure DEF IInv, TaskTypes, Caught
  <2> QED
    BY <1>1, <2>1, <2>3, OneTask DEF IInv, TaskTypes, Only, Caught
<1>2. CASE Found(t)
  <2>1. BreakerInv'
    BY <1>2, SuccessKeeps DEF IInv, Found
  <2>2. TaskTypes' /\ serviceUp' \in BOOLEAN /\ Only(t)
    BY <1>2 DEF IInv, Found, TaskTypes, Goto, Pcs, Settled, Only
  <2>3. TaskInv(t)'
    BY <1>2 DEF IInv, Found, TaskTypes, Goto, TaskInv, Attempting, Writes
  <2> QED
    BY <2>1, <2>2, <2>3, OneTask
<1> QED
  BY <1>1, <1>2

\* The query itself, whether or not its answer arrives.
LEMMA QueryPreserves ==
    ASSUME IInv, NEW t \in Tasks, QueryOk(t) \/ QueryFails(t) \/ AckLost(t)
    PROVE  IInv'
<1>1. CASE QueryOk(t)
  <2>1. BreakerInv'
    BY <1>1, SuccessKeeps DEF IInv, QueryOk
  <2>2. /\ rows' \in [Tasks -> 0..MaxRetries]
        /\ \A u \in Tasks \ {t} : rows'[u] = rows[u]
        /\ attempt[t] > 0 /\ rows'[t] <= attempt[t]
        /\ kind[t] \in Keyed => rows'[t] <= 1
        /\ kind[t] \in Writes => rows'[t] >= 1
    BY <1>1, AfterStore DEF QueryOk
  <2>3. TaskTypes' /\ serviceUp' \in BOOLEAN /\ Only(t)
    BY <1>1, <2>2 DEF IInv, QueryOk, TaskTypes, Goto, Pcs, Settled, Only
  <2>4. TaskInv(t)'
    BY <1>1, <2>2 DEF IInv, QueryOk, TaskTypes, Goto, TaskInv, Attempting
  <2> QED
    BY <2>1, <2>3, <2>4, OneTask
<1>2. CASE QueryFails(t)
  <2>1. BreakerInv'
    BY <1>2, FailsKeeps DEF IInv, QueryFails
  <2>2. /\ attempt[t] > 0 /\ rows'[t] <= attempt[t]
        /\ kind[t] \in Keyed => rows'[t] <= 1
    BY <1>2, RetryAssumption DEF IInv, TaskTypes, TaskInv, Attempting, QueryFails
  <2>3. /\ pc' \in [Tasks -> Pcs]
        /\ \A u \in Tasks \ {t} : pc'[u] = pc[u]
        /\ TaskInv(t)'
    BY <1>2, <2>2, AfterFailure DEF IInv, TaskTypes, QueryFails
  <2> QED
    BY <1>2, <2>1, <2>3, OneTask DEF IInv, TaskTypes, Only, QueryFails
<1>3. CASE AckLost(t)
  <2>1. BreakerInv'
    BY <1>3, FailsKeeps DEF IInv, AckLost
  <2>2. /\ rows' \in [Tasks -> 0..MaxRetries]
        /\ \A u \in Tasks \ {t} : rows'[u] = rows[u]
        /\ attempt[t] > 0 /\ rows'[t] <= attempt[t]
        /\ kind[t] \in Keyed => rows'[t] <= 1
    BY <1>3, AfterStore DEF AckLost
  <2>3. /\ pc' \in [Tasks -> Pcs]
        /\ \A u \in Tasks \ {t} : pc'[u] = pc[u]
        /\ TaskInv(t)'
    BY <1>3, <2>2, AfterFailure DEF IInv, AckLost
  <2> QED
    BY <1>3, <2>1, <2>2, <2>3, OneTask DEF IInv, TaskTypes, Only, AckLost
<1> QED
  BY <1>1, <1>2, <1>3

\* The next attempt; a nested call may be refused at the breaker's door.
LEMMA AgainPreserves == ASSUME IInv, NEW t \in Tasks, Again(t)
                        PROVE  IInv'
<1>1. BreakerInv'
  BY EnterKeeps, NothingKeeps DEF IInv, Again
<1>2. /\ attempt[t] < MaxRetries /\ rows[t] <= attempt[t]
      /\ kind[t] \in Keyed => rows[t] <= 1
  BY DEF IInv, TaskInv, Again
<1>3. /\ kind' = kind /\ rows' = rows /\ serviceUp' = serviceUp
      /\ attempt' = [attempt EXCEPT ![t] = @ + 1]
  BY DEF Again
<1>4. CASE Start(t, kind[t])
  BY <1>1, <1>2, <1>3, <1>4, OneTask, RetryAssumption
     DEF IInv, TaskTypes, TaskInv, Only, Start, Goto, Pcs, Attempting
<1>5. CASE Goto(t, "caught") /\ UNCHANGED inner
  BY <1>1, <1>2, <1>3, <1>5, OneTask, RetryAssumption
     DEF IInv, TaskTypes, TaskInv, Only, Goto, Pcs, Attempting
<1> QED
  BY <1>4, <1>5 DEF Again

LEMMA ReturnPreserves == ASSUME IInv, NEW t \in Tasks, Return(t)
                         PROVE  IInv'
<1>1. BreakerInv'
  BY NothingKeeps DEF IInv, Return
<1>2. TaskTypes' /\ serviceUp' \in BOOLEAN /\ Only(t)
  BY RetryAssumption DEF IInv, Return, TaskTypes, Goto, Pcs, Kinds, Only
<1>3. TaskInv(t)'
  BY DEF IInv, Return, TaskTypes, Goto, TaskInv, Attempting
<1> QED
  BY <1>1, <1>2, <1>3, OneTask

LEMMA StepPreserves == IInv /\ [Next]_vars => IInv'
<1> SUFFICES ASSUME IInv, [Next]_vars PROVE IInv'
  OBVIOUS
<1>1. CASE UNCHANGED taskVars /\ serviceUp' \in BOOLEAN /\ BreakerInv'
  BY <1>1 DEF IInv, taskVars, TaskTypes, TaskInv
<1>2. CASE PassTime
  BY <1>1, <1>2, TickKeeps DEF PassTime, IInv
<1>3. CASE Outage
  BY <1>1, <1>3, NothingKeeps DEF Outage, IInv
<1>4. ASSUME NEW t \in Tasks, Run(t) PROVE IInv'
  BY <1>4, SearchPreserves, NestedPreserves, QueryPreserves, AgainPreserves DEF Run
<1>5. CASE UNCHANGED vars
  BY <1>1, <1>5, NothingKeeps DEF vars, IInv
<1> QED
  BY <1>2, <1>3, <1>4, <1>5, BeginPreserves, ReturnPreserves DEF Next

LEMMA AlwaysIInv == Spec => []IInv
  BY InitEstablishes, StepPreserves, PTL DEF Spec

-----------------------------------------------------------------------------

\* Types: neither of the nested retry loops runs past maxRetries.
THEOREM TypeCorrect == Spec => []TypeOK
<1>1. IInv => TypeOK
  BY DEF IInv, BreakerInv, TaskTypes, TypeOK, Pcs
<1> QED
  BY AlwaysIInv, <1>1, PTL

\* A write that withDatabase reports as done has been stored.
THEOREM WritesAreStored == Spec => []AckedMeansStored
<1>1. IInv => AckedMeansStored
  BY DEF IInv, TaskInv, AckedMeansStored
<1> QED
  BY AlwaysIInv, <1>1, PTL

\* withRetry never stores a second row of an operation with a key.
THEOREM KeysStoredOnce == Spec => []KeyedAtMostOnce
<1>1. IInv => KeyedAtMostOnce
  BY DEF IInv, TaskInv, KeyedAtMostOnce
<1> QED
  BY AlwaysIInv, <1>1, PTL

\* Nested calls and retried refusals leave the breaker's invariant intact.
THEOREM TrippedExactly == Spec => []TrippedIffThreshold
<1>1. IInv => TrippedIffThreshold
  BY DEF IInv, BreakerInv, TrippedIffThreshold
<1> QED
  BY AlwaysIInv, <1>1, PTL

-----------------------------------------------------------------------------
(* The guard keeps the breaker's contract.                                 *)

\* The frames the contract sees in flight.
InFlight == {f \in Frames : Awaiting(f)}

Outer(t) == <<t, "outer">>
Inner(t) == <<t, "inner">>

\* Who of a task is in flight depends on where the task is, and on nothing else.
LEMMA InFlightAfter ==
    ASSUME TaskTypes, NEW t \in Tasks, NEW p \in Pcs, Goto(t, p), NEW f \in Frames
    PROVE  f \in InFlight' <=>
             IF f[1] # t THEN f \in InFlight
             ELSE IF f[2] = "outer" THEN p \notin Settled \cup {"idle"}
                                    ELSE p \in {"search", "searchWait"}
<1>1. f[1] \in Tasks /\ pc'[f[1]] = IF f[1] = t THEN p ELSE pc[f[1]]
  BY DEF Frames, Goto, TaskTypes
<1> QED
  BY <1>1 DEF InFlight, Awaiting

\* A step in which nobody is let through or settles.
LEMMA SameFrames ==
    ASSUME TaskTypes, NEW t \in Tasks, NEW p \in Pcs, Goto(t, p),
           p \in Settled \cup {"idle"} <=> pc[t] \in Settled \cup {"idle"},
           p \in {"search", "searchWait"} <=> pc[t] \in {"search", "searchWait"}
    PROVE  InFlight' = InFlight
<1>1. ASSUME NEW f \in Frames PROVE f \in InFlight' <=> f \in InFlight
  BY InFlightAfter DEF InFlight, Awaiting
<1> QED
  BY <1>1 DEF InFlight

\* The operation settles for its caller: its outer frame is done.
LEMMA OuterLeaves ==
    ASSUME TaskTypes, NEW t \in Tasks, NEW p \in Settled, Goto(t, p),
           pc[t] \in {"caught", "found", "query"}
    PROVE  Outer(t) \in InFlight /\ InFlight' = InFlight \ {Outer(t)}
<1>1. Outer(t) \in Frames /\ Outer(t) \in InFlight
  BY DEF Outer, Frames, InFlight, Awaiting, Settled
<1>2. ASSUME NEW f \in Frames
      PROVE  f \in InFlight' <=> f \in InFlight /\ f # Outer(t)
  <2>1. f = <<f[1], f[2]>> /\ f[2] \in {"outer", "inner"} /\ p \in Pcs
    BY DEF Frames, Pcs
  <2>2. CASE f[1] # t
    BY <2>1, <2>2, InFlightAfter DEF Outer
  <2>3. CASE f[1] = t /\ f[2] = "outer"
    <3>1. f \notin InFlight' /\ f = Outer(t)
      BY <2>1, <2>3, InFlightAfter DEF Outer
    <3> QED
      BY <3>1
  <2>4. CASE f[1] = t /\ f[2] = "inner"
    <3>1. f \notin InFlight'
      BY <2>1, <2>4, InFlightAfter DEF Settled
    <3>2. f \notin InFlight
      BY <2>4 DEF InFlight, Awaiting
    <3> QED
      BY <3>1, <3>2
  <2> QED
    BY <2>1, <2>2, <2>3, <2>4
<1> QED
  BY <1>1, <1>2 DEF InFlight

\* The nested call settles and the operation goes on.
LEMMA InnerLeaves ==
    ASSUME TaskTypes, NEW t \in Tasks, NEW p \in {"query", "found", "caught"}, Goto(t, p),
           pc[t] = "search"
    PROVE  Inner(t) \in InFlight /\ InFlight' = InFlight \ {Inner(t)}
<1>1. Inner(t) \in Frames /\ Inner(t) \in InFlight
  BY DEF Inner, Frames, InFlight, Awaiting
<1>2. ASSUME NEW f \in Frames
      PROVE  f \in InFlight' <=> f \in InFlight /\ f # Inner(t)
  <2>1. f = <<f[1], f[2]>> /\ f[2] \in {"outer", "inner"} /\ p \in Pcs
    BY DEF Frames, Pcs
  <2>2. CASE f[1] # t
    BY <2>1, <2>2, InFlightAfter DEF Inner
  <2>3. CASE f[1] = t /\ f[2] = "inner"
    <3>1. f \notin InFlight' /\ f = Inner(t)
      BY <2>1, <2>3, InFlightAfter DEF Inner
    <3> QED
      BY <3>1
  <2>4. CASE f[1] = t /\ f[2] = "outer"
    <3>1. f \in InFlight' /\ f # Inner(t)
      BY <2>1, <2>4, InFlightAfter DEF Settled, Inner
    <3>2. f \in InFlight
      BY <2>4 DEF InFlight, Awaiting, Settled
    <3> QED
      BY <3>1, <3>2
  <2> QED
    BY <2>1, <2>2, <2>3, <2>4
<1> QED
  BY <1>1, <1>2 DEF InFlight

\* Those let through together: a first attempt with its nested call, or a nested call
\* of a later attempt.
Entering(t, p) == IF pc[t] = "idle"
                  THEN {Outer(t)} \cup (IF p = "search" THEN {Inner(t)} ELSE {})
                  ELSE {Inner(t)}

LEMMA FramesEnter ==
    ASSUME TaskTypes, NEW t \in Tasks, NEW p \in {"search", "query"}, Goto(t, p),
           pc[t] = "idle" \/ (pc[t] = "wait" /\ p = "search")
    PROVE  /\ Entering(t, p) \in SUBSET Frames /\ Entering(t, p) # {}
           /\ Entering(t, p) \cap InFlight = {}
           /\ InFlight' = InFlight \cup Entering(t, p)
<1>1. Entering(t, p) \in SUBSET Frames /\ Entering(t, p) # {}
  <2>1. Outer(t) \in Frames /\ Inner(t) \in Frames
    BY DEF Outer, Inner, Frames
  <2> QED
    BY <2>1 DEF Entering
<1>2. ASSUME NEW f \in Frames
      PROVE  /\ f \in Entering(t, p) => f \notin InFlight
             /\ f \in InFlight' <=> f \in InFlight \/ f \in Entering(t, p)
  <2>1. f = <<f[1], f[2]>> /\ f[2] \in {"outer", "inner"} /\ p \in Pcs
    BY DEF Frames, Pcs
  <2>2. CASE f[1] # t
    BY <2>1, <2>2, InFlightAfter DEF Entering, Outer, Inner
  <2>3. CASE f[1] = t /\ f[2] = "outer"
    <3>1. f \in InFlight'
      BY <2>1, <2>3, InFlightAfter DEF Settled
    <3>2. f \in InFlight <=> pc[t] # "idle"
      BY <2>3 DEF InFlight, Awaiting, Settled
    <3>3. f \in Entering(t, p) <=> pc[t] = "idle"
      BY <2>1, <2>3 DEF Entering, Outer, Inner
    <3> QED
      BY <3>1, <3>2, <3>3
  <2>4. CASE f[1] = t /\ f[2] = "inner"
    <3>1. f \in InFlight' <=> p = "search"
      BY <2>1, <2>4, InFlightAfter
    <3>2. f \notin InFlight
      BY <2>4 DEF InFlight, Awaiting
    <3>3. f \in Entering(t, p) <=> p = "search"
      BY <2>1, <2>4 DEF Entering, Outer, Inner
    <3> QED
      BY <3>1, <3>2, <3>3
  <2> QED
    BY <2>1, <2>2, <2>3, <2>4
<1> QED
  BY <1>1, <1>2 DEF InFlight

\* The contract's calls in flight, as the guard's refinement mapping gives them.
Running == {c \in Frames : [f \in Frames |-> IF Awaiting(f) THEN "running" ELSE "idle"][c]
                             = "running"}

LEMMA RunningInFlight == Running = InFlight /\ Running' = InFlight'
<1>1. \A f \in Frames : f \in Running <=> f \in InFlight
  BY DEF Running, InFlight
<1>2. \A f \in Frames : f \in Running' <=> f \in InFlight'
  BY DEF Running, InFlight
<1> QED
  BY <1>1, <1>2 DEF Running, InFlight

\* The head of execute(), success and failure of a call are steps of the contract.
LEMMA EnterIsContract ==
    ASSUME BreakerInv, Breaker!Enter, NEW frames \in SUBSET Frames, frames # {},
           frames \cap InFlight = {}, InFlight' = InFlight \cup frames
    PROVE  Breaker!Contract!Next
<1> USE BreakerAssumption DEF BreakerInv, Breaker!HalfOpenBelowQuota
<1>1. frames \cap Running = {} /\ Running' = Running \cup frames
  BY RunningInFlight
<1>2. Breaker!Contract!Enter(frames)
  BY <1>1 DEF Breaker!Contract!Enter, Running
<1>3. CASE state = "OPEN"
  <2>1. Breaker!Contract!Probe(frames)
    BY <1>2, <1>3 DEF Breaker!Enter, Breaker!Blocked, Breaker!Contract!Probe
  <2> QED
    BY <2>1 DEF Breaker!Contract!Next
<1>4. CASE state # "OPEN"
  <2>1. Breaker!Contract!Pass(frames)
    BY <1>2, <1>4 DEF Breaker!Enter, Breaker!Contract!Pass
  <2> QED
    BY <2>1 DEF Breaker!Contract!Next
<1> QED
  BY <1>3, <1>4

LEMMA SuccessIsContract ==
    ASSUME BreakerInv, Breaker!OnSuccess, NEW f \in InFlight, InFlight' = InFlight \ {f}
    PROVE  Breaker!Contract!Next
<1> USE BreakerAssumption DEF BreakerInv, Breaker!HalfOpenBelowQuota
<1>1. f \in Frames /\ f \in Running /\ Running' = Running \ {f}
  BY RunningInFlight DEF InFlight
<1>2. Breaker!Contract!Succeed(f)
  <2>1. CASE state = "HALF_OPEN" /\ halfOpenSuccesses + 1 >= HalfOpenMaxAttempts
    BY <1>1, <2>1 DEF Running, Breaker!OnSuccess, Breaker!Reset, Breaker!Long,
                      Breaker!Contract!Succeed
  <2>2. CASE state = "HALF_OPEN" /\ halfOpenSuccesses + 1 < HalfOpenMaxAttempts
    BY <1>1, <2>2 DEF Running, Breaker!OnSuccess, Breaker!Contract!Succeed
  <2>3. CASE state # "HALF_OPEN"
    BY <1>1, <2>3 DEF Running, Breaker!OnSuccess, Breaker!breakerVars,
                      Breaker!Contract!Succeed
  <2> QED
    BY <2>1, <2>2, <2>3
<1> QED
  BY <1>1, <1>2 DEF Breaker!Contract!Next

LEMMA FailureIsContract ==
    ASSUME BreakerInv, Breaker!OnFailure, NEW f \in InFlight, InFlight' = InFlight \ {f}
    PROVE  Breaker!Contract!Next
<1>1. f \in Frames /\ f \in Running /\ Running' = Running \ {f}
  BY RunningInFlight DEF InFlight
<1>2. Breaker!Contract!Fail(f)
  BY <1>1, BreakerAssumption
     DEF Running, BreakerInv, Breaker!TrippedIffThreshold, Breaker!OnFailure,
         Breaker!Contract!Fail
<1> QED
  BY <1>1, <1>2 DEF Breaker!Contract!Next

LEMMA NothingIsContract ==
    ASSUME UNCHANGED breakerVars, InFlight' = InFlight
    PROVE  UNCHANGED Breaker!Contract!vars
<1>1. Running' = Running
  BY RunningInFlight
<1> QED
  BY <1>1 DEF Running, breakerVars, Breaker!Contract!vars

\* What a failed attempt is to the contract: a success if the operation swallows its
\* error, nothing while the loop still retries, and otherwise the failure of the call.
LEMMA FailsIsContract ==
    ASSUME IInv, NEW t \in Tasks, OperationFails(t), pc[t] \in {"caught", "query"}
    PROVE  Breaker!Contract!Next \/ UNCHANGED Breaker!Contract!vars
<1>1. TaskTypes /\ BreakerInv
  BY DEF IInv
<1>2. CASE kind[t] \in Swallows
  <2>1. Goto(t, "nothing") /\ Breaker!OnSuccess /\ "nothing" \in Settled
    BY <1>2 DEF OperationFails, Settled
  <2> QED
    BY <1>1, <2>1, OuterLeaves, SuccessIsContract
<1>3. CASE kind[t] \notin Swallows /\ attempt[t] < MaxRetries
  <2>1. Goto(t, "wait") /\ UNCHANGED breakerVars /\ "wait" \in Pcs
    BY <1>3 DEF OperationFails, AttemptFails, Pcs
  <2>2. InFlight' = InFlight
    BY <1>1, <2>1, SameFrames DEF Settled
  <2> QED
    BY <2>1, <2>2, NothingIsContract
<1>4. CASE kind[t] \notin Swallows /\ ~(attempt[t] < MaxRetries)
  <2>1. Goto(t, "error") /\ Breaker!OnFailure /\ "error" \in Settled
    BY <1>4 DEF OperationFails, AttemptFails, Settled
  <2> QED
    BY <1>1, <2>1, OuterLeaves, FailureIsContract
<1> QED
  BY <1>2, <1>3, <1>4

LEMMA SearchIsContract ==
    ASSUME IInv, NEW t \in Tasks, SearchOk(t) \/ SearchFails(t) \/ SearchAgain(t)
    PROVE  Breaker!Contract!Next \/ UNCHANGED Breaker!Contract!vars
<1>1. TaskTypes /\ BreakerInv
  BY DEF IInv
<1>2. CASE SearchOk(t)
  <2>1. PICK p \in {"query", "found"} : Goto(t, p)
    BY <1>2 DEF SearchOk
  <2>2. pc[t] = "search" /\ Breaker!OnSuccess
    BY <1>2 DEF SearchOk
  <2> QED
    BY <1>1, <2>1, <2>2, InnerLeaves, SuccessIsContract
<1>3. CASE SearchFails(t) /\ inner[t] < MaxRetries
  <2>1. /\ pc[t] = "search" /\ Goto(t, "searchWait") /\ "searchWait" \in Pcs
        /\ UNCHANGED breakerVars
    BY <1>3 DEF SearchFails, Pcs
  <2>2. InFlight' = InFlight
    BY <1>1, <2>1, SameFrames DEF Settled
  <2> QED
    BY <2>1, <2>2, NothingIsContract
<1>4. CASE SearchFails(t) /\ ~(inner[t] < MaxRetries)
  <2>1. pc[t] = "search" /\ Goto(t, "caught") /\ Breaker!OnFailure
    BY <1>4 DEF SearchFails
  <2> QED
    BY <1>1, <2>1, InnerLeaves, FailureIsContract
<1>5. CASE SearchAgain(t)
  <2>1. /\ pc[t] = "searchWait" /\ Goto(t, "search") /\ "search" \in Pcs
        /\ UNCHANGED breakerVars
    BY <1>5 DEF SearchAgain, Pcs
  <2>2. InFlight' = InFlight
    BY <1>1, <2>1, SameFrames DEF Settled
  <2> QED
    BY <2>1, <2>2, NothingIsContract
<1> QED
  BY <1>2, <1>3, <1>4, <1>5

LEMMA OperationIsContract ==
    ASSUME IInv, NEW t \in Tasks,
           Caught(t) \/ Found(t) \/ QueryOk(t) \/ QueryFails(t) \/ AckLost(t)
    PROVE  Breaker!Contract!Next \/ UNCHANGED Breaker!Contract!vars
<1>1. CASE Found(t) \/ QueryOk(t)
  <2>1. /\ pc[t] \in {"found", "query"} /\ Goto(t, "ok") /\ "ok" \in Settled
        /\ Breaker!OnSuccess
    BY <1>1 DEF Found, QueryOk, Settled
  <2> QED
    BY <2>1, OuterLeaves, SuccessIsContract DEF IInv
<1>2. CASE Caught(t) \/ QueryFails(t) \/ AckLost(t)
  BY <1>2, FailsIsContract DEF Caught, QueryFails, AckLost
<1> QED
  BY <1>1, <1>2

LEMMA AgainIsContract ==
    ASSUME IInv, NEW t \in Tasks, Again(t)
    PROVE  Breaker!Contract!Next \/ UNCHANGED Breaker!Contract!vars
<1>1. TaskTypes /\ BreakerInv /\ pc[t] = "wait"
  BY DEF IInv, Again
<1>2. CASE kind[t] \notin Nested /\ Start(t, kind[t]) /\ UNCHANGED breakerVars
  <2>1. Goto(t, "query") /\ "query" \in Pcs
    BY <1>2 DEF Start, Pcs
  <2>2. InFlight' = InFlight
    BY <1>1, <2>1, SameFrames DEF Settled
  <2> QED
    BY <1>2, <2>2, NothingIsContract
<1>3. CASE kind[t] \in Nested /\ Breaker!Enter /\ Start(t, kind[t])
  <2>1. Goto(t, "search")
    BY <1>3 DEF Start
  <2> QED
    BY <1>1, <1>3, <2>1, FramesEnter, EnterIsContract
<1>4. CASE Goto(t, "caught") /\ UNCHANGED breakerVars
  <2>1. "caught" \in Pcs
    BY DEF Pcs
  <2>2. InFlight' = InFlight
    BY <1>1, <1>4, <2>1, SameFrames DEF Settled
  <2> QED
    BY <1>4, <2>2, NothingIsContract
<1> QED
  BY <1>2, <1>3, <1>4 DEF Again

LEMMA CallerIsContract ==
    ASSUME IInv, NEW t \in Tasks,
           Return(t) \/ \E k \in Kinds : Begin(t, k) \/ Refuse(t, k)
    PROVE  Breaker!Contract!Next \/ UNCHANGED Breaker!Contract!vars
<1>1. TaskTypes /\ BreakerInv
  BY DEF IInv
<1>2. ASSUME NEW k \in Kinds, Begin(t, k) PROVE Breaker!Contract!Next
  <2>1. PICK p \in {"search", "query"} : Goto(t, p)
    BY <1>2 DEF Begin, Start
  <2>2. pc[t] = "idle" /\ Breaker!Enter
    BY <1>2 DEF Begin
  <2>3. /\ Entering(t, p) \in SUBSET Frames /\ Entering(t, p) # {}
        /\ Entering(t, p) \cap InFlight = {}
        /\ InFlight' = InFlight \cup Entering(t, p)
    BY <1>1, <2>1, <2>2, FramesEnter
  <2> QED
    BY <1>1, <2>2, <2>3, EnterIsContract
<1>3. ASSUME NEW k \in Kinds, Return(t) \/ Refuse(t, k)
      PROVE  UNCHANGED Breaker!Contract!vars
  <2>1. PICK p \in {"idle", "error"} : Goto(t, p)
    BY <1>3 DEF Return, Refuse
  <2>2. UNCHANGED breakerVars /\ pc[t] \in Settled \cup {"idle"}
    BY <1>3 DEF Return, Refuse
  <2>3. InFlight' = InFlight
    BY <1>1, <2>1, <2>2, SameFrames DEF Settled, Pcs
  <2> QED
    BY <2>2, <2>3, NothingIsContract
<1> QED
  BY <1>2, <1>3 DEF Kinds

LEMMA GuardInit == Init => Breaker!Contract!Init
<1> SUFFICES ASSUME Init PROVE Breaker!Contract!Init
  OBVIOUS
<1>1. \A f \in Frames : ~Awaiting(f)
  BY DEF Init, Frames, Awaiting
<1>2. Running = {}
  BY <1>1 DEF Running
<1> QED
  BY <1>2 DEF Init, Breaker!Init, Breaker!Long, Breaker!Contract!Init, Running

LEMMA GuardStep == IInv /\ [Next]_vars
                     => [Breaker!Contract!Next]_(Breaker!Contract!vars)
<1> SUFFICES ASSUME IInv, [Next]_vars
             PROVE  Breaker!Contract!Next \/ UNCHANGED Breaker!Contract!vars
  OBVIOUS
<1>1. pc' = pc => InFlight' = InFlight
  BY DEF InFlight, Awaiting
<1>2. CASE PassTime
  <2>1. Running' = Running
    BY <1>1, <1>2, RunningInFlight DEF PassTime, taskVars
  <2>2. Breaker!Contract!Elapse
    BY <1>2, <2>1, BreakerAssumption
       DEF IInv, BreakerInv, PassTime, Breaker!Tick, Breaker!Long, Running,
           Breaker!Contract!Elapse
  <2> QED
    BY <2>2 DEF Breaker!Contract!Next
<1>3. CASE Outage \/ UNCHANGED vars
  BY <1>1, <1>3, NothingIsContract DEF Outage, vars, taskVars
<1>4. ASSUME NEW t \in Tasks, Run(t)
      PROVE  Breaker!Contract!Next \/ UNCHANGED Breaker!Contract!vars
  BY <1>4, SearchIsContract, OperationIsContract, AgainIsContract DEF Run
<1> QED
  BY <1>2, <1>3, <1>4, CallerIsContract DEF Next

\* What withDatabase builds of breaker, retry loops and operations that call it again is
\* still the breaker the documentation of DatabaseAdapter promises.
THEOREM GuardKeepsContract == Spec => ImplementsContract
  BY AlwaysIInv, GuardInit, GuardStep, PTL
     DEF Spec, ImplementsContract, Breaker!ImplementsContract, Breaker!Contract!Spec
=============================================================================
