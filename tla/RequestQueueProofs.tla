------------------------- MODULE RequestQueueProofs -------------------------
(***************************************************************************)
(* Theorems about RequestQueue, for every set of requests.  TypeOK and     *)
(* NoLostWakeup are inductive together: the flag, the loop and the request *)
(* in flight determine each other, which is also what makes each step of   *)
(* the queue a step of the serial server or a stutter.                     *)
(***************************************************************************)
EXTENDS RequestQueue, TLAPS

IInv == TypeOK /\ NoLostWakeup

-----------------------------------------------------------------------------

\* An empty queue with the flag down satisfies the invariant.
LEMMA InitIInv == Init => IInv
<1> SUFFICES ASSUME Init PROVE IInv
  OBVIOUS
<1>1. queue \in Seq(Requests) /\ queue = <<>>
  BY DEF Init
<1>2. settled \in [Requests -> {"ok", "error", None}]
  BY DEF Init
<1>3. processing = FALSE /\ loop = "off" /\ current = None
  BY DEF Init
<1> QED
  BY <1>1, <1>2, <1>3 DEF IInv, TypeOK, NoLostWakeup

\* Appending to an idle queue and taking its head yields the request itself.
LEMMA AppendToEmpty == ASSUME NEW r
                       PROVE  /\ Head(Append(<<>>, r)) = r
                              /\ Tail(Append(<<>>, r)) = <<>>
  OBVIOUS

\* A queue that is not empty splits into a request and a queue.
LEMMA SplitQueue == ASSUME queue \in Seq(Requests), queue # <<>>
                    PROVE  Head(queue) \in Requests /\ Tail(queue) \in Seq(Requests)
  OBVIOUS

\* add(), the settling of a request and the end of a delay preserve the invariant.
LEMMA StepIInv == IInv /\ [Next]_vars => IInv'
<1> SUFFICES ASSUME IInv, [Next]_vars PROVE IInv'
  OBVIOUS
<1> USE NoneAssumption DEF IInv, TypeOK, NoLostWakeup
<1>1. ASSUME NEW r \in Requests, Add(r) PROVE IInv'
  <2>1. CASE processing
    BY <1>1, <2>1 DEF Add
  <2>2. CASE ~processing
    <3>1. queue = <<>>
      BY <2>2
    <3>2. current' = r /\ queue' = <<>> /\ processing' = TRUE /\ loop' = "awaiting"
          /\ UNCHANGED settled
      BY <1>1, <2>2, <3>1, AppendToEmpty DEF Add
    <3> QED
      BY <3>2
  <2> QED
    BY <2>1, <2>2
<1>2. ASSUME NEW outcome \in {"ok", "error"}, Settle(outcome) PROVE IInv'
  <2>1. current \in Requests
    BY <1>2 DEF Settle
  <2>2. settled' \in [Requests -> {"ok", "error", None}]
    BY <1>2, <2>1 DEF Settle
  <2> QED
    BY <1>2, <2>2 DEF Settle
<1>3. ASSUME Wake PROVE IInv'
  <2>1. CASE queue = <<>>
    BY <1>3, <2>1 DEF Wake
  <2>2. CASE queue # <<>>
    BY <1>3, <2>2, SplitQueue DEF Wake
  <2> QED
    BY <2>1, <2>2
<1>4. CASE UNCHANGED vars
  BY <1>4 DEF vars
<1> QED
  BY <1>1, <1>2, <1>3, <1>4 DEF Next

-----------------------------------------------------------------------------

\* The variables of RequestQueue keep their types.
THEOREM TypeCorrect == Spec => []TypeOK
<1>1. IInv => TypeOK
  BY DEF IInv
<1> QED
  BY InitIInv, StepIInv, <1>1, PTL DEF Spec

\* processQueue's flag is down only when its loop has ended and nothing is queued.
THEOREM WakeupNeverLost == Spec => []NoLostWakeup
<1>1. IInv => NoLostWakeup
  BY DEF IInv
<1> QED
  BY InitIInv, StepIInv, <1>1, PTL DEF Spec

\* Between any two requests processQueue sends there is a randomDelay(), or
\* nothing was in flight or queued.
THEOREM AlwaysPaced == Spec => Paced
<1>1. IInv /\ [Next]_vars
        => [current' # current /\ current' # None
              => current = None /\ (loop = "delay" \/ (loop = "off" /\ queue = <<>>))]_vars
  <2> SUFFICES ASSUME IInv, Next, current' # current, current' # None
               PROVE  current = None /\ (loop = "delay" \/ (loop = "off" /\ queue = <<>>))
    OBVIOUS
  <2> USE DEF IInv, TypeOK, NoLostWakeup
  <2>1. ASSUME NEW r \in Requests, Add(r)
        PROVE  current = None /\ loop = "off" /\ queue = <<>>
    BY <2>1 DEF Add
  <2>2. ASSUME Wake PROVE current = None /\ loop = "delay"
    BY <2>2 DEF Wake
  <2>3. ASSUME NEW outcome \in {"ok", "error"}, Settle(outcome) PROVE FALSE
    BY <2>3 DEF Settle
  <2> QED
    BY <2>1, <2>2, <2>3 DEF Next
<1> QED
  BY InitIInv, StepIInv, <1>1, PTL DEF Spec, Paced

-----------------------------------------------------------------------------

\* The empty queue is an idle server.
LEMMA QueueInit == Init => Queue!Init
  BY DEF Init, Queue!Init

\* A request that is new to the queue is fresh to the server.
LEMMA NewIsFresh == ASSUME NEW r, New(r) PROVE Queue!Fresh(r)
  BY DEF New, Queued, Queue!Fresh

\* add() submits, or submits and serves; a settled request is answered; the end of
\* a delay serves the next request or is invisible to the callers.
LEMMA QueueStep == IInv /\ [Next]_vars => [Queue!Next]_(Queue!vars)
<1> SUFFICES ASSUME IInv, [Next]_vars PROVE [Queue!Next]_(Queue!vars)
  OBVIOUS
<1> USE DEF IInv, TypeOK, NoLostWakeup
<1>1. ASSUME NEW r \in Requests, Add(r) PROVE Queue!Next
  <2>0. Queue!Fresh(r)
    BY <1>1, NewIsFresh DEF Add
  <2>1. CASE processing
    <3>1. Queue!Submit(r)
      BY <1>1, <2>0, <2>1 DEF Add, Queue!Submit
    <3> QED
      BY <3>1 DEF Queue!Next
  <2>2. CASE ~processing
    <3>1. queue = <<>> /\ current = None
      BY <2>2
    <3>2. current' = r /\ queue' = queue /\ UNCHANGED settled
      BY <1>1, <2>2, <3>1, AppendToEmpty DEF Add
    <3>3. Queue!SubmitAndServe(r)
      BY <2>0, <3>1, <3>2 DEF Queue!SubmitAndServe
    <3> QED
      BY <3>3 DEF Queue!Next
  <2> QED
    BY <2>1, <2>2
<1>2. ASSUME NEW outcome \in {"ok", "error"}, Settle(outcome) PROVE Queue!Next
  <2>1. Queue!Answer(outcome)
    BY <1>2, NoneAssumption DEF Settle, Queue!Answer
  <2> QED
    BY <2>1 DEF Queue!Next
<1>3. ASSUME Wake PROVE Queue!Next \/ UNCHANGED Queue!vars
  <2>1. CASE queue = <<>>
    BY <1>3, <2>1 DEF Wake, Queue!vars
  <2>2. CASE queue # <<>>
    <3>1. Queue!Serve
      BY <1>3, <2>2 DEF Wake, Queue!Serve
    <3> QED
      BY <3>1 DEF Queue!Next
  <2> QED
    BY <2>1, <2>2
<1>4. CASE UNCHANGED vars
  BY <1>4 DEF vars, Queue!vars
<1> QED
  BY <1>1, <1>2, <1>3, <1>4 DEF Next

\* RequestQueue implements the serial first-come first-served server.
THEOREM ServesInOrder == Spec => IsSerialQueue
  BY InitIInv, StepIInv, QueueInit, QueueStep, PTL DEF Spec, IsSerialQueue, Queue!Spec

-----------------------------------------------------------------------------
(* What callers of the queue may rely on *)

\* Requests wait once, those that wait are neither sent nor settled, and the one that
\* is sent is not settled.
OnceInv ==
    /\ \A i, j \in 1..Len(queue) : queue[i] = queue[j] => i = j
    /\ \A i \in 1..Len(queue) : queue[i] # current /\ settled[queue[i]] = None
    /\ current # None => settled[current] = None

\* What becomes of the places of a queue when a request is added, or the first taken.
LEMMA Places ==
    ASSUME NEW q \in Seq(Requests), NEW r \in Requests
    PROVE  /\ Len(q) \in Nat
           /\ Len(Append(q, r)) = Len(q) + 1
           /\ \A i \in 1..(Len(q) + 1) :
                Append(q, r)[i] = IF i = Len(q) + 1 THEN r ELSE q[i]
           /\ q # <<>> => /\ Len(q) > 0 /\ Head(q) = q[1]
                          /\ Len(Tail(q)) = Len(q) - 1
                          /\ \A i \in 1..(Len(q) - 1) : Tail(q)[i] = q[i + 1]
  OBVIOUS

LEMMA StepOnce == IInv /\ OnceInv /\ [Next]_vars => OnceInv'
<1> SUFFICES ASSUME IInv, OnceInv, [Next]_vars PROVE OnceInv'
  OBVIOUS
<1>1. ASSUME NEW r \in Requests, Add(r) PROVE OnceInv'
  <2>1. /\ settled[r] = None /\ r # current /\ r # None
        /\ \A i \in 1..Len(queue) : queue[i] # r
    BY <1>1, NoneAssumption DEF Add, New, Queued
  <2>2. CASE processing
    <3>1. queue' = Append(queue, r) /\ UNCHANGED <<current, settled>>
      BY <1>1, <2>2 DEF Add
    <3>2. queue \in Seq(Requests)
      BY DEF IInv, TypeOK
    <3> QED
      BY <2>1, <3>1, <3>2, Places DEF OnceInv
  <2>3. CASE ~processing
    <3>1. queue = <<>>
      BY <2>3 DEF IInv, NoLostWakeup
    <3>2. current' = r /\ queue' = <<>> /\ UNCHANGED settled
      BY <1>1, <2>3, <3>1, AppendToEmpty DEF Add
    <3> QED
      BY <2>1, <3>2 DEF OnceInv
  <2> QED
    BY <2>2, <2>3
<1>2. ASSUME NEW outcome \in {"ok", "error"}, Settle(outcome) PROVE OnceInv'
  <2>1. /\ queue' = queue /\ current' = None /\ queue \in Seq(Requests)
        /\ settled' = [settled EXCEPT ![current] = outcome]
    BY <1>2 DEF Settle, IInv, TypeOK
  <2>2. \A i \in 1..Len(queue) : queue[i] \in Requests
    BY <2>1
  <2>3. \A i \in 1..Len(queue) : queue[i] # None /\ settled'[queue[i]] = None
    BY <2>1, <2>2, NoneAssumption DEF IInv, TypeOK, OnceInv
  <2> QED
    BY <2>1, <2>3 DEF OnceInv
<1>3. CASE Wake
  <2>1. CASE queue = <<>>
    BY <1>3, <2>1 DEF Wake, OnceInv
  <2>2. CASE queue # <<>>
    <3>1. /\ current' = queue[1] /\ queue' = Tail(queue) /\ settled' = settled
          /\ queue \in Seq(Requests) /\ queue[1] \in Requests
          /\ Len(queue) \in Nat /\ Len(queue) > 0
      BY <1>3, <2>2 DEF Wake, IInv, TypeOK
    <3>2. /\ Len(queue') = Len(queue) - 1
          /\ \A i \in 1..(Len(queue) - 1) : queue'[i] = queue[i + 1]
      BY <2>2, <3>1, Places
    <3> QED
      BY <3>1, <3>2 DEF OnceInv
  <2> QED
    BY <2>1, <2>2
<1>4. CASE UNCHANGED vars
  BY <1>4 DEF vars, OnceInv
<1> QED
  BY <1>1, <1>2, <1>3, <1>4 DEF Next

LEMMA AlwaysOnce == Spec => [](IInv /\ OnceInv)
<1>1. Init => OnceInv
  BY DEF Init, OnceInv
<1> QED
  BY <1>1, InitIInv, StepIInv, StepOnce, PTL DEF Spec

\* No request is sent before one that was added earlier.
THEOREM NobodyOvertakes == Spec => Queue!FirstComeFirstServed
<1>1. ASSUME IInv, OnceInv, [Next]_vars, NEW r \in Requests, NEW q \in Requests,
             Queue!Ahead(r, q)
      PROVE  current' # q /\ (Queue!Ahead(r, q)' \/ (current' = r /\ Queue!Waits(q)'))
  <2>1. PICK i \in 1..Len(queue), j \in 1..Len(queue) :
               i < j /\ queue[i] = r /\ queue[j] = q
    BY <1>1 DEF Queue!Ahead
  <2>2. queue \in Seq(Requests) /\ q # None /\ current # q /\ queue # <<>>
    BY <1>1, <2>1, NoneAssumption DEF IInv, TypeOK, OnceInv
  <2>3. ASSUME queue' = queue, current' # q PROVE Queue!Ahead(r, q)'
    BY <2>1, <2>3 DEF Queue!Ahead
  <2>4. ASSUME NEW s \in Requests, Add(s)
        PROVE  current' # q /\ Queue!Ahead(r, q)'
    <3>1. processing /\ queue' = Append(queue, s) /\ current' = current
      BY <1>1, <2>2, <2>4 DEF Add, IInv, NoLostWakeup
    <3>2. /\ i \in 1..Len(queue') /\ j \in 1..Len(queue')
          /\ queue'[i] = r /\ queue'[j] = q
      BY <2>1, <2>2, <3>1, Places
    <3> QED
      BY <2>1, <2>2, <3>1, <3>2 DEF Queue!Ahead
  <2>5. ASSUME NEW outcome \in {"ok", "error"}, Settle(outcome)
        PROVE  current' # q /\ queue' = queue
    BY <2>2, <2>5 DEF Settle
  <2>6. CASE Wake
    <3>1. /\ current' = queue[1] /\ queue' = Tail(queue)
          /\ Len(queue) \in Nat /\ Len(queue') = Len(queue) - 1
          /\ \A k \in 1..(Len(queue) - 1) : queue'[k] = queue[k + 1]
      BY <2>2, <2>6, Places DEF Wake
    <3>2. current' # q /\ j - 1 \in 1..Len(queue') /\ queue'[j - 1] = q
      BY <1>1, <2>1, <3>1 DEF OnceInv
    <3>3. CASE i = 1
      BY <2>1, <3>1, <3>2, <3>3 DEF Queue!Waits
    <3>4. CASE i # 1
      <4>1. i - 1 \in 1..Len(queue') /\ queue'[i - 1] = r /\ i - 1 < j - 1
        BY <2>1, <3>1, <3>4
      <4> QED
        BY <3>2, <4>1 DEF Queue!Ahead
    <3> QED
      BY <3>3, <3>4, <3>2
  <2>7. CASE UNCHANGED vars
    BY <2>2, <2>3, <2>7 DEF vars
  <2> QED
    BY <1>1, <2>3, <2>4, <2>5, <2>6, <2>7 DEF Next
<1>2. IInv /\ OnceInv /\ [Next]_vars
        => \A r, q \in Requests :
             Queue!Ahead(r, q) => /\ current' # q
                                  /\ Queue!Ahead(r, q)' \/ (current' = r /\ Queue!Waits(q)')
  BY <1>1
<1> QED
  BY <1>2, AlwaysOnce, PTL DEF Spec, Queue!FirstComeFirstServed

\* No promise of the queue is settled a second time.
THEOREM SettledForGood == Spec => Queue!AnswersStand
<1>1. ASSUME IInv, OnceInv, [Next]_vars, NEW r \in Requests, settled[r] # None
      PROVE  settled'[r] = settled[r]
  <2>1. ASSUME NEW outcome \in {"ok", "error"}, Settle(outcome)
        PROVE  settled'[r] = settled[r]
    <3>1. current # None /\ settled[current] = None
      BY <1>1, <2>1 DEF Settle, IInv, NoLostWakeup, OnceInv
    <3> QED
      BY <1>1, <2>1, <3>1 DEF Settle, IInv, TypeOK
  <2> QED
    BY <1>1, <2>1 DEF Next, Add, Wake, vars
<1>2. IInv /\ OnceInv /\ [Next]_vars
        => \A r \in Requests : settled[r] # None => settled'[r] = settled[r]
  BY <1>1
<1> QED
  BY <1>2, AlwaysOnce, PTL DEF Spec, Queue!AnswersStand
=============================================================================
