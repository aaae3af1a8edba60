---------------------------- MODULE RequestQueue ----------------------------
(***************************************************************************)
(* RequestQueue of okai/packages/client-twitter/src/base.ts: every call to *)
(* Twitter that must be paced goes through it.  add() pushes the request   *)
(* and calls processQueue(), which runs until the queue is empty, awaiting *)
(* each request and a random delay after it; the flag `processing` keeps a *)
(* second loop from starting.  The wrapper add() pushes settles its        *)
(* caller's promise itself and never rejects, so the catch branch of       *)
(* processQueue (unshift and exponentialBackoff) is never entered.         *)
(***************************************************************************)
EXTENDS Sequences, Naturals

CONSTANTS Requests,  \* the requests callers may add, each once
          None

ASSUME NoneAssumption == None \notin Requests /\ None \notin {"ok", "error"}

VARIABLES queue,
          processing,
          loop,       \* where processQueue stands: off, awaiting, delay
          current,    \* the request it awaits, or None
          settled     \* per request: how its promise settled, or None

vars == <<queue, processing, loop, current, settled>>

Init == /\ queue = <<>>
        /\ processing = FALSE
        /\ loop = "off"
        /\ current = None
        /\ settled = [r \in Requests |-> None]

Queued(r) == \E i \in 1..Len(queue) : queue[i] = r

New(r) == settled[r] = None /\ r # current /\ ~Queued(r)

\* Mutant: processQueue() does not look at the flag.
AddAndStart(r) == /\ New(r)
                  /\ processing' = TRUE
                  /\ current' = Head(Append(queue, r))
                  /\ queue' = Tail(Append(queue, r))
                  /\ loop' = "awaiting"
                  /\ UNCHANGED settled

\* add() and the synchronous part of processQueue().
Add(r) == /\ New(r)
          /\ IF processing
             THEN /\ queue' = Append(queue, r)
                  /\ UNCHANGED <<processing, loop, current>>
             ELSE /\ processing' = TRUE
                  /\ current' = Head(Append(queue, r))
                  /\ queue' = Tail(Append(queue, r))
                  /\ loop' = "awaiting"
          /\ UNCHANGED settled

\* The awaited request settles its caller, and randomDelay() begins.
Settle(outcome) == /\ loop = "awaiting"
                   /\ settled' = [settled EXCEPT ![current] = outcome]
                   /\ current' = None
                   /\ loop' = "delay"
                   /\ UNCHANGED <<queue, processing>>

\* Mutant: one request per call of processQueue().
WakeOnce == /\ loop = "delay"
            /\ processing' = FALSE
            /\ loop' = "off"
            /\ UNCHANGED <<queue, current, settled>>

\* Mutant: pop() instead of shift().
WakePops == /\ loop = "delay"
            /\ IF queue = <<>>
               THEN /\ processing' = FALSE
                    /\ loop' = "off"
                    /\ UNCHANGED <<queue, current>>
               ELSE /\ current' = queue[Len(queue)]
                    /\ queue' = SubSeq(queue, 1, Len(queue) - 1)
                    /\ loop' = "awaiting"
                    /\ UNCHANGED processing
            /\ UNCHANGED settled

\* The delay is over: the while condition is read again.
Wake == /\ loop = "delay"
        /\ IF queue = <<>>
           THEN /\ processing' = FALSE
                /\ loop' = "off"
                /\ UNCHANGED <<queue, current>>
           ELSE /\ current' = Head(queue)
                /\ queue' = Tail(queue)
                /\ loop' = "awaiting"
                /\ UNCHANGED processing
        /\ UNCHANGED settled

Next == \/ \E r \in Requests : Add(r)
        \/ \E outcome \in {"ok", "error"} : Settle(outcome)
        \/ Wake

Spec == Init /\ [][Next]_vars

\* A request to Twitter settles in the end, and timers fire.
Fairness == /\ WF_vars(\E outcome \in {"ok", "error"} : Settle(outcome))
            /\ WF_vars(Wake)

FairSpec == Spec /\ Fairness

-----------------------------------------------------------------------------

\* Types, and a request is awaited exactly while the loop says so.
TypeOK == /\ queue \in Seq(Requests)
          /\ processing \in BOOLEAN
          /\ loop \in {"off", "awaiting", "delay"}
          /\ current \in Requests \cup {None}
          /\ settled \in [Requests -> {"ok", "error", None}]

\* No lost wake-up: processQueue's flag is down only when its loop has ended and
\* the queue is empty, so a request pushed between the last check of the queue
\* and the clearing of the flag is never left behind.
NoLostWakeup == /\ processing <=> loop # "off"
                /\ ~processing => queue = <<>>
                /\ current # None <=> loop = "awaiting"

\* Every request, failed ones included, is followed by randomDelay() before the
\* next one is sent, even when it is added while no request is in flight.
Paced == [][current' # current /\ current' # None
              => current = None /\ (loop = "delay" \/ (loop = "off" /\ queue = <<>>))]_vars

Queue == INSTANCE SerialQueue
           WITH waiting <- queue, serving <- current, answer <- settled,
                Answers <- {"ok", "error"}

\* The queue is a serial first-come first-served server.
IsSerialQueue == Queue!Spec

\* Every request added is answered, however many are ahead and however they end.
Answered == \A r \in Requests : Queued(r) \/ current = r ~> settled[r] # None
=============================================================================
