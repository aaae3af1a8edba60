---------------------------- MODULE SerialQueue ----------------------------
(* What a request queue promises its callers: requests are served one at a *)
(* time, in the order they were submitted, each exactly once, and the      *)
(* answer a caller gets is that of its own request.                        *)
EXTENDS Sequences, Naturals

CONSTANTS Requests, Answers, None

VARIABLES waiting,   \* submitted and not started, in order
          serving,   \* the request being served, or None
          answer     \* per request: None until it is answered

vars == <<waiting, serving, answer>>

Init == /\ waiting = <<>>
        /\ serving = None
        /\ answer = [r \in Requests |-> None]

Fresh(r) == /\ r # serving
            /\ answer[r] = None
            /\ \A i \in 1..Len(waiting) : waiting[i] # r

Submit(r) == /\ Fresh(r)
             /\ waiting' = Append(waiting, r)
             /\ UNCHANGED <<serving, answer>>

\* An idle server may take up a request the moment it is submitted.
SubmitAndServe(r) == /\ Fresh(r)
                     /\ waiting = <<>>
                     /\ serving = None
                     /\ serving' = r
                     /\ UNCHANGED <<waiting, answer>>

Serve == /\ serving = None
         /\ waiting # <<>>
         /\ serving' = Head(waiting)
         /\ waiting' = Tail(waiting)
         /\ UNCHANGED answer

Answer(a) == /\ serving # None
             /\ answer' = [answer EXCEPT ![serving] = a]
             /\ serving' = None
             /\ UNCHANGED waiting

\* A server may take up the next request the moment it has answered one.
AnswerAndServe(a) == /\ serving # None
                     /\ waiting # <<>>
                     /\ answer' = [answer EXCEPT ![serving] = a]
                     /\ serving' = Head(waiting)
                     /\ waiting' = Tail(waiting)

Next == \/ \E r \in Requests : Submit(r) \/ SubmitAndServe(r)
        \/ Serve
        \/ \E a \in Answers : Answer(a) \/ AnswerAndServe(a)

Spec == Init /\ [][Next]_vars

-----------------------------------------------------------------------------
(* What callers may conclude, of any queue that implements this one. *)

Waits(r) == \E i \in 1..Len(waiting) : waiting[i] = r

\* The first request waits ahead of the second.
Ahead(r, q) == \E i, j \in 1..Len(waiting) :
                 i < j /\ waiting[i] = r /\ waiting[j] = q

\* Nobody overtakes: a request stays behind those ahead of it until they are served,
\* and is itself not served before.
FirstComeFirstServed ==
    [][\A r, q \in Requests :
         Ahead(r, q) => /\ serving' # q
                        /\ Ahead(r, q)' \/ (serving' = r /\ Waits(q)')]_vars

\* A caller is answered once: no later step changes or withdraws its answer.
AnswersStand ==
    [][\A r \in Requests : answer[r] # None => answer'[r] = answer[r]]_vars
=============================================================================
