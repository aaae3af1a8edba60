------------------------- MODULE LlamaServiceProofs -------------------------
(***************************************************************************)
(* Proofs about LlamaService, for any number of calls, whatever a stopped  *)
(* process left of the file, and however often the download or the loading *)
(* of the model fails.                                                     *)
(***************************************************************************)
EXTENDS LlamaService, FiniteSetTheorems, TLAPS

Among(q) == {q[i] : i \in DOMAIN q}

NoneTwice(q) == \A i, j \in DOMAIN q : q[i] = q[j] => i = j

\* The calls whose promise is open wait once each or are being completed, one at a time,
\* and none waits without a completion before it.
QueueInv == /\ messageQueue \in Seq(Calls) /\ NoneTwice(messageQueue)
            /\ Among(messageQueue) \cap running = {}
            /\ Among(messageQueue) \cup running = {c \in Calls : pc[c] = "queued"}
            /\ messageQueue # <<>> => running # {}
            /\ \A a, b \in running : a = b

\* Streams write what has a name, and each for a call that downloads.
FileInv == /\ file \in {"none", "partial", "whole"}
           /\ writers \subseteq {c \in Calls : pc[c] = "download"}
           /\ writers # {} => file # "none"

\* Nothing is ready or queued before there is a model; and while no two initialisations
\* have met, a call that initialises is alone in it, and there is no model yet.
ModelInv == /\ \A c \in Calls : pc[c] \in {"ready", "queued"} => modelInitialized
            /\ ~overlapped => /\ \A a, b \in Initialising : a = b
                              /\ modelInitialized => Initialising = {}
                              /\ \A c \in running : on[c] = sequence

Types == /\ pc \in [Calls -> {"off", "open", "download", "load", "ready", "queued",
                              "answered", "void", "rejected", "failed"}]
         /\ modelInitialized \in BOOLEAN /\ overlapped \in BOOLEAN
         /\ sequence \in Calls \cup {Nobody} /\ history \subseteq Calls
         /\ on \in [Calls -> Calls \cup {Nobody}]

IInv == Types /\ QueueInv /\ FileInv /\ ModelInv /\ NoLeak

-----------------------------------------------------------------------------
(* Queues *)

\* A call that is not waiting is appended.
LEMMA Appended ==
    ASSUME NEW q \in Seq(Calls), NoneTwice(q), NEW c \in Calls, c \notin Among(q)
    PROVE  /\ Append(q, c) \in Seq(Calls) /\ Append(q, c) # <<>>
           /\ NoneTwice(Append(q, c))
           /\ Among(Append(q, c)) = Among(q) \cup {c}
<1> DEFINE a == Append(q, c)
<1>1. /\ a \in Seq(Calls) /\ Len(a) = Len(q) + 1 /\ DOMAIN a = 1..(Len(q) + 1)
      /\ DOMAIN q = 1..Len(q)
      /\ \A i \in 1..Len(q) : a[i] = q[i]
      /\ a[Len(q) + 1] = c
  OBVIOUS
<1>2. a # <<>>
  BY <1>1
<1> HIDE DEF a
<1>3. NoneTwice(a)
  BY <1>1 DEF NoneTwice, Among
<1>4. Among(a) = Among(q) \cup {c}
  BY <1>1 DEF Among
<1> QED
  BY <1>1, <1>2, <1>3, <1>4 DEF a

\* The first of a queue is taken.
LEMMA Taken ==
    ASSUME NEW q \in Seq(Calls), NoneTwice(q), q # <<>>
    PROVE  /\ Head(q) \in Among(q) /\ Head(q) \in Calls
           /\ Tail(q) \in Seq(Calls) /\ NoneTwice(Tail(q))
           /\ Among(Tail(q)) = Among(q) \ {Head(q)}
<1> DEFINE t == Tail(q)
<1>1. /\ t \in Seq(Calls) /\ Len(q) > 0 /\ Len(t) = Len(q) - 1 /\ DOMAIN t = 1..(Len(q) - 1)
      /\ DOMAIN q = 1..Len(q) /\ Len(q) \in Nat
      /\ \A i \in 1..(Len(q) - 1) : t[i] = q[i + 1]
      /\ Head(q) = q[1]
  OBVIOUS
<1> HIDE DEF t
<1>2. NoneTwice(t)
  BY <1>1 DEF NoneTwice
<1>3. Among(t) \subseteq Among(q) \ {q[1]}
  BY <1>1 DEF NoneTwice, Among
<1>4. ASSUME NEW i \in DOMAIN q, q[i] # q[1] PROVE q[i] \in Among(t)
  <2>1. i - 1 \in DOMAIN t /\ t[i - 1] = q[i]
    BY <1>1, <1>4
  <2> QED
    BY <2>1 DEF Among
<1>5. Among(t) = Among(q) \ {q[1]}
  BY <1>3, <1>4 DEF Among
<1>6. q[1] \in Among(q) /\ q[1] \in Calls
  BY <1>1 DEF Among
<1> QED
  BY <1>1, <1>2, <1>5, <1>6 DEF t

\* As many calls wait as the queue is long.
LEMMA AsManyAsLong ==
    ASSUME NEW q \in Seq(Calls), NoneTwice(q)
    PROVE  Cardinality(Among(q)) = Len(q)
<1>1. DOMAIN q = 1..Len(q) /\ Len(q) \in Nat
  OBVIOUS
<1>2. q \in Bijection(1..Len(q), Among(q))
  <2>1. q \in [1..Len(q) -> Among(q)]
    BY <1>1 DEF Among
  <2>2. IsInjective(q)
    BY <1>1 DEF NoneTwice, IsInjective
  <2>3. \A t \in Among(q) : \E i \in 1..Len(q) : q[i] = t
    BY <1>1 DEF Among
  <2> QED
    BY <2>1, <2>2, <2>3 DEF Bijection, Injection, Surjection
<1>3. IsFiniteSet(1..Len(q)) /\ Cardinality(1..Len(q)) = Len(q)
  BY <1>1, FS_Interval
<1>4. Cardinality(Among(q)) = Cardinality(1..Len(q))
  BY <1>2, <1>3, FS_Bijection DEF ExistsBijection
<1> QED
  BY <1>3, <1>4

\* At most one is one or none.
LEMMA AtMostOne == ASSUME NEW S, \A a, b \in S : a = b
                   PROVE  Cardinality(S) <= 1
<1>1. CASE S = {}
  BY <1>1, FS_EmptySet
<1>2. ASSUME NEW a \in S PROVE Cardinality(S) <= 1
  <2>1. S = {a}
    OBVIOUS
  <2> QED
    BY <2>1, FS_Singleton
<1> QED
  BY <1>1, <1>2

-----------------------------------------------------------------------------
(* The steps *)

\* What neither touches the queue nor changes who is queued keeps QueueInv.
LEMMA QueueAlone ==
    ASSUME QueueInv, UNCHANGED <<messageQueue, running>>,
           \A d \in Calls : pc'[d] = "queued" <=> pc[d] = "queued"
    PROVE  QueueInv'
  BY DEF QueueInv

\* A call joins the queue, and is taken at once when nothing runs.
LEMMA EnqueueQueue ==
    ASSUME Types, QueueInv, NEW c \in Calls, modelInitialized, pc[c] # "queued",
           pc' = [pc EXCEPT ![c] = "queued"],
           ProcessQueue(Append(messageQueue, c))
    PROVE  /\ QueueInv' /\ on' \in [Calls -> Calls \cup {Nobody}]
           /\ \A d \in running' : on'[d] = sequence \/ (d \in running /\ on'[d] = on[d])
<1> DEFINE q == Append(messageQueue, c)
<1>1. c \notin Among(messageQueue) /\ c \notin running
  BY DEF QueueInv
<1>2. /\ q \in Seq(Calls) /\ q # <<>> /\ NoneTwice(q)
      /\ Among(q) = Among(messageQueue) \cup {c}
  BY <1>1, Appended DEF QueueInv
<1>3. {d \in Calls : pc'[d] = "queued"} = {d \in Calls : pc[d] = "queued"} \cup {c}
  BY DEF Types
<1>4. /\ Head(q) \in Among(q) /\ Head(q) \in Calls
      /\ Tail(q) \in Seq(Calls) /\ NoneTwice(Tail(q))
      /\ Among(Tail(q)) = Among(q) \ {Head(q)}
  BY <1>2, Taken
<1> HIDE DEF q
<1>5. CASE running = {}
  <2>1. /\ running' = {Head(q)} /\ messageQueue' = Tail(q)
        /\ on' = [on EXCEPT ![Head(q)] = sequence]
    BY <1>2, <1>5 DEF ProcessQueue, q
  <2>2. QueueInv'
    BY <1>2, <1>3, <1>4, <1>5, <2>1 DEF QueueInv
  <2> QED
    BY <1>4, <2>1, <2>2 DEF Types
<1>6. CASE running # {}
  <2>1. messageQueue' = q /\ UNCHANGED <<running, on>>
    BY <1>6 DEF ProcessQueue, q
  <2>2. QueueInv'
    BY <1>1, <1>2, <1>3, <1>6, <2>1 DEF QueueInv
  <2> QED
    BY <2>1, <2>2 DEF Types
<1> QED
  BY <1>5, <1>6

\* A completion ends, and the next one starts if there is one.
LEMMA ShiftQueue ==
    ASSUME Types, QueueInv, NEW c \in running, NEW p, p # "queued",
           pc' = [pc EXCEPT ![c] = p], Shift(c)
    PROVE  /\ QueueInv' /\ on' \in [Calls -> Calls \cup {Nobody}]
           /\ \A d \in running' : on'[d] = sequence
<1>1. running = {c} /\ c \in Calls /\ c \notin Among(messageQueue)
  BY DEF QueueInv
<1>2. {d \in Calls : pc'[d] = "queued"} = {d \in Calls : pc[d] = "queued"} \ {c}
  BY DEF Types
<1>3. Among(messageQueue) = {d \in Calls : pc'[d] = "queued"}
  BY <1>1, <1>2 DEF QueueInv
<1>4. CASE messageQueue # <<>>
  <2>1. /\ Head(messageQueue) \in Among(messageQueue) /\ Head(messageQueue) \in Calls
        /\ Tail(messageQueue) \in Seq(Calls) /\ NoneTwice(Tail(messageQueue))
        /\ Among(Tail(messageQueue)) = Among(messageQueue) \ {Head(messageQueue)}
    BY <1>4, Taken DEF QueueInv
  <2>2. /\ running' = {Head(messageQueue)} /\ messageQueue' = Tail(messageQueue)
        /\ on' = [on EXCEPT ![Head(messageQueue)] = sequence]
    BY <1>1, <1>4 DEF Shift
  <2>3. QueueInv'
    BY <1>3, <2>1, <2>2 DEF QueueInv
  <2> QED
    BY <2>1, <2>2, <2>3 DEF Types
<1>5. CASE messageQueue = <<>>
  <2>1. running' = {} /\ UNCHANGED <<messageQueue, on>>
    BY <1>1, <1>5 DEF Shift
  <2>2. QueueInv'
    BY <1>3, <1>5, <2>1 DEF QueueInv
  <2> QED
    BY <2>1, <2>2 DEF Types
<1> QED
  BY <1>4, <1>5

\* The file is there or not, nothing is queued, and no two calls initialise.
LEMMA InitIInv == Init => IInv
<1> SUFFICES ASSUME Init PROVE IInv
  OBVIOUS
<1>1. Types
  BY DEF Init, Types
<1>2. QueueInv
  BY DEF Init, QueueInv, NoneTwice, Among
<1>3. FileInv /\ ModelInv /\ NoLeak
  BY DEF Init, FileInv, ModelInv, NoLeak, Initialising
<1> QED
  BY <1>1, <1>2, <1>3 DEF IInv

\* Calling, initialising and completing keep the invariant.
LEMMA StepIInv == IInv /\ [Next]_vars => IInv'
<1> SUFFICES ASSUME IInv, [Next]_vars PROVE IInv'
  OBVIOUS
<1> USE DEF IInv
<1>1. ASSUME NEW c \in Calls, CallFirst(c) PROVE IInv'
  <2>1. PICK p \in {"open", "load"} : pc' = [pc EXCEPT ![c] = p]
    BY <1>1 DEF CallFirst, CheckModel, Goto
  <2>2. Types'
    BY <1>1, <2>1 DEF CallFirst, model, work, Types
  <2>3. QueueInv'
    BY <1>1, <2>1, QueueAlone DEF CallFirst, work, Types
  <2>4. FileInv'
    BY <1>1, <2>1 DEF CallFirst, model, Types, FileInv
  <2>5. Initialising' = Initialising \cup {c}
    BY <2>1 DEF Initialising, Types
  <2>6. ModelInv'
    BY <1>1, <2>1, <2>5 DEF CallFirst, Absent, work, Types, ModelInv
  <2>7. NoLeak'
    BY <1>1, <2>1 DEF CallFirst, Types, NoLeak
  <2> QED
    BY <2>2, <2>3, <2>4, <2>6, <2>7
<1>2. ASSUME NEW c \in Calls, Enqueue(c) PROVE IInv'
  <2>1. /\ pc[c] \in {"off", "ready"} /\ modelInitialized
        /\ pc' = [pc EXCEPT ![c] = "queued"]
        /\ ProcessQueue(Append(messageQueue, c))
        /\ UNCHANGED <<model, modelInitialized, sequence, history, overlapped>>
    BY <1>2 DEF Enqueue, Goto, ModelInv
  <2>2. /\ QueueInv' /\ on' \in [Calls -> Calls \cup {Nobody}]
        /\ \A d \in running' : on'[d] = sequence \/ (d \in running /\ on'[d] = on[d])
    BY <2>1, EnqueueQueue
  <2>3. Initialising' = Initialising
    BY <2>1 DEF Initialising, Types
  <2>4. Types' /\ FileInv'
    BY <2>1, <2>2 DEF model, Types, FileInv
  <2>5. ModelInv'
    BY <2>1, <2>2, <2>3 DEF Types, ModelInv
  <2>6. NoLeak'
    BY <2>1 DEF Types, NoLeak
  <2> QED
    BY <2>2, <2>4, <2>5, <2>6
<1>3. ASSUME NEW c \in Calls, Opened(c) PROVE IInv'
  <2>1. Initialising' = Initialising
    BY <1>3 DEF Opened, Goto, Initialising, Types
  <2>2. QueueInv'
    BY <1>3, QueueAlone DEF Opened, Goto, work, Types
  <2>3. Types' /\ FileInv'
    BY <1>3 DEF Opened, Goto, work, Types, FileInv
  <2>4. ModelInv'
    BY <1>3, <2>1 DEF Opened, Goto, work, Types, ModelInv
  <2>5. NoLeak'
    BY <1>3 DEF Opened, Goto, Types, NoLeak
  <2> QED
    BY <2>2, <2>3, <2>4, <2>5
<1>4. ASSUME NEW c \in Calls, Downloaded(c) PROVE IInv'
  <2>1. Initialising' = Initialising
    BY <1>4 DEF Downloaded, Goto, Initialising, Types
  <2>2. QueueInv'
    BY <1>4, QueueAlone DEF Downloaded, Goto, work, Types
  <2>3. file' \in {file, "partial", "whole"}
    BY <1>4 DEF Downloaded
  <2>4. Types' /\ FileInv'
    BY <1>4, <2>3 DEF Downloaded, Goto, work, Types, FileInv
  <2>5. ModelInv'
    BY <1>4, <2>1 DEF Downloaded, Goto, work, Types, ModelInv
  <2>6. NoLeak'
    BY <1>4 DEF Downloaded, Goto, Types, NoLeak
  <2> QED
    BY <2>2, <2>4, <2>5, <2>6
<1>5. ASSUME NEW c \in Calls, LoadModel(c) PROVE IInv'
  <2>1. c \in Initialising /\ Initialising' = Initialising \ {c}
    BY <1>5 DEF LoadModel, Goto, Initialising, Types
  <2>2. QueueInv'
    BY <1>5, QueueAlone DEF LoadModel, Goto, work, Types
  <2>3. Types' /\ FileInv'
    BY <1>5 DEF LoadModel, Goto, model, work, Types, FileInv
  <2>4. ModelInv'
    <3>1. \A d \in Calls : pc'[d] \in {"ready", "queued"} => modelInitialized'
      BY <1>5 DEF LoadModel
    <3>2. ASSUME ~overlapped PROVE Initialising' = {} /\ running' = {}
      <4>1. ~modelInitialized /\ Initialising' = {}
        BY <2>1, <3>2 DEF ModelInv
      <4>2. running = {}
        BY <4>1 DEF ModelInv, QueueInv
      <4> QED
        BY <1>5, <4>1, <4>2 DEF LoadModel, work
    <3> QED
      BY <1>5, <3>1, <3>2 DEF LoadModel, ModelInv
  <2>5. NoLeak'
    BY <1>5 DEF LoadModel, NoLeak
  <2> QED
    BY <2>2, <2>3, <2>4, <2>5
<1>6. ASSUME NEW c \in Calls, InitialiseFails(c) PROVE IInv'
  <2>1. c \in Initialising /\ pc' = [pc EXCEPT ![c] = "open"] /\ Initialising' = Initialising
    BY <1>6 DEF InitialiseFails, DeleteModel, CheckModel, Goto, Initialising, Types
  <2>2. QueueInv'
    BY <1>6, <2>1, QueueAlone DEF InitialiseFails, Initialising, work, Types
  <2>3. Types' /\ FileInv'
    BY <1>6, <2>1 DEF InitialiseFails, DeleteModel, work, Types, FileInv
  <2>4. ModelInv'
    BY <1>6, <2>1 DEF InitialiseFails, work, Types, ModelInv
  <2>5. NoLeak'
    BY <1>6, <2>1 DEF InitialiseFails, Initialising, Types, NoLeak
  <2> QED
    BY <2>2, <2>3, <2>4, <2>5
<1>7. ASSUME NEW c \in running, NEW p \in {"answered", "void", "rejected"},
             pc' = [pc EXCEPT ![c] = p], Shift(c),
             history' = {} \/ (history' \subseteq history \cup {c} /\ p # "answered"),
             UNCHANGED <<model, modelInitialized, sequence, overlapped>>
      PROVE  IInv'
  <2>1. /\ QueueInv' /\ on' \in [Calls -> Calls \cup {Nobody}]
        /\ \A d \in running' : on'[d] = sequence
    BY <1>7, ShiftQueue
  <2>2. c \in Calls /\ pc[c] = "queued"
    BY DEF QueueInv
  <2>3. Initialising' = Initialising
    BY <1>7, <2>2 DEF Initialising, Types
  <2>4. Types' /\ FileInv'
    BY <1>7, <2>1, <2>2 DEF model, Types, FileInv
  <2>5. ModelInv'
    BY <1>7, <2>1, <2>2, <2>3 DEF Types, ModelInv
  <2>6. NoLeak'
    BY <1>7, <2>2 DEF Types, NoLeak
  <2> QED
    BY <2>1, <2>4, <2>5, <2>6
<1>8. ASSUME NEW c \in Calls, Answer(c) PROVE IInv'
  BY <1>7, <1>8 DEF Answer, Goto, HistoryCleared
<1>9. ASSUME NEW c \in Calls, NoAnswer(c) PROVE IInv'
  <2>1. PICK p \in {"void", "rejected"} : pc' = [pc EXCEPT ![c] = p]
    BY <1>9 DEF NoAnswer, Goto
  <2>2. history' \subseteq history \cup {c}
    BY <1>9 DEF NoAnswer
  <2> QED
    BY <1>7, <1>9, <2>1, <2>2 DEF NoAnswer
<1>10. ASSUME NEW c \in Calls, DeletionFails(c) PROVE IInv'
  <2>1. Initialising' = Initialising \ {c}
    BY <1>10 DEF DeletionFails, Goto, Initialising, Types
  <2>2. QueueInv'
    BY <1>10, QueueAlone DEF DeletionFails, Goto, Initialising, work, Types
  <2>3. Types' /\ FileInv'
    BY <1>10 DEF DeletionFails, DeleteModel, Goto, work, Types, FileInv
  <2>4. ModelInv'
    BY <1>10, <2>1 DEF DeletionFails, Goto, work, Types, ModelInv
  <2>5. NoLeak'
    BY <1>10 DEF DeletionFails, Goto, Initialising, Types, NoLeak
  <2> QED
    BY <2>2, <2>3, <2>4, <2>5
<1>11. CASE UNCHANGED vars
  <2>1. UNCHANGED <<pc, file, writers, modelInitialized, sequence, history, messageQueue,
                    running, on, overlapped>>
    BY <1>11 DEF vars, model, work
  <2>2. Types' /\ FileInv' /\ NoLeak' /\ Initialising' = Initialising
    BY <2>1 DEF Types, FileInv, NoLeak, Initialising
  <2>3. QueueInv'
    BY <2>1, QueueAlone
  <2>4. ModelInv'
    BY <2>1, <2>2 DEF ModelInv
  <2> QED
    BY <2>2, <2>3, <2>4
<1> QED
  BY <1>1, <1>2, <1>3, <1>4, <1>5, <1>6, <1>8, <1>9, <1>10, <1>11
     DEF Next, Step

-----------------------------------------------------------------------------

\* In every state of the queue as many calls wait as messageQueue is long, exactly those
\* whose promise is open wait or run, and none waits while nothing runs (the loop of
\* processQueue is never left with a message behind).
THEOREM TypeCorrect == Spec => []TypeOK
<1>1. IInv => TypeOK
  <2> SUFFICES ASSUME IInv PROVE TypeOK
    OBVIOUS
  <2>1. Cardinality(Among(messageQueue)) = Len(messageQueue)
    BY AsManyAsLong DEF IInv, QueueInv
  <2>2. running \subseteq Calls
    BY DEF IInv, QueueInv
  <2> QED
    BY <2>1, <2>2 DEF IInv, Types, QueueInv, FileInv, TypeOK, Among
<1> QED
  BY <1>1, InitIInv, StepIInv, PTL DEF Spec

\* Completions never overlap, and unless two first calls have initialised the model side by
\* side, none has its sequence replaced while it runs.
THEOREM NeverDisturbed == Spec => []Undisturbed
<1>1. IInv => Undisturbed
  BY AtMostOne DEF IInv, QueueInv, ModelInv, Undisturbed
<1> QED
  BY <1>1, InitIInv, StepIInv, PTL DEF Spec

\* What an answered call said is never in the sequence of a later one.
THEOREM NothingLeaks == Spec => []NoLeak
<1>1. IInv => NoLeak
  BY DEF IInv
<1> QED
  BY <1>1, InitIInv, StepIInv, PTL DEF Spec

-----------------------------------------------------------------------------
(* The queue is a serial queue *)

\* The message that is completed, if any, and what each call has come to.
Serving == IF running = {} THEN Nobody ELSE CHOOSE c \in running : TRUE
Outcomes == [c \in Calls |-> Outcome(c)]

LEMMA ServingTheOne ==
    ASSUME NEW c \in running, QueueInv
    PROVE  running = {c} /\ Serving = c
  BY DEF QueueInv, Serving

\* A step of a call that neither is queued nor settles, nor becomes so, is a stutter.
LEMMA OutsideTheQueue ==
    ASSUME Types, NEW c \in Calls, NEW p \in {"open", "download", "load", "ready", "failed"},
           pc[c] \in {"off", "open", "download", "load", "ready"},
           pc' = [pc EXCEPT ![c] = p],
           UNCHANGED work
    PROVE  UNCHANGED Queue!vars
<1>1. \A d \in Calls : Outcome(d)' = Outcome(d)
  BY DEF Types, Outcome
<1> QED
  BY <1>1 DEF work, Queue!vars

\* A call that joins the queue is submitted, and served at once when nobody is.
LEMMA EnqueueSubmits ==
    ASSUME IInv, NEW c \in Calls, Enqueue(c)
    PROVE  Queue!Next
<1> USE DEF IInv
<1>1. /\ pc[c] \in {"off", "ready"} /\ modelInitialized
      /\ pc' = [pc EXCEPT ![c] = "queued"]
      /\ ProcessQueue(Append(messageQueue, c))
  BY DEF Enqueue, Goto, ModelInv
<1>2. c \notin Among(messageQueue) /\ c \notin running /\ c # Nobody
  BY <1>1, LlamaAssumption DEF QueueInv
<1>3. Outcomes' = Outcomes /\ Outcomes[c] = Nobody
  BY <1>1 DEF Types, Outcomes, Outcome
<1>4. c # Serving
  BY <1>2 DEF Serving
<1>5. \A i \in 1..Len(messageQueue) : messageQueue[i] # c
  BY <1>2 DEF QueueInv, Among
<1>6. Queue!Fresh(c)
  BY <1>3, <1>4, <1>5 DEF Queue!Fresh, Serving, Outcomes
<1>7. CASE running = {}
  <2>1. messageQueue = <<>>
    BY <1>7 DEF QueueInv
  <2>2. /\ Append(messageQueue, c) # <<>> /\ Head(Append(messageQueue, c)) = c
        /\ Tail(Append(messageQueue, c)) = <<>>
    BY <2>1
  <2>3. running' = {c} /\ messageQueue' = <<>>
    BY <1>1, <1>7, <2>2 DEF ProcessQueue
  <2>4. Serving = Nobody /\ Serving' = c
    BY <1>7, <2>3 DEF Serving
  <2>5. Queue!SubmitAndServe(c)
    BY <1>3, <1>6, <2>1, <2>3, <2>4 DEF Queue!SubmitAndServe, Serving, Outcomes
  <2> QED
    BY <2>5 DEF Queue!Next
<1>8. CASE running # {}
  <2>1. messageQueue' = Append(messageQueue, c) /\ running' = running
    BY <1>1, <1>8 DEF ProcessQueue
  <2>2. Serving' = Serving
    BY <2>1 DEF Serving
  <2>3. Queue!Submit(c)
    BY <1>3, <1>6, <2>1, <2>2 DEF Queue!Submit, Serving, Outcomes
  <2> QED
    BY <2>3 DEF Queue!Next
<1> QED
  BY <1>7, <1>8

\* A completion that ends answers its call, and the next is served if one waits.
LEMMA ShiftAnswers ==
    ASSUME IInv, NEW c \in running, NEW p \in {"answered", "void", "rejected"},
           pc' = [pc EXCEPT ![c] = p], Shift(c)
    PROVE  Queue!Next
<1> USE DEF IInv
<1>1. running = {c} /\ Serving = c /\ c \in Calls /\ c # Nobody
  BY ServingTheOne, LlamaAssumption DEF QueueInv
<1>2. Outcomes' = [Outcomes EXCEPT ![Serving] = p]
  BY <1>1 DEF Types, Outcomes, Outcome
<1>3. CASE messageQueue = <<>>
  <2>1. running' = {} /\ messageQueue' = messageQueue
    BY <1>1, <1>3 DEF Shift
  <2>2. Serving' = Nobody
    BY <2>1 DEF Serving
  <2>3. Queue!Answer(p)
    BY <1>1, <1>2, <2>1, <2>2 DEF Queue!Answer, Serving, Outcomes
  <2> QED
    BY <2>3 DEF Queue!Next
<1>4. CASE messageQueue # <<>>
  <2>1. running' = {Head(messageQueue)} /\ messageQueue' = Tail(messageQueue)
    BY <1>1, <1>4 DEF Shift
  <2>2. Serving' = Head(messageQueue)
    BY <2>1 DEF Serving
  <2>3. Queue!AnswerAndServe(p)
    BY <1>1, <1>2, <1>4, <2>1, <2>2 DEF Queue!AnswerAndServe, Serving, Outcomes
  <2> QED
    BY <2>3 DEF Queue!Next
<1> QED
  BY <1>3, <1>4

\* Every step is one of the abstract queue or leaves it alone.
LEMMA StepQueue == IInv /\ [Next]_vars => [Queue!Next]_(Queue!vars)
<1> SUFFICES ASSUME IInv, [Next]_vars PROVE [Queue!Next]_(Queue!vars)
  OBVIOUS
<1>1. ASSUME NEW c \in Calls, CallFirst(c) PROVE UNCHANGED Queue!vars
  BY <1>1, OutsideTheQueue DEF CallFirst, CheckModel, Goto, IInv
<1>2. ASSUME NEW c \in Calls, Opened(c) PROVE UNCHANGED Queue!vars
  BY <1>2, OutsideTheQueue DEF Opened, Goto, IInv
<1>3. ASSUME NEW c \in Calls, Downloaded(c) PROVE UNCHANGED Queue!vars
  BY <1>3, OutsideTheQueue DEF Downloaded, Goto, IInv
<1>4. ASSUME NEW c \in Calls, LoadModel(c) PROVE UNCHANGED Queue!vars
  BY <1>4, OutsideTheQueue DEF LoadModel, Goto, IInv
<1>5. ASSUME NEW c \in Calls, InitialiseFails(c) PROVE UNCHANGED Queue!vars
  BY <1>5, OutsideTheQueue DEF InitialiseFails, CheckModel, Goto, Initialising, IInv
<1>6. ASSUME NEW c \in Calls, DeletionFails(c) PROVE UNCHANGED Queue!vars
  BY <1>6, OutsideTheQueue DEF DeletionFails, Goto, Initialising, IInv
<1>7. ASSUME NEW c \in Calls, Answer(c) PROVE Queue!Next
  BY <1>7, ShiftAnswers DEF Answer, Goto
<1>8. ASSUME NEW c \in Calls, NoAnswer(c) PROVE Queue!Next
  BY <1>8, ShiftAnswers DEF NoAnswer, Goto
<1>9. CASE UNCHANGED vars
  <2>1. UNCHANGED <<pc, messageQueue, running>>
    BY <1>9 DEF vars, work
  <2> QED
    BY <2>1 DEF Queue!vars, Outcome
<1> QED
  BY <1>1, <1>2, <1>3, <1>4, <1>5, <1>6, <1>7, <1>8, <1>9, EnqueueSubmits
     DEF Next, Step

\* LlamaService implements SerialQueue: for any number of calls, messages are completed one
\* by one in the order they were queued, whatever calls initialise the model meanwhile, and
\* each promise settles once.
THEOREM ServesInOrder == Spec => IsSerialQueue
<1>1. Init => Queue!Init
  BY DEF Init, Queue!Init, Outcome
<1> QED
  BY <1>1, InitIInv, StepIInv, StepQueue, PTL DEF Spec, IsSerialQueue, Queue!Spec

-----------------------------------------------------------------------------
(* What the callers of the queue may rely on *)

\* Whoever waits is not being completed, and whoever is being completed is not settled.
LEMMA NotYetServed ==
    ASSUME IInv
    PROVE  /\ \A i \in 1..Len(messageQueue) : messageQueue[i] \in Calls
                                              /\ messageQueue[i] # Serving
           /\ Serving # Nobody => Serving \in Calls /\ Outcomes[Serving] = Nobody
<1> USE DEF IInv
<1>1. ASSUME NEW i \in 1..Len(messageQueue)
      PROVE  messageQueue[i] \in Calls /\ messageQueue[i] # Serving
  <2>1. messageQueue[i] \in Among(messageQueue) /\ messageQueue[i] \in Calls
    BY DEF QueueInv, Among
  <2>2. messageQueue[i] \notin running /\ messageQueue[i] # Nobody
    BY <2>1, LlamaAssumption DEF QueueInv
  <2> QED
    BY <2>1, <2>2 DEF Serving
<1>2. ASSUME Serving # Nobody PROVE Serving \in Calls /\ Outcomes[Serving] = Nobody
  <2>1. Serving \in running
    BY <1>2 DEF Serving
  <2>2. Serving \in Calls /\ pc[Serving] = "queued"
    BY <2>1 DEF QueueInv
  <2> HIDE DEF IInv
  <2> QED
    BY <2>2 DEF Outcomes, Outcome
<1> QED
  BY <1>1, <1>2

\* The places of a queue behind a call that is added, and after the first is taken.
LEMMA Places ==
    ASSUME NEW q \in Seq(Calls), NEW c \in Calls
    PROVE  /\ Len(q) \in Nat /\ DOMAIN q = 1..Len(q)
           /\ Len(Append(q, c)) = Len(q) + 1
           /\ \A i \in 1..Len(q) : Append(q, c)[i] = q[i]
           /\ q # <<>> => /\ Len(q) > 0 /\ Head(q) = q[1]
                          /\ Len(Tail(q)) = Len(q) - 1
                          /\ \A i \in 1..(Len(q) - 1) : Tail(q)[i] = q[i + 1]
  OBVIOUS

\* No step of the abstract queue lets a call overtake those ahead of it.
LEMMA StepInTurn ==
    ASSUME IInv, [Queue!Next]_(Queue!vars), NEW r \in Calls, NEW q \in Calls,
           Queue!Ahead(r, q)
    PROVE  /\ Serving' # q
           /\ Queue!Ahead(r, q)' \/ (Serving' = r /\ Queue!Waits(q)')
<1>1. PICK i \in 1..Len(messageQueue), j \in 1..Len(messageQueue) :
             i < j /\ messageQueue[i] = r /\ messageQueue[j] = q
  BY DEF Queue!Ahead
<1>2. /\ messageQueue \in Seq(Calls) /\ messageQueue # <<>>
      /\ q # Nobody /\ Serving # q /\ NoneTwice(messageQueue)
  BY <1>1, NotYetServed, LlamaAssumption DEF IInv, QueueInv
<1>3. CASE messageQueue' = messageQueue /\ Serving' \in {Serving, Nobody}
  BY <1>1, <1>2, <1>3 DEF Queue!Ahead
<1>4. ASSUME NEW c \in Calls, messageQueue' = Append(messageQueue, c), Serving' = Serving
      PROVE  Serving' # q /\ Queue!Ahead(r, q)'
  <2>1. /\ i \in 1..Len(messageQueue') /\ j \in 1..Len(messageQueue')
        /\ messageQueue'[i] = r /\ messageQueue'[j] = q
    BY <1>1, <1>2, <1>4, Places
  <2> QED
    BY <1>1, <1>2, <1>4, <2>1 DEF Queue!Ahead
<1>5. CASE Serving' = Head(messageQueue) /\ messageQueue' = Tail(messageQueue)
  <2>1. /\ Serving' = messageQueue[1] /\ DOMAIN messageQueue = 1..Len(messageQueue)
        /\ Len(messageQueue) \in Nat /\ Len(messageQueue') = Len(messageQueue) - 1
        /\ \A k \in 1..(Len(messageQueue) - 1) : messageQueue'[k] = messageQueue[k + 1]
    BY <1>2, <1>5, Places
  <2>2. /\ Serving' # q
        /\ j - 1 \in 1..Len(messageQueue') /\ messageQueue'[j - 1] = q
    BY <1>1, <1>2, <2>1 DEF NoneTwice
  <2>3. CASE i = 1
    BY <1>1, <2>1, <2>2, <2>3 DEF Queue!Waits
  <2>4. CASE i # 1
    <3>1. i - 1 \in 1..Len(messageQueue') /\ messageQueue'[i - 1] = r /\ i - 1 < j - 1
      BY <1>1, <2>1, <2>4
    <3> QED
      BY <2>2, <3>1 DEF Queue!Ahead
  <2> QED
    BY <2>2, <2>3, <2>4
<1>6. \/ messageQueue' = messageQueue /\ Serving' \in {Serving, Nobody}
      \/ \E c \in Calls : messageQueue' = Append(messageQueue, c) /\ Serving' = Serving
      \/ Serving' = Head(messageQueue) /\ messageQueue' = Tail(messageQueue)
  BY <1>2 DEF Queue!Next, Queue!vars, Queue!Submit, Queue!SubmitAndServe, Queue!Serve,
              Queue!Answer, Queue!AnswerAndServe, Serving
<1> QED
  BY <1>3, <1>4, <1>5, <1>6

\* No message is completed before one that was queued earlier.
THEOREM NobodyOvertakes == Spec => Queue!FirstComeFirstServed
<1>1. IInv /\ [Next]_vars
        => \A r, q \in Calls :
             Queue!Ahead(r, q) => /\ Serving' # q
                                  /\ Queue!Ahead(r, q)' \/ (Serving' = r /\ Queue!Waits(q)')
  BY StepQueue, StepInTurn
<1> QED
  BY <1>1, InitIInv, StepIInv, PTL DEF Spec, Queue!FirstComeFirstServed, Serving

\* The promise of a call is settled once.
THEOREM SettledForGood == Spec => Queue!AnswersStand
<1>1. ASSUME IInv, [Queue!Next]_(Queue!vars), NEW c \in Calls, Outcomes[c] # Nobody
      PROVE  Outcomes'[c] = Outcomes[c]
  <2>1. c # Serving \/ Serving = Nobody
    BY <1>1, NotYetServed
  <2>2. \/ Outcomes' = Outcomes
        \/ Serving # Nobody /\ \E a : Outcomes' = [Outcomes EXCEPT ![Serving] = a]
    BY <1>1 DEF Queue!Next, Queue!vars, Queue!Submit, Queue!SubmitAndServe, Queue!Serve,
                Queue!Answer, Queue!AnswerAndServe, Serving, Outcomes
  <2> QED
    BY <2>1, <2>2 DEF Outcomes
<1>2. IInv /\ [Next]_vars
        => \A r \in Calls : [c \in Calls |-> Outcome(c)][r] # Nobody
                              => [c \in Calls |-> Outcome(c)]'[r]
                                   = [c \in Calls |-> Outcome(c)][r]
  BY <1>1, StepQueue DEF Outcomes
<1> QED
  BY <1>2, InitIInv, StepIInv, PTL DEF Spec, Queue!AnswersStand
=============================================================================
