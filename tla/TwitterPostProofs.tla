-------------------------- MODULE TwitterPostProofs --------------------------
(***************************************************************************)
(* Proofs about the two parts of post.ts: TwitterPosts, for any interval   *)
(* between posts, any time a post may take and any number of restarts, and *)
(* TwitterActions, for any timeline and any number of crashes.  (The       *)
(* parts run side by side with no state in common; that both have          *)
(* variables pc and restarts does not relate them.)                        *)
(***************************************************************************)
EXTENDS TwitterPosts, Timeline, TLAPS

VARIABLES isProcessing, todo, cur, plan, serviceUp

A == INSTANCE TwitterActions

-----------------------------------------------------------------------------
(* The scheduler of the agent's own tweets *)

\* The immediate tweet of start() comes before both loops, which live as long as the process.
Phases == /\ pc["start"] \in {"off", "post", "store"}
          /\ pc["start"] # "off" => \A l \in Loops : pc[l] = "off"
          /\ ~running => \A t \in Threads : pc[t] = "off"
          /\ running /\ pc["start"] = "off" => \A l \in Loops : pc[l] # "off"

\* What is recorded was sent at most the time of a post before; and until something fails,
\* a loop that reads, sleeps or posts does so early enough.
QuietInv ==
    /\ recorded = MaxDelay + 1 \/ quiet <= recorded + PostTime
    /\ \A t \in Threads :
          /\ pc[t] = "store" => quiet + timer[t] <= PostTime
          /\ pc[t] = "post" => timer[t] <= PostTime
          /\ ~failed => /\ pc[t] # "dead"
                        /\ pc[t] = "read" => quiet <= 2 * MaxDelay + PostTime
                        /\ pc[t] = "sleep" => quiet + timer[t] <= 2 * MaxDelay + PostTime
                        /\ pc[t] = "post" => quiet + timer[t] <= Longest

Old(i) == ages[i] >= MinDelay
Covered(i) == Old(i) \/ recorded <= ages[i]

\* Only tweets whose thread has yet to record them are newer than the record; hence whoever
\* is about to post finds the tweet before the last one old, and the last one too if another
\* is about to post as well.
BurstInv ==
    /\ ages[1] <= ages[2] /\ ages[2] <= ages[3]
    /\ ~blind => /\ Old(3)
                 /\ \A t \in Threads : pc[t] = "post" => Old(2)
                 /\ \A t, u \in Threads : pc[t] = "post" /\ pc[u] = "post" /\ t # u => Old(1)
                 /\ (\A t \in Threads : pc[t] # "store") => Covered(1)
                 /\ (\E t \in Threads : \A u \in Threads \ {t} : pc[u] # "store")
                       => Covered(2)

IInv == TypeOK /\ Phases /\ QuietInv /\ BurstInv

-----------------------------------------------------------------------------

LEMMA InitIInv == Init => IInv
<1> SUFFICES ASSUME Init PROVE IInv
  OBVIOUS
<1> USE IntervalAssumption DEF Init, Threads, Loops, Longest
<1>1. TypeOK
  <2>1. /\ 0 \in 0..MaxDelay /\ 0 \in 0..(MaxDelay + PostTime) /\ 0 \in 0..(Longest + 1)
        /\ MaxDelay + 1 \in 0..(MaxDelay + 1) /\ MinDelay \in 0..MinDelay
        /\ 0 \in 0..MaxRestarts
    OBVIOUS
  <2>2. pc \in [Threads -> {"off", "read", "post", "store", "sleep", "dead"}]
    OBVIOUS
  <2>3. /\ delay \in [Loops -> 0..MaxDelay] /\ timer \in [Threads -> 0..(MaxDelay + PostTime)]
        /\ ages \in [1..3 -> 0..MinDelay]
    BY <2>1
  <2> QED
    BY <2>1, <2>2, <2>3 DEF TypeOK
<1>2. Phases /\ QuietInv
  BY DEF Phases, QuietInv
<1>3. BurstInv
  BY DEF BurstInv, Old, Covered
<1> QED
  BY <1>1, <1>2, <1>3 DEF IInv

\* The process starts.
LEMMA BootIInv == ASSUME IInv, NEW immediately \in PostImmediately, Boot(immediately)
                  PROVE  IInv'
<1> USE IntervalAssumption DEF IInv, Boot, Threads, Loops
<1>1. TypeOK'
  <2>1. blind' \in BOOLEAN
    BY DEF TypeOK
  <2>2. /\ pc' \in [Threads -> {"off", "read", "post", "store", "sleep", "dead"}]
        /\ timer' \in [Threads -> 0..(MaxDelay + PostTime)]
    BY DEF TypeOK
  <2>3. quiet' \in 0..(Longest + 1)
    BY DEF Longest
  <2> QED
    BY <2>1, <2>2, <2>3 DEF TypeOK
<1>2. Phases'
  BY DEF TypeOK, Phases
<1>3. QuietInv'
  BY DEF TypeOK, Phases, QuietInv, Longest
<1>4. BurstInv'
  BY DEF TypeOK, Phases, BurstInv, Old, Covered
<1> QED
  BY <1>1, <1>2, <1>3, <1>4

\* The process ends, by itself or of an error nobody caught.
LEMMA ExitIInv == ASSUME IInv, Exit, UNCHANGED <<delay, recorded, ages, quiet>>,
                         failed' \in BOOLEAN, restarts' \in 0..MaxRestarts
                  PROVE  IInv'
<1> USE IntervalAssumption DEF IInv, Exit, Threads, Loops
<1>1. TypeOK'
  <2>1. blind' \in BOOLEAN
    BY DEF TypeOK
  <2>2. /\ pc' \in [Threads -> {"off", "read", "post", "store", "sleep", "dead"}]
        /\ timer' \in [Threads -> 0..(MaxDelay + PostTime)]
    BY DEF TypeOK
  <2> QED
    BY <2>1, <2>2 DEF TypeOK
<1>2. Phases' /\ QuietInv'
  BY DEF TypeOK, Phases, QuietInv
<1>3. BurstInv'
  BY DEF TypeOK, BurstInv, Old, Covered
<1> QED
  BY <1>1, <1>2, <1>3

LEMMA CrashIInv == ASSUME IInv, Crash PROVE IInv'
  BY ExitIInv, IntervalAssumption DEF IInv, TypeOK, Crash

\* A read is refused.
LEMMA ThrowIInv == ASSUME IInv, NEW l \in Loops, Throw(l) PROVE IInv'
<1> USE IntervalAssumption DEF IInv, Throw
<1>1. CASE Exit
  BY <1>1, ExitIInv DEF TypeOK
<1>2. CASE pc' = [pc EXCEPT ![l] = "dead"] /\ UNCHANGED <<running, timer, blind>>
  <2>1. TypeOK'
    BY <1>2 DEF TypeOK, Threads
  <2>2. Phases'
    BY <1>2 DEF TypeOK, Phases, Threads, Loops
  <2>3. QuietInv'
    BY <1>2 DEF TypeOK, QuietInv, Threads, Loops
  <2>4. BurstInv'
    BY <1>2 DEF TypeOK, BurstInv, Old, Covered, Threads, Loops
  <2> QED
    BY <2>1, <2>2, <2>3, <2>4
<1> QED
  BY <1>1, <1>2

\* A loop reads the record: a tweet follows only if that is older than the delay.
LEMMA ReadIInv ==
    ASSUME IInv, NEW l \in Loops, NEW d \in MinDelay..MaxDelay, NEW lost \in BOOLEAN,
           Read(l, d, lost)
    PROVE  IInv'
<1> USE IntervalAssumption DEF IInv, Read
<1>1. /\ l \in Threads /\ pc[l] = "read" /\ pc["start"] = "off" /\ running
      /\ d \in 0..MaxDelay /\ MinDelay <= d
  BY DEF TypeOK, Phases, Threads, Loops
<1>2. TypeOK'
  BY <1>1 DEF TypeOK, Threads, Loops
<1>3. Phases'
  BY <1>1 DEF TypeOK, Phases, Threads, Loops
<1>4. QuietInv'
  BY <1>1 DEF TypeOK, QuietInv, Longest
<1>5. BurstInv'
  BY <1>1 DEF TypeOK, BurstInv, Old, Covered, Threads, Loops
<1> QED
  BY <1>2, <1>3, <1>4, <1>5

\* A tweet is sent.
LEMMA SendIInv == ASSUME IInv, NEW t \in Threads, Send(t) PROVE IInv'
<1> USE IntervalAssumption DEF IInv, Send
<1>1. ages'[1] = 0 /\ ages'[2] = ages[1] /\ ages'[3] = ages[2]
  OBVIOUS
<1>2. TypeOK'
  BY DEF TypeOK, Longest
<1>3. Phases'
  BY DEF TypeOK, Phases, Threads, Loops
<1>4. QuietInv'
  BY DEF TypeOK, QuietInv, Longest
<1>5. BurstInv'
  BY <1>1 DEF TypeOK, Phases, BurstInv, Old, Covered, Threads, Loops
<1> QED
  BY <1>2, <1>3, <1>4, <1>5

\* generateNewTweet() returns, the tweet recorded or not.
LEMMA ReturnIInv ==
    ASSUME IInv, NEW t \in Threads, Return(t),
           UNCHANGED <<running, delay, ages, quiet, restarts>>,
           \/ /\ pc[t] = "store"
              /\ recorded' = 0 /\ UNCHANGED <<blind, failed>>
           \/ /\ pc[t] \in {"post", "store"}
              /\ recorded' = recorded /\ blind' = (blind \/ pc[t] = "store") /\ failed' = TRUE
    PROVE  IInv'
<1> USE IntervalAssumption DEF IInv, Return
<1>1. TypeOK'
  <2>1. blind' \in BOOLEAN /\ failed' \in BOOLEAN
    BY DEF TypeOK
  <2>2. recorded' \in 0..(MaxDelay + 1)
    BY DEF TypeOK
  <2>3. /\ pc' \in [Threads -> {"off", "read", "post", "store", "sleep", "dead"}]
        /\ timer' \in [Threads -> 0..(MaxDelay + PostTime)]
    BY DEF TypeOK, Threads, Loops
  <2> QED
    BY <2>1, <2>2, <2>3 DEF TypeOK
<1>2. Phases'
  BY DEF TypeOK, Phases, Threads, Loops
<1>3. QuietInv'
  BY DEF TypeOK, QuietInv, Threads, Loops, Longest
<1>4. BurstInv'
  <2>1. /\ \A u \in Threads : pc'[u] = "post" => pc[u] = "post"
        /\ \A u \in Threads : pc[u] = "store" /\ pc'[u] # "store" => u = t
    BY DEF TypeOK, Phases, Threads, Loops
  <2>2. CASE recorded' = 0
    BY <2>1, <2>2 DEF TypeOK, BurstInv, Old, Covered
  <2>3. CASE recorded' = recorded /\ blind'
    BY <2>3 DEF TypeOK, BurstInv
  <2>4. CASE recorded' = recorded /\ ~blind' /\ ~blind /\ pc[t] = "post"
    BY <2>1, <2>4 DEF TypeOK, BurstInv, Old, Covered
  <2> QED
    BY <2>2, <2>3, <2>4 DEF TypeOK
<1> QED
  BY <1>1, <1>2, <1>3, <1>4

LEMMA WakeIInv == ASSUME IInv, NEW l \in Loops, Wake(l) PROVE IInv'
<1> USE IntervalAssumption DEF IInv, Wake, ghosts
<1>1. TypeOK'
  BY DEF TypeOK
<1>2. Phases'
  BY DEF TypeOK, Phases, Threads, Loops
<1>3. QuietInv'
  BY DEF TypeOK, QuietInv, Threads, Loops
<1>4. BurstInv'
  BY DEF TypeOK, BurstInv, Old, Covered, Threads, Loops
<1> QED
  BY <1>1, <1>2, <1>3, <1>4

\* Time passes.
LEMMA TickIInv == ASSUME IInv, Tick PROVE IInv'
<1> USE IntervalAssumption DEF IInv, Tick, Older, Alive
<1>1. /\ recorded' = IF recorded > MaxDelay THEN recorded ELSE recorded + 1
      /\ quiet' <= quiet + 1 /\ quiet' \in 0..(Longest + 1)
  BY DEF TypeOK, Longest
<1>2. \A i \in 1..3 : ages'[i] = IF ages[i] > MinDelay - 1 THEN ages[i] ELSE ages[i] + 1
  OBVIOUS
<1>3. \A t \in Threads : IF pc[t] \in {"off", "dead"} THEN timer'[t] = 0
                         ELSE pc[t] # "read" /\ timer[t] > 0 /\ timer'[t] = timer[t] - 1
  OBVIOUS
<1>4. TypeOK'
  BY <1>1, <1>2, <1>3 DEF TypeOK
<1>5. Phases'
  BY DEF Phases
<1>6. QuietInv'
  BY <1>1, <1>3 DEF TypeOK, QuietInv, Longest
<1>7. BurstInv'
  BY <1>1, <1>2 DEF TypeOK, BurstInv, Old, Covered
<1> QED
  BY <1>4, <1>5, <1>6, <1>7

LEMMA StepIInv == IInv /\ [Next]_vars => IInv'
<1> SUFFICES ASSUME IInv, [Next]_vars PROVE IInv'
  OBVIOUS
<1>1. ASSUME NEW t \in Threads, Step(t) PROVE IInv'
  <2>1. CASE Store(t)
    BY <2>1, ReturnIInv DEF Store, ghosts
  <2>2. CASE GiveUp(t)
    BY <2>2, ReturnIInv DEF GiveUp
  <2> QED
    BY <1>1, <2>1, <2>2, SendIInv DEF Step
<1>2. ASSUME NEW l \in Loops, Iterate(l) PROVE IInv'
  BY <1>2, WakeIInv, ReadIInv DEF Iterate
<1>3. CASE UNCHANGED vars
  BY <1>3 DEF vars, ghosts, IInv, TypeOK, Phases, QuietInv, BurstInv, Old, Covered
<1> QED
  BY <1>1, <1>2, <1>3, BootIInv, CrashIInv, ThrowIInv, TickIInv DEF Next

-----------------------------------------------------------------------------

\* No timer runs longer than the longest delay and a post, nor is any age below zero.
THEOREM TypeCorrect == Spec => []TypeOK
<1>1. IInv => TypeOK
  BY DEF IInv
<1> QED
  BY <1>1, InitIInv, StepIInv, PTL DEF Spec

\* While nothing fails, the agent is never silent for longer than twice the longest delay
\* and post.
THEOREM NeverQuietForLong == Spec => []QuietBounded
<1>1. IInv => QuietBounded
  <2> SUFFICES ASSUME IInv, running, ~failed PROVE quiet <= Longest
    BY DEF QuietBounded
  <2>1. \E t \in Threads : pc[t] # "off"
    BY DEF IInv, Phases, Threads, Loops
  <2> QED
    BY <2>1, IntervalAssumption DEF IInv, TypeOK, QuietInv, Longest
<1> QED
  BY <1>1, InitIInv, StepIInv, PTL DEF Spec

\* Two loops and the tweet of start() never send three tweets within the shortest delay,
\* unless one was not recorded or the record not read.
THEOREM NeverThreeAtOnce == Spec => []NoBurst
<1>1. IInv => NoBurst
  BY DEF IInv, BurstInv, Old, NoBurst
<1> QED
  BY <1>1, InitIInv, StepIInv, PTL DEF Spec

-----------------------------------------------------------------------------
(* The loop over the home timeline *)

\* What has been said of a tweet is said once, and the tweet has a memory: why a
\* pass cut short before the final createMemory does not repeat it.
SaidIsRecorded ==
    \A t \in Tweets : /\ quotes[t] <= 1 /\ answers[t] <= 1
                      /\ quotes[t] > 0 \/ answers[t] > 0 => t \in memories

\* What is still planned for the tweet of the loop has not been said of it.
PlannedIsUnsaid ==
    /\ pc \in {"check", "decide", "act", "insert", "generate"} => cur \in Tweets
    /\ pc = "decide" => quotes[cur] = 0 /\ answers[cur] = 0
    /\ pc \in {"act", "insert", "generate"}
         => /\ "quote" \in plan => quotes[cur] = 0
            /\ "reply" \in plan => answers[cur] = 0
    /\ pc \in {"insert", "generate"} => A!Current \in plan
    /\ pc = "generate" => cur \in memories

\* The inductive invariant.
ActionsInv == A!TypeOK /\ SaidIsRecorded /\ PlannedIsUnsaid

-----------------------------------------------------------------------------

LEMMA InitActions == A!Init => ActionsInv
<1> SUFFICES ASSUME A!Init PROVE ActionsInv
  OBVIOUS
<1>1. isProcessing = (pc \notin {"off", "run", "pause", "backoff"})
  BY DEF A!Init
<1>2. quotes \in [Tweets -> Nat] /\ answers \in [Tweets -> Nat] /\ restarts \in 0..MaxRestarts
  BY IntervalAssumption DEF A!Init
<1>3. SaidIsRecorded /\ PlannedIsUnsaid
  BY DEF A!Init, SaidIsRecorded, PlannedIsUnsaid
<1> QED
  BY <1>1, <1>2, <1>3 DEF A!Init, ActionsInv, A!TypeOK

\* The next tweet of the loop, or the end of the pass.
LEMMA ContinueSafe ==
    ASSUME A!TypeOK, isProcessing, NEW rest \in SUBSET Tweets, A!Continue(rest)
    PROVE  /\ isProcessing' = (pc' \notin {"off", "run", "pause", "backoff"})
           /\ todo' \subseteq Tweets /\ plan' = {}
           /\ cur' \in Tweets \cup {A!NoTweet}
           /\ pc' = "pause" \/ (pc' = "check" /\ cur' \in Tweets)
<1>1. CASE rest = {}
  BY <1>1 DEF A!Continue, A!End
<1>2. CASE rest # {}
  BY <1>2 DEF A!Continue
<1> QED
  BY <1>1, <1>2

\* Every step of the loop keeps the invariant.
LEMMA LoopActions == ActionsInv /\ A!Step => ActionsInv'
<1> SUFFICES ASSUME ActionsInv, A!Step PROVE ActionsInv'
  OBVIOUS
<1> USE DEF ActionsInv
<1>1. CASE A!Run
  BY <1>1 DEF A!Run, A!durable, A!TypeOK, SaidIsRecorded, PlannedIsUnsaid
<1>2. CASE A!Fetch
  <2>1. CASE serviceUp
    BY <1>2, <2>1, ContinueSafe
       DEF A!Fetch, A!durable, A!TypeOK, SaidIsRecorded, PlannedIsUnsaid
  <2>2. CASE ~serviceUp
    BY <1>2, <2>2 DEF A!Fetch, A!End, A!durable, A!TypeOK, SaidIsRecorded, PlannedIsUnsaid
  <2> QED
    BY <2>1, <2>2
<1>3. CASE A!Check
  <2>1. CASE A!Continue(todo)
    BY <1>3, <2>1, ContinueSafe
       DEF A!Check, A!durable, A!TypeOK, SaidIsRecorded, PlannedIsUnsaid
  <2>2. CASE cur \notin memories /\ pc' = "decide" /\ UNCHANGED <<isProcessing, todo, cur, plan>>
    BY <1>3, <2>2 DEF A!Check, A!durable, A!TypeOK, SaidIsRecorded, PlannedIsUnsaid
  <2> QED
    BY <1>3, <2>1, <2>2 DEF A!Check
<1>4. CASE A!Decide
  BY <1>4 DEF A!Decide, A!durable, A!TypeOK, SaidIsRecorded, PlannedIsUnsaid
<1>5. CASE A!Like
  BY <1>5 DEF A!Like, A!durable, A!TypeOK, SaidIsRecorded, PlannedIsUnsaid
<1>6. CASE A!Thread
  BY <1>6
     DEF A!Thread, A!NextAct, A!Current, A!Acts, A!Said, A!durable, A!TypeOK, SaidIsRecorded,
              PlannedIsUnsaid
<1>7. CASE A!Insert
  BY <1>7 DEF A!Insert, A!NextAct, A!Current, A!TypeOK, SaidIsRecorded, PlannedIsUnsaid
<1>8. CASE A!Empty
  BY <1>8 DEF A!Empty, A!End, A!NextAct, A!Current, A!durable, A!TypeOK, SaidIsRecorded,
              PlannedIsUnsaid
<1>9. CASE A!Send
  BY <1>9 DEF A!Send, A!NextAct, A!Current, A!TypeOK, SaidIsRecorded, PlannedIsUnsaid
<1>10. CASE A!Record
  BY <1>10, ContinueSafe DEF A!Record, A!TypeOK, SaidIsRecorded, PlannedIsUnsaid
<1>11. CASE A!Wake
  BY <1>11 DEF A!Wake, A!durable, A!TypeOK, SaidIsRecorded, PlannedIsUnsaid
<1> QED
  BY <1>1, <1>2, <1>3, <1>4, <1>5, <1>6, <1>7, <1>8, <1>9, <1>10, <1>11 DEF A!Step

LEMMA StepActions == ActionsInv /\ [A!Next]_(A!vars) => ActionsInv'
<1> SUFFICES ASSUME ActionsInv, [A!Next]_(A!vars) PROVE ActionsInv'
  OBVIOUS
<1> USE DEF ActionsInv
<1>1. CASE A!Boot
  BY <1>1 DEF A!Boot, A!durable, A!TypeOK, SaidIsRecorded, PlannedIsUnsaid
<1>2. CASE A!Crash
  <2>1. isProcessing' = (pc' \notin {"off", "run", "pause", "backoff"})
    BY <1>2 DEF A!Crash
  <2>2. restarts' \in 0..MaxRestarts
    BY <1>2, IntervalAssumption DEF A!Crash, A!TypeOK
  <2>3. SaidIsRecorded' /\ PlannedIsUnsaid'
    BY <1>2 DEF A!Crash, A!durable, SaidIsRecorded, PlannedIsUnsaid
  <2> QED
    BY <1>2, <2>1, <2>2, <2>3 DEF A!Crash, A!durable, A!TypeOK
<1>3. CASE A!Outage
  BY <1>3 DEF A!Outage, A!durable, A!TypeOK, SaidIsRecorded, PlannedIsUnsaid, A!Current
<1>4. ASSUME NEW t \in Tweets, A!StoredElsewhere(t) PROVE ActionsInv'
  BY <1>4 DEF A!StoredElsewhere, A!TypeOK, SaidIsRecorded, PlannedIsUnsaid, A!Current
<1>5. CASE UNCHANGED A!vars
  BY <1>5 DEF A!vars, A!durable, A!TypeOK, SaidIsRecorded, PlannedIsUnsaid, A!Current
<1> QED
  BY <1>1, <1>2, <1>3, <1>4, <1>5, LoopActions DEF A!Next

-----------------------------------------------------------------------------

\* The types of the loop, and a flag that is up exactly during a pass.
THEOREM ActionsTypeCorrect == A!Spec => []A!TypeOK
<1>1. ActionsInv => A!TypeOK
  BY DEF ActionsInv
<1> QED
  BY <1>1, InitActions, StepActions, PTL DEF A!Spec

\* processTweetActions never quotes or answers a tweet a second time.
THEOREM NothingSaidTwice == A!Spec => []SaidOnce
<1>1. ActionsInv => SaidOnce
  BY DEF ActionsInv, SaidIsRecorded, SaidOnce
<1> QED
  BY <1>1, InitActions, StepActions, PTL DEF A!Spec
=============================================================================
