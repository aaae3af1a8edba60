---------------------------- MODULE TwitterPosts ----------------------------
(***************************************************************************)
(* The scheduler of the agent's own tweets                                 *)
(* (okai/packages/client-twitter/src/post.ts).  start() calls              *)
(* generateNewTweetLoop() twice, without awaiting either call; with        *)
(* POST_IMMEDIATELY it first awaits one tweet.  An iteration reads the     *)
(* time of the last post from the cache, draws a delay, tweets if more     *)
(* than the delay has passed, and sets a timer of that delay.              *)
(*                                                                         *)
(* Time is counted in units of a few minutes; ages and timers are kept     *)
(* instead of clock values, and ages are saturated one past the last value *)
(* they are compared with.  Timers fire on time.                           *)
(***************************************************************************)
EXTENDS Naturals

CONSTANTS MinDelay, MaxDelay,  \* POST_INTERVAL_MIN, POST_INTERVAL_MAX
          PostTime,            \* bound: how long generateNewTweet() may take
          PostImmediately,     \* the settings a process may be started with
          Fails,               \* whether generating, sending or the cache may fail
          MaxRestarts          \* bound: crashes of the process

ASSUME IntervalAssumption == /\ MinDelay \in Nat \ {0} /\ MaxDelay \in Nat
                             /\ MinDelay <= MaxDelay
                             /\ PostTime \in Nat /\ MaxRestarts \in Nat
                             /\ PostImmediately \subseteq BOOLEAN /\ Fails \in BOOLEAN

Loops == {"first", "second"}   \* the two calls of generateNewTweetLoop()
Threads == Loops \cup {"start"}

Longest == 2 * (MaxDelay + PostTime)   \* the longest silence; see QuietBounded

VARIABLES running,
          pc,        \* per thread: off, read, post, store, sleep; dead: ended by an error
          delay,     \* per loop: the delay drawn in this iteration
          timer,     \* per thread: time left to sleep, or to finish posting
          recorded,  \* age of the timestamp of lastPost in the cache
          ages,      \* ages of the last three tweets on Twitter
          quiet,     \* time since the last tweet or the start of the process
          blind,     \* whether a tweet was ever sent regardless of the one before:
                     \* lastPost was not written, or not read
          failed,    \* whether anything has failed since the start of the process
          restarts

ghosts == <<ages, quiet, blind, failed>>
vars == <<running, pc, delay, timer, recorded, ghosts, restarts>>

Init == /\ running = FALSE
        /\ pc = [t \in Threads |-> "off"]
        /\ delay = [l \in Loops |-> 0]
        /\ timer = [t \in Threads |-> 0]
        /\ recorded = MaxDelay + 1
        /\ ages = [i \in 1..3 |-> MinDelay]
        /\ quiet = 0
        /\ blind = FALSE
        /\ failed = FALSE
        /\ restarts = 0

-----------------------------------------------------------------------------

\* start(), up to its first await: one tweet, or both loops.
Boot(immediately) ==
    /\ ~running
    /\ running' = TRUE
    /\ quiet' = 0
    /\ failed' = FALSE
    /\ IF immediately
       THEN /\ pc' = [pc EXCEPT !["start"] = "post"]
            /\ timer' = [timer EXCEPT !["start"] = PostTime]
            /\ blind' = (blind \/ recorded < MinDelay)
       ELSE /\ pc' = [t \in Threads |-> IF t \in Loops THEN "read" ELSE "off"]
            /\ UNCHANGED <<timer, blind>>
    /\ UNCHANGED <<delay, recorded, ages, restarts>>

\* What it had to record of a tweet already sent is lost with the process.
Exit == /\ running' = FALSE
        /\ blind' = (blind \/ \E t \in Threads : pc[t] = "store")
        /\ pc' = [t \in Threads |-> "off"]
        /\ timer' = [t \in Threads |-> 0]

Crash == /\ running
         /\ restarts < MaxRestarts
         /\ restarts' = restarts + 1
         /\ Exit
         /\ UNCHANGED <<delay, recorded, ages, quiet, failed>>

\* Mutant: the delay is added to the time of the last post twice.
ReadDoubleDelay(l, d, lost) ==
    /\ pc[l] = "read"
    /\ delay' = [delay EXCEPT ![l] = d]
    /\ blind' = (blind \/ lost)
    /\ failed' = (failed \/ lost)
    /\ IF lost \/ recorded > d + d
       THEN /\ pc' = [pc EXCEPT ![l] = "post"]
            /\ timer' = [timer EXCEPT ![l] = PostTime]
       ELSE /\ pc' = [pc EXCEPT ![l] = "sleep"]
            /\ timer' = [timer EXCEPT ![l] = d]
    /\ UNCHANGED <<running, recorded, ages, quiet, restarts>>

\* The cache answers; a SELECT that fails is caught in getCache and looks like one
\* that found nothing.
Read(l, d, lost) ==
    /\ pc[l] = "read"
    /\ delay' = [delay EXCEPT ![l] = d]
    /\ blind' = (blind \/ lost)
    /\ failed' = (failed \/ lost)
    /\ IF lost \/ recorded > d
       THEN /\ pc' = [pc EXCEPT ![l] = "post"]
            /\ timer' = [timer EXCEPT ![l] = PostTime]
       ELSE /\ pc' = [pc EXCEPT ![l] = "sleep"]
            /\ timer' = [timer EXCEPT ![l] = d]
    /\ UNCHANGED <<running, recorded, ages, quiet, restarts>>

\* The open breaker refuses getCache itself, outside its try: the iteration rejects
\* before its timer is set, and nobody catches that.  Node then ends the process, or,
\* where the host listens for unhandled rejections, only this loop is over.
Throw(l) == /\ Fails
            /\ pc[l] = "read"
            /\ failed' = TRUE
            /\ \/ Exit
               \/ /\ pc' = [pc EXCEPT ![l] = "dead"]
                  /\ UNCHANGED <<running, timer, blind>>
            /\ UNCHANGED <<delay, recorded, ages, quiet, restarts>>

Send(t) == /\ pc[t] = "post"
           /\ pc' = [pc EXCEPT ![t] = "store"]
           /\ ages' = [i \in 1..3 |-> IF i = 1 THEN 0 ELSE ages[i - 1]]
           /\ quiet' = 0
           /\ UNCHANGED <<running, delay, timer, recorded, blind, failed, restarts>>

\* generateNewTweet() has returned, which it does whatever fails inside it.
Return(t) == IF t = "start"
             THEN /\ pc' = [u \in Threads |-> IF u \in Loops THEN "read" ELSE "off"]
                  /\ timer' = [timer EXCEPT ![t] = 0]
             ELSE /\ pc' = [pc EXCEPT ![t] = "sleep"]
                  /\ timer' = [timer EXCEPT ![t] = delay[t]]

\* Mutant: lastPost is not written.
StoreNothing(t) == /\ pc[t] = "store"
                   /\ Return(t)
                   /\ UNCHANGED <<running, delay, recorded, ghosts, restarts>>

Store(t) == /\ pc[t] = "store"
            /\ recorded' = 0
            /\ Return(t)
            /\ UNCHANGED <<running, delay, ghosts, restarts>>

\* Mutant: an error leaves the loop without its next timer.
GiveUpForGood(t) == /\ Fails
                    /\ pc[t] \in {"post", "store"}
                    /\ blind' = (blind \/ pc[t] = "store")
                    /\ failed' = TRUE
                    /\ pc' = [pc EXCEPT ![t] = "off"]
                    /\ UNCHANGED <<running, delay, timer, recorded, ages, quiet, restarts>>

\* No content, a bad response, a dry run, or an error, which is caught.
GiveUp(t) == /\ Fails
             /\ pc[t] \in {"post", "store"}
             /\ blind' = (blind \/ pc[t] = "store")
             /\ failed' = TRUE
             /\ Return(t)
             /\ UNCHANGED <<running, delay, recorded, ages, quiet, restarts>>

Wake(l) == /\ pc[l] = "sleep"
           /\ timer[l] = 0
           /\ pc' = [pc EXCEPT ![l] = "read"]
           /\ UNCHANGED <<running, delay, timer, recorded, ghosts, restarts>>

Older(age, last) == IF age > last THEN age ELSE age + 1

Alive(t) == pc[t] \notin {"off", "dead"}

\* Nothing that is due is left waiting, and posting ends in time.
Tick == /\ \A t \in Threads : Alive(t) => pc[t] # "read" /\ timer[t] > 0
        /\ timer' = [t \in Threads |-> IF Alive(t) THEN timer[t] - 1 ELSE 0]
        /\ recorded' = Older(recorded, MaxDelay)
        /\ ages' = [i \in 1..3 |-> Older(ages[i], MinDelay - 1)]
        /\ quiet' = Older(quiet, Longest)
        /\ UNCHANGED <<running, pc, delay, blind, failed, restarts>>

Step(t) == Send(t) \/ Store(t) \/ GiveUp(t)

Iterate(l) == \/ Wake(l)
              \/ \E d \in MinDelay..MaxDelay : Read(l, d, FALSE)
              \/ Fails /\ \E d \in MinDelay..MaxDelay : Read(l, d, TRUE)

Next == \/ \E immediately \in PostImmediately : Boot(immediately)
        \/ Crash \/ Tick
        \/ \E t \in Threads : Step(t)
        \/ \E l \in Loops : Iterate(l) \/ Throw(l)

Spec == Init /\ [][Next]_vars

\* The process is started again, time passes, awaits settle, and neither tweets nor
\* reads are refused for ever.
Fairness == /\ WF_vars(\E immediately \in PostImmediately : Boot(immediately)) /\ WF_vars(Tick)
            /\ \A t \in Threads : WF_vars(Step(t)) /\ SF_vars(Send(t))
            /\ \A l \in Loops : SF_vars(Iterate(l))

FairSpec == Spec /\ Fairness

-----------------------------------------------------------------------------

\* Types of the scheduler's variables.
TypeOK == /\ running \in BOOLEAN
          /\ pc \in [Threads -> {"off", "read", "post", "store", "sleep", "dead"}]
          /\ delay \in [Loops -> 0..MaxDelay]
          /\ timer \in [Threads -> 0..(MaxDelay + PostTime)]
          /\ recorded \in 0..(MaxDelay + 1)
          /\ ages \in [1..3 -> 0..MinDelay]
          /\ quiet \in 0..(Longest + 1)
          /\ blind \in BOOLEAN /\ failed \in BOOLEAN
          /\ restarts \in 0..MaxRestarts

\* Two loops and the immediate tweet share lastPost, which each reads long before
\* it writes it: still no three tweets fall within POST_INTERVAL_MIN, across
\* restarts too, as long as every post was recorded and read back.
NoBurst == ~blind => ages[3] >= MinDelay

\* While nothing fails the agent is never silent longer than twice
\* POST_INTERVAL_MAX and the time a post takes: an iteration draws its delay anew, so
\* a loop may pass over the moment it was woken for and sleep once more, not twice.
QuietBounded == running /\ ~failed => quiet <= Longest

\* generateNewTweetLoop() outlives every failed post and every record the cache loses, and
\* one loop outlives the other: as long as tweets and reads are not refused for ever,
\* another tweet follows, unless a read was refused to both loops of a process that lives on.
KeepsTweeting == \/ []<>(quiet = 0 /\ running)
                 \/ <>[](\A l \in Loops : pc[l] = "dead")
==============================================================================
