--------------------------- MODULE TwitterActions ---------------------------
(***************************************************************************)
(* The loop that likes, retweets, quotes and answers tweets of the home    *)
(* timeline (processActionsLoop and processTweetActions of                 *)
(* okai/packages/client-twitter/src/post.ts, buildConversationThread of    *)
(* utils.ts).  One pass takes the tweets of the timeline in turn, skips    *)
(* those with a memory, asks the model what to do, does it, and then       *)
(* stores a memory; quoting and answering store it earlier, while they     *)
(* build the conversation thread.  Other parts of the client (mentions,    *)
(* threads of other tweets) store memories at any time.  An error of one   *)
(* tweet is logged and the next is taken; an empty quote ends the pass.    *)
(* Calls to the database and to Twitter throw while they are down.         *)
(***************************************************************************)
EXTENDS Timeline

CONSTANT MaxRestarts   \* bound: crashes of the process

ASSUME ActionsAssumption == MaxRestarts \in Nat

VARIABLES isProcessing,
          pc, todo, cur,    \* the loop, the rest of the timeline, the tweet
          plan,         \* the actions the model chose and not yet tried
          serviceUp,    \* whether the database and Twitter answer
          restarts

vars == <<durable, isProcessing, pc, todo, cur, plan, serviceUp, restarts>>

Said == {"quote", "reply"}
Acts == {"like"} \cup Said     \* retweet is handled as like is

NoTweet == 0
ASSUME NoTweetAssumption == NoTweet \notin Tweets

Init == /\ memories = {}
        /\ quotes = [t \in Tweets |-> 0]
        /\ answers = [t \in Tweets |-> 0]
        /\ isProcessing = FALSE
        /\ pc = "off"
        /\ todo = {}
        /\ cur = NoTweet
        /\ plan = {}
        /\ serviceUp = TRUE
        /\ restarts = 0

-----------------------------------------------------------------------------
(* The process, and the rest of the client.                                *)

Boot == /\ pc = "off"
        /\ pc' = "run"
        /\ UNCHANGED <<durable, isProcessing, todo, cur, plan, serviceUp, restarts>>

Crash == /\ pc # "off"
         /\ restarts < MaxRestarts
         /\ restarts' = restarts + 1
         /\ pc' = "off"
         /\ isProcessing' = FALSE
         /\ todo' = {} /\ plan' = {} /\ cur' = NoTweet
         /\ UNCHANGED <<durable, serviceUp>>

Outage == /\ serviceUp' = ~serviceUp
          /\ UNCHANGED <<durable, isProcessing, pc, todo, cur, plan, restarts>>

StoredElsewhere(t) ==
    /\ pc # "off"
    /\ serviceUp
    /\ memories' = memories \cup {t}
    /\ UNCHANGED <<quotes, answers, isProcessing, pc, todo, cur, plan, serviceUp, restarts>>

-----------------------------------------------------------------------------
(* One pass.                                                               *)

\* processTweetActions() ends, and the finally branch runs.
End(next) == /\ pc' = next
             /\ isProcessing' = FALSE
             /\ todo' = {} /\ plan' = {} /\ cur' = NoTweet

\* On to the next tweet; after the last the results are returned.
Continue(rest) ==
    IF rest = {} THEN End("pause")
    ELSE \E t \in rest : /\ cur' = t
                         /\ todo' = rest \ {t}
                         /\ plan' = {}
                         /\ pc' = "check"
                         /\ UNCHANGED isProcessing

Run == /\ pc = "run"
       /\ ~isProcessing
       /\ isProcessing' = TRUE
       /\ pc' = "fetch"
       /\ UNCHANGED <<durable, todo, cur, plan, serviceUp, restarts>>

\* The timeline; an error is thrown to the loop, which waits 30 seconds.
Fetch == /\ pc = "fetch"
         /\ IF serviceUp THEN Continue(Tweets) ELSE End("backoff")
         /\ UNCHANGED <<durable, serviceUp, restarts>>

\* Is there a memory?  An error, here or in composeState, ends this tweet.
Check == /\ pc = "check"
         /\ \/ /\ cur \in memories \/ ~serviceUp
               /\ Continue(todo)
            \/ /\ cur \notin memories /\ serviceUp
               /\ pc' = "decide"
               /\ UNCHANGED <<isProcessing, todo, cur, plan>>
         /\ UNCHANGED <<durable, serviceUp, restarts>>

\* generateTweetActions() tries again until the model's answer can be read.
Decide == /\ pc = "decide"
          /\ plan' \in SUBSET Acts
          /\ pc' = "act"
          /\ UNCHANGED <<durable, isProcessing, todo, cur, serviceUp, restarts>>

\* Liking may fail, which is caught; Twitter forgets it was asked twice.
Like == /\ pc = "act"
        /\ "like" \in plan
        /\ plan' = plan \ {"like"}
        /\ UNCHANGED <<durable, isProcessing, pc, todo, cur, serviceUp, restarts>>

\* The action being tried: quoting comes before answering.
Current == IF "quote" \in plan THEN "quote" ELSE "reply"

\* Whatever ends an action other than the empty quote, the next is tried.
NextAct == /\ pc' = "act"
           /\ plan' = plan \ {Current}
           /\ UNCHANGED <<isProcessing, todo, cur, serviceUp, restarts>>

\* buildConversationThread(): is there a memory?
Thread == /\ pc = "act"
          /\ "like" \notin plan
          /\ plan # {}
          /\ \/ /\ serviceUp
                /\ pc' = IF cur \in memories THEN "generate" ELSE "insert"
                /\ UNCHANGED <<isProcessing, todo, cur, plan, serviceUp, restarts>>
             \/ ~serviceUp /\ NextAct
          /\ UNCHANGED durable

\* Mutant: the thread is built without storing its tweets.
InsertNothing == /\ pc = "insert"
                 /\ pc' = "generate"
                 /\ UNCHANGED <<durable, isProcessing, todo, cur, plan, serviceUp, restarts>>

\* The INSERT, unless the tweet has been stored elsewhere meanwhile: then, and
\* while the database is down, the error ends the action.
Insert == /\ pc = "insert"
          /\ \/ /\ cur \notin memories /\ serviceUp
                /\ memories' = memories \cup {cur}
                /\ pc' = "generate"
                /\ UNCHANGED <<isProcessing, todo, cur, plan, serviceUp, restarts>>
             \/ /\ cur \in memories \/ ~serviceUp
                /\ NextAct
                /\ UNCHANGED memories
          /\ UNCHANGED <<quotes, answers>>

\* generateTweetContent() returned nothing.  In a quote the `return` of the
\* handler leaves processTweetActions() itself, with nothing for the loop to
\* wait upon.
Empty == /\ pc = "generate"
         /\ \/ /\ Current = "quote"
               /\ End("run")
               /\ UNCHANGED <<serviceUp, restarts>>
            \/ Current # "quote" /\ NextAct
         /\ UNCHANGED durable

Send == /\ pc = "generate"
        /\ \/ /\ serviceUp /\ Current = "quote"
              /\ quotes' = [quotes EXCEPT ![cur] = @ + 1]
              /\ UNCHANGED answers
           \/ /\ serviceUp /\ Current = "reply"
              /\ answers' = [answers EXCEPT ![cur] = @ + 1]
              /\ UNCHANGED quotes
           \/ ~serviceUp /\ UNCHANGED <<quotes, answers>>
        /\ NextAct
        /\ UNCHANGED memories

\* ensureRoomExists ... createMemory, which keeps a memory already there; an
\* error leaves the tweet without one.
Record == /\ pc = "act"
          /\ plan = {}
          /\ memories' = IF serviceUp THEN memories \cup {cur} ELSE memories
          /\ Continue(todo)
          /\ UNCHANGED <<quotes, answers, serviceUp, restarts>>

\* ACTION_INTERVAL, or 30 seconds, have passed.
Wake == /\ pc \in {"pause", "backoff"}
        /\ pc' = "run"
        /\ UNCHANGED <<durable, isProcessing, todo, cur, plan, serviceUp, restarts>>

Step == \/ Run \/ Fetch \/ Check \/ Decide \/ Like \/ Thread \/ Insert \/ Empty
        \/ Send \/ Record \/ Wake

Next == Boot \/ Crash \/ Outage \/ Step \/ \E t \in Tweets : StoredElsewhere(t)

Spec == Init /\ [][Next]_vars

\* The process is started and its awaits settle.
Fairness == WF_vars(Boot) /\ WF_vars(Step)

FairSpec == Spec /\ Fairness

-----------------------------------------------------------------------------

\* Types; the flag is up exactly during a pass, however the last one ended: a
\* flag left up would make the loop skip every later pass without waiting.
TypeOK == /\ memories \subseteq Tweets
          /\ quotes \in [Tweets -> Nat] /\ answers \in [Tweets -> Nat]
          /\ isProcessing = (pc \notin {"off", "run", "pause", "backoff"})
          /\ todo \subseteq Tweets
          /\ cur \in Tweets \cup {NoTweet}
          /\ plan \subseteq Acts
          /\ serviceUp \in BOOLEAN
          /\ restarts \in 0..MaxRestarts

\* The tweets of the timeline behind a quote that keeps coming out empty are not
\* starved: each pass gets past the tweet that ended the one before, as long as
\* the services are up in the end.
EveryTweetRecorded == <>[]serviceUp => \A t \in Tweets : <>(t \in memories)
==============================================================================
