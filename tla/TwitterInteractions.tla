------------------------- MODULE TwitterInteractions -------------------------
(***************************************************************************)
(* The mention-answering loop of the Twitter client                        *)
(* (okai/packages/client-twitter/src/interactions.ts, with init,           *)
(* populateTimeline and the last-checked id of base.ts and the thread      *)
(* builder of utils.ts).  A timer starts handleTwitterInteractions() every *)
(* poll interval without waiting for the previous one, so several polls    *)
(* may be running; all share the in-memory lastCheckedTweetId, the cache   *)
(* and the memory table, and each await is a point where another may run.  *)
(* The process may crash at any await and be started again.                *)
(*                                                                         *)
(* A tweet is its id: ids grow with time.  A search returns the latest     *)
(* SearchCount mentions; one that fails or times out returns none.         *)
(***************************************************************************)
EXTENDS Naturals, FiniteSetsExt

CONSTANTS Polls,          \* polls that may overlap: the bound on overlapping
          MaxTweet,       \* bound: tweets that mention the agent
          Own,            \* those of them the agent wrote itself
          Parent,         \* the tweet each one replies to, or 0
          Ancestors,      \* the tweets each one replies to, directly or not
          SearchCount,    \* a search returns this many tweets at most
          MaxRestarts,    \* bound: crashes of the process
          DatabaseFails   \* whether a database call may throw

Tweets == 1..MaxTweet

ASSUME TweetAssumption == /\ MaxTweet \in Nat
                          /\ Own \subseteq Tweets
                          /\ Parent \in [Tweets -> 0..MaxTweet]
                          /\ \A t \in Tweets : Parent[t] < t
                          /\ Ancestors \in [Tweets -> SUBSET Tweets]
                          /\ \A t \in Tweets : Ancestors[t] =
                                IF Parent[t] = 0 THEN {}
                                                 ELSE {Parent[t]} \cup Ancestors[Parent[t]]
                          /\ SearchCount \in Nat
                          /\ MaxRestarts \in Nat
                          /\ DatabaseFails \in BOOLEAN

VARIABLES newest,       \* tweets 1..newest are on Twitter
          replies,      \* on Twitter: replies handleTweet sent, per tweet
          memories,     \* tweets with a row in the messages table (database)
          rooms,        \* conversations with a row in the rooms table (database)
          cached,       \* latest_checked_tweet_id in the cache (database)
          running,      \* whether the process is up and initialised
          lastChecked,  \* client.lastCheckedTweetId; 0 is null
          pc, todo, cur,\* per poll: its await, the candidates left, the tweet
          considered,   \* tweets shouldRespond has been asked about
          leftOut,      \* unrecorded tweets a full page of results had no room for
          overlapped,   \* whether two polls have ever run at once
          faulted,      \* whether the process or the database has ever failed
          restarts

durable == <<newest, replies, memories, rooms, cached>>
poll == <<pc, todo, cur>>
history == <<considered, leftOut, overlapped, faulted>>
vars == <<durable, running, lastChecked, poll, history, restarts>>

Init == /\ newest = 0
        /\ replies = [t \in Tweets |-> 0]
        /\ memories = {}
        /\ rooms = {}
        /\ cached = 0
        /\ running = FALSE
        /\ lastChecked = 0
        /\ pc = [p \in Polls |-> "idle"]
        /\ todo = [p \in Polls |-> {}]
        /\ cur = [p \in Polls |-> 0]
        /\ considered = {} /\ leftOut = {}
        /\ overlapped = FALSE /\ faulted = FALSE
        /\ restarts = 0

Goto(p, label) == pc' = [pc EXCEPT ![p] = label]

-----------------------------------------------------------------------------
(* The process and its environment.                                        *)

Mention == /\ newest < MaxTweet
           /\ newest' = newest + 1
           /\ UNCHANGED <<replies, memories, rooms, cached, running, lastChecked,
                          poll, history, restarts>>

\* The latest mentions, as fetchSearchTweets returns them.
Latest == {t \in 1..newest : t + SearchCount > newest}

\* init(): load the last checked id, then save what the timeline and the
\* search for mentions return as memories, unless either fails part of the way.
Boot == /\ ~running
        /\ running' = TRUE
        /\ lastChecked' = cached
        /\ \E got \in SUBSET (1..newest) : memories' = memories \cup got
        /\ UNCHANGED <<newest, replies, rooms, cached, poll, history, restarts>>

Crash == /\ running
         /\ restarts < MaxRestarts
         /\ restarts' = restarts + 1
         /\ running' = FALSE
         /\ lastChecked' = 0
         /\ pc' = [p \in Polls |-> "idle"]
         /\ todo' = [p \in Polls |-> {}]
         /\ cur' = [p \in Polls |-> 0]
         /\ faulted' = TRUE
         /\ UNCHANGED <<durable, considered, leftOut, overlapped>>

-----------------------------------------------------------------------------
(* One poll.                                                               *)

\* Mutant: the candidates are taken latest first.
ContinueDescending(p, rest, checked) ==
    LET left == {t \in rest : t > checked}
    IN  IF left = {}
        THEN /\ Goto(p, "save")
             /\ todo' = [todo EXCEPT ![p] = {}]
             /\ cur' = [cur EXCEPT ![p] = checked]
        ELSE /\ Goto(p, "check")
             /\ todo' = [todo EXCEPT ![p] = left \ {Max(left)}]
             /\ cur' = [cur EXCEPT ![p] = Max(left)]

\* The for loop up to its next await: candidates in ascending order, those not
\* above the last checked id passed over; at its end the last id is cached.
Continue(p, rest, checked) ==
    LET left == {t \in rest : t > checked}
    IN  IF left = {}
        THEN /\ Goto(p, "save")
             /\ todo' = [todo EXCEPT ![p] = {}]
             /\ cur' = [cur EXCEPT ![p] = checked]
        ELSE /\ Goto(p, "check")
             /\ todo' = [todo EXCEPT ![p] = left \ {Min(left)}]
             /\ cur' = [cur EXCEPT ![p] = Min(left)]

Start(p) == /\ running
            /\ pc[p] = "idle"
            /\ Goto(p, "search")
            /\ overlapped' = (overlapped \/ \E q \in Polls : pc[q] # "idle")
            /\ UNCHANGED <<durable, running, lastChecked, todo, cur, considered,
                           leftOut, faulted, restarts>>

\* What a page of results passes over for want of room.
Missed(found) == IF found = {} THEN {} ELSE (1..newest) \ (found \cup memories)

Search(p, found) == /\ pc[p] = "search"
                    /\ Continue(p, found, lastChecked)
                    /\ leftOut' = leftOut \cup Missed(found)
                    /\ UNCHANGED <<durable, running, lastChecked, considered,
                                   overlapped, faulted, restarts>>

\* Mutant: only the last checked id tells which tweets are new.
CheckNothing(p) == /\ pc[p] = "check"
                   /\ Goto(p, "connect")
                   /\ UNCHANGED <<durable, running, lastChecked, todo, cur,
                                  history, restarts>>

\* getMemoryById: has this tweet been processed?
Check(p) == /\ pc[p] = "check"
            /\ IF cur[p] \in memories
               THEN Continue(p, todo[p], lastChecked)
               ELSE Goto(p, "connect") /\ UNCHANGED <<todo, cur>>
            /\ UNCHANGED <<durable, running, lastChecked, history, restarts>>

\* A conversation is a room, named by its first tweet.
Conversation(t) == Min(Ancestors[t] \cup {t})

\* ensureConnection: is there a room?
Connect(p) == /\ pc[p] = "connect"
              /\ Goto(p, IF Conversation(cur[p]) \in rooms THEN "thread" ELSE "room")
              /\ UNCHANGED <<durable, running, lastChecked, todo, cur, history,
                             restarts>>

\* An error ends the poll; the catch of handleTwitterInteractions logs it.
EndPoll(p) == /\ Goto(p, "idle")
              /\ todo' = [todo EXCEPT ![p] = {}]
              /\ cur' = [cur EXCEPT ![p] = 0]

\* createRoom throws if another poll has inserted the room meanwhile.
CreateRoom(p) == /\ pc[p] = "room"
                 /\ IF Conversation(cur[p]) \in rooms
                    THEN EndPoll(p) /\ UNCHANGED rooms
                    ELSE /\ rooms' = rooms \cup {Conversation(cur[p])}
                         /\ Goto(p, "thread")
                         /\ UNCHANGED <<todo, cur>>
                 /\ UNCHANGED <<newest, replies, memories, cached, running,
                                lastChecked, history, restarts>>

\* Mutant: the thread builder leaves recording the tweet to a later step.
ThreadOnly(p) == /\ pc[p] = "thread"
                 /\ Goto(p, "parents")
                 /\ UNCHANGED <<durable, running, lastChecked, todo, cur, history,
                                restarts>>

\* The thread builder looks for the memory itself.
Thread(p) == /\ pc[p] = "thread"
             /\ Goto(p, IF cur[p] \in memories THEN "parents" ELSE "create")
             /\ UNCHANGED <<durable, running, lastChecked, todo, cur, history,
                            restarts>>

\* createMemory looks once more before it inserts.
Create(p) == /\ pc[p] = "create"
             /\ Goto(p, IF cur[p] \in memories THEN "parents" ELSE "insert")
             /\ UNCHANGED <<durable, running, lastChecked, todo, cur, history,
                            restarts>>

\* The INSERT; another poll's row makes it throw, which ends the poll.
Insert(p) == /\ pc[p] = "insert"
             /\ IF cur[p] \in memories
                THEN EndPoll(p) /\ UNCHANGED memories
                ELSE /\ memories' = memories \cup {cur[p]}
                     /\ Goto(p, "parents")
                     /\ UNCHANGED <<todo, cur>>
             /\ UNCHANGED <<newest, replies, rooms, cached, running, lastChecked,
                            history, restarts>>

\* Parents are fetched upwards, until there is none or a fetch fails (errors are
\* caught): k is the last of them.
Fetched(t, k) == {u \in Ancestors[t] : u >= k}

\* Mutant: the agent's own tweets are not told apart.
ParentsOfAll(p) == /\ pc[p] = "parents"
                   /\ \E k \in Tweets :
                          memories' = memories \cup Fetched(cur[p], k)
                   /\ Goto(p, "decide")
                   /\ UNCHANGED <<newest, replies, rooms, cached, running,
                                  lastChecked, todo, cur, history, restarts>>

Parents(p) == /\ pc[p] = "parents"
              /\ \E k \in Tweets :
                     memories' = memories \cup Fetched(cur[p], k)
              /\ Goto(p, IF cur[p] \in Own THEN "done" ELSE "decide")
              /\ UNCHANGED <<newest, replies, rooms, cached, running, lastChecked,
                             todo, cur, history, restarts>>

\* generateShouldRespond; it retries until the model answers.
Decide(p, respond) == /\ pc[p] = "decide"
                      /\ considered' = considered \cup {cur[p]}
                      /\ Goto(p, IF respond THEN "send" ELSE "done")
                      /\ UNCHANGED <<durable, running, lastChecked, todo, cur,
                                     leftOut, overlapped, faulted, restarts>>

\* generateMessageResponse and sendTweet; an error is logged and swallowed.
Send(p, sent) == /\ pc[p] = "send"
                 /\ replies' = [replies EXCEPT ![cur[p]] = IF sent THEN @ + 1 ELSE @]
                 /\ Goto(p, "done")
                 /\ UNCHANGED <<newest, memories, rooms, cached, running,
                                lastChecked, todo, cur, history, restarts>>

\* handleTweet has returned: the last checked id becomes this tweet's.
Done(p) == /\ pc[p] = "done"
           /\ lastChecked' = cur[p]
           /\ Continue(p, todo[p], cur[p])
           /\ UNCHANGED <<durable, running, history, restarts>>

\* cacheLatestCheckedTweetId wrote the id it was called with.
Save(p) == /\ pc[p] = "save"
           /\ cached' = IF cur[p] # 0 THEN cur[p] ELSE cached
           /\ Goto(p, "idle")
           /\ cur' = [cur EXCEPT ![p] = 0]
           /\ UNCHANGED <<newest, replies, memories, rooms, running, lastChecked,
                          todo, history, restarts>>

\* A database call throws.
Throw(p) == /\ DatabaseFails
            /\ pc[p] \in {"check", "connect", "room", "thread", "create", "insert",
                         "decide", "save"}
            /\ EndPoll(p)
            /\ faulted' = TRUE
            /\ UNCHANGED <<durable, running, lastChecked, considered, leftOut,
                           overlapped, restarts>>

Step(p) == \/ \E found \in {{}, Latest} : Search(p, found)
           \/ Check(p) \/ Connect(p) \/ CreateRoom(p) \/ Thread(p) \/ Create(p)
           \/ Insert(p) \/ Parents(p)
           \/ \E respond \in BOOLEAN : Decide(p, respond)
           \/ \E sent \in BOOLEAN : Send(p, sent)
           \/ Done(p) \/ Save(p)

Next == \/ Mention \/ Boot \/ Crash
        \/ \E p \in Polls : Start(p) \/ Step(p) \/ Throw(p)

Spec == Init /\ [][Next]_vars

\* The process is started, timers fire, awaits settle, and searches do not
\* fail for ever.
Fairness == /\ WF_vars(Boot)
            /\ \A p \in Polls : /\ WF_vars(Start(p))
                                /\ WF_vars(Step(p))
                                /\ SF_vars(Search(p, Latest))

FairSpec == Spec /\ Fairness

-----------------------------------------------------------------------------
(* Properties.                                                             *)

\* Types; a poll holds a tweet exactly while it works on one.
TypeOK == /\ newest \in 0..MaxTweet
          /\ replies \in [Tweets -> Nat]
          /\ memories \subseteq Tweets /\ rooms \subseteq Tweets
          /\ cached \in 0..MaxTweet /\ lastChecked \in 0..MaxTweet
          /\ running \in BOOLEAN
          /\ pc \in [Polls -> {"idle", "search", "check", "connect", "room", "thread",
                               "create", "insert", "parents", "decide", "send", "done", "save"}]
          /\ todo \in [Polls -> SUBSET Tweets]
          /\ cur \in [Polls -> 0..MaxTweet]
          /\ considered \subseteq Tweets /\ leftOut \subseteq Tweets
          /\ overlapped \in BOOLEAN /\ faulted \in BOOLEAN
          /\ restarts \in 0..MaxRestarts

\* interactions.ts:239 "Check if we've already processed this tweet": a tweet is
\* answered once.
AnsweredOnce == \A t \in Tweets : replies[t] <= 1

\* As long as polls take less than the interval between them, a tweet is answered
\* once, whatever crashes, failed saves of the last checked id and repeated search
\* results come between.
AnsweredOnceInTurn == ~overlapped => AnsweredOnce

\* The memory that marks a tweet as processed is in the database before anything
\* is said about it: what AnsweredOnce rests on after a crash or a failed save.
RecordedFirst == \A t \in Tweets : replies[t] > 0 \/ t \in considered => t \in memories

\* The agent does not answer itself, although the filter of its own tweets in
\* handleTwitterInteractions is computed and thrown away.
NoSelfReply == \A t \in Own : replies[t] = 0

\* The last checked id, in memory or cached, in every order of overlapping polls,
\* late saves and restarts, passes over no tweet without a memory, unless a search
\* returned a full page of later ones and left that tweet out.
CheckedAreRecorded ==
    \A last \in {cached, lastChecked} : \A t \in 1..last : t \in memories \cup leftOut

\* Unless the process or the database fails, a mention no memory was made of at
\* start-up is put to the agent sooner or later, even if polls overlap and one of
\* them ends on a row another has just inserted; only one that a page of
\* SearchCount later mentions left out may be forgotten.
EveryMentionConsidered ==
    \A t \in Tweets \ Own :
        (running /\ t <= newest /\ t \notin memories)
            ~> (t \in considered \cup leftOut \/ faulted)
==============================================================================
