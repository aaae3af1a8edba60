---------------------- MODULE TwitterInteractionsProofs ----------------------
(* Proofs about TwitterInteractions, for any number of overlapping polls,   *)
(* tweets, threads, crashes and database errors.                            *)
EXTENDS TwitterInteractions, WellFoundedInduction, TLAPS

Pcs == {"idle", "search", "check", "connect", "room", "thread", "create", "insert",
        "parents", "decide", "send", "done", "save"}

\* Where a poll works on a tweet; has found it unrecorded and not answered it yet;
\* and where the tweet has been recorded.
Working == Pcs \ {"idle", "search", "save"}
Unanswered == Working \ {"check", "done"}
Recorded == {"parents", "decide", "send", "done"}

Types == /\ newest \in 0..MaxTweet
         /\ replies \in [Tweets -> Nat]
         /\ cached \in 0..MaxTweet /\ lastChecked \in 0..MaxTweet
         /\ pc \in [Polls -> Pcs]
         /\ todo \in [Polls -> SUBSET Tweets]
         /\ cur \in [Polls -> 0..MaxTweet]

PollInv(p) ==
    /\ pc[p] \in Working => cur[p] \in Tweets
    /\ pc[p] \in Recorded => cur[p] \in memories
    /\ pc[p] \in {"decide", "send"} => cur[p] \notin Own
    /\ ~overlapped /\ pc[p] \in Unanswered => replies[cur[p]] = 0

\* Until two polls have overlapped, one runs at a time.
Alone == ~overlapped => \A p, q \in Polls : pc[p] # "idle" /\ pc[q] # "idle" => p = q

IInv == /\ Types
        /\ \A p \in Polls : PollInv(p)
        /\ Alone
        /\ AnsweredOnceInTurn
        /\ RecordedFirst
        /\ NoSelfReply

\* Only this poll moves.
Only(p) == \A q \in Polls \ {p} : pc'[q] = pc[q] /\ todo'[q] = todo[q] /\ cur'[q] = cur[q]

-----------------------------------------------------------------------------
(* Helpers.                                                                *)

LEMMA MinIsLeast == ASSUME NEW S \in SUBSET Nat, S # {}
                    PROVE  Min(S) \in S /\ \A t \in S : Min(S) <= t
<1> DEFINE Less == {ss \in Nat \X Nat : ss[1] < ss[2]}
<1>1. IsWellFoundedOn(Less, Nat)
  BY NatLessThanWellFounded, Zenon DEF OpToRel
<1> HIDE DEF Less
<1>2. PICK s \in S : \A t \in S : <<t, s>> \notin Less
  BY <1>1, WFMin
<1>3. \A t \in S : s <= t
  <2> SUFFICES ASSUME NEW t \in S, t < s PROVE FALSE
    OBVIOUS
  <2> QED
    BY <1>2 DEF Less
<1> QED
  BY <1>3 DEF Min

\* The for loop of handleTwitterInteractions goes to the least tweet left above
\* the last checked one, or ends.
LEMMA ContinueGoesOn ==
    ASSUME Types, NEW p \in Polls, NEW rest \in SUBSET Tweets,
           NEW checked \in 0..MaxTweet, Continue(p, rest, checked)
    PROVE  /\ pc' \in [Polls -> Pcs] /\ todo' \in [Polls -> SUBSET Tweets]
           /\ cur' \in [Polls -> 0..MaxTweet]
           /\ Only(p)
           /\ \/ pc'[p] = "save" /\ cur'[p] = checked
              \/ /\ pc'[p] = "check" /\ cur'[p] \in rest /\ cur'[p] > checked
                 /\ \A t \in rest : t > checked => cur'[p] <= t
                 /\ todo'[p] = {t \in rest : t > checked} \ {cur'[p]}
<1> DEFINE left == {t \in rest : t > checked}
<1> USE TweetAssumption DEF Types, Tweets
<1>1. CASE left = {}
  BY <1>1 DEF Continue, Goto, Only, Pcs
<1>2. CASE left # {}
  <2>0. left \in SUBSET Nat
    <3> SUFFICES ASSUME NEW u \in left PROVE u \in Nat
      OBVIOUS
    <3>1. u \in 1..MaxTweet
      OBVIOUS
    <3> QED
      BY <3>1
  <2>1. Min(left) \in left /\ \A t \in left : Min(left) <= t
    <3> HIDE DEF left
    <3> QED
      BY <1>2, <2>0, MinIsLeast
  <2>2. /\ pc' = [pc EXCEPT ![p] = "check"]
        /\ todo' = [todo EXCEPT ![p] = left \ {Min(left)}]
        /\ cur' = [cur EXCEPT ![p] = Min(left)]
    BY <1>2 DEF Continue, Goto
  <2> HIDE DEF left
  <2>3. left \in SUBSET Tweets /\ \A t \in rest : t > checked <=> t \in left
    BY DEF left
  <2>4. todo'[p] = left \ {cur'[p]}
    BY <2>2
  <2> QED
    BY <2>1, <2>2, <2>3, <2>4 DEF Only, Pcs, left
<1> QED
  BY <1>1, <1>2

\* What one poll does, shown for that poll alone.
LEMMA OnePoll ==
    ASSUME IInv, NEW p \in Polls, Types', PollInv(p)', Only(p),
           memories \subseteq memories', considered \subseteq considered',
           considered' \subseteq considered \cup {cur[p]},
           \A t \in considered' \ considered : t \in memories',
           replies' = replies, overlapped' = overlapped,
           pc[p] # "idle"
    PROVE  IInv'
<1>1. ASSUME NEW q \in Polls, q # p PROVE PollInv(q)'
  BY <1>1 DEF IInv, PollInv, Only
<1>2. Alone'
  BY DEF IInv, Alone, Only
<1>3. AnsweredOnceInTurn' /\ NoSelfReply'
  BY DEF IInv, AnsweredOnceInTurn, AnsweredOnce, NoSelfReply
<1>4. RecordedFirst'
  BY DEF IInv, RecordedFirst
<1> QED
  BY <1>1, <1>2, <1>3, <1>4 DEF IInv

LEMMA InitEstablishes == Init => IInv
  BY TweetAssumption
     DEF Init, IInv, Types, Pcs, PollInv, Working, Unanswered, Recorded, Alone,
         AnsweredOnceInTurn, AnsweredOnce, RecordedFirst, NoSelfReply, Tweets

-----------------------------------------------------------------------------
(* The steps.                                                              *)

\* Twitter, start-up and crashes.
LEMMA EnvironmentPreserves == ASSUME IInv, Mention \/ Boot \/ Crash
                              PROVE  IInv'
<1> USE TweetAssumption DEF IInv
<1>1. /\ Types'
      /\ memories \subseteq memories' /\ replies' = replies
      /\ considered' = considered /\ overlapped' = overlapped
      /\ \A p \in Polls : pc'[p] # "idle" => pc'[p] = pc[p] /\ cur'[p] = cur[p]
  <2>1. CASE Mention
    BY <2>1 DEF Mention, poll, history, Types
  <2>2. CASE Boot
    BY <2>2 DEF Boot, poll, history, Types
  <2>3. CASE Crash
    BY <2>3 DEF Crash, durable, Types, Pcs
  <2> QED
    BY <2>1, <2>2, <2>3
<1>2. \A p \in Polls : PollInv(p)'
  BY <1>1 DEF PollInv, Working, Unanswered, Recorded
<1>3. Alone' /\ AnsweredOnceInTurn' /\ RecordedFirst' /\ NoSelfReply'
  BY <1>1 DEF Alone, AnsweredOnceInTurn, AnsweredOnce, RecordedFirst, NoSelfReply
<1> QED
  BY <1>1, <1>2, <1>3

LEMMA StartPreserves == ASSUME IInv, NEW p \in Polls, Start(p)
                        PROVE  IInv'
<1> USE DEF IInv
<1>1. /\ pc[p] = "idle" /\ pc' = [pc EXCEPT ![p] = "search"]
      /\ UNCHANGED <<newest, replies, memories, cached, lastChecked, todo, cur,
                     considered>>
      /\ overlapped' = (overlapped \/ \E q \in Polls : pc[q] # "idle")
  BY DEF Start, Goto, durable
<1>2. Types'
  BY <1>1 DEF Types, Pcs
<1>3. \A q \in Polls : PollInv(q)'
  BY <1>1 DEF Types, PollInv, Working, Unanswered, Recorded
<1>4. Alone'
  BY <1>1 DEF Types, Alone
<1>5. AnsweredOnceInTurn' /\ RecordedFirst' /\ NoSelfReply'
  BY <1>1 DEF AnsweredOnceInTurn, AnsweredOnce, RecordedFirst, NoSelfReply
<1> QED
  BY <1>2, <1>3, <1>4, <1>5

\* The awaits that only read.
LEMMA LookPreserves ==
    ASSUME IInv, NEW p \in Polls,
           Connect(p) \/ Thread(p) \/ Create(p)
    PROVE  IInv'
<1>1. PICK l \in Unanswered :
        /\ pc' = [pc EXCEPT ![p] = l]
        /\ l \in Recorded => l = "parents" /\ cur[p] \in memories
        /\ l \notin {"decide", "send"}
  BY DEF Connect, Thread, Create, Goto, Unanswered, Working, Recorded, Pcs
<1>2. /\ UNCHANGED <<newest, replies, memories, cached, lastChecked, todo, cur,
                     considered, overlapped>>
      /\ pc[p] \in Unanswered
  BY DEF Connect, Thread, Create, durable, history, Unanswered, Working, Pcs
<1>3. Types' /\ Only(p)
  BY <1>1, <1>2 DEF IInv, Types, Only, Unanswered, Working
<1>4. PollInv(p)'
  BY <1>1, <1>2 DEF IInv, Types, PollInv, Unanswered, Working
<1> QED
  BY <1>2, <1>3, <1>4, OnePoll DEF Unanswered, Working

\* The steps that go on to the next candidate.
LEMMA LoopPreserves ==
    ASSUME IInv, NEW p \in Polls,
           (\E found \in {{}, Latest} : Search(p, found)) \/ Check(p) \/ Done(p)
    PROVE  IInv'
<1> USE DEF IInv
<1>0. Latest \in SUBSET Tweets
  BY TweetAssumption DEF Types, Latest, Tweets
<1>1. CASE Check(p) /\ cur[p] \notin memories
  <2>1. /\ pc[p] = "check" /\ pc' = [pc EXCEPT ![p] = "connect"]
        /\ UNCHANGED <<newest, replies, memories, cached, lastChecked, todo, cur,
                       considered, overlapped>>
    BY <1>1 DEF Check, Goto, durable, history
  <2>2. Types' /\ Only(p)
    BY <2>1 DEF Types, Pcs, Only
  <2>3. cur[p] \in Tweets /\ replies[cur[p]] = 0
    BY <1>1, <2>1 DEF PollInv, Working, Pcs, RecordedFirst, Types
  <2>4. PollInv(p)'
    BY <2>1, <2>3 DEF Types, PollInv, Recorded
  <2> QED
    BY <2>1, <2>2, <2>4, OnePoll
<1>2. ASSUME NEW rest \in SUBSET Tweets, NEW checked \in 0..MaxTweet,
             Continue(p, rest, checked), pc[p] # "idle",
             lastChecked' \in 0..MaxTweet,
             UNCHANGED <<newest, replies, memories, cached, considered, overlapped>>
      PROVE  IInv'
  <2>1. Types' /\ Only(p)
    BY <1>2, ContinueGoesOn DEF Types
  <2>2. \/ pc'[p] = "save"
        \/ pc'[p] = "check" /\ cur'[p] \in Tweets
    BY <1>2, ContinueGoesOn
  <2>3. PollInv(p)'
    BY <2>2 DEF PollInv, Working, Unanswered, Recorded
  <2> QED
    BY <1>2, <2>1, <2>3, OnePoll
<1>3. CASE Check(p) /\ cur[p] \in memories
  BY <1>2, <1>3 DEF Check, Types, durable, history
<1>4. CASE Done(p)
  BY <1>2, <1>4 DEF Done, Types, durable, history
<1>5. ASSUME NEW found \in {{}, Latest}, Search(p, found) PROVE IInv'
  <2>1. found \in SUBSET Tweets
    BY <1>0
  <2> QED
    BY <1>2, <1>5, <2>1 DEF Search, Types, durable, history
<1> QED
  BY <1>1, <1>3, <1>4, <1>5

\* The inserts, and the errors and the save that end a poll.
LEMMA WritePreserves ==
    ASSUME IInv, NEW p \in Polls,
           CreateRoom(p) \/ Insert(p) \/ Parents(p) \/ Save(p) \/ Throw(p)
    PROVE  IInv'
<1> USE DEF IInv
<1>1. /\ memories \subseteq memories' /\ pc[p] # "idle"
      /\ UNCHANGED <<newest, replies, lastChecked, considered, overlapped>>
  BY DEF CreateRoom, Insert, Parents, Save, Throw, durable, history
<1>2. cached' \in 0..MaxTweet
  BY DEF CreateRoom, Insert, Parents, Save, Throw, durable, Types
<1>3. CASE pc'[p] = "idle" /\ pc' = [pc EXCEPT ![p] = "idle"]
           /\ todo' \in [Polls -> SUBSET Tweets] /\ cur' \in [Polls -> 0..MaxTweet]
           /\ Only(p)
  <2>1. Types' /\ PollInv(p)'
    BY <1>1, <1>2, <1>3 DEF Types, Pcs, PollInv, Working, Unanswered, Recorded
  <2> QED
    BY <1>1, <1>3, <2>1, OnePoll
<1>4. ASSUME EndPoll(p) PROVE IInv'
  BY <1>3, <1>4, TweetAssumption DEF EndPoll, Goto, Types, Only
<1>5. ASSUME NEW l \in Pcs, pc' = [pc EXCEPT ![p] = l], UNCHANGED <<todo, cur>>,
             l \in Recorded => cur[p] \in memories',
             l \in Working => pc[p] \in Working,
             l \in Unanswered => pc[p] \in Unanswered,
             l \in {"decide", "send"} => cur[p] \notin Own
      PROVE  IInv'
  <2>1. Types' /\ Only(p)
    BY <1>1, <1>2, <1>5 DEF Types, Only
  <2>2. PollInv(p)'
    BY <1>1, <1>5 DEF Types, PollInv
  <2> QED
    BY <1>1, <2>1, <2>2, OnePoll
<1>6. CASE CreateRoom(p)
  BY <1>4, <1>5, <1>6
     DEF CreateRoom, Goto, Pcs, Working, Unanswered, Recorded
<1>7. CASE Insert(p)
  BY <1>4, <1>5, <1>7
     DEF Insert, Goto, Pcs, Working, Unanswered, Recorded
<1>8. CASE Parents(p)
  <2>1. cur[p] \in memories'
    BY <1>1, <1>8 DEF Parents, PollInv, Recorded
  <2> QED
    BY <1>5, <1>8, <2>1 DEF Parents, Goto, Pcs, Working, Unanswered, Recorded
<1>9. CASE Save(p)
  BY <1>3, <1>9, TweetAssumption DEF Save, Goto, Types, Only
<1> QED
  BY <1>4, <1>6, <1>7, <1>8, <1>9 DEF Throw

LEMMA DecidePreserves == ASSUME IInv, NEW p \in Polls, NEW respond \in BOOLEAN,
                                Decide(p, respond)
                         PROVE  IInv'
<1> USE DEF IInv
<1>1. /\ pc[p] = "decide" /\ considered' = considered \cup {cur[p]}
      /\ pc' = [pc EXCEPT ![p] = IF respond THEN "send" ELSE "done"]
      /\ UNCHANGED <<newest, replies, memories, cached, lastChecked, todo, cur,
                     overlapped>>
  BY DEF Decide, Goto, durable
<1>2. Types' /\ Only(p)
  BY <1>1 DEF Types, Pcs, Only
<1>3. PollInv(p)' /\ cur[p] \in memories
  BY <1>1 DEF Types, PollInv, Working, Unanswered, Recorded, Pcs
<1> QED
  BY <1>1, <1>2, <1>3, OnePoll

LEMMA SendPreserves == ASSUME IInv, NEW p \in Polls, NEW sent \in BOOLEAN,
                              Send(p, sent)
                       PROVE  IInv'
<1> USE DEF IInv
<1>1. /\ pc[p] = "send" /\ pc' = [pc EXCEPT ![p] = "done"]
      /\ replies' = [replies EXCEPT ![cur[p]] = IF sent THEN @ + 1 ELSE @]
      /\ UNCHANGED <<newest, memories, cached, lastChecked, todo, cur, considered,
                     overlapped>>
  BY DEF Send, Goto, history
<1>2. /\ cur[p] \in Tweets /\ cur[p] \in memories /\ cur[p] \notin Own
      /\ ~overlapped => replies[cur[p]] = 0
  BY <1>1 DEF PollInv, Working, Unanswered, Recorded, Pcs
<1>3. Types'
  BY <1>1, <1>2 DEF Types, Pcs
<1>4. ASSUME NEW q \in Polls PROVE PollInv(q)'
  <2>1. CASE q = p
    BY <1>1, <1>2, <2>1 DEF Types, PollInv, Unanswered, Recorded
  <2>2. CASE q # p
    <3>1. pc'[q] = pc[q] /\ cur'[q] = cur[q]
      BY <1>1, <2>2 DEF Types
    <3>2. overlapped \/ pc[q] = "idle"
      BY <1>1, <2>2 DEF Alone
    <3> QED
      BY <1>1, <3>1, <3>2 DEF PollInv, Unanswered, Working
  <2> QED
    BY <2>1, <2>2
<1>5. Alone'
  BY <1>1 DEF Types, Alone
<1>6. AnsweredOnceInTurn'
  BY <1>1, <1>2 DEF Types, AnsweredOnceInTurn, AnsweredOnce
<1>7. RecordedFirst' /\ NoSelfReply'
  BY <1>1, <1>2, TweetAssumption DEF Types, RecordedFirst, NoSelfReply
<1> QED
  BY <1>3, <1>4, <1>5, <1>6, <1>7

LEMMA StepPreserves == IInv /\ [Next]_vars => IInv'
<1> SUFFICES ASSUME IInv, [Next]_vars PROVE IInv'
  OBVIOUS
<1>1. CASE UNCHANGED vars
  BY <1>1 DEF vars, durable, poll, history, IInv, Types, PollInv, Alone,
     AnsweredOnceInTurn, AnsweredOnce, RecordedFirst, NoSelfReply
<1>2. ASSUME NEW p \in Polls, Step(p) PROVE IInv'
  BY <1>2, LookPreserves, LoopPreserves, WritePreserves, DecidePreserves,
     SendPreserves DEF Step
<1> QED
  BY <1>1, <1>2, EnvironmentPreserves, StartPreserves, WritePreserves DEF Next

LEMMA AlwaysIInv == Spec => []IInv
  BY InitEstablishes, StepPreserves, PTL DEF Spec

-----------------------------------------------------------------------------
(* The last checked id.                                                    *)

\* Recorded, or left out by a full page of results.
Accounted(t) == t \in memories \cup leftOut

\* Whatever is not above the tweet a poll works on is accounted for or still in its
\* hands, and what it puts off is newer.
Page(p) ==
    /\ pc[p] \in Working =>
         /\ \A u \in todo[p] : cur[p] < u
         /\ \A u \in todo[p] \cup {cur[p]} :
                \A t \in 1..u : t \in todo[p] \cup {cur[p]} \/ Accounted(t)
    /\ pc[p] = "save" => \A t \in 1..cur[p] : Accounted(t)

PagesInv == CheckedAreRecorded /\ \A p \in Polls : Page(p)

\* A poll that keeps its tweets, or gives them up.
LEMMA PageKept ==
    ASSUME NEW p \in Polls, Page(p), memories \cup leftOut \subseteq memories' \cup leftOut',
           \/ pc'[p] \in {"idle", "search"}
           \/ /\ pc'[p] = pc[p] \/ {pc[p], pc'[p]} \subseteq Working
              /\ todo'[p] = todo[p] /\ cur'[p] = cur[p]
    PROVE  Page(p)'
<1>1. CASE pc'[p] \in {"idle", "search"}
  BY <1>1 DEF Page, Working
<1>2. CASE /\ pc'[p] = pc[p] \/ {pc[p], pc'[p]} \subseteq Working
           /\ todo'[p] = todo[p] /\ cur'[p] = cur[p]
  BY <1>2 DEF Page, Working, Accounted
<1> QED
  BY <1>1, <1>2

\* The next candidate, once everything up to the last checked id is recorded.
LEMMA PageContinues ==
    ASSUME Types, NEW p \in Polls, NEW rest \in SUBSET Tweets,
           NEW checked \in 0..MaxTweet, Continue(p, rest, checked),
           \A t \in 1..checked : Accounted(t)',
           \A u \in rest : \A t \in 1..u : t \in rest \/ Accounted(t)'
    PROVE  Page(p)'
<1>1. CASE pc'[p] = "save" /\ cur'[p] = checked
  BY <1>1 DEF Page, Working
<1>2. CASE /\ pc'[p] = "check" /\ cur'[p] \in rest /\ cur'[p] > checked
           /\ \A t \in rest : t > checked => cur'[p] <= t
           /\ todo'[p] = {t \in rest : t > checked} \ {cur'[p]}
  <2>1. ASSUME NEW u \in todo'[p] PROVE cur'[p] < u
    <3>1. u \in rest /\ u > checked /\ u # cur'[p] /\ cur'[p] <= u
      BY <1>2
    <3>2. \A t \in rest : t \in Int
      BY TweetAssumption DEF Tweets
    <3>3. u \in Int /\ cur'[p] \in Int
      BY <1>2, <3>1, <3>2
    <3> QED
      BY <3>1, <3>3
  <2>2. ASSUME NEW u \in todo'[p] \cup {cur'[p]}, NEW t \in 1..u, ~Accounted(t)'
        PROVE  t \in todo'[p] \cup {cur'[p]}
    <3>1. u \in rest /\ t \in rest
      BY <1>2, <2>2
    <3>2. ~(t \in 1..checked) /\ t \in Nat /\ t >= 1 /\ checked \in Nat
      BY <2>2, <3>1, TweetAssumption DEF Tweets
    <3> QED
      BY <1>2, <3>1, <3>2
  <2> QED
    BY <1>2, <2>1, <2>2 DEF Page
<1> QED
  BY <1>1, <1>2, ContinueGoesOn

LEMMA PagesInit == Init => PagesInv
  BY DEF Init, PagesInv, Page, CheckedAreRecorded, Working

\* The steps that change the last checked id, or go on to another candidate.
LEMMA PagesLoop ==
    ASSUME IInv, PagesInv, NEW p \in Polls,
           (\E found \in {{}, Latest} : Search(p, found)) \/ Check(p) \/ Done(p) \/ Save(p)
    PROVE  PagesInv'
<1> USE DEF IInv, PagesInv
<1>1. /\ memories' = memories /\ leftOut \subseteq leftOut'
      /\ \A t \in Nat : Accounted(t) => Accounted(t)'
  BY DEF Search, Check, Done, Save, durable, history, Accounted
<1>2. ASSUME Only(p), CheckedAreRecorded', Page(p)' PROVE PagesInv'
  <2>1. ASSUME NEW q \in Polls, q # p PROVE Page(q)'
    BY <1>1, <1>2, <2>1, PageKept DEF Only
  <2> QED
    BY <1>2, <2>1
<1>3. ASSUME NEW found \in {{}, Latest}, Search(p, found) PROVE PagesInv'
  <2>1. Latest \subseteq 1..newest /\ 1..newest \subseteq Tweets
    BY TweetAssumption DEF Types, Latest, Tweets
  <2>2. found \in SUBSET Tweets /\ \A u \in found : \A t \in 1..u : t \in found \/ Accounted(t)'
    <3> SUFFICES ASSUME NEW u \in found, NEW t \in 1..u, t \notin found
                 PROVE  Accounted(t)'
      BY <2>1
    <3> HIDE DEF PagesInv
    <3>1. t \in 1..newest
      <4>1. newest \in Nat
        BY TweetAssumption DEF Types
      <4>2. u \in 1..newest
        BY <2>1, Zenon
      <4> HIDE DEF IInv
      <4> QED
        BY <4>1, <4>2
    <3>2. found # {} /\ leftOut' = leftOut \cup Missed(found)
      BY <1>3 DEF Search
    <3>3. leftOut' = leftOut \cup ((1..newest) \ (found \cup memories))
      BY <3>2, Zenon DEF Missed
    <3>4. t \in leftOut' \/ t \in memories
      BY <3>1, <3>3
    <3> QED
      BY <1>1, <3>4, Zenon DEF Accounted
  <2>3. /\ Continue(p, found, lastChecked) /\ lastChecked \in 0..MaxTweet
        /\ \A t \in 1..lastChecked : Accounted(t)'
    BY <1>1, <1>3, TweetAssumption DEF Search, Types, CheckedAreRecorded, Accounted
  <2>4. Page(p)' /\ Only(p)
    BY <2>2, <2>3, PageContinues, ContinueGoesOn
  <2>5. CheckedAreRecorded'
    BY <1>1, <1>3 DEF Search, durable, CheckedAreRecorded
  <2> QED
    BY <1>2, <2>4, <2>5
<1>4. CASE Check(p) /\ cur[p] \in memories
  <2>1. /\ Continue(p, todo[p], lastChecked) /\ lastChecked \in 0..MaxTweet
        /\ todo[p] \in SUBSET Tweets
        /\ \A t \in 1..lastChecked : Accounted(t)'
    BY <1>1, <1>4, TweetAssumption DEF Check, Types, CheckedAreRecorded, Accounted
  <2>2. \A u \in todo[p] : \A t \in 1..u : t \in todo[p] \/ Accounted(t)'
    BY <1>1, <1>4 DEF Check, Page, Working, Pcs, Accounted
  <2>3. Page(p)' /\ Only(p)
    BY <2>1, <2>2, PageContinues, ContinueGoesOn
  <2>4. CheckedAreRecorded'
    BY <1>1, <1>4 DEF Check, durable, CheckedAreRecorded
  <2> QED
    BY <1>2, <2>3, <2>4
<1>5. CASE Check(p) /\ cur[p] \notin memories
  <2>1. /\ pc[p] = "check" /\ pc' = [pc EXCEPT ![p] = "connect"]
        /\ UNCHANGED <<cached, lastChecked, todo, cur>>
    BY <1>5 DEF Check, Goto, durable
  <2>2. Page(p)' /\ Only(p)
    BY <1>1, <2>1, PageKept DEF Types, Working, Pcs, Only
  <2> QED
    BY <1>1, <1>2, <2>1, <2>2 DEF CheckedAreRecorded
<1>6. CASE Done(p)
  <2>1. /\ pc[p] = "done" /\ lastChecked' = cur[p] /\ cached' = cached
        /\ Continue(p, todo[p], cur[p]) /\ cur[p] \in Tweets /\ cur[p] \in 0..MaxTweet
        /\ todo[p] \in SUBSET Tweets /\ cur[p] \in memories
    BY <1>6 DEF Done, durable, Types, PollInv, Working, Recorded, Pcs
  <2>2. /\ \A u \in todo[p] : cur[p] < u
        /\ \A u \in todo[p] \cup {cur[p]} :
                \A t \in 1..u : t \in todo[p] \cup {cur[p]} \/ Accounted(t)
    BY <2>1 DEF Page, Working, Pcs
  <2>3. \A t \in 1..cur[p] : Accounted(t)'
    <3> SUFFICES ASSUME NEW t \in 1..cur[p], t \in todo[p] PROVE FALSE
      BY <1>1, <2>1, <2>2 DEF Accounted
    <3> QED
      BY <2>1, <2>2, TweetAssumption DEF Tweets
  <2>4. \A u \in todo[p] : \A t \in 1..u : t \in todo[p] \/ Accounted(t)'
    BY <1>1, <2>1, <2>2 DEF Accounted
  <2>5. Page(p)' /\ Only(p)
    BY <2>1, <2>3, <2>4, PageContinues, ContinueGoesOn
  <2>6. CheckedAreRecorded'
    BY <1>1, <2>1, <2>3 DEF CheckedAreRecorded, Accounted
  <2> QED
    BY <1>2, <2>5, <2>6
<1>7. CASE Save(p)
  <2>1. /\ pc[p] = "save" /\ pc' = [pc EXCEPT ![p] = "idle"]
        /\ cur' = [cur EXCEPT ![p] = 0] /\ todo' = todo
        /\ cached' \in {cur[p], cached} /\ lastChecked' = lastChecked
    BY <1>7 DEF Save, Goto
  <2>2. Page(p)' /\ Only(p)
    BY <2>1 DEF Types, Page, Working, Only
  <2>3. CheckedAreRecorded'
    BY <1>1, <2>1 DEF CheckedAreRecorded, Page, Accounted
  <2> QED
    BY <1>2, <2>2, <2>3
<1> QED
  BY <1>3, <1>4, <1>5, <1>6, <1>7

\* All the others.
LEMMA PagesElsewhere ==
    ASSUME IInv, PagesInv, memories \subseteq memories', leftOut' = leftOut,
           lastChecked' \in {lastChecked, cached, 0}, cached' = cached,
           \A p \in Polls :
               \/ pc'[p] \in {"idle", "search"}
               \/ /\ pc'[p] = pc[p] \/ {pc[p], pc'[p]} \subseteq Working
                  /\ todo'[p] = todo[p] /\ cur'[p] = cur[p]
    PROVE  PagesInv'
<1>1. \A p \in Polls : Page(p)'
  BY PageKept DEF PagesInv
<1>2. CheckedAreRecorded'
  BY DEF PagesInv, CheckedAreRecorded
<1> QED
  BY <1>1, <1>2 DEF PagesInv

LEMMA PagesStep == IInv /\ PagesInv /\ [Next]_vars => PagesInv'
<1> SUFFICES ASSUME IInv, PagesInv, [Next]_vars PROVE PagesInv'
  OBVIOUS
<1>1. CASE UNCHANGED vars
  BY <1>1, PagesElsewhere DEF vars, durable, poll, history
<1>2. CASE Mention \/ Boot \/ Crash
  <2>1. /\ memories \subseteq memories' /\ leftOut' = leftOut /\ cached' = cached
        /\ lastChecked' \in {lastChecked, cached, 0}
    BY <1>2 DEF Mention, Boot, Crash, durable, history
  <2>2. \A p \in Polls : pc'[p] # "idle"
            => pc'[p] = pc[p] /\ todo'[p] = todo[p] /\ cur'[p] = cur[p]
    BY <1>2 DEF Mention, Boot, Crash, poll
  <2> QED
    BY <2>1, <2>2, PagesElsewhere
<1>3. ASSUME NEW p \in Polls,
             \/ Start(p) \/ Connect(p) \/ CreateRoom(p) \/ Thread(p) \/ Create(p)
             \/ Insert(p) \/ Parents(p) \/ Throw(p)
             \/ \E respond \in BOOLEAN : Decide(p, respond)
             \/ \E sent \in BOOLEAN : Send(p, sent)
      PROVE  PagesInv'
  <2>1. /\ memories \subseteq memories' /\ leftOut' = leftOut
        /\ cached' = cached /\ lastChecked' = lastChecked
    BY <1>3 DEF Start, Connect, CreateRoom, Thread, Create, Insert, Parents, Throw,
       Decide, Send, durable, history
  <2>2. \/ pc'[p] \in {"idle", "search"}
        \/ /\ pc[p] \in Working /\ pc'[p] \in Working
           /\ todo'[p] = todo[p] /\ cur'[p] = cur[p]
    BY <1>3 DEF Start, Connect, CreateRoom, Thread, Create, Insert, Parents, Throw,
       Decide, Send, EndPoll, Goto, Working, Pcs, IInv, Types
  <2>3. Only(p)
    BY <1>3 DEF Start, Connect, CreateRoom, Thread, Create, Insert, Parents, Throw,
       Decide, Send, EndPoll, Goto, IInv, Types, Only
  <2> QED
    BY <2>1, <2>2, <2>3, PagesElsewhere DEF Only
<1>4. ASSUME NEW p \in Polls,
             \/ \E found \in {{}, Latest} : Search(p, found)
             \/ Check(p) \/ Done(p) \/ Save(p)
      PROVE  PagesInv'
  BY <1>4, PagesLoop
<1> QED
  BY <1>1, <1>2, <1>3, <1>4 DEF Next, Step

-----------------------------------------------------------------------------
(* The rest of the types. *)

\* A room is named by a tweet.
LEMMA ConversationIsTweet == ASSUME NEW t \in Tweets PROVE Conversation(t) \in Tweets
<1>1. Ancestors[t] \cup {t} \in SUBSET Nat /\ Ancestors[t] \cup {t} \in SUBSET Tweets
  BY TweetAssumption DEF Tweets
<1> QED
  BY <1>1, MinIsLeast DEF Conversation

Rest == /\ memories \subseteq Tweets /\ rooms \subseteq Tweets
        /\ running \in BOOLEAN
        /\ considered \subseteq Tweets /\ leftOut \subseteq Tweets
        /\ overlapped \in BOOLEAN /\ faulted \in BOOLEAN
        /\ restarts \in 0..MaxRestarts

LEMMA RestStep == IInv /\ Rest /\ [Next]_vars => Rest'
<1> SUFFICES ASSUME IInv, Rest, [Next]_vars PROVE Rest'
  OBVIOUS
<1> USE DEF Rest
<1>1. CASE UNCHANGED vars
  BY <1>1 DEF vars, durable, history
<1>2. CASE Mention
  BY <1>2 DEF Mention, history
<1>3. CASE Boot
  <2>1. 1..newest \subseteq Tweets
    BY TweetAssumption DEF IInv, Types, Tweets
  <2> QED
    BY <1>3, <2>1 DEF Boot, history
<1>4. CASE Crash
  <2>1. overlapped' \in BOOLEAN /\ faulted' \in BOOLEAN /\ running' \in BOOLEAN
    BY <1>4, Zenon DEF Crash
  <2>2. restarts' \in 0..MaxRestarts /\ UNCHANGED <<memories, rooms, considered, leftOut>>
    BY <1>4, TweetAssumption DEF Crash, durable
  <2> QED
    BY <2>1, <2>2
<1>5. ASSUME NEW p \in Polls,
             \/ Start(p) \/ Check(p) \/ Connect(p) \/ Thread(p) \/ Create(p)
             \/ Done(p) \/ Save(p) \/ Throw(p)
             \/ \E found \in {{}, Latest} : Search(p, found)
             \/ \E sent \in BOOLEAN : Send(p, sent)
      PROVE  Rest'
  <2>1. UNCHANGED <<memories, rooms, running, considered, restarts>>
    BY <1>5 DEF Start, Check, Connect, Thread, Create, Done, Save, Throw, Search, Send,
                durable, history
  <2>3. leftOut' \subseteq Tweets
    <3>1. 1..newest \subseteq Tweets
      BY TweetAssumption DEF IInv, Types, Tweets
    <3>2. ASSUME NEW found \in {{}, Latest}, Search(p, found) PROVE leftOut' \subseteq Tweets
      BY <3>1, <3>2 DEF Search, Missed
    <3>3. CASE UNCHANGED leftOut
      BY <3>3
    <3> QED
      BY <1>5, <3>2, <3>3 DEF Start, Check, Connect, Thread, Create, Done, Save, Throw,
                              Send, history
  <2>2. overlapped' \in BOOLEAN /\ faulted' \in BOOLEAN
    BY <1>5, Zenon DEF Start, Check, Connect, Thread, Create, Done, Save, Throw, Search, Send,
                history
  <2> QED
    BY <2>1, <2>2, <2>3
<1>6. ASSUME NEW p \in Polls,
             \/ CreateRoom(p) \/ Insert(p) \/ Parents(p)
             \/ \E respond \in BOOLEAN : Decide(p, respond)
      PROVE  Rest'
  <2>1. cur[p] \in Tweets
    BY <1>6 DEF CreateRoom, Insert, Parents, Decide, IInv, PollInv, Working, Pcs
  <2>2. Conversation(cur[p]) \in Tweets /\ Ancestors[cur[p]] \subseteq Tweets
    BY <2>1, ConversationIsTweet, TweetAssumption
  <2>3. CASE CreateRoom(p)
    BY <2>2, <2>3 DEF CreateRoom, history
  <2>4. CASE Insert(p)
    BY <2>1, <2>4 DEF Insert, history
  <2>5. CASE Parents(p)
    BY <2>2, <2>5 DEF Parents, Fetched, history
  <2>6. CASE \E respond \in BOOLEAN : Decide(p, respond)
    BY <2>1, <2>6 DEF Decide, durable
  <2> QED
    BY <1>6, <2>3, <2>4, <2>5, <2>6
<1> HIDE DEF Rest
<1>7. ASSUME NEW p \in Polls, Start(p) \/ Step(p) \/ Throw(p) PROVE Rest'
  BY <1>5, <1>6, <1>7 DEF Step
<1> QED
  BY <1>1, <1>2, <1>3, <1>4, <1>7 DEF Next

\* The types hold for any tweets and threads: a poll holds a tweet whenever it works on
\* one, and the rows it inserts are of tweets and conversations that exist.
THEOREM TypeCorrect == Spec => []TypeOK
<1>1. Init => Rest
  <2>1. Init => running \in BOOLEAN /\ overlapped \in BOOLEAN /\ faulted \in BOOLEAN
    BY Zenon DEF Init
  <2>2. Init => restarts \in 0..MaxRestarts /\ memories = {} /\ rooms = {}
    BY TweetAssumption DEF Init
  <2>3. Init => considered = {} /\ leftOut = {}
    BY TweetAssumption DEF Init
  <2> QED
    BY <2>1, <2>2, <2>3 DEF Rest
<1>2. IInv /\ Rest => TypeOK
  BY DEF IInv, Types, Pcs, Rest, TypeOK
<1> QED
  BY AlwaysIInv, RestStep, <1>1, <1>2, PTL DEF Spec

-----------------------------------------------------------------------------

\* As long as polls do not overlap, no mention is answered twice: not after
\* crashes, lost saves, failed searches or errors of the database.
THEOREM OneAnswerInTurn == Spec => []AnsweredOnceInTurn
<1>1. IInv => AnsweredOnceInTurn
  BY DEF IInv
<1> QED
  BY AlwaysIInv, <1>1, PTL

\* A tweet is in the database before anything is said about it.
THEOREM RecordedBeforeSaid == Spec => []RecordedFirst
<1>1. IInv => RecordedFirst
  BY DEF IInv
<1> QED
  BY AlwaysIInv, <1>1, PTL

\* The agent never answers itself.
THEOREM NeverAnswersItself == Spec => []NoSelfReply
<1>1. IInv => NoSelfReply
  BY DEF IInv
<1> QED
  BY AlwaysIInv, <1>1, PTL

\* The last checked id never passes over a tweet no poll has recorded, however polls
\* overlap, fail and restart, but one that a full page of later mentions left out.
THEOREM NothingPassedOver == Spec => []CheckedAreRecorded
<1>1. PagesInv => CheckedAreRecorded
  BY DEF PagesInv
<1> QED
  BY AlwaysIInv, PagesInit, PagesStep, <1>1, PTL DEF Spec
==============================================================================
