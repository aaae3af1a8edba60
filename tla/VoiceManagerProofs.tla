------------------------- MODULE VoiceManagerProofs -------------------------
(***************************************************************************)
(* Proofs about VoiceManager, for any number of users, of times they speak *)
(* and of transcriptions and answers under way at once.                    *)
(***************************************************************************)
EXTENDS VoiceManager, TLAPS

Rising(s) == \A i, j \in DOMAIN s : i < j => s[i] < s[j]
Below(s, n) == \A i \in DOMAIN s : s[i] < n
Before(s, t) == \A i \in DOMAIN s, j \in DOMAIN t : s[i] < t[j]

\* The first utterance that cannot be in the buffers yet: they get one when it ends.
Unheard(u) == IF speaking[u] THEN utterance[u] ELSE utterance[u] + 1

\* What was transcribed, what waits in the buffers and what the user says now follow each
\* other.
HeardInv(u) == /\ speaking[u] => flagged[u] = utterance[u]
               /\ Rising(fed[u]) /\ Rising(buffers[u]) /\ Before(fed[u], buffers[u])
               /\ Below(fed[u], Unheard(u)) /\ Below(buffers[u], Unheard(u))

Types == TypeOK /\ flagged \in [Users -> Nat]

\* The inductive invariant.
IInv == Types /\ OneConversation /\ OneVoice /\ \A u \in Users : HeardInv(u)

-----------------------------------------------------------------------------
(* Sequences *)

LEMMA EmptyRises == ASSUME NEW s
                    PROVE  /\ <<>> \in Seq(Nat) /\ Rising(<<>>)
                           /\ Before(s, <<>>) /\ \A n : Below(<<>>, n)
  BY DEF Rising, Before, Below

LEMMA EmptyBuffers == [u \in Users |-> <<>>] \in [Users -> Seq(Nat)]
<1>1. <<>> \in Seq(Nat)
  OBVIOUS
<1> QED
  BY <1>1

\* What is below a number stays so below a greater one.
LEMMA BelowMore == ASSUME NEW s \in Seq(Nat), NEW m \in Nat, NEW n \in Nat, m <= n, Below(s, m)
                   PROVE  Below(s, n)
<1> SUFFICES ASSUME NEW i \in DOMAIN s PROVE s[i] < n
  BY DEF Below
<1>1. s[i] \in Nat /\ s[i] < m
  BY DEF Below
<1> QED
  BY <1>1

\* A number above all of a sequence, and of another before it, is appended.
LEMMA AppendRises ==
    ASSUME NEW r \in Seq(Nat), NEW s \in Seq(Nat), NEW n \in Nat,
           Rising(s), Before(r, s), Below(r, n), Below(s, n)
    PROVE  /\ Append(s, n) \in Seq(Nat) /\ Rising(Append(s, n))
           /\ Before(r, Append(s, n)) /\ Below(Append(s, n), n + 1)
<1> DEFINE a == Append(s, n)
<1>1. /\ a \in Seq(Nat) /\ DOMAIN a = 1..(Len(s) + 1) /\ DOMAIN s = 1..Len(s)
      /\ \A i \in 1..Len(s) : a[i] = s[i] /\ s[i] \in Nat
      /\ a[Len(s) + 1] = n /\ Len(s) \in Nat
  OBVIOUS
<1> HIDE DEF a
<1>2. ASSUME NEW j \in 1..(Len(s) + 1)
      PROVE  \/ j \in DOMAIN s /\ a[j] = s[j] /\ s[j] \in Nat /\ s[j] < n
             \/ j = Len(s) + 1 /\ a[j] = n
  <2>1. CASE j \in DOMAIN s
    BY <1>1, <2>1 DEF Below
  <2>2. CASE j \notin DOMAIN s
    BY <1>1, <2>2
  <2> QED
    BY <2>1, <2>2
<1>3. ASSUME NEW i \in DOMAIN a, NEW j \in DOMAIN a, i < j PROVE a[i] < a[j]
  <2>1. i \in DOMAIN s /\ a[i] = s[i] /\ s[i] < n
    BY <1>1, <1>2, <1>3
  <2>2. CASE j \in DOMAIN s
    BY <1>1, <1>3, <2>1, <2>2 DEF Rising
  <2>3. CASE j \notin DOMAIN s
    BY <1>1, <1>2, <2>1, <2>3
  <2> QED
    BY <2>2, <2>3
<1>4. ASSUME NEW i \in DOMAIN r, NEW j \in DOMAIN a PROVE r[i] < a[j]
  <2>1. CASE j \in DOMAIN s
    BY <1>1, <2>1 DEF Before
  <2> QED
    BY <1>1, <1>2, <2>1 DEF Below
<1>5. ASSUME NEW i \in 1..(Len(s) + 1) PROVE a[i] < n + 1
  <2>1. a[i] \in Nat /\ (a[i] = n \/ a[i] < n)
    BY <1>2
  <2> QED
    BY <2>1
<1> QED
  BY <1>1, <1>3, <1>4, <1>5 DEF a, Rising, Before, Below

\* Two sequences of which one comes before the other are joined.
LEMMA JoinRises ==
    ASSUME NEW s \in Seq(Nat), NEW t \in Seq(Nat), NEW n \in Nat,
           Rising(s), Rising(t), Before(s, t), Below(s, n), Below(t, n)
    PROVE  s \o t \in Seq(Nat) /\ Rising(s \o t) /\ Below(s \o t, n)
<1> DEFINE a == s \o t
           k == Len(s)
<1>1. /\ a \in Seq(Nat) /\ DOMAIN a = 1..(k + Len(t)) /\ k \in Nat /\ Len(t) \in Nat
      /\ \A i \in 1..(k + Len(t)) : a[i] = IF i <= k THEN s[i] ELSE t[i - k]
  OBVIOUS
<1>2. DOMAIN s = 1..k /\ DOMAIN t = 1..Len(t)
  OBVIOUS
<1> HIDE DEF a, k
<1>3. ASSUME NEW i \in 1..(k + Len(t))
      PROVE  \/ i \in DOMAIN s /\ a[i] = s[i]
             \/ i > k /\ i - k \in DOMAIN t /\ a[i] = t[i - k]
  BY <1>1, <1>2
<1>4. ASSUME NEW i \in 1..(k + Len(t)), NEW j \in 1..(k + Len(t)), i < j
      PROVE  a[i] < a[j]
  <2>1. CASE i \in DOMAIN s /\ a[i] = s[i] /\ j \in DOMAIN s /\ a[j] = s[j]
    BY <1>4, <2>1 DEF Rising
  <2>2. CASE i \in DOMAIN s /\ a[i] = s[i] /\ j - k \in DOMAIN t /\ a[j] = t[j - k]
    BY <2>2 DEF Before
  <2>3. CASE /\ i > k /\ i - k \in DOMAIN t /\ a[i] = t[i - k]
             /\ j - k \in DOMAIN t /\ a[j] = t[j - k]
    <3>1. i - k < j - k
      BY <1>1, <1>4
    <3> QED
      BY <2>3, <3>1 DEF Rising
  <2>4. j \in DOMAIN s => i \in DOMAIN s
    BY <1>1, <1>2, <1>4
  <2> QED
    BY <1>1, <1>2, <1>3, <1>4, <2>1, <2>2, <2>3, <2>4
<1>5. ASSUME NEW i \in 1..(k + Len(t)) PROVE a[i] < n
  BY <1>3 DEF Below
<1> QED
  BY <1>1, <1>4, <1>5 DEF a, Rising, Below

-----------------------------------------------------------------------------
(* The steps *)

LEMMA InitIInv == Init => IInv
<1> SUFFICES ASSUME Init PROVE IInv
  OBVIOUS
<1>1. Types
  <2>1. buffers \in [Users -> Seq(Nat)] /\ fed \in [Users -> Seq(Nat)]
    BY EmptyBuffers DEF Init
  <2>2. UnderWay <= MaxUnderWay
    BY VoiceAssumption DEF Init, UnderWay
  <2> QED
    BY <2>1, <2>2 DEF Init, Types, TypeOK
<1>2. OneConversation /\ OneVoice
  BY DEF Init, OneConversation, OneVoice, UnderWay
<1>3. ASSUME NEW u \in Users PROVE HeardInv(u)
  <2>1. fed[u] = <<>> /\ buffers[u] = <<>> /\ ~speaking[u]
    BY DEF Init
  <2> QED
    BY <2>1, EmptyRises DEF HeardInv
<1> QED
  BY <1>1, <1>2, <1>3 DEF IInv

\* A player starts, is stopped or ends.
LEMMA PlayerVoice ==
    ASSUME Types, OneVoice,
           \/ CleanupAudioPlayer \/ PlayAudioStream \/ UNCHANGED player
           \/ /\ activeAudioPlayer = "playing"
              /\ activeAudioPlayer' = "idle" /\ voices' = voices - 1
    PROVE  /\ OneVoice'
           /\ activeAudioPlayer' \in {"none", "playing", "idle"} /\ voices' \in Nat
  BY DEF Types, TypeOK, OneVoice, CleanupAudioPlayer, PlayAudioStream, Others, player

\* What is neither said nor heard by a user does not disturb its words.
LEMMA NotHeard ==
    ASSUME NEW u, HeardInv(u), utterance'[u] = utterance[u], speaking'[u] = speaking[u],
           flagged'[u] = flagged[u], fed'[u] = fed[u], buffers'[u] \in {buffers[u], <<>>}
    PROVE  HeardInv(u)'
  BY EmptyRises DEF HeardInv, Unheard

\* A player's step disturbs neither words nor conversation.
LEMMA PlayerIInv ==
    ASSUME IInv, UNCHANGED <<talk, ears, buffers, timer, processingVoice, tasks, history>>,
           \/ CleanupAudioPlayer \/ PlayAudioStream \/ UNCHANGED player
           \/ /\ activeAudioPlayer = "playing"
              /\ activeAudioPlayer' = "idle" /\ voices' = voices - 1
    PROVE  IInv'
<1> USE DEF IInv, talk, ears, tasks, history
<1>1. Types' /\ OneVoice'
  BY PlayerVoice DEF Types, TypeOK, UnderWay
<1>2. OneConversation'
  BY DEF OneConversation, UnderWay
<1>3. ASSUME NEW u \in Users PROVE HeardInv(u)'
  BY NotHeard
<1> QED
  BY <1>1, <1>2, <1>3

\* A user starts to speak: nobody has heard the new utterance.
LEMMA StartIInv == ASSUME IInv, NEW u \in Users, Start(u) PROVE IInv'
<1> USE DEF IInv, Start, Reset, tasks, player, history
<1>1. /\ utterance[u] \in Nat /\ ~speaking[u] /\ utterance'[u] = utterance[u] + 1
      /\ speaking'[u] /\ flagged'[u] = utterance[u] + 1
  BY DEF Types, TypeOK
<1>2. Types'
  BY <1>1 DEF Types, TypeOK, UnderWay
<1>3. OneConversation' /\ OneVoice'
  BY DEF Types, TypeOK, OneConversation, OneVoice, UnderWay
<1>4. HeardInv(u)'
  BY <1>1 DEF HeardInv, Unheard
<1>5. ASSUME NEW v \in Users, v # u PROVE HeardInv(v)'
  BY <1>5, NotHeard DEF Types, TypeOK
<1> QED
  BY <1>2, <1>3, <1>4, <1>5

\* What debouncedProcessTranscription may do with what a user has said.
LEMMA DebounceEffect ==
    ASSUME Types, OneVoice, NEW u \in Users, NEW said, Debounce(u, said)
    PROVE  /\ \/ buffers' = [buffers EXCEPT ![u] = <<>>] /\ timer' = timer
              \/ ~processingVoice /\ buffers' = [buffers EXCEPT ![u] = said] /\ timer' = u
           /\ OneVoice'
           /\ activeAudioPlayer' \in {"none", "playing", "idle"} /\ voices' \in Nat
<1>1. CleanupAudioPlayer \/ UNCHANGED player
  BY DEF Debounce
<1> QED
  BY <1>1, PlayerVoice DEF Debounce

\* A user stops: what its monitor has is newer than what is in its buffers.
LEMMA StopIInv == ASSUME IInv, NEW u \in Users, Stop(u) PROVE IInv'
<1> DEFINE said == Append(buffers[u], flagged[u])
<1> USE DEF IInv, Stop, ears, tasks, history
<1>1. /\ utterance[u] \in Nat /\ speaking[u] /\ utterance' = utterance
      /\ speaking' = [speaking EXCEPT ![u] = FALSE] /\ ~speaking'[u]
      /\ flagged' = flagged /\ flagged[u] = utterance[u]
  BY DEF Types, TypeOK, HeardInv
<1>2. /\ said \in Seq(Nat) /\ Rising(said) /\ Before(fed[u], said)
      /\ Below(said, utterance[u] + 1) /\ Below(fed[u], utterance[u] + 1)
      /\ Below(buffers[u], utterance[u] + 1)
  <2>1. /\ fed[u] \in Seq(Nat) /\ buffers[u] \in Seq(Nat)
        /\ Below(fed[u], utterance[u]) /\ Below(buffers[u], utterance[u])
    BY <1>1 DEF Types, TypeOK, HeardInv, Unheard
  <2> QED
    BY <1>1, <2>1, AppendRises, BelowMore DEF HeardInv
<1>3. /\ \/ buffers' = [buffers EXCEPT ![u] = <<>>] /\ timer' = timer
         \/ ~processingVoice /\ buffers' = [buffers EXCEPT ![u] = said] /\ timer' = u
         \/ buffers' = buffers /\ timer' = timer
      /\ OneVoice'
      /\ activeAudioPlayer' \in {"none", "playing", "idle"} /\ voices' \in Nat
  <2>1. CASE u \in monitored
    BY <2>1, DebounceEffect DEF ProcessBuffer
  <2>2. CASE u \notin monitored
    BY <2>2, PlayerVoice
  <2> QED
    BY <2>1, <2>2
<1> HIDE DEF said
<1>4. Types'
  BY <1>1, <1>2, <1>3, EmptyRises DEF Types, TypeOK, UnderWay
<1>5. OneConversation'
  BY <1>3 DEF OneConversation, UnderWay
<1>6. HeardInv(u)'
  <2>1. buffers'[u] \in {<<>>, said, buffers[u]} /\ fed' = fed /\ Unheard(u)' = utterance[u] + 1
    BY <1>1, <1>3 DEF Types, TypeOK, Unheard
  <2> QED
    BY <1>1, <1>2, <2>1, EmptyRises DEF HeardInv
<1>7. ASSUME NEW v \in Users, v # u PROVE HeardInv(v)'
  BY <1>1, <1>3, <1>7, NotHeard DEF Types, TypeOK
<1> QED
  BY <1>3, <1>4, <1>5, <1>6, <1>7

\* The timer fires: what its user has said is transcribed, after all that was before.
LEMMA FireIInv == ASSUME IInv, Fire PROVE IInv'
<1> USE DEF IInv, Fire, talk, ears, player
<1>1. UnderWay < MaxUnderWay /\ UnderWay \in Nat
  BY DEF Types, TypeOK, UnderWay
<1> PICK u \in Users : u = timer
  BY DEF Types, TypeOK
<1>2. CASE buffers[u] = <<>>
  <2>1. /\ timer' = Nobody /\ buffers' = [v \in Users |-> <<>>] /\ processingVoice' = FALSE
        /\ UNCHANGED <<tasks, fed>>
    BY <1>2 DEF End
  <2>2. Types' /\ OneVoice'
    BY <2>1, EmptyRises DEF Types, TypeOK, OneVoice, UnderWay, tasks
  <2>3. OneConversation'
    BY <1>1, <2>1 DEF Types, TypeOK, OneConversation, UnderWay, tasks
  <2>4. ASSUME NEW v \in Users PROVE HeardInv(v)'
    BY <2>1, NotHeard
  <2> QED
    BY <2>2, <2>3, <2>4
<1>3. CASE buffers[u] # <<>>
  <2>1. /\ timer' = Nobody /\ buffers' = [buffers EXCEPT ![u] = <<>>]
        /\ processingVoice' = TRUE
        /\ fed' = [fed EXCEPT ![u] = fed[u] \o buffers[u]]
        /\ transcribing' = transcribing + 1 /\ answering' = answering
    BY <1>3
  <2>2. /\ fed[u] \o buffers[u] \in Seq(Nat) /\ Rising(fed[u] \o buffers[u])
        /\ Below(fed[u] \o buffers[u], Unheard(u))
    <3>1. /\ fed[u] \in Seq(Nat) /\ buffers[u] \in Seq(Nat) /\ Unheard(u) \in Nat
      BY <1>1 DEF Types, TypeOK, Unheard
    <3> QED
      BY <1>1, <3>1, JoinRises DEF HeardInv
  <2>3. Types' /\ OneVoice'
    <3>1. buffers' \in [Users -> Seq(Nat)] /\ fed' \in [Users -> Seq(Nat)]
      BY <2>1, <2>2, EmptyRises DEF Types, TypeOK
    <3>2. transcribing' \in Nat /\ answering' \in Nat /\ UnderWay' <= MaxUnderWay
      BY <1>1, <2>1, VoiceAssumption DEF Types, TypeOK, UnderWay
    <3> QED
      BY <2>1, <3>1, <3>2 DEF Types, TypeOK, OneVoice
  <2>4. OneConversation'
    BY <1>1, <2>1 DEF Types, TypeOK, OneConversation, UnderWay
  <2>5. HeardInv(u)'
    BY <1>1, <2>1, <2>2, EmptyRises DEF Types, TypeOK, HeardInv, Unheard
  <2>6. ASSUME NEW v \in Users, v # u PROVE HeardInv(v)'
    BY <1>1, <2>1, <2>6, NotHeard DEF Types, TypeOK
  <2> QED
    BY <2>3, <2>4, <2>5, <2>6
<1> QED
  BY <1>2, <1>3

\* Every step of the users, the timer, the answers and the players keeps the invariant.
LEMMA StepIInv == IInv /\ [Next]_vars => IInv'
<1> SUFFICES ASSUME IInv, [Next]_vars PROVE IInv'
  OBVIOUS
<1> USE DEF IInv, talk, ears, tasks, player, history
<1>1. ASSUME NEW u \in Users, Join(u) PROVE IInv'
  <2>1. Types' /\ OneConversation' /\ OneVoice'
    BY <1>1 DEF Join, Types, TypeOK, OneConversation, OneVoice, UnderWay
  <2>2. ASSUME NEW v \in Users PROVE HeardInv(v)'
    BY <1>1, NotHeard DEF Join
  <2> QED
    BY <2>1, <2>2
<1>2. ASSUME NEW u \in Users, Loud(u) PROVE IInv'
  <2>1. Types' /\ OneVoice'
    BY <1>2, PlayerVoice DEF Loud, Types, TypeOK, UnderWay
  <2>2. OneConversation'
    BY <1>2 DEF Loud, Types, TypeOK, OneConversation, UnderWay
  <2>3. ASSUME NEW v \in Users PROVE HeardInv(v)'
    BY <1>2, NotHeard DEF Loud
  <2> QED
    BY <2>1, <2>2, <2>3
<1>3. CASE Transcribed
  <2>1. Types' /\ OneVoice'
    BY <1>3, PlayerVoice DEF Transcribed, Types, TypeOK, UnderWay
  <2>2. OneConversation'
    BY <1>3 DEF Transcribed, Types, TypeOK, OneConversation, UnderWay
  <2>3. ASSUME NEW v \in Users PROVE HeardInv(v)'
    BY <1>3, NotHeard DEF Transcribed
  <2> QED
    BY <2>1, <2>2, <2>3
<1>4. CASE Finish
  <2>1. Types' /\ OneVoice'
    <3>1. buffers' \in [Users -> Seq(Nat)]
      BY <1>4, EmptyBuffers DEF Finish, End
    <3>2. transcribing' \in Nat /\ answering' \in Nat /\ UnderWay' <= MaxUnderWay
      BY <1>4, VoiceAssumption DEF Finish, Leave, Types, TypeOK, UnderWay
    <3> QED
      BY <1>4, <3>1, <3>2 DEF Finish, End, Types, TypeOK, OneVoice
  <2>2. OneConversation'
    BY <1>4 DEF Finish, End, Leave, Types, TypeOK, OneConversation, UnderWay
  <2>3. ASSUME NEW v \in Users PROVE HeardInv(v)'
    BY <1>4, NotHeard DEF Finish, End
  <2> QED
    BY <2>1, <2>2, <2>3
<1>5. CASE Rejoin
  <2>1. Types' /\ OneConversation' /\ OneVoice'
    BY <1>5 DEF Rejoin, Types, TypeOK, OneConversation, OneVoice, UnderWay
  <2>2. ASSUME NEW v \in Users PROVE HeardInv(v)'
    <3>1. /\ ~speaking'[v] /\ utterance' = utterance /\ buffers' = buffers /\ fed' = fed
          /\ Unheard(v) \in Nat /\ Unheard(v)' \in Nat /\ Unheard(v) <= Unheard(v)'
          /\ fed[v] \in Seq(Nat) /\ buffers[v] \in Seq(Nat)
      BY <1>5 DEF Rejoin, Types, TypeOK, Unheard
    <3> QED
      BY <3>1, BelowMore DEF HeardInv
  <2> QED
    BY <2>1, <2>2
<1>6. CASE Speak \/ PlayerEnds \/ TextSpoken \/ UNCHANGED vars
  BY <1>6, PlayerIInv DEF Speak, PlayerEnds, TextSpoken, vars
<1> QED
  BY <1>1, <1>2, <1>3, <1>4, <1>5, <1>6, StartIInv, StopIInv, FireIInv DEF Next

-----------------------------------------------------------------------------

\* A monitor holds the latest utterance or nothing, and no count leaves its range.
THEOREM TypeCorrect == Spec => []TypeOK
<1>1. IInv => TypeOK
  BY DEF IInv, Types
<1> QED
  BY <1>1, InitIInv, StepIInv, PTL DEF Spec

\* Unless it is interrupted, the agent holds one conversation at a time, with
\* processingVoice up exactly while it does and no timer running.
THEOREM OneAtATime == Spec => []OneConversation
<1>1. IInv => OneConversation
  BY DEF IInv
<1> QED
  BY <1>1, InitIInv, StepIInv, PTL DEF Spec

\* Whoever makes the agent speak, it does so with one voice.
THEOREM NeverTwoVoices == Spec => []OneVoice
<1>1. IInv => OneVoice
  BY DEF IInv
<1> QED
  BY <1>1, InitIInv, StepIInv, PTL DEF Spec

\* What a user says is transcribed in the order it was said and nothing twice.
THEOREM TranscribedInOrder == Spec => []InOrder
<1>1. IInv => InOrder
  BY DEF IInv, HeardInv, Rising, InOrder
<1> QED
  BY <1>1, InitIInv, StepIInv, PTL DEF Spec
=============================================================================
