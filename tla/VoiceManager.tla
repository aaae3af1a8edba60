---------------------------- MODULE VoiceManager ----------------------------
(***************************************************************************)
(* How the Discord client listens and speaks in a voice channel            *)
(* (VoiceManager and AudioMonitor in okai/packages/client-discord/src/     *)
(* voice.ts).  What a user says is kept by the monitor of its stream until *)
(* it stops speaking, then added to the buffers of the user.  One timer,   *)
(* transcriptionTimeout, for all users waits for silence; then one user's  *)
(* buffers are transcribed and answered.  While the agent speaks or        *)
(* answers (activeAudioPlayer, processingVoice), what is said is dropped,  *)
(* unless it is loud enough to interrupt the agent.                        *)
(*                                                                         *)
(* The members of a channel are taken to be cached, so that the start of   *)
(* speech is never handled after its end; of several monitors of one       *)
(* stream only the latest, the one that is told of starts and ends, is     *)
(* modelled.  No stream ends: they are subscribed to until they close.     *)
(***************************************************************************)
EXTENDS Naturals, Sequences

CONSTANTS Users, Nobody,
          Utterances,       \* bound, per user: how often it speaks
          MaxUnderWay       \* bound: transcriptions and answers under way at once

ASSUME VoiceAssumption == /\ Nobody \notin Users
                          /\ Utterances \in [Users -> Nat] /\ MaxUnderWay \in Nat

VARIABLES utterance, speaking,      \* per user: how often it has spoken; whether it does
          monitored,                \* users with a stream in `streams`, and its monitor
          flagged,                  \* per user: the utterance in the monitor, or 0; without
                                    \* one, the utterance nobody has read from the stream
          buffers,                  \* per user: the utterances in userStates
          timer,                    \* whom transcriptionTimeout is for
          processingVoice,
          transcribing, answering,  \* how many calls of processTranscription wait for a
                                    \* text, and how many for handleUserMessage
          activeAudioPlayer,        \* none, playing or idle
          voices,                   \* the number of players that play
          fed,                      \* history, per user: the utterances transcribed
          interrupted               \* history: a user has interrupted what is under way

talk == <<utterance, speaking>>
ears == <<monitored, flagged>>
tasks == <<transcribing, answering>>
player == <<activeAudioPlayer, voices>>
history == <<fed, interrupted>>
vars == <<talk, ears, buffers, timer, processingVoice, tasks, player, history>>

Init == /\ utterance = [u \in Users |-> 0] /\ speaking = [u \in Users |-> FALSE]
        /\ monitored = {} /\ flagged = [u \in Users |-> 0]
        /\ buffers = [u \in Users |-> <<>>]
        /\ timer = Nobody /\ processingVoice = FALSE
        /\ transcribing = 0 /\ answering = 0
        /\ activeAudioPlayer = "none" /\ voices = 0
        /\ fed = [u \in Users |-> <<>>] /\ interrupted = FALSE

UnderWay == transcribing + answering

-----------------------------------------------------------------------------
(* The player *)

\* How many of the players that play are left when cleanupAudioPlayer has stopped the
\* active one.
Others == IF activeAudioPlayer = "playing" THEN voices - 1 ELSE voices

CleanupAudioPlayer == activeAudioPlayer' = "none" /\ voices' = Others

\* Mutant: the player before is not stopped.
PlayAnyway == activeAudioPlayer' = "playing" /\ voices' = voices + 1

\* playAudioStream, which does not wait for the end of the speech.
PlayAudioStream == activeAudioPlayer' = "playing" /\ voices' = Others + 1

PlayerEnds == /\ activeAudioPlayer = "playing"
              /\ activeAudioPlayer' = "idle" /\ voices' = voices - 1
              /\ UNCHANGED <<talk, ears, buffers, timer, processingVoice, tasks, history>>

\* The apology for a text message that could not be handled is spoken in the voice channel.
TextSpoken == /\ PlayAudioStream
              /\ UNCHANGED <<talk, ears, buffers, timer, processingVoice, tasks, history>>

-----------------------------------------------------------------------------
(* Listening *)

\* Mutants of what follows: it looks at the player only; a handle that is there counts as a
\* timer that runs.
DebounceNotBusy(u, said) ==
    IF activeAudioPlayer = "playing"
    THEN buffers' = [buffers EXCEPT ![u] = <<>>] /\ UNCHANGED <<timer, player>>
    ELSE buffers' = [buffers EXCEPT ![u] = said] /\ timer' = u /\ CleanupAudioPlayer
DebounceOnce(u, said) ==
    IF activeAudioPlayer = "playing" \/ processingVoice
    THEN buffers' = [buffers EXCEPT ![u] = <<>>] /\ UNCHANGED <<timer, player>>
    ELSE /\ buffers' = [buffers EXCEPT ![u] = said]
         /\ timer' = IF Len(said) = 1 THEN u ELSE timer
         /\ CleanupAudioPlayer

\* debouncedProcessTranscription: an idle player is cleaned up; while there is another or
\* an answer under way, all that the user has said is dropped; or the timer starts anew,
\* for this user.
Debounce(u, said) ==
    IF activeAudioPlayer = "playing" \/ processingVoice
    THEN /\ buffers' = [buffers EXCEPT ![u] = <<>>]
         /\ UNCHANGED timer
         /\ IF activeAudioPlayer = "idle" THEN CleanupAudioPlayer ELSE UNCHANGED player
    ELSE /\ buffers' = [buffers EXCEPT ![u] = said]
         /\ timer' = u
         /\ CleanupAudioPlayer

\* processBuffer, with what the monitor holds.
ProcessBuffer(u) == Debounce(u, Append(buffers[u], flagged[u]))

\* Mutant: the monitor keeps what it has.
ResetNothing(u) == flagged' = IF flagged[u] = 0 THEN [flagged EXCEPT ![u] = utterance[u] + 1]
                                                ELSE flagged

\* The monitor is reset when the user starts, and then hears it.
Reset(u) == flagged' = [flagged EXCEPT ![u] = utterance[u] + 1]

\* The user starts to speak.  monitorMember makes a monitor for a stream that has data, as
\* it has from the second time on; speakingStarted then stops the timer, whosever it is.
Start(u) == /\ ~speaking[u] /\ utterance[u] < Utterances[u]
            /\ utterance' = [utterance EXCEPT ![u] = @ + 1]
            /\ speaking' = [speaking EXCEPT ![u] = TRUE]
            /\ IF u \in monitored \/ flagged[u] # 0
               THEN monitored' = monitored \cup {u} /\ timer' = Nobody
               ELSE UNCHANGED <<monitored, timer>>
            /\ Reset(u)
            /\ UNCHANGED <<buffers, processingVoice, tasks, player, history>>

\* It stops: speakingStopped.  The monitor keeps what it has until the next start.
Stop(u) == /\ speaking[u]
           /\ speaking' = [speaking EXCEPT ![u] = FALSE]
           /\ IF u \in monitored THEN ProcessBuffer(u) ELSE UNCHANGED <<buffers, timer, player>>
           /\ UNCHANGED <<utterance, ears, processingVoice, tasks, history>>

\* It joins the channel while its stream has data (handleVoiceStateUpdate).
Join(u) == /\ u \notin monitored /\ flagged[u] # 0
           /\ monitored' = monitored \cup {u}
           /\ UNCHANGED <<talk, flagged, buffers, timer, processingVoice, tasks, player, history>>

\* The agent leaves its channel, or joins one again: the old connection is destroyed, its
\* streams are forgotten, and its events do not come any more.
Rejoin == /\ monitored' = {} /\ flagged' = [u \in Users |-> 0]
          /\ speaking' = [u \in Users |-> FALSE]
          /\ UNCHANGED <<utterance, buffers, timer, processingVoice, tasks, player, history>>

\* A user speaks up while the agent has a player: that is stopped, and the agent listens,
\* although it may be at an answer.
Loud(u) == /\ speaking[u] /\ u \in monitored /\ activeAudioPlayer # "none"
           /\ CleanupAudioPlayer
           /\ processingVoice' = FALSE
           /\ interrupted' = (interrupted \/ UnderWay > 0)
           /\ UNCHANGED <<talk, ears, buffers, timer, tasks, fed>>

-----------------------------------------------------------------------------
(* Answering *)

\* The end of the timer's function: the buffers of all users are emptied, and the flag is
\* cleared.
End == buffers' = [u \in Users |-> <<>>] /\ processingVoice' = FALSE

\* The timer fires, and processTranscription takes the buffers of its user; if there is
\* nothing in them, all is over at once.
Fire == /\ timer # Nobody /\ UnderWay < MaxUnderWay
        /\ timer' = Nobody
        /\ IF buffers[timer] = <<>>
           THEN End /\ UNCHANGED <<tasks, fed>>
           ELSE /\ processingVoice' = TRUE
                /\ transcribing' = transcribing + 1
                /\ fed' = [fed EXCEPT ![timer] = @ \o buffers[timer]]
                /\ buffers' = [buffers EXCEPT ![timer] = <<>>]
                /\ UNCHANGED answering
        /\ UNCHANGED <<talk, ears, player, interrupted>>

\* There is a text: the agent is silenced and handleUserMessage begins.
Transcribed == /\ transcribing > 0
               /\ CleanupAudioPlayer
               /\ transcribing' = transcribing - 1 /\ answering' = answering + 1
               /\ UNCHANGED <<talk, ears, buffers, timer, processingVoice, history>>

\* An answer is spoken, that of the model or of one of the actions after it.
Speak == /\ answering > 0
         /\ PlayAudioStream
         /\ UNCHANGED <<talk, ears, buffers, timer, processingVoice, tasks, history>>

\* There is no text, or an error; or the message has been answered.
Leave == \/ transcribing > 0 /\ transcribing' = transcribing - 1 /\ UNCHANGED answering
         \/ answering > 0 /\ answering' = answering - 1 /\ UNCHANGED transcribing

Finish == /\ UnderWay > 0
          /\ End
          /\ Leave
          /\ interrupted' = (interrupted /\ UnderWay > 1)
          /\ UNCHANGED <<talk, ears, timer, player, fed>>

-----------------------------------------------------------------------------

Next == \/ \E u \in Users : Start(u) \/ Stop(u) \/ Join(u) \/ Loud(u)
        \/ Fire \/ Transcribed \/ Speak \/ Finish
        \/ PlayerEnds \/ TextSpoken \/ Rejoin

Spec == Init /\ [][Next]_vars

\* Nobody speaks for ever, timers fire, and what is awaited settles.
Fairness == /\ \A u \in Users : WF_vars(Stop(u))
            /\ WF_vars(Fire) /\ WF_vars(Finish)

FairSpec == Spec /\ Fairness

-----------------------------------------------------------------------------
(* Properties *)

\* Types; a monitor holds the latest utterance or nothing.
TypeOK == /\ utterance \in [Users -> Nat] /\ speaking \in [Users -> BOOLEAN]
          /\ monitored \subseteq Users
          /\ \A u \in Users : flagged[u] \in {0, utterance[u]}
          /\ buffers \in [Users -> Seq(Nat)]
          /\ timer \in Users \cup {Nobody} /\ processingVoice \in BOOLEAN
          /\ transcribing \in Nat /\ answering \in Nat /\ UnderWay <= MaxUnderWay
          /\ activeAudioPlayer \in {"none", "playing", "idle"} /\ voices \in Nat
          /\ fed \in [Users -> Seq(Nat)]
          /\ interrupted \in BOOLEAN

\* The agent holds one conversation at a time, processingVoice is up exactly while it does,
\* and no timer runs meanwhile, unless it has been interrupted: then an answer goes on
\* while the next one is prepared, and the end of the first clears the flag of the second.
OneConversation == \/ interrupted
                   \/ /\ UnderWay <= 1
                      /\ processingVoice <=> UnderWay > 0
                      /\ processingVoice => timer = Nobody

\* The agent speaks with one voice: no player is left playing when another starts or when
\* the agent falls silent, whoever makes it speak ("to avoid overlap").
OneVoice == voices = IF activeAudioPlayer = "playing" THEN 1 ELSE 0

\* What a user says is transcribed in the order it was said, and nothing twice, although
\* monitor and buffers keep what they have across stops, interruptions and dropped answers.
InOrder == \A u \in Users : \A i, j \in DOMAIN fed[u] :
              i < j => fed[u][i] < fed[u][j]

\* Nobody else speaks, and the stream of u is not forgotten while something is pending.
Alone(u) == /\ \A v \in Users \ {u} : ~speaking[v]
            /\ buffers[u] # <<>> => u \in monitored

\* A user who is alone in speaking is heard: what is in its buffers is transcribed, unless
\* the agent speaks or is interrupted.  (The start of another user stops the timer, and its
\* end starts it for that one: what the first has said waits for it to speak again, or is
\* dropped with everyone's buffers.)
LoneSpeakerHeard ==
    \A u \in Users : \A i \in 1..Utterances[u] :
        []Alone(u) => (   i \in {buffers[u][k] : k \in DOMAIN buffers[u]}
                       ~> \/ i \in {fed[u][k] : k \in DOMAIN fed[u]}
                          \/ activeAudioPlayer # "none" \/ interrupted)
=============================================================================
