---------------------------- MODULE LlamaService ----------------------------
(***************************************************************************)
(* The local model of an agent (LlamaService in                            *)
(* okai/packages/plugin-node/src/services/llama.ts): each call first makes *)
(* sure that the model is there, by downloading its file and loading it,   *)
(* then joins messageQueue, whose completions run one by one on one        *)
(* sequence of the model.                                                  *)
(*                                                                         *)
(* Nothing keeps two calls from initialising at the same time: a stream    *)
(* may be opened on the file another one writes, and the file deleted      *)
(* under a download, which goes on and is lost.  A process that was        *)
(* stopped leaves what it had of the file.                                 *)
(***************************************************************************)
EXTENDS Naturals, Sequences, FiniteSets

CONSTANTS Calls,    \* calls of queueMessageCompletion and queueTextCompletion
          Nobody

ASSUME LlamaAssumption == Nobody \notin Calls

VARIABLES pc,               \* per call, see TypeOK; "void" is a promise of undefined
          file,             \* what is at modelPath
          writers,          \* calls whose stream writes the file at modelPath
          modelInitialized,
          sequence,         \* the call that made this.sequence
          history,          \* calls whose tokens this.sequence still holds
          messageQueue,
          running,          \* the messages being completed (isProcessing: there is one)
          on,               \* per call: the sequence its completion runs on
          overlapped        \* history: two initialisations have been under way at once

model == <<file, writers>>
work == <<messageQueue, running, on>>
vars == <<pc, model, modelInitialized, sequence, history, work, overlapped>>

Init == /\ pc = [c \in Calls |-> "off"]
        /\ file \in {"none", "partial", "whole"} /\ writers = {}
        /\ modelInitialized = FALSE /\ sequence = Nobody /\ history = {}
        /\ messageQueue = <<>> /\ running = {} /\ on = [c \in Calls |-> Nobody]
        /\ overlapped = FALSE

Goto(c, p) == pc' = [pc EXCEPT ![c] = p]

Initialising == {c \in Calls : pc[c] \in {"open", "download", "load"}}

-----------------------------------------------------------------------------
(* The queue *)

\* processQueue, called with q in the queue: the next completion starts, unless one is
\* running.
ProcessQueue(q) == IF modelInitialized /\ running = {} /\ q # <<>>
                   THEN /\ running' = {Head(q)}
                        /\ messageQueue' = Tail(q)
                        /\ on' = [on EXCEPT ![Head(q)] = sequence]
                   ELSE messageQueue' = q /\ UNCHANGED <<running, on>>

\* Mutant: the latest message goes first.
ShiftPops(c) == IF messageQueue # <<>>
                THEN LET next == messageQueue[Len(messageQueue)] IN
                     /\ running' = (running \ {c}) \cup {next}
                     /\ messageQueue' = SubSeq(messageQueue, 1, Len(messageQueue) - 1)
                     /\ on' = [on EXCEPT ![next] = sequence]
                ELSE running' = running \ {c} /\ UNCHANGED <<messageQueue, on>>

\* The loop of processQueue goes on after the completion of c.
Shift(c) == IF messageQueue # <<>>
            THEN /\ running' = (running \ {c}) \cup {Head(messageQueue)}
                 /\ messageQueue' = Tail(messageQueue)
                 /\ on' = [on EXCEPT ![Head(messageQueue)] = sequence]
            ELSE running' = running \ {c} /\ UNCHANGED <<messageQueue, on>>

-----------------------------------------------------------------------------
(* Initialisation *)

\* checkModel: whatever is at modelPath counts as the model.
CheckModel(c, found) == Goto(c, IF found = "none" THEN "open" ELSE "load")

\* Mutant: every call initialises.
AbsentAlways == TRUE

\* What ensureInitialized asks.
Absent == ~modelInitialized

\* A call while there is no model.
CallFirst(c) == /\ pc[c] = "off" /\ Absent
                /\ CheckModel(c, file)
                /\ overlapped' = (overlapped \/ Initialising # {})
                /\ UNCHANGED <<model, modelInitialized, sequence, history, work>>

\* A call once the model is there, and one that has made it so.
Enqueue(c) == /\ \/ pc[c] = "off" /\ modelInitialized
                 \/ pc[c] = "ready"
              /\ Goto(c, "queued")
              /\ ProcessQueue(Append(messageQueue, c))
              /\ UNCHANGED <<model, modelInitialized, sequence, history, overlapped>>

\* The stream is opened some time after it was created: what is there is cut to nothing.
Opened(c) == /\ pc[c] = "open"
             /\ file' = "partial" /\ writers' = writers \cup {c}
             /\ Goto(c, "download")
             /\ UNCHANGED <<modelInitialized, sequence, history, work, overlapped>>

\* While another stream writes the same file, it may have cut what this one wrote.
Downloaded(c) == /\ pc[c] = "download"
                 /\ writers' = writers \ {c}
                 /\ CASE c \notin writers -> UNCHANGED file
                      [] writers = {c}    -> file' = "whole"
                      [] OTHER            -> file' \in {"partial", "whole"}
                 /\ Goto(c, "load")
                 /\ UNCHANGED <<modelInitialized, sequence, history, work, overlapped>>

\* The model is loaded, with a sequence of its own; the call of processQueue finds nothing
\* to do, as nothing is queued before there is a model and nothing waits while none runs.
LoadModel(c) == /\ pc[c] = "load" /\ file = "whole"
                /\ modelInitialized' = TRUE
                /\ sequence' = c /\ history' = {}
                /\ Goto(c, "ready")
                /\ UNCHANGED <<model, work, overlapped>>

\* Mutant: the file stays when the model is initialised again.
DeleteNothing == UNCHANGED model

\* deleteModel: streams that are open write on to a file that has no name.
DeleteModel == file' = "none" /\ writers' = {}

\* The download or the loading fails, as loading must if the file is not whole: the error is
\* caught, the file deleted, whoever writes it, and all is done again.
InitialiseFails(c) == /\ c \in Initialising
                      /\ DeleteModel
                      /\ CheckModel(c, file')
                      /\ UNCHANGED <<modelInitialized, sequence, history, work, overlapped>>

\* The file cannot be deleted, or the unlink of a failed download, which nobody awaits, has
\* done so just before: the error of deleteModel goes to the caller, who is not queued.
DeletionFails(c) == /\ c \in Initialising /\ file # "none"
                    /\ \/ file' = file /\ writers' = writers \ {c}
                       \/ pc[c] # "load" /\ DeleteModel
                    /\ Goto(c, "failed")
                    /\ UNCHANGED <<modelInitialized, sequence, history, work, overlapped>>

-----------------------------------------------------------------------------
(* Completions *)

\* Mutant: what was said stays in the sequence.
HistoryKept(c) == history' = history \cup {c}

\* clearHistory of this.sequence, also if the completion ran on an older one.
HistoryCleared(c) == history' = {}

Answer(c) == /\ c \in running
             /\ Goto(c, "answered")
             /\ HistoryCleared(c)
             /\ Shift(c)
             /\ UNCHANGED <<model, modelInitialized, sequence, overlapped>>

\* JSON that cannot be parsed gives undefined, no text or no JSON an error; both leave the
\* tokens in the sequence.
NoAnswer(c) == /\ c \in running
               /\ \E p \in {"void", "rejected"} : Goto(c, p)
               /\ history' = IF on[c] = sequence THEN history \cup {c} ELSE history
               /\ Shift(c)
               /\ UNCHANGED <<model, modelInitialized, sequence, overlapped>>

Step(c) == \/ Enqueue(c) \/ Opened(c) \/ Downloaded(c) \/ LoadModel(c)
           \/ InitialiseFails(c) \/ Answer(c) \/ NoAnswer(c)

Next == \E c \in Calls : CallFirst(c) \/ DeletionFails(c) \/ Step(c)

Spec == Init /\ [][Next]_vars

\* A call that is made goes on, and neither opening the file, nor downloading it, nor
\* loading it when it is whole fails for ever.  Deleting need not fail.
Fairness == \A c \in Calls : /\ WF_vars(pc[c] # "off" /\ Step(c))
                             /\ SF_vars(Opened(c)) /\ SF_vars(Downloaded(c))
                             /\ SF_vars(LoadModel(c))

FairSpec == Spec /\ Fairness

-----------------------------------------------------------------------------
(* Properties *)

\* What a completion has come to, and whether the call has its answer or its error.
Outcome(c) == IF pc[c] \in {"answered", "void", "rejected"} THEN pc[c] ELSE Nobody
Settled(c) == pc[c] \in {"answered", "void", "rejected", "failed"}

\* Types.  A stream writes the file while its call downloads, and only what has a name.
\* Exactly the calls whose promise is open wait in the queue, once, or are being completed;
\* and none waits without a completion before it, after which the loop of processQueue
\* reaches it.
TypeOK == /\ pc \in [Calls -> {"off", "open", "download", "load", "ready", "queued",
                               "answered", "void", "rejected", "failed"}]
          /\ file \in {"none", "partial", "whole"}
          /\ writers \subseteq {c \in Calls : pc[c] = "download"}
          /\ writers # {} => file # "none"
          /\ modelInitialized \in BOOLEAN /\ overlapped \in BOOLEAN
          /\ sequence \in Calls \cup {Nobody} /\ history \subseteq Calls
          /\ messageQueue \in Seq(Calls) /\ running \subseteq Calls
          /\ on \in [Calls -> Calls \cup {Nobody}]
          /\ LET waiting == {messageQueue[i] : i \in DOMAIN messageQueue}
             IN  /\ Cardinality(waiting) = Len(messageQueue)
                 /\ waiting \cap running = {}
                 /\ waiting \cup running = {c \in Calls : pc[c] = "queued"}
          /\ messageQueue # <<>> => running # {}

Queue == INSTANCE SerialQueue
           WITH Requests <- Calls, Answers <- {"answered", "void", "rejected"},
                None <- Nobody,
                waiting <- messageQueue,
                serving <- IF running = {} THEN Nobody ELSE CHOOSE c \in running : TRUE,
                answer <- [c \in Calls |-> Outcome(c)]

\* Whatever calls initialise meanwhile, messages are completed one by one in the order in
\* which their calls got to the queue, and each promise settles once: a call that finds the
\* model loaded overtakes no message, and processQueue, called by queueMessageCompletion
\* and by initializeModel, never takes up a message twice or out of turn.
IsSerialQueue == Queue!Spec

\* One completion runs at a time, and unless two first calls have initialised the model
\* side by side, the sequence it began on is still this.sequence, whose history it clears:
\* no initialisation replaces it under the completion (getCompletionResponse reads
\* this.sequence again after its loop).
Undisturbed == /\ Cardinality(running) <= 1
               /\ overlapped \/ \A c \in running : on[c] = sequence

\* What an answered call said never stays in the sequence of the calls after it.  What
\* calls without an answer said does (NoAnswer).
NoLeak == \A c \in history : pc[c] \in {"void", "rejected"}

\* Every call settles, whatever a stopped process left of the file and however often the
\* download or the loading fails, unless two first calls initialise side by side: these can
\* delete each other's download over and over.  Once in the queue, a call always settles.
Settles == \A c \in Calls : /\ pc[c] # "off" ~> Settled(c) \/ overlapped
                            /\ pc[c] = "queued" ~> Settled(c)
=============================================================================
