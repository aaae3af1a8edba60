----------------------------- MODULE Knowledge -----------------------------
(***************************************************************************)
(* How an agent takes in the knowledge of its character when it starts     *)
(* (processCharacterKnowledge in okai/packages/core/src/runtime.ts, set in *)
(* knowledge.ts, createMemory and getMemoryById in memory.ts).  An item is *)
(* one row for the document and one per fragment of its text.  The ids of  *)
(* the rows are made from the text alone; the owner of a row is the agent  *)
(* that inserted it.  MemoryManager.getMemoryById shows an agent its own   *)
(* rows only; MemoryManager.createMemory looks for the id whoever owns it. *)
(*                                                                         *)
(* Agents may run in processes of their own on one database.               *)
(***************************************************************************)
EXTENDS KnowledgeState

vars == <<owner, pc, item, row, crashes>>

Here(a) == <<item[a], row[a]>>

Init == /\ owner = [r \in Rows |-> None]
        /\ pc = [a \in Agents |-> "off"]
        /\ item = [a \in Agents |-> 1]
        /\ row = [a \in Agents |-> 0]
        /\ crashes = 0

Goto(a, p, i, r) == /\ pc' = [pc EXCEPT ![a] = p]
                    /\ item' = [item EXCEPT ![a] = i]
                    /\ row' = [row EXCEPT ![a] = r]

-----------------------------------------------------------------------------

Start(a) == /\ pc[a] \in {"off", "failed"}
            /\ Goto(a, "look", 1, 0)
            /\ UNCHANGED <<owner, crashes>>

NextItem(a) == IF item[a] < Items THEN Goto(a, "look", item[a] + 1, 0)
                                  ELSE Goto(a, "ready", 1, 0)

NextRow(a) == IF row[a] < Fragments THEN Goto(a, "exists", item[a], row[a] + 1)
                                    ELSE NextItem(a)

\* Mutant: a document that any agent has stored counts as the whole item.
LookAtAll(a) == /\ pc[a] = "look"
                /\ IF owner[Here(a)] # None THEN NextItem(a)
                                            ELSE Goto(a, "exists", item[a], 0)
                /\ UNCHANGED <<owner, crashes>>

\* processCharacterKnowledge: has this agent got the document?
Look(a) == /\ pc[a] = "look"
           /\ IF owner[Here(a)] = a THEN NextItem(a)
                                    ELSE Goto(a, "exists", item[a], 0)
           /\ UNCHANGED <<owner, crashes>>

\* Mutant: the row is inserted without looking for it.
ExistsNever(a) == /\ pc[a] = "exists"
                  /\ Goto(a, "insert", item[a], row[a])
                  /\ UNCHANGED <<owner, crashes>>

\* createMemory: has anyone got the row?
Exists(a) == /\ pc[a] = "exists"
             /\ IF owner[Here(a)] # None THEN NextRow(a)
                                         ELSE Goto(a, "insert", item[a], row[a])
             /\ UNCHANGED <<owner, crashes>>

\* Embedding and the INSERT succeed.
Store(a) == /\ pc[a] = "insert"
            /\ owner[Here(a)] = None
            /\ owner' = [owner EXCEPT ![Here(a)] = a]
            /\ NextRow(a)
            /\ UNCHANGED crashes

\* Mutant: an error while storing a row is passed over.
NoStoreSkips(a) == /\ pc[a] = "insert"
                   /\ NextRow(a)
                   /\ UNCHANGED <<owner, crashes>>

\* The embedding fails, or the primary key refuses a row that has come into being
\* meanwhile: the error leaves initialize(), and the agent does not start.
NoStore(a) == /\ pc[a] = "insert"
              /\ Goto(a, "failed", 1, 0)
              /\ UNCHANGED <<owner, crashes>>

Crash(a) == /\ pc[a] # "off"
            /\ crashes < MaxCrashes
            /\ crashes' = crashes + 1
            /\ Goto(a, "off", 1, 0)
            /\ UNCHANGED owner

Step(a) == Start(a) \/ Look(a) \/ Exists(a) \/ Store(a) \/ NoStore(a)

Next == \E a \in Agents : Step(a) \/ Crash(a)

Spec == Init /\ [][Next]_vars

\* Queries settle, an agent that failed or crashed is started again, and embedding
\* does not fail for ever.
Fairness == \A a \in Agents : WF_vars(Step(a)) /\ SF_vars(Store(a))

FairSpec == Spec /\ Fairness

-----------------------------------------------------------------------------

\* Types of the rows and of the agents' progress.
TypeOK == /\ owner \in [Rows -> Agents \cup {None}]
          /\ pc \in [Agents -> {"off", "look", "exists", "insert", "ready", "failed"}]
          /\ item \in [Agents -> 1..Items]
          /\ row \in [Agents -> 0..Fragments]
          /\ crashes \in 0..MaxCrashes

\* Two processes that start on the same knowledge may knock each other out on the
\* primary key, but not for ever: started again, each agent gets ready.
AgentsStart == \A a \in Agents : <>[](pc[a] = "ready")
=============================================================================
