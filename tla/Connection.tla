----------------------------- MODULE Connection -----------------------------
(***************************************************************************)
(* How an agent's runtime makes sure that a room, the accounts of those in *)
(* it and their participation exist before a message is stored             *)
(* (okai/packages/core/src/runtime.ts, with the tables of                  *)
(* okai/packages/adapter-postgres).  Every ensure... function reads, and   *)
(* inserts what it did not find; nothing makes the two one step, and       *)
(* ensureConnection runs several of them at once.  The tables' primary     *)
(* keys, UNIQUE("userId", "roomId") and foreign keys decide races, and any *)
(* query may fail for reasons of its own.  createAccount and               *)
(* addParticipant turn every error of their INSERT into `false`, which     *)
(* nobody looks at; createRoom and the reads throw.                        *)
(*                                                                         *)
(* The constructor of the runtime makes the agent's own room and account   *)
(* in the same way, without awaiting anything.                             *)
(***************************************************************************)
EXTENDS Naturals, FiniteSets

CONSTANTS Calls,        \* slots for concurrent calls of ensureConnection
          Users, Rooms, \* who may write to the agent, and where
          Agent,        \* the agent's id: its account, and its own room
          Unlucky,      \* bound: the threads whose queries may fail of themselves
          MaxFaults     \* bound: such failures, and restarts of the process

ASSUME AgentAssumption == /\ Agent \notin Users \cup Rooms
                          /\ "boot" \notin Calls
                          /\ Unlucky \subseteq Calls \cup {"boot"} /\ MaxFaults \in Nat

AllUsers == Users \cup {Agent}
AllRooms == Rooms \cup {Agent}

VARIABLES accounts, rooms, members,   \* the tables; members holds <<user, room>>
          target,    \* per call: the <<user, room>> it connects
          stage,     \* per call: idle, first, second, ok, error
          step,      \* per operation: none, read, insert, done; failed: it threw;
                     \* lost: it returned `false` for another error than a key's
          faults

tables == <<accounts, rooms, members>>
vars == <<tables, target, stage, step, faults>>

\* What runs at once: two accounts and the room first, then two participations.
First == {"agent", "user", "room"}
Second == {"agentIn", "userIn"}
Threads == Calls \cup {"boot"}
Ops == Threads \X (First \cup Second)

Boot == {<<"boot", "agent">>, <<"boot", "room">>, <<"boot", "agentIn">>}

\* The row an operation is about.
User(o) == IF o[2] \in {"agent", "agentIn"} THEN Agent ELSE target[o[1]][1]
Room(o) == target[o[1]][2]

Init == /\ accounts = {} /\ rooms = {} /\ members = {}
        /\ target = [c \in Threads |-> <<Agent, Agent>>]
        /\ stage = [c \in Threads |-> IF c = "boot" THEN "first" ELSE "idle"]
        /\ step = [o \in Ops |-> IF o \in Boot THEN "read" ELSE "none"]
        /\ faults = 0

-----------------------------------------------------------------------------
(* The reads and the inserts.                                              *)

\* Mutant: an account is taken to exist when it is asked for.
FoundAnyAccount(o) == \/ o[2] \in {"agent", "user"}
                      \/ o[2] = "room" /\ Room(o) \in rooms
                      \/ o[2] \in Second /\ <<User(o), Room(o)>> \in members

\* getParticipantsForAccount looks for any room, getParticipantsForRoom for this.
Found(o) ==
    CASE o[2] \in {"agent", "user"} -> User(o) \in accounts
      [] o[2] = "room"              -> Room(o) \in rooms
      [] o[2] \in Second            -> IF o[1] = "boot"
                                       THEN \E r \in AllRooms : <<Agent, r>> \in members
                                       ELSE <<User(o), Room(o)>> \in members

Read(o) == /\ step[o] = "read"
           /\ step' = [step EXCEPT ![o] = IF Found(o) THEN "done" ELSE "insert"]
           /\ UNCHANGED <<tables, target, stage, faults>>

InsertAccount(o) == /\ o[2] \in {"agent", "user"}
                    /\ accounts' = accounts \cup {User(o)}
                    /\ UNCHANGED <<rooms, members>>

InsertRoom(o) == /\ o[2] = "room"
                 /\ rooms' = rooms \cup {Room(o)}
                 /\ UNCHANGED <<accounts, members>>

\* A participant without its account or room is refused.
InsertMember(o) ==
    /\ o[2] \in Second
    /\ members' = IF User(o) \in accounts /\ Room(o) \in rooms
                  THEN members \cup {<<User(o), Room(o)>>} ELSE members
    /\ UNCHANGED <<accounts, rooms>>

Store(o) == InsertAccount(o) \/ InsertRoom(o) \/ InsertMember(o)

\* A key refuses the row, or it is stored; only createRoom tells the difference.
Insert(o) ==
    /\ step[o] = "insert"
    /\ Store(o)
    /\ step' = [step EXCEPT ![o] = IF o[2] = "room" /\ Room(o) \in rooms THEN "failed"
                                                                       ELSE "done"]
    /\ UNCHANGED <<target, stage, faults>>

\* A query fails for another reason, an INSERT before or after its row is stored: reads
\* and createRoom throw, the other two return `false`; a refusal of the breaker, which
\* comes before the query, they all throw.
Throw(o) == /\ IF o[2] = "room" /\ step[o] = "insert" THEN UNCHANGED tables \/ Store(o)
                                                      ELSE UNCHANGED tables
            /\ step' = [step EXCEPT ![o] = "failed"]

Lose(o) == /\ step[o] = "insert" /\ o[2] # "room"
           /\ UNCHANGED tables \/ Store(o)
           /\ step' = [step EXCEPT ![o] = "lost"]

Fault == /\ faults < MaxFaults
         /\ faults' = faults + 1

Fail(o) == /\ o[1] \in Unlucky
           /\ step[o] \in {"read", "insert"}
           /\ Fault
           /\ Throw(o) \/ Lose(o)
           /\ UNCHANGED <<target, stage>>

-----------------------------------------------------------------------------
(* ensureConnection.                                                       *)

Start(c, ops) == [o \in Ops |-> IF o[1] = c /\ o[2] \in ops THEN "read" ELSE step[o]]

Returned(c, ops) == \A k \in ops : step[<<c, k>>] \in {"done", "lost"}

Settled(c, ops) == \A k \in ops : step[<<c, k>>] \notin {"read", "insert"}

\* Mutant: all five operations start at once.
ConnectAtOnce(c, u, r) ==
    /\ stage[c] = "idle"
    /\ stage' = [stage EXCEPT ![c] = "second"]
    /\ target' = [target EXCEPT ![c] = <<u, r>>]
    /\ step' = Start(c, First \cup Second)
    /\ UNCHANGED <<tables, faults>>

Connect(c, u, r) == /\ stage[c] = "idle"
                    /\ stage' = [stage EXCEPT ![c] = "first"]
                    /\ target' = [target EXCEPT ![c] = <<u, r>>]
                    /\ step' = Start(c, First)
                    /\ UNCHANGED <<tables, faults>>

\* The first Promise.all has resolved.
Advance(c) == /\ c # "boot"
              /\ stage[c] = "first"
              /\ Returned(c, First)
              /\ stage' = [stage EXCEPT ![c] = "second"]
              /\ step' = Start(c, Second)
              /\ UNCHANGED <<tables, target, faults>>

\* The first failure rejects its Promise.all; the other operations go on.
Reject(c) == /\ c # "boot"
             /\ stage[c] \in {"first", "second"}
             /\ \E k \in First \cup Second : step[<<c, k>>] = "failed"
             /\ stage' = [stage EXCEPT ![c] = "error"]
             /\ UNCHANGED <<tables, target, step, faults>>

Resolve(c) == /\ stage[c] = "second"
              /\ Returned(c, Second)
              /\ stage' = [stage EXCEPT ![c] = "ok"]
              /\ UNCHANGED <<tables, target, step, faults>>

\* The slot is free once every operation of the call has settled.
Reuse(c) == /\ stage[c] \in {"ok", "error"}
            /\ Settled(c, First \cup Second)
            /\ stage' = [stage EXCEPT ![c] = "idle"]
            /\ target' = [target EXCEPT ![c] = <<Agent, Agent>>]
            /\ step' = [o \in Ops |-> IF o[1] = c THEN "none" ELSE step[o]]
            /\ UNCHANGED <<tables, faults>>

\* The process is restarted at any point: the constructor runs again.
Restart == /\ Fault
           /\ target' = [c \in Threads |-> <<Agent, Agent>>]
           /\ stage' = [c \in Threads |-> IF c = "boot" THEN "first" ELSE "idle"]
           /\ step' = [o \in Ops |-> IF o \in Boot THEN "read" ELSE "none"]
           /\ UNCHANGED tables

Next == \/ Restart
        \/ \E o \in Ops : Read(o) \/ Insert(o) \/ Fail(o)
        \/ \E c \in Calls : \/ \E u \in Users, r \in Rooms : Connect(c, u, r)
                            \/ Advance(c) \/ Reject(c) \/ Resolve(c) \/ Reuse(c)

Spec == Init /\ [][Next]_vars

\* Queries and promises of calls settle; messages keep coming from every user and room.
Fairness ==
    /\ \A o \in Calls \X (First \cup Second) : WF_vars(Read(o) \/ Insert(o))
    /\ \A c \in Calls :
         /\ WF_vars(Advance(c) \/ Reject(c) \/ Resolve(c) \/ Reuse(c))
         /\ \A u \in Users, r \in Rooms : SF_vars(Connect(c, u, r))

FairSpec == Spec /\ Fairness

-----------------------------------------------------------------------------

\* Types of the tables and of the calls.
TypeOK == /\ accounts \subseteq AllUsers /\ rooms \subseteq AllRooms
          /\ members \subseteq AllUsers \X AllRooms
          /\ target \in [Threads -> AllUsers \X AllRooms]
          /\ stage \in [Threads -> {"idle", "first", "second", "ok", "error"}]
          /\ step \in [Ops -> {"none", "read", "insert", "done", "failed", "lost"}]
          /\ faults \in 0..MaxFaults

\* The rows of the call are all there.
Present(u, r) == /\ {u, Agent} \subseteq accounts
                 /\ r \in rooms
                 /\ {<<u, r>>, <<Agent, r>>} \subseteq members

\* The row an operation is to ensure.
There(o) == CASE o[2] \in {"agent", "user"} -> User(o) \in accounts
              [] o[2] = "room"              -> Room(o) \in rooms
              [] o[2] \in Second            -> <<User(o), Room(o)>> \in members

\* An INSERT of the call failed, and that was not noticed.
Lost(c, k) == step[<<c, k>>] = "lost"

\* When ensureConnection resolves, the room is in the database, and so are the accounts
\* and participations, although half of its inserts may have been refused by a key and the
\* refusals ignored: whoever won each race had inserted the row by then.  Only what an
\* unnoticed error of this very call lost may be missing: that account or participation,
\* and the participation of the account it lost.
ConnectedMeansPresent ==
    \A c \in Calls : stage[c] = "ok" =>
        /\ There(<<c, "room">>)
        /\ There(<<c, "user">>) \/ Lost(c, "user")
        /\ There(<<c, "agent">>) \/ Lost(c, "agent")
        /\ There(<<c, "userIn">>) \/ Lost(c, "userIn") \/ Lost(c, "user")
        /\ There(<<c, "agentIn">>) \/ Lost(c, "agentIn") \/ Lost(c, "agent")

\* A call turned down because another inserted its room first, or one that lost rows
\* without noticing, is made good by the next message: sooner or later, as errors do not
\* go on for ever, everyone is connected.
EveryoneConnects == \A u \in Users, r \in Rooms : <>Present(u, r)
==============================================================================
