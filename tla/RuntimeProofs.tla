---------------------------- MODULE RuntimeProofs ----------------------------
(***************************************************************************)
(* Proofs about what the runtime of an agent does when it starts and when  *)
(* it is spoken to: Connection, for any number of concurrent calls, users, *)
(* rooms and restarts, and Knowledge, for any set of agents and any number *)
(* of items, fragments and crashes.                                        *)
(***************************************************************************)
EXTENDS Connection, KnowledgeState, TLAPS

K == INSTANCE Knowledge

-----------------------------------------------------------------------------
(* Connections *)

\* The row is there, or it is a participation whose account this call lost.
Kept(o) == \/ There(o)
           \/ o[2] = "userIn" /\ Lost(o[1], "user")
           \/ o[2] = "agentIn" /\ Lost(o[1], "agent")

\* An operation of a call that has settled without an error left its row behind,
\* and participations are looked at only after both accounts and the room.
CallInv(c) ==
    /\ \A k \in First \cup Second : step[<<c, k>>] = "done" => Kept(<<c, k>>)
    /\ ~Lost(c, "room")
    /\ stage[c] \in {"second", "ok"} \/ (\E k \in Second : step[<<c, k>>] # "none")
         => Returned(c, First)
    /\ stage[c] \in {"idle", "first"} => \A k \in Second : step[<<c, k>>] = "none"
    /\ stage[c] = "ok" => Returned(c, Second)

IInv == TypeOK /\ \A c \in Calls : CallInv(c)

TablesGrow == /\ accounts \subseteq accounts' /\ rooms \subseteq rooms'
              /\ members \subseteq members'

-----------------------------------------------------------------------------

LEMMA CallOps == ASSUME NEW c \in Calls, NEW k \in First \cup Second
                 PROVE  <<c, k>> \in Ops
  BY DEF Ops, Threads

\* A row stays where it is.
LEMMA ThereStays ==
    ASSUME NEW c, NEW k \in First \cup Second, target'[c] = target[c], TablesGrow,
           There(<<c, k>>)
    PROVE  There(<<c, k>>)'
  BY DEF TablesGrow, There, User, Room, First, Second

\* What others do to the tables does not disturb a call.
LEMMA OthersCall ==
    ASSUME NEW c, CallInv(c), TablesGrow,
           stage'[c] = stage[c], target'[c] = target[c],
           \A k \in First \cup Second : step'[<<c, k>>] = step[<<c, k>>]
    PROVE  CallInv(c)'
<1>1. ASSUME NEW k \in First \cup Second, step'[<<c, k>>] = "done"
      PROVE  Kept(<<c, k>>)'
  <2>1. Kept(<<c, k>>)
    BY <1>1 DEF CallInv
  <2>2. There(<<c, k>>) => There(<<c, k>>)'
    BY ThereStays
  <2>3. \A j \in First : Lost(c, j) => Lost(c, j)'
    BY DEF Lost
  <2> QED
    BY <2>1, <2>2, <2>3 DEF Kept, First
<1> QED
  BY <1>1 DEF CallInv, Lost, Returned, First

\* A read, an insert or an error brings an operation of a call one step further.
LEMMA OperationCall ==
    ASSUME TypeOK, NEW c \in Calls, CallInv(c), TablesGrow,
           NEW j \in First \cup Second, step[<<c, j>>] \in {"read", "insert"},
           stage'[c] = stage[c], target'[c] = target[c],
           \A k \in First \cup Second : k # j => step'[<<c, k>>] = step[<<c, k>>],
           step'[<<c, j>>] = "done" => Kept(<<c, j>>)',
           step'[<<c, j>>] = "lost" => j # "room"
    PROVE  CallInv(c)'
<1>1. ASSUME NEW k \in First \cup Second, step'[<<c, k>>] = "done"
      PROVE  Kept(<<c, k>>)'
  <2>1. CASE k = j
    BY <1>1, <2>1
  <2>2. CASE k # j
    <3>1. Kept(<<c, k>>)
      BY <1>1, <2>2 DEF CallInv
    <3>2. There(<<c, k>>) => There(<<c, k>>)'
      BY ThereStays
    <3>3. \A i \in First : Lost(c, i) => Lost(c, i)'
      BY DEF Lost
    <3> QED
      BY <3>1, <3>2, <3>3 DEF Kept, First
  <2> QED
    BY <2>1, <2>2
<1>2. ~Lost(c, "room")'
  BY DEF CallInv, Lost, First
<1>3. j \in First => /\ stage[c] \notin {"second", "ok"}
                     /\ \A k \in Second : step[<<c, k>>] = "none" /\ k # j
  BY DEF CallInv, Returned, First, Second
<1>4. j \in Second => Returned(c, First) /\ stage[c] \notin {"idle", "first", "ok"} /\ j \notin First
  BY DEF CallInv, Returned, First, Second
<1>5. CASE j \in First
  BY <1>1, <1>2, <1>3, <1>5 DEF CallInv, Returned
<1>6. CASE j \in Second
  <2>1. Returned(c, First)'
    BY <1>4, <1>6 DEF Returned
  <2> QED
    BY <1>1, <1>2, <1>4, <1>6, <2>1 DEF CallInv
<1> QED
  BY <1>5, <1>6

LEMMA InitEstablishes == Init => IInv
<1> SUFFICES ASSUME Init PROVE IInv
  OBVIOUS
<1>1. TypeOK
  BY AgentAssumption
     DEF Init, TypeOK, AllUsers, AllRooms, Threads, Ops, First, Second, Boot
<1>2. ASSUME NEW c \in Calls PROVE CallInv(c)
  <2>1. /\ stage[c] = "idle"
        /\ \A k \in First \cup Second : step[<<c, k>>] = "none"
    BY AgentAssumption, CallOps DEF Init, Boot, Threads
  <2> QED
    BY <2>1 DEF CallInv, Lost, First, Second
<1> QED
  BY <1>1, <1>2 DEF IInv

-----------------------------------------------------------------------------
(* The steps.                                                              *)

\* Reads and inserts of rows, of calls and of the constructor.
LEMMA ReadPreserves == ASSUME IInv, NEW o \in Ops, Read(o)
                       PROVE  IInv'
<1> USE DEF IInv
<1>1. TypeOK'
  BY DEF TypeOK, Read, tables
<1>2. /\ TablesGrow /\ target' = target /\ stage' = stage /\ step[o] = "read"
      /\ \A p \in Ops : p # o => step'[p] = step[p]
      /\ step'[o] = IF Found(o) THEN "done" ELSE "insert"
  BY DEF TypeOK, Read, tables, TablesGrow
<1>3. ASSUME NEW c \in Calls PROVE CallInv(c)'
  <2>1. CASE o[1] # c
    BY <1>2, <2>1, OthersCall, CallOps
  <2>2. CASE o[1] = c
    <3>1. /\ o[2] \in First \cup Second /\ o = <<c, o[2]>>
          /\ c # "boot"
      BY <2>2, AgentAssumption DEF Ops
    <3>2. Found(o) => There(o)
      BY <2>2, <3>1 DEF Found, There
    <3>3. step'[o] = "done" => Kept(o)'
      BY <1>2, <3>1, <3>2, ThereStays DEF Kept
    <3>4. \A k \in First \cup Second : k # o[2] => step'[<<c, k>>] = step[<<c, k>>]
      BY <1>2, <3>1, CallOps
    <3> HIDE DEF IInv
    <3> QED
      BY <1>2, <3>1, <3>3, <3>4, OperationCall DEF IInv
  <2> QED
    BY <2>1, <2>2
<1> QED
  BY <1>1, <1>3

\* What an INSERT stores stays; a participation is refused only for want of an account
\* the call has lost.
LEMMA StoreGrows ==
    ASSUME TypeOK, NEW o \in Ops, Store(o)
    PROVE  /\ TablesGrow
           /\ accounts' \subseteq AllUsers /\ rooms' \subseteq AllRooms
           /\ members' \subseteq AllUsers \X AllRooms
  BY DEF TypeOK, Store, InsertAccount, InsertRoom, InsertMember, AllUsers, AllRooms,
         User, Room, Ops, Threads, First, Second, TablesGrow

LEMMA StoreKeeps ==
    ASSUME NEW c \in Calls, CallInv(c), NEW k \in First \cup Second,
           step[<<c, k>>] = "insert", Store(<<c, k>>), target' = target,
           \A j \in First \cup Second : j # k => step'[<<c, j>>] = step[<<c, j>>]
    PROVE  Kept(<<c, k>>)'
<1> DEFINE o == <<c, k>>
<1>1. CASE InsertAccount(o)
  BY <1>1 DEF InsertAccount, Kept, There, User, Second
<1>2. CASE InsertRoom(o)
  BY <1>2 DEF InsertRoom, Kept, There, Room, Second
<1>3. CASE InsertMember(o)
  <2>1. k \in Second /\ k \notin First
    BY <1>3 DEF InsertMember, First, Second
  <2>2. \A j \in First : There(<<c, j>>) \/ Lost(c, j)
    BY <2>1 DEF CallInv, Returned, Lost, Kept, First
  <2>3. Room(o) \in rooms
    BY <2>2 DEF CallInv, There, First, Second, Room
  <2>4. \A j \in First : Lost(c, j) => Lost(c, j)'
    BY <2>1 DEF Lost
  <2>5. CASE User(o) \in accounts
    BY <1>3, <2>1, <2>3, <2>5 DEF InsertMember, Kept, There, User, Room, Second
  <2>6. CASE User(o) \notin accounts
    <3>1. k = "userIn" => Lost(c, "user")
      BY <2>2, <2>6 DEF There, User, First, Second
    <3>2. k = "agentIn" => Lost(c, "agent")
      BY <2>2, <2>6 DEF There, User, First, Second
    <3> QED
      BY <2>1, <2>4, <3>1, <3>2 DEF Kept, First, Second
  <2> QED
    BY <2>5, <2>6
<1> QED
  BY <1>1, <1>2, <1>3 DEF Store

LEMMA InsertPreserves == ASSUME IInv, NEW o \in Ops, Insert(o)
                         PROVE  IInv'
<1> USE DEF IInv
<1>1. TypeOK'
  BY StoreGrows DEF TypeOK, Insert
<1>2. /\ TablesGrow /\ target' = target /\ stage' = stage /\ step[o] = "insert"
      /\ \A p \in Ops : p # o => step'[p] = step[p]
      /\ step'[o] # "lost"
  BY StoreGrows DEF TypeOK, Insert
<1>3. ASSUME NEW c \in Calls PROVE CallInv(c)'
  <2>1. CASE o[1] # c
    BY <1>2, <2>1, OthersCall, CallOps
  <2>2. CASE o[1] = c
    <3>1. o[2] \in First \cup Second /\ o = <<c, o[2]>>
      BY <2>2 DEF Ops
    <3>2. \A k \in First \cup Second : k # o[2] => step'[<<c, k>>] = step[<<c, k>>]
      BY <1>2, <3>1, CallOps
    <3>3. Kept(o)'
      BY <1>2, <3>1, <3>2, StoreKeeps DEF Insert
    <3> QED
      BY <1>2, <3>1, <3>2, <3>3, OperationCall
  <2> QED
    BY <2>1, <2>2
<1> QED
  BY <1>1, <1>3

\* A query that fails leaves more rows or none, and is done only if nobody looks.
LEMMA FailPreserves == ASSUME IInv, NEW o \in Ops, Fail(o)
                       PROVE  IInv'
<1> USE DEF IInv
<1>1. /\ TablesGrow /\ target' = target /\ stage' = stage
      /\ step[o] \in {"read", "insert"} /\ faults' \in 0..MaxFaults
      /\ accounts' \subseteq AllUsers /\ rooms' \subseteq AllRooms
      /\ members' \subseteq AllUsers \X AllRooms
  BY StoreGrows, AgentAssumption
     DEF TypeOK, Fail, Fault, Throw, Lose, tables, TablesGrow
<1>2. /\ \/ step' = [step EXCEPT ![o] = "failed"]
         \/ step' = [step EXCEPT ![o] = "lost"] /\ o[2] # "room"
  BY DEF Fail, Throw, Lose
<1>3. /\ \A p \in Ops : p # o => step'[p] = step[p]
      /\ step'[o] # "done" /\ (step'[o] = "lost" => o[2] # "room")
  BY <1>2 DEF TypeOK
<1>4. TypeOK'
  BY <1>1, <1>2 DEF TypeOK
<1>5. ASSUME NEW c \in Calls PROVE CallInv(c)'
  <2>1. CASE o[1] # c
    BY <1>1, <1>3, <2>1, OthersCall, CallOps
  <2>2. CASE o[1] = c
    <3>1. o[2] \in First \cup Second /\ o = <<c, o[2]>>
      BY <2>2 DEF Ops
    <3>2. \A k \in First \cup Second : k # o[2] => step'[<<c, k>>] = step[<<c, k>>]
      BY <1>3, <3>1, CallOps
    <3> QED
      BY <1>1, <1>3, <3>1, <3>2, OperationCall
  <2> QED
    BY <2>1, <2>2
<1> QED
  BY <1>4, <1>5

\* Starting operations of a call touches no other operation.
LEMMA StartTypes ==
    ASSUME TypeOK, NEW c \in Calls, NEW ops, step' = Start(c, ops)
    PROVE  /\ step' \in [Ops -> {"none", "read", "insert", "done", "failed", "lost"}]
           /\ \A d \in Calls, k \in First \cup Second :
                step'[<<d, k>>] = IF d = c /\ k \in ops THEN "read" ELSE step[<<d, k>>]
<1>1. step' \in [Ops -> {"none", "read", "insert", "done", "failed", "lost"}]
  BY DEF TypeOK, Start
<1>2. ASSUME NEW d \in Calls, NEW k \in First \cup Second
      PROVE  step'[<<d, k>>] = IF d = c /\ k \in ops THEN "read" ELSE step[<<d, k>>]
  BY CallOps DEF Start
<1> QED
  BY <1>1, <1>2

LEMMA ConnectPreserves ==
    ASSUME IInv, NEW c \in Calls, NEW u \in Users, NEW r \in Rooms, Connect(c, u, r)
    PROVE  IInv'
<1> USE DEF IInv
<1>1. TypeOK'
  <2>1. step' \in [Ops -> {"none", "read", "insert", "done", "failed", "lost"}]
    BY StartTypes DEF Connect
  <2>2. <<u, r>> \in AllUsers \X AllRooms
    BY DEF AllUsers, AllRooms
  <2> QED
    BY <2>1, <2>2 DEF TypeOK, Connect, tables
<1>2. TablesGrow
  BY DEF Connect, tables, TablesGrow
<1>3. ASSUME NEW d \in Calls, NEW k \in First \cup Second
      PROVE  step'[<<d, k>>] = IF d = c /\ k \in First THEN "read" ELSE step[<<d, k>>]
  BY CallOps DEF Connect, Start
<1>4. ASSUME NEW d \in Calls, d # c PROVE CallInv(d)'
  <2>1. stage'[d] = stage[d] /\ target'[d] = target[d]
    BY <1>4 DEF TypeOK, Connect, Threads
  <2> QED
    BY <1>2, <1>3, <1>4, <2>1, OthersCall
<1>5. CallInv(c)'
  <2>1. stage[c] = "idle" /\ stage'[c] = "first"
    BY DEF TypeOK, Connect, Threads
  <2>2. \A k \in Second : step[<<c, k>>] = "none" /\ k \notin First
    BY <2>1 DEF CallInv, First, Second
  <2>3. \A k \in Second : step'[<<c, k>>] = "none"
    BY <1>3, <2>2
  <2> QED
    BY <1>3, <2>1, <2>3 DEF CallInv, Lost, First
<1> QED
  BY <1>1, <1>4, <1>5

LEMMA AdvancePreserves == ASSUME IInv, NEW c \in Calls, Advance(c)
                          PROVE  IInv'
<1> USE DEF IInv
<1>1. TypeOK'
  BY StartTypes DEF TypeOK, Advance, tables, Threads
<1>2. TablesGrow /\ target' = target
  BY DEF Advance, tables, TablesGrow
<1>3. \A d \in Calls, k \in First \cup Second :
        step'[<<d, k>>] = IF d = c /\ k \in Second THEN "read" ELSE step[<<d, k>>]
  BY StartTypes DEF Advance
<1>4. ASSUME NEW d \in Calls, d # c PROVE CallInv(d)'
  <2>1. stage'[d] = stage[d]
    BY <1>4 DEF TypeOK, Advance, Threads
  <2> QED
    BY <1>2, <1>3, <1>4, <2>1, OthersCall
<1>5. CallInv(c)'
  <2>1. /\ stage'[c] = "second" /\ Returned(c, First)'
        /\ \A k \in First : step'[<<c, k>>] = step[<<c, k>>]
    BY <1>3 DEF TypeOK, Advance, Returned, Threads, First, Second
  <2>2. \A k \in First : step[<<c, k>>] = "done" => There(<<c, k>>)'
    BY <1>2, ThereStays DEF CallInv, Kept, First
  <2> QED
    BY <1>3, <2>1, <2>2 DEF CallInv, Kept, Lost, First
<1> QED
  BY <1>1, <1>4, <1>5

\* How a call ends.
LEMMA EndPreserves == ASSUME IInv, NEW c \in Calls, Reject(c) \/ Resolve(c)
                      PROVE  IInv'
<1> USE DEF IInv
<1>1. TypeOK'
  BY DEF TypeOK, Reject, Resolve, tables, Threads
<1>2. TablesGrow /\ target' = target /\ step' = step
  BY DEF Reject, Resolve, tables, TablesGrow
<1>3. ASSUME NEW d \in Calls, d # c PROVE CallInv(d)'
  <2>1. stage'[d] = stage[d]
    BY <1>3 DEF TypeOK, Reject, Resolve, Threads
  <2> QED
    BY <1>2, <2>1, OthersCall
<1>4. CallInv(c)'
  <2>1. \A k \in First \cup Second : Kept(<<c, k>>) => Kept(<<c, k>>)'
    BY <1>2, ThereStays DEF Kept, Lost
  <2>2. CASE Reject(c)
    <3>1. stage'[c] = "error"
      BY <2>2 DEF TypeOK, Reject, Threads
    <3> QED
      BY <1>2, <2>1, <3>1 DEF CallInv, Lost, Returned
  <2>3. CASE Resolve(c)
    <3>1. stage[c] = "second" /\ stage'[c] = "ok" /\ Returned(c, Second)
      BY <2>3 DEF TypeOK, Resolve, Threads
    <3> QED
      BY <1>2, <2>1, <3>1 DEF CallInv, Lost, Returned
  <2> QED
    BY <2>2, <2>3
<1> QED
  BY <1>1, <1>3, <1>4

LEMMA ReusePreserves == ASSUME IInv, NEW c \in Calls, Reuse(c)
                        PROVE  IInv'
<1> USE DEF IInv
<1>1. TypeOK'
  BY DEF TypeOK, Reuse, tables, AllUsers, AllRooms, Threads
<1>2. TablesGrow
  BY DEF Reuse, tables, TablesGrow
<1>3. ASSUME NEW d \in Calls, NEW k \in First \cup Second
      PROVE  step'[<<d, k>>] = IF d = c THEN "none" ELSE step[<<d, k>>]
  BY CallOps DEF Reuse
<1>4. ASSUME NEW d \in Calls, d # c PROVE CallInv(d)'
  <2>1. stage'[d] = stage[d] /\ target'[d] = target[d]
    BY <1>4 DEF TypeOK, Reuse, Threads
  <2> QED
    BY <1>2, <1>3, <1>4, <2>1, OthersCall
<1>5. CallInv(c)'
  <2>1. stage'[c] = "idle"
    BY DEF TypeOK, Reuse, Threads
  <2> QED
    BY <1>3, <2>1 DEF CallInv, Lost, First, Second
<1> QED
  BY <1>1, <1>4, <1>5

LEMMA RestartPreserves == ASSUME IInv, Restart
                          PROVE  IInv'
<1>1. TypeOK'
  BY AgentAssumption
     DEF IInv, TypeOK, Restart, Fault, tables, AllUsers, AllRooms, Threads, Ops, First, Second, Boot
<1>2. ASSUME NEW c \in Calls PROVE CallInv(c)'
  <2>1. /\ stage'[c] = "idle"
        /\ \A k \in First \cup Second : step'[<<c, k>>] = "none"
    BY AgentAssumption, CallOps DEF Restart, Boot, Threads
  <2> QED
    BY <2>1 DEF CallInv, Lost, First, Second
<1> QED
  BY <1>1, <1>2 DEF IInv

LEMMA StepPreserves == IInv /\ [Next]_vars => IInv'
<1> SUFFICES ASSUME IInv, [Next]_vars PROVE IInv'
  OBVIOUS
<1>1. CASE UNCHANGED vars
  <2>1. TypeOK'
    BY <1>1 DEF IInv, TypeOK, vars, tables
  <2>2. /\ TablesGrow /\ target' = target /\ stage' = stage /\ step' = step
    BY <1>1 DEF vars, tables, TablesGrow
  <2>3. \A c \in Calls : CallInv(c)'
    BY <2>2, OthersCall DEF IInv
  <2> QED
    BY <2>1, <2>3 DEF IInv
<1>2. CASE Next
  BY <1>2, RestartPreserves, ReadPreserves, InsertPreserves, FailPreserves, ConnectPreserves,
     AdvancePreserves, EndPreserves, ReusePreserves DEF Next
<1> QED
  BY <1>1, <1>2

LEMMA AlwaysIInv == Spec => []IInv
  BY InitEstablishes, StepPreserves, PTL DEF Spec

\* The types of the tables and of the calls.
THEOREM TypeCorrect == Spec => []TypeOK
  <1>1. IInv => TypeOK
    BY DEF IInv
  <1> QED BY AlwaysIInv, <1>1, PTL

\* When ensureConnection resolves, its accounts, room and participations exist, but for
\* those an error of the call itself lost, however many calls and restarts raced with it.
THEOREM ResolvedIsPresent == Spec => []ConnectedMeansPresent
  <1>1. IInv => ConnectedMeansPresent
    <2> SUFFICES ASSUME IInv, NEW c \in Calls, stage[c] = "ok"
                 PROVE  \A k \in First \cup Second : Kept(<<c, k>>) \/ (Lost(c, k) /\ k # "room")
      BY DEF ConnectedMeansPresent, Kept, First, Second
    <2> QED BY DEF IInv, CallInv, Returned, Lost, First
  <1> QED BY AlwaysIInv, <1>1, PTL

-----------------------------------------------------------------------------
(* Knowledge *)

\* An agent about to look for a row, or to insert it, has found or inserted all
\* earlier rows of the item: why nobody ever inserts past a missing row.
EarlierRowsThere ==
    \A a \in Agents : pc[a] \in {"exists", "insert"}
                        => \A k \in Nat : k < row[a] => owner[<<item[a], k>>] # None

\* The row that decides whether an item is taken as known is its document.
LooksAtDocument == \A a \in Agents : pc[a] = "look" => row[a] = 0

\* What an agent may pass over: an item all of whose rows are there, or one whose
\* document it has stored.
Known(a, i) == \/ owner[<<i, 0>>] = a
               \/ \A k \in 0..Fragments : owner[<<i, k>>] # None

Gaps(a) == \A i \in 1..Items : Past(a, i) => Known(a, i)

\* The inductive invariant.
KnowledgeInv == /\ K!TypeOK /\ K!RowsFormPrefix
                /\ EarlierRowsThere /\ LooksAtDocument
                /\ \A a \in Agents : Gaps(a)

\* A row is inserted once and stays.
OwnersStay == \A r \in K!Rows : owner[r] # None => owner'[r] = owner[r]

-----------------------------------------------------------------------------

LEMMA InitKnowledge == K!Init => KnowledgeInv
  BY KnowledgeAssumption
     DEF K!Init, KnowledgeInv, K!TypeOK, K!RowsFormPrefix, EarlierRowsThere, K!Rows,
         LooksAtDocument, Gaps, Past

\* Where an agent stands is a row.
LEMMA HereIsRow == ASSUME K!TypeOK, NEW a \in Agents
                   PROVE  K!Here(a) \in K!Rows
  BY DEF K!TypeOK, K!Here, K!Rows

\* Going on to the next item, or to the next row, keeps the types.
LEMMA NextItemTypes == ASSUME K!TypeOK, NEW a \in Agents, K!NextItem(a)
                       PROVE  /\ pc' \in [Agents -> {"off", "look", "exists", "insert",
                                                     "ready", "failed"}]
                              /\ item' \in [Agents -> 1..Items]
                              /\ row' \in [Agents -> 0..Fragments]
  BY KnowledgeAssumption DEF K!TypeOK, K!NextItem, K!Goto

LEMMA NextRowTypes == ASSUME K!TypeOK, NEW a \in Agents, K!NextRow(a)
                      PROVE  /\ pc' \in [Agents -> {"off", "look", "exists", "insert",
                                                    "ready", "failed"}]
                             /\ item' \in [Agents -> 1..Items]
                             /\ row' \in [Agents -> 0..Fragments]
  BY KnowledgeAssumption, NextItemTypes DEF K!TypeOK, K!NextRow, K!Goto

\* What an agent knows it knows for good.
LEMMA KnownStays == ASSUME OwnersStay, NEW a \in Agents, NEW i \in 1..Items, Known(a, i)
                    PROVE  Known(a, i)'
<1>1. \A k \in 0..Fragments : <<i, k>> \in K!Rows /\ <<i, 0>> \in K!Rows
  BY KnowledgeAssumption DEF K!Rows
<1>2. 0 \in 0..Fragments
  BY KnowledgeAssumption
<1> QED
  BY KnowledgeAssumption, <1>1, <1>2 DEF Known, OwnersStay

\* So the steps of others leave an agent's gaps as they are.
LEMMA OthersGaps == ASSUME OwnersStay, NEW a \in Agents, Gaps(a),
                           pc'[a] = pc[a], item'[a] = item[a]
                    PROVE  Gaps(a)'
  BY KnownStays DEF Gaps, Past

\* An agent that knows the item it is at may go on to the next.
LEMMA NextItemGaps ==
    ASSUME K!TypeOK, OwnersStay, NEW a \in Agents, Gaps(a), K!NextItem(a),
           NEW here \in 1..Items, here = item[a], Known(a, here)'
    PROVE  Gaps(a)'
<1> SUFFICES ASSUME NEW i \in 1..Items, Past(a, i)' PROVE Known(a, i)'
  BY DEF Gaps
<1>1. i = item[a] \/ i < item[a]
  BY KnowledgeAssumption DEF Past, K!NextItem, K!Goto, K!TypeOK
<1>2. CASE i = item[a]
  BY <1>2 DEF Known
<1>3. CASE i < item[a]
  BY <1>3, KnownStays DEF Gaps, Past
<1> QED
  BY <1>1, <1>2, <1>3

\* Once the row an agent stands at is there, it may go on to the next row: at the last
\* one the item is complete.
LEMMA NextRowGaps ==
    ASSUME K!TypeOK, EarlierRowsThere, OwnersStay, NEW a \in Agents, Gaps(a),
           K!NextRow(a), pc[a] \in {"exists", "insert"}, owner'[K!Here(a)] # None
    PROVE  Gaps(a)'
<1>1. CASE row[a] < Fragments
  <2>1. item'[a] = item[a] /\ pc'[a] = "exists"
    BY <1>1 DEF K!NextRow, K!Goto, K!TypeOK
  <2> QED
    BY <2>1, KnownStays DEF Gaps, Past
<1>2. CASE ~(row[a] < Fragments)
  <2> DEFINE here == item[a]
  <2>1. /\ K!NextItem(a) /\ row[a] = Fragments
        /\ here \in 1..Items
    BY <1>2, KnowledgeAssumption DEF K!NextRow, K!TypeOK
  <2> HIDE DEF here
  <2>2. ASSUME NEW k \in 0..Fragments PROVE owner'[<<here, k>>] # None
    <3>1. CASE k = row[a]
      BY <3>1 DEF K!Here, here
    <3>2. CASE k < row[a]
      <4>1. owner[<<here, k>>] # None
        BY <3>2 DEF EarlierRowsThere, here
      <4>2. <<here, k>> \in K!Rows
        BY <2>1 DEF K!Rows
      <4> QED
        BY <4>1, <4>2 DEF OwnersStay
    <3> QED
      BY <2>1, <3>1, <3>2, KnowledgeAssumption
  <2>3. \A i : i = here => Known(a, i)'
    BY <2>2 DEF Known
  <2> QED
    BY <2>1, <2>3, NextItemGaps DEF here
<1> QED
  BY <1>1, <1>2

\* ... and the rows before the next one are there.
LEMMA NextRowEarlier ==
    ASSUME K!TypeOK, EarlierRowsThere, OwnersStay, NEW a \in Agents, K!NextRow(a),
           pc[a] \in {"exists", "insert"}, owner'[K!Here(a)] # None
    PROVE  EarlierRowsThere'
<1> SUFFICES ASSUME NEW b \in Agents, pc'[b] \in {"exists", "insert"},
                    NEW k \in Nat, k < row'[b]
             PROVE  owner'[<<item'[b], k>>] # None
  BY DEF EarlierRowsThere
<1>1. CASE b = a
  <2>1. /\ row[a] < Fragments /\ item'[a] = item[a] /\ row'[a] = row[a] + 1
    BY <1>1 DEF K!NextRow, K!NextItem, K!Goto, K!TypeOK
  <2>2. CASE k = row[a]
    BY <1>1, <2>1, <2>2 DEF K!Here
  <2>3. CASE k < row[a]
    <3>1. owner[<<item[a], k>>] # None
      BY <2>3 DEF EarlierRowsThere
    <3>2. <<item[a], k>> \in K!Rows
      BY <2>3, KnowledgeAssumption DEF K!TypeOK, K!Rows
    <3> QED
      <4>1. owner'[<<item[a], k>>] # None
        BY <3>1, <3>2 DEF OwnersStay
      <4> QED
        BY <1>1, <2>1, <4>1
  <2> QED
    BY <1>1, <2>1, <2>2, <2>3 DEF K!TypeOK
<1>2. CASE b # a
  <2>1. pc'[b] = pc[b] /\ item'[b] = item[b] /\ row'[b] = row[b]
    BY <1>2 DEF K!NextRow, K!NextItem, K!Goto, K!TypeOK
  <2>2. owner[<<item[b], k>>] # None
    BY <2>1 DEF EarlierRowsThere
  <2>3. <<item[b], k>> \in K!Rows
    BY <2>1, KnowledgeAssumption DEF K!TypeOK, K!Rows
  <2>4. owner'[<<item[b], k>>] # None
    BY <2>2, <2>3 DEF OwnersStay
  <2> QED
    BY <2>1, <2>4
<1> QED
  BY <1>1, <1>2

\* An agent that goes on to another row of its item, or begins anew, is past no more
\* items than before.
LEMMA StaysGaps ==
    ASSUME K!TypeOK, NEW a \in Agents, NEW p, NEW i \in 1..Items, NEW r \in 0..Fragments,
           K!Goto(a, p, i, r), p # "ready", i = item[a] \/ i = 1,
           UNCHANGED owner, \A b \in Agents : Gaps(b)
    PROVE  \A b \in Agents : Gaps(b)'
<1> SUFFICES ASSUME NEW b \in Agents, NEW j \in 1..Items, Past(b, j)'
             PROVE  Known(b, j)'
  BY DEF Gaps
<1>1. Past(b, j)
  BY DEF Past, K!Goto, K!TypeOK
<1> QED
  BY <1>1 DEF Gaps, Known

\* Every step of the agents keeps the invariant.
LEMMA LookPreserves == ASSUME KnowledgeInv, NEW a \in Agents, K!Look(a)
                       PROVE  KnowledgeInv'
<1> USE DEF KnowledgeInv
<1>1. CASE owner[K!Here(a)] = a
  <2>1. K!NextItem(a) /\ owner' = owner /\ crashes' = crashes /\ row[a] = 0
    BY <1>1 DEF K!Look, LooksAtDocument
  <2>2. K!TypeOK'
    BY <2>1, NextItemTypes DEF K!TypeOK
  <2>3. EarlierRowsThere' /\ LooksAtDocument' /\ K!RowsFormPrefix'
    BY <2>1 DEF K!NextItem, K!Goto, K!TypeOK, EarlierRowsThere, LooksAtDocument,
                K!RowsFormPrefix
  <2>4. OwnersStay
    BY <2>1 DEF OwnersStay
  <2>5. ASSUME NEW b \in Agents PROVE Gaps(b)'
    <3>1. CASE b # a
      <4>1. pc'[b] = pc[b] /\ item'[b] = item[b]
        BY <2>1, <3>1 DEF K!NextItem, K!Goto, K!TypeOK
      <4> QED
        BY <2>4, <4>1, OthersGaps
    <3>2. CASE b = a
      <4>1. \A i : i = item[a] => Known(a, i)'
        BY <1>1, <2>1 DEF Known, K!Here
      <4>2. item[a] \in 1..Items
        BY DEF K!TypeOK
      <4> QED
        BY <2>1, <2>4, <3>2, <4>1, <4>2, NextItemGaps
    <3> QED
      BY <3>1, <3>2
  <2> QED
    BY <2>2, <2>3, <2>5
<1>2. CASE owner[K!Here(a)] # a
  <2>1. K!Goto(a, "exists", item[a], 0) /\ owner' = owner /\ crashes' = crashes
    BY <1>2 DEF K!Look
  <2>2. item[a] \in 1..Items /\ 0 \in 0..Fragments
    BY KnowledgeAssumption DEF K!TypeOK
  <2>3. \A b \in Agents : Gaps(b)'
    BY <2>1, <2>2, StaysGaps
  <2> QED
    BY <2>1, <2>2, <2>3 DEF K!Goto, K!TypeOK, K!RowsFormPrefix, EarlierRowsThere,
                            LooksAtDocument
<1> QED
  BY <1>1, <1>2

\* The two ways to the next row: it is there already, or it is inserted.
LEMMA NextRowPreserves ==
    ASSUME KnowledgeInv, NEW a \in Agents, K!NextRow(a), pc[a] \in {"exists", "insert"},
           OwnersStay, K!TypeOK', K!RowsFormPrefix', owner'[K!Here(a)] # None
    PROVE  KnowledgeInv'
<1> USE DEF KnowledgeInv
<1>1. EarlierRowsThere'
  BY NextRowEarlier
<1>2. LooksAtDocument'
  BY DEF LooksAtDocument, K!NextRow, K!NextItem, K!Goto, K!TypeOK
<1>3. ASSUME NEW b \in Agents, b # a PROVE Gaps(b)'
  <2>1. pc'[b] = pc[b] /\ item'[b] = item[b]
    BY <1>3 DEF K!NextRow, K!NextItem, K!Goto, K!TypeOK
  <2> QED
    BY <2>1, OthersGaps
<1>4. Gaps(a)'
  BY NextRowGaps
<1> QED
  BY <1>1, <1>2, <1>3, <1>4

LEMMA ExistsPreserves == ASSUME KnowledgeInv, NEW a \in Agents, K!Exists(a)
                         PROVE  KnowledgeInv'
<1>1. CASE owner[K!Here(a)] # None
  <2>1. K!NextRow(a) /\ owner' = owner /\ crashes' = crashes /\ pc[a] = "exists"
    BY <1>1 DEF K!Exists
  <2>2. K!TypeOK' /\ K!RowsFormPrefix'
    BY <2>1, NextRowTypes DEF KnowledgeInv, K!TypeOK, K!RowsFormPrefix
  <2> QED
    BY <1>1, <2>1, <2>2, NextRowPreserves DEF OwnersStay
<1>2. CASE owner[K!Here(a)] = None
  <2>1. /\ K!Goto(a, "insert", item[a], row[a]) /\ owner' = owner
        /\ crashes' = crashes /\ pc[a] = "exists"
    BY <1>2 DEF K!Exists
  <2>2. item[a] \in 1..Items /\ row[a] \in 0..Fragments
    BY DEF KnowledgeInv, K!TypeOK
  <2>3. \A b \in Agents : Gaps(b)'
    BY <2>1, <2>2, StaysGaps DEF KnowledgeInv
  <2> QED
    BY <2>1, <2>2, <2>3 DEF KnowledgeInv, K!Goto, K!TypeOK, K!RowsFormPrefix,
                            EarlierRowsThere, LooksAtDocument
<1> QED
  BY <1>1, <1>2

LEMMA StorePreserves == ASSUME KnowledgeInv, NEW a \in Agents, K!Store(a)
                        PROVE  KnowledgeInv'
<1> USE DEF KnowledgeInv
<1>1. /\ K!NextRow(a) /\ pc[a] = "insert" /\ crashes' = crashes
      /\ owner[K!Here(a)] = None /\ owner' = [owner EXCEPT ![K!Here(a)] = a]
  BY DEF K!Store
<1>2. K!Here(a) \in K!Rows /\ a # None
  BY HereIsRow, KnowledgeAssumption
<1>3. owner'[K!Here(a)] = a /\ OwnersStay
  BY <1>1, <1>2 DEF K!TypeOK, OwnersStay
<1>4. K!TypeOK'
  BY <1>1, <1>2, NextRowTypes DEF K!TypeOK
<1>5. K!RowsFormPrefix'
  <2> SUFFICES ASSUME NEW r \in K!Rows, owner'[r] # None, NEW k \in 0..r[2]
               PROVE  owner'[<<r[1], k>>] # None
    BY DEF K!RowsFormPrefix
  <2>0. <<r[1], k>> \in K!Rows
    BY KnowledgeAssumption DEF K!Rows
  <2>1. CASE owner[r] # None
    <3>1. owner[<<r[1], k>>] # None
      BY <2>1 DEF K!RowsFormPrefix
    <3> QED
      BY <1>3, <2>0, <3>1 DEF OwnersStay
  <2>2. CASE owner[r] = None
    <3>1. r = K!Here(a)
      BY <1>1, <2>2 DEF K!TypeOK
    <3>2. r[1] = item[a] /\ r[2] = row[a]
      BY <3>1 DEF K!Here
    <3>3. CASE k = row[a]
      BY <1>2, <1>3, <3>2, <3>3 DEF K!Here
    <3>4. CASE k < row[a]
      BY <1>1, <1>3, <2>0, <3>2, <3>4 DEF EarlierRowsThere, OwnersStay
    <3> QED
      BY <3>2, <3>3, <3>4 DEF K!TypeOK
  <2> QED
    BY <2>1, <2>2
<1> QED
  BY <1>1, <1>2, <1>3, <1>4, <1>5, NextRowPreserves

\* An agent that starts, fails or is killed begins at the first item.
LEMMA AnewPreserves ==
    ASSUME KnowledgeInv, NEW a \in Agents, K!Start(a) \/ K!NoStore(a) \/ K!Crash(a)
    PROVE  KnowledgeInv'
<1>1. PICK p \in {"look", "failed", "off"} : K!Goto(a, p, 1, 0)
  BY DEF K!Start, K!NoStore, K!Crash
<1>2. owner' = owner /\ crashes' \in 0..MaxCrashes
  BY KnowledgeAssumption DEF KnowledgeInv, K!TypeOK, K!Start, K!NoStore, K!Crash
<1>3. 1 \in 1..Items /\ 0 \in 0..Fragments
  BY KnowledgeAssumption
<1>4. \A b \in Agents : Gaps(b)'
  BY <1>1, <1>2, <1>3, StaysGaps DEF KnowledgeInv
<1> QED
  BY <1>1, <1>2, <1>3, <1>4 DEF KnowledgeInv, K!Goto, K!TypeOK, K!RowsFormPrefix,
                                EarlierRowsThere, LooksAtDocument

LEMMA StepKnowledge == KnowledgeInv /\ [K!Next]_(K!vars) => KnowledgeInv'
<1> SUFFICES ASSUME KnowledgeInv, [K!Next]_(K!vars) PROVE KnowledgeInv'
  OBVIOUS
<1>1. CASE UNCHANGED K!vars
  BY <1>1 DEF KnowledgeInv, K!vars, K!TypeOK, K!RowsFormPrefix, EarlierRowsThere,
              LooksAtDocument, Gaps, Past, Known
<1> QED
  BY <1>1, LookPreserves, ExistsPreserves, StorePreserves, AnewPreserves
     DEF K!Next, K!Step

LEMMA AlwaysKnowledge == K!Spec => []KnowledgeInv
  BY InitKnowledge, StepKnowledge, PTL DEF K!Spec

-----------------------------------------------------------------------------

\* Owners are agents, and no agent stands past the last item or fragment.
THEOREM KnowledgeTypeCorrect == K!Spec => []K!TypeOK
<1>1. KnowledgeInv => K!TypeOK
  BY DEF KnowledgeInv
<1> QED
  BY <1>1, AlwaysKnowledge, PTL

\* No fragment of knowledge.set is ever found without its document, nor without the
\* fragments before it, however many agents fail, crash and start again.
THEOREM PrefixAlways == K!Spec => []RowsFormPrefix
<1>1. KnowledgeInv => RowsFormPrefix
  BY DEF KnowledgeInv, K!RowsFormPrefix, K!Rows, RowsFormPrefix, Rows
<1> QED
  BY <1>1, AlwaysKnowledge, PTL

\* Nobody gets past an item with rows missing but the agent that stored its document:
\* processCharacterKnowledge of any other fills the gap first.
THEOREM GapsAreOwnAlways == K!Spec => []GapsAreOwn
<1>1. KnowledgeInv => GapsAreOwn
  BY DEF KnowledgeInv, Gaps, Known, GapsAreOwn
<1> QED
  BY <1>1, AlwaysKnowledge, PTL

\* So once two agents have got past an item, all of it can be found.
THEOREM TwoAgentsKnowAll ==
    K!Spec => [](\A a, b \in Agents, i \in 1..Items :
                   a # b /\ Past(a, i) /\ Past(b, i)
                     => \A k \in 0..Fragments : owner[<<i, k>>] # None)
<1>1. GapsAreOwn => \A a, b \in Agents, i \in 1..Items :
                      a # b /\ Past(a, i) /\ Past(b, i)
                        => \A k \in 0..Fragments : owner[<<i, k>>] # None
  BY DEF GapsAreOwn
<1> QED
  BY <1>1, GapsAreOwnAlways, PTL
=============================================================================
