-------------------------- MODULE BlockChainProofs --------------------------
(* Proofs about BlockChain, for any tree of blocks, any transactions and any *)
(* number of stops.                                                         *)
EXTENDS BlockChain, FiniteSetTheorems, WellFoundedInduction, TLAPS

-----------------------------------------------------------------------------
(* The tree *)

LEMMA ChainFacts ==
    ASSUME NEW b \in Block
    PROVE  /\ Chain[b] \subseteq Block /\ b \in Chain[b] /\ Root \in Chain[b]
           /\ b # Root => /\ Parent[b] \in Block /\ Parent[b] \in Chain[b]
                          /\ Chain[b] = Chain[Parent[b]] \cup {b}
                          /\ b \notin Chain[Parent[b]]
                          /\ Trust[Parent[b]] < Trust[b]
<1>1. Chain[b] \subseteq Block /\ b \in Chain[b]
  BY TreeAssumption
<1>2. Root \in Chain[b]
  BY <1>1, TreeAssumption
<1>3. ASSUME b # Root PROVE Parent[b] \in Block /\ Parent[b] \in Chain[Parent[b]]
  BY <1>3, TreeAssumption
<1> QED
  BY <1>1, <1>2, <1>3, TreeAssumption

LEMMA TxsOfUnion ==
    ASSUME NEW A, NEW B
    PROVE  /\ TxsOf(A \cup B) = TxsOf(A) \cup TxsOf(B)
           /\ A \subseteq B => TxsOf(A) \subseteq TxsOf(B)
BY DEF TxsOf

LEMMA TxsOfBlock ==
    ASSUME NEW b \in Block
    PROVE  TxsOf({b}) = Txs(b) /\ Txs(b) \subseteq Tx
<1>1. TxSeq[b] \in Seq(Tx)
  BY TxAssumption
<1> QED
  BY <1>1 DEF TxsOf, Txs

LEMMA TxsOfTyped ==
    ASSUME NEW B \in SUBSET Block
    PROVE  TxsOf(B) \subseteq Tx
BY TxsOfBlock DEF TxsOf

\* The transactions of a chain are those of the parent's chain and its own.
LEMMA TxsOfChain ==
    ASSUME NEW b \in Block, b # Root
    PROVE  TxsOf(Chain[b]) = TxsOf(Chain[Parent[b]]) \cup Txs(b)
BY ChainFacts, TxsOfUnion, TxsOfBlock

LEMMA LessWellFounded == IsWellFoundedOn({p \in Nat \X Nat : p[1] < p[2]}, Nat)
BY NatLessThanWellFounded, Zenon DEF OpToRel

LEMMA LeastNat ==
    ASSUME NEW S \in SUBSET Nat, S # {}
    PROVE  \E m \in S : \A n \in S : m <= n
<1> DEFINE Less == {p \in Nat \X Nat : p[1] < p[2]}
<1>1. \E m \in S : \A n \in S : ~(<<n, m>> \in Less)
  <2> HIDE DEF Less
  <2> QED
    BY LessWellFounded, WFMin DEF Less
<1>2. PICK m \in S : \A n \in S : ~(<<n, m>> \in Less)
  BY <1>1
<1>3. ASSUME NEW n \in S PROVE m <= n
  <2>1. m \in Nat /\ n \in Nat
    OBVIOUS
  <2>2. ~(<<n, m>> \in Less)
    BY <1>2, Zenon
  <2>3. n < m => <<n, m>> \in Less
    BY <2>1
  <2> QED
    BY <2>1, <2>2, <2>3
<1> QED
  BY <1>3

-----------------------------------------------------------------------------
(* The tx index is the replay of the chain. *)

\* A chain that connects has the chain of each of its blocks connect.
LEMMA ValidAncestor ==
    ASSUME NEW b \in Block, Valid(b), NEW a \in Chain[b]
    PROVE  Valid(a)
<1>1. Chain[a] \subseteq Chain[b]
  BY TreeAssumption
<1> QED
  BY <1>1 DEF Valid

LEMMA ValidNext ==
    ASSUME NEW b \in Block, b # Root
    PROVE  Valid(b) <=> Valid(Parent[b]) /\ Connectable(ViewOf(Parent[b]), b)
<1>1. Chain[b] \ {Root} = (Chain[Parent[b]] \ {Root}) \cup {b}
  BY ChainFacts
<1> QED
  BY <1>1 DEF Valid

LEMMA ValidRoot == Valid(Root)
BY TreeAssumption DEF Valid

LEMMA ViewDomain ==
    ASSUME NEW b \in Block
    PROVE  /\ DOMAIN ViewOf(b) = TxsOf(Chain[b])
           /\ \A t \in TxsOf(Chain[b]) : ViewOf(b)[t] = Spenders(TxsOf(Chain[b]), t)
BY DEF ViewOf

\* The inputs of a chain that connects are in it.
LEMMA InputsInChain ==
    ASSUME NEW b \in Block, Valid(b), NEW t \in TxsOf(Chain[b])
    PROVE  Spends[t] \subseteq TxsOf(Chain[b])
<1>1. PICK a \in Chain[b] : t \in Txs(a)
  BY DEF TxsOf
<1>2. a \in Block
  BY ChainFacts
<1>3. CASE a = Root
  BY <1>1, <1>3, TxAssumption
<1>4. CASE a # Root
  <2>1. Connectable(ViewOf(Parent[a]), a)
    BY <1>4 DEF Valid
  <2>2. PICK i \in DOMAIN TxSeq[a] : t = TxSeq[a][i]
    BY <1>1 DEF Txs
  <2>3. TxSeq[a] \in Seq(Tx) /\ i \in 1..Len(TxSeq[a])
    BY <1>2, <2>2, TxAssumption
  <2>4. Earlier(a, i) \subseteq Txs(a)
    BY <2>3 DEF Earlier, Txs
  <2>5. Spends[t] \subseteq TxsOf(Chain[Parent[a]]) \cup Txs(a)
    BY <1>2, <1>4, <2>1, <2>2, <2>4, ViewDomain, ChainFacts DEF Connectable
  <2>6. TxsOf(Chain[a]) \subseteq TxsOf(Chain[b])
    BY <1>2, TxsOfUnion, TreeAssumption
  <2> QED
    BY <1>2, <1>4, <2>5, <2>6, TxsOfChain
<1> QED
  BY <1>3, <1>4

\* A block that connects has no transaction of the chain below it.
LEMMA NoRepeat ==
    ASSUME NEW b \in Block, b # Root, Valid(b)
    PROVE  Txs(b) \cap TxsOf(Chain[Parent[b]]) = {}
<1> DEFINE P == Parent[b]
           old == TxsOf(Chain[P])
           Dup == {i \in DOMAIN TxSeq[b] : TxSeq[b][i] \in old}
<1>1. P \in Block /\ Valid(P) /\ Connectable(ViewOf(P), b)
  BY ValidNext, ChainFacts
<1>2. TxSeq[b] \in Seq(Tx) /\ Dup \subseteq Nat
  BY TxAssumption
<1>3. SUFFICES ASSUME Dup # {} PROVE FALSE
  BY DEF Txs
<1>4. PICK i \in Dup : \A j \in Dup : i <= j
  BY <1>2, <1>3, LeastNat
<1> DEFINE t == TxSeq[b][i]
<1>5. t \in Txs(b) /\ t \in old /\ t \in Tx /\ i \in 1..Len(TxSeq[b])
  BY <1>2 DEF Txs
<1>6. PICK u \in Spends[t] : TRUE
  BY <1>5, TxAssumption
<1>7. u \in old
  BY <1>1, <1>5, InputsInChain
<1>8. u \notin Earlier(b, i)
  <2> SUFFICES ASSUME NEW j \in 1..(i - 1), u = TxSeq[b][j] PROVE FALSE
    BY DEF Earlier
  <2>1. j \in Dup /\ j < i
    BY <1>2, <1>5, <1>7
  <2> QED
    BY <1>2, <1>4, <2>1
<1>9. ViewOf(P)[u] = {}
  BY <1>1, <1>5, <1>8 DEF Connectable
<1>10. t \in ViewOf(P)[u]
  BY <1>1, <1>5, <1>7, ViewDomain DEF Spenders
<1> QED
  BY <1>9, <1>10

\* Connecting a block turns the index of its parent's chain into that of its own.
LEMMA ConnectIsView ==
    ASSUME NEW b \in Block, b # Root, Valid(b)
    PROVE  Connected(ViewOf(Parent[b]), b) = ViewOf(b)
<1> DEFINE P == Parent[b]
           old == TxsOf(Chain[P])
           all == TxsOf(Chain[b])
           v == ViewOf(P)
<1>1. P \in Block /\ Valid(P) /\ Connectable(v, b)
  BY ValidNext, ChainFacts
<1>2. all = old \cup Txs(b) /\ Txs(b) \cap old = {} /\ DOMAIN v = old
  BY <1>1, TxsOfChain, NoRepeat, ViewDomain
<1>3. \A t \in old : v[t] = Spenders(old, t)
  BY <1>1, ViewDomain
<1>4. ASSUME NEW t \in Txs(b) PROVE Spenders(old, t) = {}
  <2> SUFFICES ASSUME NEW s \in old, t \in Spends[s] PROVE FALSE
    BY DEF Spenders
  <2>1. t \in old
    BY <1>1, InputsInChain
  <2> QED
    BY <1>2, <2>1
<1>5. ASSUME NEW t \in old, Spenders(Txs(b), t) # {} PROVE Spenders(old, t) = {}
  <2>1. PICK s \in Txs(b) : t \in Spends[s]
    BY <1>5 DEF Spenders
  <2>2. PICK i \in DOMAIN TxSeq[b] : s = TxSeq[b][i]
    BY DEF Txs
  <2>3. TxSeq[b] \in Seq(Tx)
    BY TxAssumption
  <2>4. Earlier(b, i) \subseteq Txs(b)
    BY <2>2, <2>3 DEF Earlier, Txs
  <2>5. t \notin Earlier(b, i)
    BY <1>2, <2>4
  <2>6. v[t] = {}
    BY <1>1, <2>1, <2>2, <2>5 DEF Connectable
  <2> QED
    BY <1>3, <2>6
<1>6. ASSUME NEW t \in all
      PROVE  Spenders(all, t) = IF t \in Txs(b) \/ Spenders(Txs(b), t) # {}
                                THEN Spenders(Txs(b), t) ELSE v[t]
  <2>1. Spenders(all, t) = Spenders(old, t) \cup Spenders(Txs(b), t)
    BY <1>2 DEF Spenders
  <2>2. CASE t \in Txs(b)
    BY <1>4, <2>1, <2>2
  <2>3. CASE t \in old
    BY <1>2, <1>3, <1>5, <2>1, <2>3
  <2> QED
    BY <1>2, <2>2, <2>3
<1> QED
  BY <1>2, <1>6 DEF Connected, ViewOf

\* Disconnecting the last block of a chain gives back the index of its parent's.
LEMMA DisconnectIsView ==
    ASSUME NEW b \in Block, b # Root, Valid(b)
    PROVE  Disconnected(ViewOf(b), b) = ViewOf(Parent[b])
<1> DEFINE P == Parent[b]
           old == TxsOf(Chain[P])
           all == TxsOf(Chain[b])
<1>1. P \in Block /\ Valid(P) /\ Connectable(ViewOf(P), b)
  BY ValidNext, ChainFacts
<1>2. all = old \cup Txs(b) /\ Txs(b) \cap old = {} /\ DOMAIN ViewOf(b) = all
  BY <1>1, TxsOfChain, NoRepeat, ViewDomain
<1>3. \A t \in all : ViewOf(b)[t] = Spenders(all, t)
  BY ViewDomain
<1>4. ASSUME NEW t \in old, Spenders(Txs(b), t) # {} PROVE Spenders(old, t) = {}
  <2>1. Connected(ViewOf(P), b)[t] = Spenders(Txs(b), t)
    BY <1>1, <1>2, <1>4, ViewDomain DEF Connected
  <2>2. Connected(ViewOf(P), b)[t] = Spenders(all, t)
    BY <1>2, <1>3, ConnectIsView
  <2>3. ASSUME NEW s \in Spenders(old, t) PROVE FALSE
    <3>1. s \in old /\ s \in Spenders(all, t)
      BY <1>2 DEF Spenders
    <3>2. s \in Txs(b)
      BY <2>1, <2>2, <3>1 DEF Spenders
    <3> QED
      BY <1>2, <3>1, <3>2
  <2> QED
    BY <2>3
<1>5. ASSUME NEW t \in old
      PROVE  Spenders(old, t) = IF Spenders(Txs(b), t) # {} THEN {} ELSE ViewOf(b)[t]
  <2>1. Spenders(all, t) = Spenders(old, t) \cup Spenders(Txs(b), t)
    BY <1>2 DEF Spenders
  <2> QED
    BY <1>2, <1>3, <1>4, <2>1
<1>6. all \ Txs(b) = old
  BY <1>2
<1> QED
  BY <1>2, <1>5, <1>6 DEF Disconnected, ViewOf

-----------------------------------------------------------------------------
(* The inductive invariant *)

\* SetBestChain is at work: the block is in the index and not yet accounted for.
Pending == {"best", "reorganize", "revive", "extend", "switch"}

\* The index holds the chain of each of its blocks.
IndexClosed == /\ \A b \in diskIndex : Chain[b] \subseteq diskIndex
               /\ \A b \in index : Chain[b] \subseteq index

\* The block at work is not the genesis block; its parent is in the index before it, and once it
\* is there itself it is heavier than the best block.
BlockPlaced ==
    /\ job \in Pending \cup {"accept"} => block # Root /\ Parent[block] \in index
    /\ job \in Pending => block \in index /\ Trust[block] > Trust[best]
    /\ job = "orphans" => queue # <<>>

\* Memory strays only after a stop: until then no postponed block is ever left to connect.
OnceStopped == /\ strayed \/ misled => restarts > 0
               /\ job \in {"revive", "extend"} => tip = block \/ restarts > 0

\* The database: a chain that connects, and its tx index.
CoinsReplay == ~misled => Valid(diskBest) /\ coins = ViewOf(diskBest)

\* How far SetBestChain has come.
BestInStep ==
    /\ job \notin {"revive", "extend", "switch"} => best = diskBest \/ strayed
    /\ job = "reorganize" => /\ goal \in Chain[block] /\ Trust[goal] > Trust[best]
                             /\ ~strayed /\ ~misled => Valid(tip) /\ view = ViewOf(tip)
    /\ job \in {"revive", "extend"} => diskBest = tip /\ tip \in Chain[block]
    /\ job = "switch" => diskBest = block \/ strayed

\* Every block whose chain connects is accounted for, except the one at work.
OthersLighter ==
    restarts = 0 => \A b \in index \ (IF job \in Pending THEN {block} ELSE {}) :
                       Valid(b) => Trust[b] <= Trust[best]

IInv == /\ TypeOK /\ IndexClosed /\ BlockPlaced /\ OnceStopped
        /\ CoinsReplay /\ BestInStep /\ OthersLighter

LEMMA InitIInv == Init => IInv
<1> SUFFICES ASSUME Init PROVE IInv
  OBVIOUS
<1> USE DEF Init
<1>1. TypeOK
  <2>1. Root \in Block
    BY TreeAssumption
  <2>2. Rooms \subseteq Nat /\ 0 \in 0..MaxRestarts
    BY BoundsAssumption
  <2>3. strayed \in BOOLEAN /\ misled \in BOOLEAN
    BY Zenon
  <2> QED
    BY <2>1, <2>2, <2>3 DEF TypeOK
<1>2. IndexClosed
  BY TreeAssumption DEF IndexClosed
<1>3. BlockPlaced /\ OnceStopped /\ BestInStep
  BY DEF BlockPlaced, OnceStopped, BestInStep, Pending
<1>4. CoinsReplay
  BY ValidRoot DEF CoinsReplay
<1>5. OthersLighter
  BY TreeAssumption DEF OthersLighter, Pending
<1> QED
  BY <1>1, <1>2, <1>3, <1>4, <1>5 DEF IInv

\* While the process has not stopped, memory is what the database is.
LEMMA NeverStopped == ASSUME IInv, restarts = 0 PROVE ~strayed /\ ~misled
BY DEF IInv, OnceStopped

\* What AcceptBlock leaves when it returns.
LEMMA ReturnSafe ==
    ASSUME TypeOK, NEW ok \in BOOLEAN, Return(ok), ok => block \in index',
           index \subseteq index'
    PROVE  /\ job' \in {"idle", "orphans"}
           /\ queue' \in Seq(index')
           /\ job' = "orphans" => queue' # <<>>
           /\ orphans' = orphans \ {block}
<1>1. queue \in Seq(index')
  BY DEF TypeOK
<1>2. CASE ok
  BY <1>1, <1>2 DEF Return
<1>3. CASE ~ok
  BY <1>1, <1>3 DEF Return
<1> QED
  BY <1>2, <1>3

\* Receiving a block, or refusing it, keeps the invariant.
LEMMA ReceiveIInv == ASSUME IInv, NEW b \in due, Receive(b) PROVE IInv'
<1> USE DEF IInv, disk, held, reorg, history
<1>1. job = "idle" /\ b \in Block \ {Root} /\ Parent[b] \in Block
  BY TreeAssumption DEF Receive, TypeOK
<1>2. CASE Refuse(b)
  <2>1. TypeOK'
    BY <1>2 DEF Refuse, TypeOK
  <2> QED
    BY <1>2, <2>1 DEF Refuse, IndexClosed, BlockPlaced, OnceStopped, CoinsReplay,
                      BestInStep, OthersLighter, Valid
<1>3. CASE Hold(b)
  <2>1. orphans' \subseteq orphans \cup {b} /\ b \notin index /\ due' \subseteq Block \ {Root}
    BY <1>1, <1>3, ChainFacts DEF Hold, Pruned, Known, Wanted, TypeOK
  <2>2. TypeOK'
    BY <1>1, <1>3, <2>1 DEF Hold, TypeOK
  <2> QED
    BY <1>1, <1>3, <2>1, <2>2 DEF Hold, IndexClosed, BlockPlaced, OnceStopped, CoinsReplay,
                      BestInStep, OthersLighter
<1>4. CASE Take(b)
  <2>1. TypeOK'
    BY <1>1, <1>4 DEF Take, TypeOK
  <2>2. BlockPlaced'
    BY <1>1, <1>4 DEF Take, BlockPlaced, Pending
  <2>3. OthersLighter'
    BY <1>1, <1>4 DEF Take, OthersLighter, Pending
  <2> QED
    BY <1>1, <1>4, <2>1, <2>2, <2>3 DEF Take, IndexClosed, OnceStopped, CoinsReplay,
                                        BestInStep
<1> QED
  BY <1>2, <1>3, <1>4 DEF Receive

\* The loops over the orphans of accepted blocks keep the invariant.
LEMMA OrphansIInv == ASSUME IInv, NextOrphan \/ NextParent \/ TurnDown PROVE IInv'
<1> USE DEF IInv, disk, held, reorg, history
<1>1. CASE NextOrphan
  <2>1. queue # <<>> /\ Head(queue) \in index
    BY <1>1 DEF NextOrphan, BlockPlaced, TypeOK
  <2>2. /\ job = "orphans" /\ job' = "accept" /\ block' \in orphans
        /\ Parent[block'] \in index
    BY <1>1, <2>1 DEF NextOrphan
  <2>3. TypeOK'
    BY <1>1, <2>2 DEF NextOrphan, TypeOK
  <2>4. BlockPlaced'
    BY <1>1, <2>2 DEF NextOrphan, BlockPlaced, Pending, TypeOK
  <2>5. OthersLighter'
    BY <1>1, <2>2 DEF NextOrphan, OthersLighter, Pending
  <2> QED
    BY <1>1, <2>2, <2>3, <2>4, <2>5 DEF NextOrphan, IndexClosed, OnceStopped, CoinsReplay,
                                        BestInStep
<1>2. CASE NextParent
  <2>1. queue # <<>> /\ job = "orphans" /\ job' \in {"idle", "orphans"}
    BY <1>2 DEF NextParent, BlockPlaced
  <2>2. TypeOK'
    BY <1>2, <2>1 DEF NextParent, TypeOK
  <2>3. BlockPlaced'
    BY <1>2, <2>1 DEF NextParent, BlockPlaced, Pending
  <2>4. OthersLighter'
    BY <1>2, <2>1 DEF NextParent, OthersLighter, Pending
  <2> QED
    BY <1>2, <2>1, <2>2, <2>3, <2>4 DEF NextParent, IndexClosed, OnceStopped, CoinsReplay,
                                        BestInStep
<1>3. CASE TurnDown
  <2>1. /\ job = "accept" /\ job' \in {"idle", "orphans"} /\ queue' \in Seq(index)
        /\ job' = "orphans" => queue' # <<>>
        /\ orphans' = orphans \ {block}
    BY <1>3, ReturnSafe DEF TurnDown
  <2>2. TypeOK'
    BY <1>3, <2>1 DEF TurnDown, TypeOK
  <2>3. BlockPlaced' /\ OnceStopped'
    BY <1>3, <2>1 DEF TurnDown, BlockPlaced, OnceStopped, Pending
  <2>4. OthersLighter'
    BY <1>3, <2>1 DEF TurnDown, OthersLighter, Pending
  <2> QED
    BY <1>3, <2>1, <2>2, <2>3, <2>4 DEF TurnDown, IndexClosed, CoinsReplay, BestInStep
<1> QED
  BY <1>1, <1>2, <1>3
\* The block enters the index: the invariant holds, and the block is the one not yet
\* accounted for if it is heavier.
LEMMA AddIInv == ASSUME IInv, AddToBlockIndex PROVE IInv'
<1> USE DEF IInv, disk, held, reorg, history
<1>1. /\ job = "accept" /\ block \in Block \ {Root}
      /\ Parent[block] \in index /\ best \in Block /\ (best = diskBest \/ strayed)
  BY DEF AddToBlockIndex, BlockPlaced, BestInStep, TypeOK
<1>2. /\ Chain[block] = Chain[Parent[block]] \cup {block}
      /\ Trust[block] \in Nat /\ Trust[best] \in Nat
  BY <1>1, ChainFacts, TreeAssumption
<1>3. /\ index' = index \cup {block} /\ diskIndex' = diskIndex \cup {block}
      /\ UNCHANGED <<diskBest, coins, best, pool, block, goal, tip, view, revive, due, strayed,
                     misled, room, restarts>>
  BY DEF AddToBlockIndex
<1>4. IndexClosed'
  BY <1>1, <1>2, <1>3 DEF IndexClosed, TypeOK
<1>5. \/ /\ Trust[block] > Trust[best] /\ job' = "best" /\ UNCHANGED <<orphans, queue>>
      \/ /\ Trust[block] <= Trust[best] /\ job' \in {"idle", "orphans"}
         /\ orphans' = orphans \ {block}
         /\ queue' \in Seq(index')
         /\ job' = "orphans" => queue' # <<>>
  <2>1. CASE Heavier(block, best)
    BY <2>1 DEF AddToBlockIndex, Heavier
  <2>2. CASE ~Heavier(block, best)
    <3>1. Return(TRUE)
      BY <2>2 DEF AddToBlockIndex
    <3>2. Trust[block] <= Trust[best]
      BY <1>2, <2>2 DEF Heavier
    <3> QED
      BY <1>3, <3>1, <3>2, ReturnSafe
  <2> QED
    BY <2>1, <2>2
<1>6. queue' \in Seq(index')
  <2>1. queue \in Seq(index')
    BY <1>3 DEF TypeOK
  <2> QED
    BY <1>5, <2>1
<1>7. TypeOK'
  BY <1>1, <1>3, <1>5, <1>6 DEF TypeOK
<1>8. BlockPlaced'
  BY <1>1, <1>3, <1>5 DEF BlockPlaced, Pending
<1>9. OnceStopped' /\ CoinsReplay' /\ BestInStep'
  BY <1>1, <1>3, <1>5 DEF OnceStopped, CoinsReplay, BestInStep
<1>10. OthersLighter'
  <2>1. CASE job' = "best"
    BY <1>1, <1>3, <2>1 DEF OthersLighter, Pending
  <2>2. CASE job' # "best"
    BY <1>1, <1>3, <1>5, <2>2 DEF OthersLighter, Pending
  <2> QED
    BY <2>1, <2>2
<1> QED
  BY <1>4, <1>7, <1>8, <1>9, <1>10

\* AcceptBlock returns from SetBestChain with a failure.
LEMMA FailedIInv ==
    ASSUME IInv, job \in {"best", "reorganize"}, restarts = 0 => ~Valid(block), Return(FALSE),
           UNCHANGED <<disk, index, best, pool, block, reorg, due, history, room, restarts>>
    PROVE  IInv'
<1> USE DEF IInv, disk, held, reorg, history
<1>1. /\ job' \in {"idle", "orphans"} /\ queue' \in Seq(index)
      /\ job' = "orphans" => queue' # <<>>
      /\ orphans' = orphans \ {block}
  BY ReturnSafe
<1>2. TypeOK'
  BY <1>1 DEF TypeOK
<1>3. BlockPlaced' /\ OnceStopped'
  BY <1>1 DEF BlockPlaced, OnceStopped, Pending
<1>4. OthersLighter'
  BY <1>1 DEF OthersLighter, Pending
<1> QED
  BY <1>1, <1>2, <1>3, <1>4 DEF IndexClosed, CoinsReplay, BestInStep

\* SetBestChain with a block that follows the best one.
LEMMA ExtendIInv == ASSUME IInv, Extend \/ ExtendFails PROVE IInv'
<1> USE DEF IInv, disk, held, reorg, history
<1>1. /\ job = "best" /\ block \in Block \ {Root} /\ Parent[block] = best
      /\ block \in index
      /\ ~strayed /\ ~misled => best = diskBest /\ coins = ViewOf(best) /\ Valid(best)
  BY DEF Extend, ExtendFails, BlockPlaced, BestInStep, CoinsReplay, Pending, TypeOK
<1>2. ~strayed /\ ~misled => (Valid(block) <=> Connectable(coins, block))
  BY <1>1, ValidNext
<1>3. CASE Extend
  <2>1. /\ diskBest' = block /\ misled' = (misled \/ strayed) /\ strayed' = strayed
        /\ pool' \subseteq pool
    BY <1>3 DEF Extend, Commit, Mislead, PoolAfter
  <2>6. ~misled' => Valid(block) /\ coins' = ViewOf(block)
    BY <1>1, <1>2, <1>3, <2>1, ConnectIsView DEF Extend, Commit
  <2>7. misled' \in BOOLEAN
    BY <2>1, Zenon
  <2>2. TypeOK'
    BY <1>1, <1>3, <2>1, <2>7 DEF Extend, TypeOK
  <2>3. BlockPlaced' /\ OnceStopped'
    BY <1>3, <2>1 DEF Extend, BlockPlaced, OnceStopped, Pending
  <2>4. OthersLighter'
    BY <1>3 DEF Extend, OthersLighter, Pending
  <2>5. CoinsReplay' /\ BestInStep'
    BY <1>3, <2>1, <2>6 DEF Extend, CoinsReplay, BestInStep
  <2> QED
    BY <1>3, <2>2, <2>3, <2>4, <2>5 DEF Extend, IndexClosed
<1>4. CASE ExtendFails
  <2>1. restarts = 0 => ~Valid(block)
    BY <1>2, <1>4, NeverStopped DEF ExtendFails
  <2> QED
    BY <1>1, <1>4, <2>1, FailedIInv DEF ExtendFails
<1> QED
  BY <1>3, <1>4

\* Reorganize, up to its commit.
LEMMA ReorganizeIInv ==
    ASSUME IInv, StartReorganize \/ DisconnectTip \/ ConnectNext \/ GiveUp PROVE IInv'
<1> USE DEF IInv, disk, held, reorg, history
<1>1. block \in Block \ {Root} /\ block \in index /\ Chain[block] \subseteq Block
  BY ChainFacts DEF StartReorganize, DisconnectTip, ConnectNext, GiveUp, BlockPlaced, Pending,
                    TypeOK
<1>2. CASE StartReorganize
  <2>1. /\ job = "best" /\ job' = "reorganize" /\ goal' \in Chain[block]
        /\ Trust[goal'] > Trust[best] /\ tip' = best /\ view' = coins /\ revive' = <<>>
    BY <1>2 DEF StartReorganize
  <2>2. ~strayed /\ ~misled => Valid(tip') /\ view' = ViewOf(tip')
    BY <2>1 DEF CoinsReplay, BestInStep
  <2>3. TypeOK'
    BY <1>1, <1>2, <2>1 DEF StartReorganize, TypeOK
  <2>4. BlockPlaced' /\ OnceStopped' /\ OthersLighter'
    BY <1>2, <2>1 DEF StartReorganize, BlockPlaced, OnceStopped, OthersLighter, Pending
  <2> QED
    BY <1>2, <2>1, <2>2, <2>3, <2>4 DEF StartReorganize, IndexClosed, CoinsReplay, BestInStep
<1>3. ASSUME job = "reorganize"
      PROVE  /\ goal \in Chain[block] /\ goal \in Block /\ tip \in Block
             /\ Chain[goal] \subseteq Chain[block]
             /\ ~strayed /\ ~misled =>
                  /\ Valid(tip) /\ view = ViewOf(tip)
                  /\ \A b \in Chain[goal] \ {Root} : Parent[b] = tip =>
                        (Valid(b) <=> Connectable(view, b))
  <2>1. /\ goal \in Chain[block] /\ goal \in Block /\ tip \in Block
        /\ ~strayed /\ ~misled => Valid(tip) /\ view = ViewOf(tip)
    BY <1>3 DEF BestInStep, TypeOK
  <2>2. Chain[goal] \subseteq Chain[block]
    BY <1>1, <2>1, TreeAssumption
  <2>3. ASSUME ~strayed, ~misled, NEW b \in Chain[goal] \ {Root}, Parent[b] = tip
        PROVE  Valid(b) <=> Connectable(view, b)
    BY <1>1, <2>1, <2>2, <2>3, ValidNext
  <2> QED
    BY <2>1, <2>2, <2>3
<1>4. CASE DisconnectTip
  <2>1. tip # Root
    BY <1>3, <1>4, ChainFacts DEF DisconnectTip
  <2>2. /\ Parent[tip] \in Block
        /\ ~strayed /\ ~misled => Valid(Parent[tip])
    BY <1>3, <1>4, <2>1, ChainFacts, ValidNext DEF DisconnectTip
  <2>3. ~strayed /\ ~misled => view' = ViewOf(Parent[tip])
    BY <1>3, <1>4, <2>1, DisconnectIsView DEF DisconnectTip
  <2>4. revive' \in Seq(Tx)
    BY <1>3, <1>4, TxAssumption DEF DisconnectTip, Revived, TypeOK
  <2>5. TypeOK'
    BY <1>4, <2>2, <2>4 DEF DisconnectTip, TypeOK
  <2>6. BlockPlaced' /\ OnceStopped' /\ OthersLighter'
    BY <1>4 DEF DisconnectTip, BlockPlaced, OnceStopped, OthersLighter, Pending
  <2> QED
    BY <1>4, <2>2, <2>3, <2>5, <2>6 DEF DisconnectTip, IndexClosed, CoinsReplay, BestInStep
<1>5. CASE ConnectNext
  <2>1. PICK b \in Chain[goal] \ {Root} : /\ Parent[b] = tip /\ Connectable(view, b)
                                          /\ view' = Connected(view, b) /\ tip' = b
    BY <1>5 DEF ConnectNext
  <2>2. b \in Block /\ (~strayed /\ ~misled => Valid(b))
    BY <1>1, <1>3, <1>5, <2>1 DEF ConnectNext
  <2>3. ~strayed /\ ~misled => view' = ViewOf(b)
    BY <1>3, <1>5, <2>1, <2>2, ConnectIsView DEF ConnectNext
  <2>4. TypeOK'
    BY <1>5, <2>1, <2>2 DEF ConnectNext, TypeOK
  <2>5. BlockPlaced' /\ OnceStopped' /\ OthersLighter'
    BY <1>5 DEF ConnectNext, BlockPlaced, OnceStopped, OthersLighter, Pending
  <2> QED
    BY <1>5, <2>1, <2>2, <2>3, <2>4, <2>5 DEF ConnectNext, IndexClosed, CoinsReplay, BestInStep
<1>6. CASE GiveUp
  <2>1. PICK b \in Chain[goal] \ {Root} : Parent[b] = tip /\ ~Connectable(view, b)
    BY <1>6 DEF GiveUp
  <2>2. (restarts = 0 => ~Valid(b)) /\ b \in Chain[block]
    BY <1>3, <1>6, <2>1, NeverStopped DEF GiveUp
  <2>3. restarts = 0 => ~Valid(block)
    BY <1>1, <2>2, ValidAncestor
  <2> QED
    BY <1>6, <2>3, FailedIInv DEF GiveUp
<1> QED
  BY <1>2, <1>4, <1>5, <1>6
\* The commit of a reorganisation, and what follows it in the pool.
LEMMA CommitIInv ==
    ASSUME IInv, CommitReorganize \/ Revive \/ ClearPool PROVE IInv'
<1> USE DEF IInv, disk, held, reorg, history
<1>1. CASE CommitReorganize
  <2>1. /\ job = "reorganize" /\ job' = "revive" /\ tip = goal /\ goal \in Chain[block]
        /\ Trust[goal] > Trust[best] /\ block \in index
        /\ ~strayed /\ ~misled => Valid(goal) /\ view = ViewOf(goal)
        /\ misled' = (misled \/ strayed) /\ strayed' = strayed
    BY <1>1 DEF CommitReorganize, Mislead, BestInStep, BlockPlaced, Pending
  <2>2. goal = block \/ restarts > 0
    <3>1. SUFFICES ASSUME restarts = 0 PROVE goal = block
      BY BoundsAssumption DEF TypeOK
    <3>2. goal \in index /\ Valid(goal)
      BY <2>1, <3>1, NeverStopped DEF IndexClosed
    <3>3. best \in Block /\ goal \in Block /\ Trust[best] \in Nat /\ Trust[goal] \in Nat
      BY TreeAssumption DEF TypeOK
    <3> QED
      BY <2>1, <3>1, <3>2, <3>3 DEF OthersLighter, Pending
  <2>3. goal \in diskIndex /\ misled' \in BOOLEAN
    <3>1. goal \in diskIndex
      BY <2>1 DEF IndexClosed, TypeOK
    <3>2. misled' \in BOOLEAN
      BY <2>1, Zenon
    <3> QED
      BY <3>1, <3>2
  <2>4. TypeOK'
    BY <1>1, <2>1, <2>3 DEF CommitReorganize, TypeOK
  <2>5. BlockPlaced' /\ OthersLighter'
    BY <1>1 DEF CommitReorganize, BlockPlaced, OthersLighter, Pending
  <2>6. CoinsReplay' /\ BestInStep' /\ OnceStopped'
    BY <1>1, <2>1, <2>2 DEF CommitReorganize, CoinsReplay, BestInStep, OnceStopped
  <2> QED
    BY <1>1, <2>4, <2>5, <2>6 DEF CommitReorganize, IndexClosed
<1>2. CASE Revive
  <2>1. Head(revive) \in Tx /\ revive' \in Seq(Tx)
    BY <1>2 DEF Revive, TypeOK
  <2>2. pool' \subseteq Tx \ Minted
    BY <1>2, <2>1 DEF Revive, TypeOK, Poolable
  <2>3. TypeOK'
    BY <1>2, <2>1, <2>2 DEF Revive, TypeOK
  <2>4. BlockPlaced' /\ OnceStopped' /\ OthersLighter'
    BY <1>2 DEF Revive, BlockPlaced, OnceStopped, OthersLighter, Pending
  <2> QED
    BY <1>2, <2>3, <2>4 DEF Revive, IndexClosed, CoinsReplay, BestInStep
<1>3. CASE ClearPool
  <2>1. pool' \subseteq pool
    BY <1>3 DEF ClearPool
  <2>2. TypeOK'
    BY <1>3, <2>1 DEF ClearPool, TypeOK
  <2>3. BlockPlaced' /\ OnceStopped' /\ OthersLighter'
    BY <1>3 DEF ClearPool, BlockPlaced, OnceStopped, OthersLighter, Pending
  <2> QED
    BY <1>3, <2>2, <2>3 DEF ClearPool, IndexClosed, CoinsReplay, BestInStep
<1> QED
  BY <1>1, <1>2, <1>3

\* A postponed block that is connected while memory is sure of the database.
LEMMA PostponedConnects ==
    ASSUME IInv, job = "extend", tip # block, ~misled,
           NEW b \in Chain[block] \ {Root}, Parent[b] = tip, Connectable(coins, b)
    PROVE  /\ b \in Block /\ Valid(b)
           /\ Connected(coins, b) = ViewOf(b)
           /\ diskBest = tip /\ Trust[b] > Trust[diskBest]
<1>1. /\ diskBest = tip /\ Valid(tip) /\ coins = ViewOf(tip) /\ block \in Block
  BY DEF IInv, BestInStep, CoinsReplay, TypeOK
<1>2. b \in Block
  BY <1>1, ChainFacts
<1> QED
  BY <1>1, <1>2, ValidNext, ConnectIsView, TreeAssumption

\* The rest of SetBestChain.
LEMMA SwitchIInv == ASSUME IInv, ExtendPostponed \/ SwitchBest PROVE IInv'
<1> USE DEF IInv, disk, held, reorg, history
<1>1. ASSUME ExtendPostponed,
             NEW b \in Chain[block] \ {Root}, Parent[b] = tip, Connectable(coins, b),
             Commit(b), pool' = PoolAfter(b), tip' = b, Mislead, UNCHANGED job
      PROVE  IInv'
  <2>1. /\ job = "extend" /\ tip # block /\ b \in Block /\ b \in diskIndex
        /\ diskBest' = b /\ pool' \subseteq pool /\ job' = "extend"
        /\ misled' = (misled \/ strayed) /\ strayed' = strayed
    BY <1>1, ChainFacts DEF ExtendPostponed, Commit, Mislead, PoolAfter, IndexClosed,
                            BlockPlaced, Pending, TypeOK
  <2>2. ~misled' => Valid(b) /\ coins' = ViewOf(b)
    BY <1>1, <2>1, PostponedConnects DEF Commit
  <2>3. misled' \in BOOLEAN
    BY <2>1, Zenon
  <2>4. TypeOK'
    BY <1>1, <2>1, <2>3 DEF ExtendPostponed, TypeOK
  <2>5. BlockPlaced' /\ OnceStopped' /\ OthersLighter'
    BY <1>1, <2>1 DEF ExtendPostponed, BlockPlaced, OnceStopped, OthersLighter, Pending
  <2>6. CoinsReplay' /\ BestInStep'
    BY <1>1, <2>1, <2>2 DEF ExtendPostponed, CoinsReplay, BestInStep
  <2> QED
    BY <1>1, <2>4, <2>5, <2>6 DEF ExtendPostponed, IndexClosed
<1>3. ASSUME ExtendPostponed, job' = "switch", strayed' = TRUE,
             UNCHANGED <<diskBest, coins, pool, tip, misled>>
      PROVE  IInv'
  <2>1. job = "extend" /\ restarts > 0
    BY <1>3 DEF ExtendPostponed, OnceStopped
  <2>2. TypeOK'
    BY <1>3 DEF ExtendPostponed, TypeOK
  <2>3. BlockPlaced' /\ OnceStopped' /\ OthersLighter'
    BY <1>3, <2>1 DEF ExtendPostponed, BlockPlaced, OnceStopped, OthersLighter, Pending
  <2>4. CoinsReplay' /\ BestInStep'
    BY <1>3, <2>1 DEF ExtendPostponed, CoinsReplay, BestInStep
  <2> QED
    BY <1>3, <2>2, <2>3, <2>4 DEF ExtendPostponed, IndexClosed
<1>4. CASE ExtendPostponed
  BY <1>1, <1>3, <1>4 DEF ExtendPostponed
<1>2. CASE SwitchBest
  <2>1. /\ job \in {"switch", "extend"} /\ (diskBest = block \/ strayed) /\ best' = block
        /\ block \in index /\ block \in Block /\ best \in Block
        /\ Trust[block] > Trust[best] /\ Return(TRUE)
    BY <1>2 DEF SwitchBest, BestInStep, BlockPlaced, Pending, TypeOK
  <2>2. /\ job' \in {"idle", "orphans"} /\ queue' \in Seq(index)
        /\ job' = "orphans" => queue' # <<>>
        /\ orphans' = orphans \ {block}
    BY <1>2, <2>1, ReturnSafe DEF SwitchBest
  <2>3. TypeOK'
    BY <1>2, <2>1, <2>2 DEF SwitchBest, TypeOK
  <2>4. BlockPlaced' /\ OnceStopped'
    BY <1>2, <2>2 DEF SwitchBest, BlockPlaced, OnceStopped, Pending
  <2>5. OthersLighter'
    <3> SUFFICES ASSUME restarts = 0, NEW b \in index, Valid(b)
                 PROVE  Trust[b] <= Trust[block]
      BY <1>2, <2>1, <2>2 DEF SwitchBest, OthersLighter, Pending
    <3>1. b \in Block /\ Trust[b] \in Nat /\ Trust[block] \in Nat /\ Trust[best] \in Nat
      BY <2>1, TreeAssumption DEF TypeOK
    <3>2. CASE b = block
      BY <3>1, <3>2
    <3>3. CASE b # block
      BY <2>1, <3>1, <3>3 DEF OthersLighter, Pending
    <3> QED
      BY <3>2, <3>3
  <2>6. CoinsReplay' /\ BestInStep'
    BY <1>2, <2>1, <2>2 DEF SwitchBest, CoinsReplay, BestInStep
  <2> QED
    BY <1>2, <2>3, <2>4, <2>5, <2>6 DEF SwitchBest, IndexClosed
<1> QED
  BY <1>2, <1>4

\* A transaction enters the pool.
LEMMA ReceiveTxIInv == ASSUME IInv, NEW t \in Tx, ReceiveTx(t) PROVE IInv'
<1> USE DEF IInv, disk, held, reorg, history
<1>1. TypeOK'
  BY DEF ReceiveTx, TypeOK, Poolable
<1> QED
  BY <1>1 DEF ReceiveTx, IndexClosed, BlockPlaced, OnceStopped, CoinsReplay, BestInStep,
              OthersLighter, Pending

\* The process stops anywhere and starts again from the database.
LEMMA RestartIInv == ASSUME IInv, Restart PROVE IInv'
<1> USE DEF IInv, disk, held, reorg, history
<1> DEFINE above == {b \in diskIndex : Height[b] > Height[diskBest]}
<1>1. /\ index' = diskIndex \ above /\ orphans' = above /\ best' = diskBest
      /\ job' = "idle" /\ block' = Root /\ queue' = <<>> /\ pool' = {} /\ revive' = <<>>
      /\ goal' = Root /\ tip' = Root /\ due' = Block \ {Root}
      /\ restarts' = restarts + 1 /\ restarts < MaxRestarts /\ strayed' = FALSE
      /\ UNCHANGED <<diskIndex, diskBest, coins, misled, room>>
  BY DEF Restart, LoadBlockIndex
<1>2. restarts \in Nat /\ restarts' \in 0..MaxRestarts /\ restarts' > 0
  BY <1>1, BoundsAssumption DEF TypeOK
<1>3. diskBest \in Block /\ Height[diskBest] \in Nat /\ diskBest \notin above
  BY TreeAssumption DEF TypeOK
<1>4. Root \notin above
  <2>1. Root \in Chain[diskBest]
    BY <1>3, ChainFacts
  <2>2. Height[Root] <= Height[diskBest] /\ Height[Root] \in Nat
    BY <1>3, <2>1, TreeAssumption
  <2> QED
    BY <1>3, <2>2
<1>5. TypeOK'
  <2>1. strayed' \in BOOLEAN
    BY <1>1, Zenon
  <2> QED
    BY <1>1, <1>2, <1>3, <1>4, <2>1, TreeAssumption DEF TypeOK
<1>6. IndexClosed'
  <2> SUFFICES ASSUME NEW b \in index', NEW a \in Chain[b] PROVE a \in index'
    BY <1>1 DEF IndexClosed
  <2>1. b \in diskIndex /\ b \in Block /\ a \in diskIndex /\ a \in Block
    BY <1>1 DEF IndexClosed, TypeOK
  <2>2. Height[a] <= Height[b] /\ Height[a] \in Nat /\ Height[b] \in Nat
    BY <2>1, TreeAssumption
  <2>3. ~(Height[b] > Height[diskBest])
    BY <1>1, <2>1
  <2> QED
    BY <1>1, <1>3, <2>1, <2>2, <2>3
<1>7. BlockPlaced' /\ CoinsReplay' /\ BestInStep'
  BY <1>1 DEF BlockPlaced, CoinsReplay, BestInStep, Pending
<1>8. OnceStopped' /\ OthersLighter'
  BY <1>1, <1>2, <1>4 DEF OnceStopped, OthersLighter
<1> QED
  BY <1>5, <1>6, <1>7, <1>8

LEMMA StutterIInv == ASSUME IInv, UNCHANGED vars PROVE IInv'
BY DEF IInv, vars, disk, held, reorg, history, TypeOK, IndexClosed, BlockPlaced, OnceStopped,
       CoinsReplay, BestInStep, OthersLighter

LEMMA NextIInv == IInv /\ [Next]_vars => IInv'
<1> SUFFICES ASSUME IInv, [Next]_vars PROVE IInv'
  OBVIOUS
<1>1. CASE Work
  BY <1>1, OrphansIInv, AddIInv, ExtendIInv, ReorganizeIInv, CommitIInv, SwitchIInv DEF Work
<1>2. ASSUME NEW b \in due, Receive(b) PROVE IInv'
  BY <1>2, ReceiveIInv
<1>3. ASSUME NEW t \in Tx, ReceiveTx(t) PROVE IInv'
  BY <1>3, ReceiveTxIInv
<1>4. CASE Restart
  BY <1>4, RestartIInv
<1>5. CASE UNCHANGED vars
  BY <1>5, StutterIInv
<1> QED
  BY <1>1, <1>2, <1>3, <1>4, <1>5 DEF Next

LEMMA SpecIInv == Spec => []IInv
BY InitIInv, NextIInv, PTL DEF Spec
-----------------------------------------------------------------------------
(* The memory pool *)

\* The transactions that a reorganisation brings to the chain.
Arriving == TxsOf(Chain[goal] \ Chain[best])

\* No double spend in the pool; and how it relates to the chain, which a reorganisation
\* in progress has already replaced in the database.
PoolInv ==
    /\ \A p, q \in pool : p # q => Spends[p] \cap Spends[q] = {}
    /\ job # "revive" => pool \cap DOMAIN coins = {}
    /\ job = "reorganize" => /\ Chain[best] \cap Chain[goal] \subseteq Chain[tip]
                             /\ DOMAIN view \subseteq DOMAIN coins \cup Arriving
    /\ job = "revive" => tip = goal /\ pool \cap DOMAIN coins \subseteq Arriving

\* Adding a transaction that AcceptToMemoryPool takes makes no double spend.
LEMMA PoolAdds ==
    ASSUME PoolInv, NEW t, Poolable(t)
    PROVE  \A p, q \in pool \cup {t} : p # q => Spends[p] \cap Spends[q] = {}
BY DEF PoolInv, Poolable

LEMMA NextPoolInv == ASSUME IInv, PoolInv, Next PROVE PoolInv'
<1> USE DEF disk, held, reorg, history
<1>1. ASSUME UNCHANGED <<coins, pool>>, job # "revive", job' \notin {"reorganize", "revive"}
      PROVE  PoolInv'
  BY <1>1 DEF PoolInv
<1>2. CASE NextOrphan \/ NextParent \/ TurnDown
  BY <1>1, <1>2 DEF NextOrphan, NextParent, TurnDown, Return
<1>3. CASE AddToBlockIndex
  BY <1>1, <1>3 DEF AddToBlockIndex, Return
<1>4. CASE Extend
  <2>1. /\ job' = "switch"
        /\ pool' = pool \ Txs(block) /\ coins' = Connected(coins, block)
    BY <1>4 DEF Extend, Commit, PoolAfter
  <2>2. DOMAIN coins' = DOMAIN coins \cup Txs(block)
    BY <2>1 DEF Connected
  <2> QED
    BY <1>4, <2>1, <2>2 DEF PoolInv, Extend
<1>5. CASE ExtendFails \/ GiveUp
  BY <1>1, <1>5 DEF ExtendFails, GiveUp, Return
<1>14. CASE StartReorganize
  <2>1. job = "best" /\ job' = "reorganize" /\ tip' = best /\ view' = coins
        /\ UNCHANGED <<coins, pool, best>>
    BY <1>14 DEF StartReorganize
  <2> QED
    BY <2>1 DEF PoolInv
<1>15. ASSUME job = "reorganize"
       PROVE  goal \in Block /\ tip \in Block /\ best \in Block
  BY DEF IInv, TypeOK
<1>16. CASE DisconnectTip
  <2>1. /\ job = "reorganize" /\ job' = "reorganize" /\ tip \notin Chain[goal]
        /\ view' = Disconnected(view, tip) /\ tip' = Parent[tip]
        /\ UNCHANGED <<coins, pool, best, goal>>
    BY <1>16 DEF DisconnectTip
  <2>2. Chain[tip] = Chain[Parent[tip]] \cup {tip}
    BY <1>15, <2>1, ChainFacts
  <2>3. DOMAIN view' \subseteq DOMAIN view
    BY <2>1 DEF Disconnected
  <2> QED
    BY <2>1, <2>2, <2>3 DEF PoolInv, Arriving
<1>17. CASE ConnectNext
  <2>1. PICK b \in Chain[goal] \ {Root} : Parent[b] = tip /\ view' = Connected(view, b) /\ tip' = b
    BY <1>17 DEF ConnectNext
  <2>2. job = "reorganize" /\ job' = "reorganize" /\ UNCHANGED <<coins, pool, best, goal>>
    BY <1>17 DEF ConnectNext
  <2>3. b \in Block /\ b \notin Chain[tip] /\ Chain[b] = Chain[tip] \cup {b}
    BY <1>15, <2>1, <2>2, ChainFacts
  <2>4. b \in Chain[goal] \ Chain[best]
    BY <2>1, <2>2, <2>3 DEF PoolInv
  <2>5. Txs(b) \subseteq Arriving
    BY <2>4 DEF Arriving, TxsOf
  <2>6. DOMAIN view' = DOMAIN view \cup Txs(b)
    BY <2>1 DEF Connected
  <2> QED
    BY <2>1, <2>2, <2>3, <2>5, <2>6 DEF PoolInv, Arriving
<1>6. CASE CommitReorganize
  <2>1. /\ job = "reorganize" /\ tip = goal /\ coins' = view
        /\ job' = "revive" /\ UNCHANGED <<tip, goal, pool, best>>
    BY <1>6 DEF CommitReorganize
  <2> QED
    BY <2>1 DEF PoolInv, Arriving
<1>7. CASE Revive
  <2>1. /\ job = "revive" /\ job' = "revive" /\ UNCHANGED <<tip, goal, best, coins>>
    BY <1>7 DEF Revive
  <2>3. CASE Poolable(Head(revive)) /\ pool' = pool \cup {Head(revive)}
    <3>1. Head(revive) \notin DOMAIN coins
      BY <2>3 DEF Poolable
    <3> QED
      BY <2>1, <2>3, <3>1, PoolAdds DEF PoolInv, Arriving
  <2>4. CASE UNCHANGED pool
    BY <2>1, <2>4 DEF PoolInv, Arriving
  <2> QED
    BY <1>7, <2>3, <2>4 DEF Revive
<1>8. CASE ClearPool
  <2>1. /\ job = "revive" /\ job' = "extend" /\ coins' = coins /\ pool' \subseteq pool \ Arriving
    BY <1>8 DEF ClearPool, Arriving
  <2> QED
    BY <2>1 DEF PoolInv
<1>9. CASE ExtendPostponed
  <2>1. PICK b \in Chain[block] \ {Root} :
           \/ Commit(b) /\ pool' = PoolAfter(b) /\ UNCHANGED job
           \/ job' = "switch" /\ UNCHANGED <<coins, pool>>
    BY <1>9 DEF ExtendPostponed
  <2>2. job = "extend"
    BY <1>9 DEF ExtendPostponed
  <2>3. CASE Commit(b) /\ pool' = PoolAfter(b) /\ UNCHANGED job
    <3>1. coins' = Connected(coins, b) /\ pool' = pool \ Txs(b)
      BY <2>3 DEF Commit, PoolAfter
    <3>2. DOMAIN coins' = DOMAIN coins \cup Txs(b)
      BY <3>1 DEF Connected
    <3> QED
      BY <2>2, <2>3, <3>1, <3>2 DEF PoolInv
  <2> QED
    BY <1>1, <2>1, <2>2, <2>3
<1>10. CASE SwitchBest
  BY <1>1, <1>10 DEF SwitchBest, Return
<1>11. ASSUME NEW b \in due, Receive(b) PROVE PoolInv'
  BY <1>1, <1>11 DEF Receive, Refuse, Hold, Take
<1>12. ASSUME NEW t \in Tx, ReceiveTx(t) PROVE PoolInv'
  <2>1. t \notin DOMAIN coins
    BY <1>12 DEF ReceiveTx, Poolable
  <2> QED
    BY <1>12, <2>1, PoolAdds DEF ReceiveTx, PoolInv
<1>13. CASE Restart
  BY <1>13 DEF Restart, PoolInv
<1> QED
  BY <1>2, <1>3, <1>4, <1>5, <1>6, <1>7, <1>8, <1>9, <1>10, <1>11, <1>12, <1>13, <1>14, <1>16,
     <1>17 DEF Next, Work

LEMMA SpecPoolInv == Spec => []PoolInv
<1>1. Init => PoolInv
  BY DEF Init, PoolInv
<1>2. IInv /\ PoolInv /\ [Next]_vars => PoolInv'
  <2>1. CASE UNCHANGED vars
    BY <2>1 DEF vars, disk, held, reorg, history, PoolInv, Arriving
  <2> QED
    BY <2>1, NextPoolInv
<1> QED
  BY <1>1, <1>2, SpecIInv, PTL DEF Spec

-----------------------------------------------------------------------------
(* The orphan pool *)

FewOrphans == restarts = 0 => IsFiniteSet(orphans) /\ Cardinality(orphans) <= room + 1

\* PruneOrphanBlocks leaves at most as many orphans as there is room for.
LEMMA PruneBounds ==
    ASSUME IsFiniteSet(orphans), room \in Nat, NEW kept \in SUBSET orphans, Pruned(kept)
    PROVE  IsFiniteSet(kept) /\ Cardinality(kept) <= room
<1>1. IsFiniteSet(kept)
  BY FS_Subset
<1>2. Cardinality(orphans) \in Nat
  BY FS_CardinalityType
<1> QED
  BY <1>1, <1>2 DEF Pruned

LEMMA NextFewOrphans ==
    ASSUME IInv, IInv', FewOrphans, [Next]_vars PROVE FewOrphans'
<1> USE DEF disk, held, reorg, history
<1>1. restarts' = 0 => restarts = 0
  <2>1. restarts \in Nat
    BY BoundsAssumption DEF IInv, TypeOK
  <2>2. restarts' = restarts \/ restarts' = restarts + 1
    BY DEF Next, vars, Work, NextOrphan, NextParent, TurnDown, AddToBlockIndex, Extend,
           ExtendFails, StartReorganize, DisconnectTip, ConnectNext, GiveUp, CommitReorganize,
           Revive, ClearPool, ExtendPostponed, SwitchBest, Receive, Refuse, Hold, Take,
           ReceiveTx, Restart
  <2> QED
    BY <2>1, <2>2
<1>2. SUFFICES ASSUME restarts = 0, restarts' = 0
               PROVE  IsFiniteSet(orphans') /\ Cardinality(orphans') <= room' + 1
  BY <1>1 DEF FewOrphans
<1>3. /\ IsFiniteSet(orphans) /\ Cardinality(orphans) <= room + 1 /\ room \in Nat
      /\ Cardinality(orphans) \in Nat
  BY <1>2, BoundsAssumption, FS_CardinalityType DEF FewOrphans, IInv, TypeOK
<1>4. ASSUME orphans' \subseteq orphans, room' = room
      PROVE  IsFiniteSet(orphans') /\ Cardinality(orphans') <= room' + 1
  <2>1. /\ IsFiniteSet(orphans') /\ Cardinality(orphans') <= Cardinality(orphans)
        /\ Cardinality(orphans') \in Nat
    BY <1>3, <1>4, FS_Subset, FS_CardinalityType
  <2> QED
    BY <1>3, <1>4, <2>1
<1>5. CASE Work \/ UNCHANGED vars
  BY <1>4, <1>5 DEF vars, Work, NextOrphan, NextParent, TurnDown, AddToBlockIndex, Extend,
           ExtendFails, StartReorganize, DisconnectTip, ConnectNext, GiveUp, CommitReorganize,
           Revive, ClearPool, ExtendPostponed, SwitchBest, Return
<1>6. ASSUME NEW b \in due, Receive(b)
      PROVE  IsFiniteSet(orphans') /\ Cardinality(orphans') <= room' + 1
  <2>1. CASE Refuse(b) \/ Take(b)
    BY <1>4, <2>1 DEF Refuse, Take
  <2>2. CASE Hold(b)
    <3>1. PICK kept \in SUBSET orphans : Pruned(kept) /\ orphans' = kept \cup {b}
      BY <2>2 DEF Hold
    <3>2. IsFiniteSet(kept) /\ Cardinality(kept) <= room /\ Cardinality(kept) \in Nat
      BY <1>3, <3>1, PruneBounds, FS_CardinalityType
    <3>3. IsFiniteSet(orphans') /\ Cardinality(orphans') <= Cardinality(kept) + 1
      BY <3>1, <3>2, FS_AddElement
    <3>4. room' = room /\ Cardinality(orphans') \in Nat
      BY <2>2, <3>3, FS_CardinalityType DEF Hold
    <3> QED
      BY <1>3, <3>2, <3>3, <3>4
  <2> QED
    BY <1>6, <2>1, <2>2 DEF Receive
<1>7. ASSUME NEW t \in Tx, ReceiveTx(t)
      PROVE  IsFiniteSet(orphans') /\ Cardinality(orphans') <= room' + 1
  BY <1>4, <1>7 DEF ReceiveTx
<1>8. CASE Restart
  BY <1>2, <1>8 DEF Restart
<1> QED
  BY <1>5, <1>6, <1>7, <1>8 DEF Next

LEMMA SpecFewOrphans == Spec => []FewOrphans
<1>1. Init => FewOrphans
  <2> SUFFICES ASSUME Init PROVE FewOrphans
    OBVIOUS
  <2>1. room \in Nat /\ orphans = {}
    BY BoundsAssumption DEF Init
  <2> QED
    BY <2>1, FS_EmptySet DEF FewOrphans
<1> QED
  BY <1>1, NextFewOrphans, SpecIInv, PTL DEF Spec

-----------------------------------------------------------------------------
(* Orphans left behind *)

Queued == {queue[i] : i \in DOMAIN queue}

\* An orphan that could be connected at once is about to be: its parent is in the work
\* queue, or is the block at hand.
OrphansServed ==
    /\ job = "idle" => queue = <<>>
    /\ restarts = 0 => \A o \in orphans : Valid(o) /\ Parent[o] \in index =>
                          Parent[o] \in Queued \/ (job \in Pending /\ Parent[o] = block)

\* While the process has not stopped, AcceptBlock fails in SetBestChain only for a block
\* whose chain does not connect.
LEMMA FailsIfInvalid ==
    ASSUME IInv, restarts = 0, ExtendFails \/ GiveUp PROVE ~Valid(block)
<1>4. ~strayed /\ ~misled
  BY NeverStopped
<1>1. block \in Block \ {Root} /\ Chain[block] \subseteq Block
  BY ChainFacts DEF ExtendFails, GiveUp, IInv, BlockPlaced, Pending, TypeOK
<1>2. CASE ExtendFails
  <2>1. Parent[block] = best /\ coins = ViewOf(best)
    BY <1>2, <1>4 DEF ExtendFails, IInv, BestInStep, CoinsReplay
  <2> QED
    BY <1>1, <1>2, <2>1, ValidNext DEF ExtendFails
<1>3. CASE GiveUp
  <2>1. PICK b \in Chain[goal] \ {Root} : Parent[b] = tip /\ ~Connectable(view, b)
    BY <1>3 DEF GiveUp
  <2>2. goal \in Chain[block] /\ view = ViewOf(tip)
    BY <1>3, <1>4 DEF GiveUp, IInv, BestInStep
  <2>3. Chain[goal] \subseteq Chain[block]
    BY <1>1, <2>2, TreeAssumption
  <2>4. b \in Chain[block] /\ ~Valid(b)
    BY <1>1, <2>1, <2>2, <2>3, ValidNext
  <2> QED
    BY <1>1, <2>4, ValidAncestor
<1> QED
  BY <1>2, <1>3

\* The work queue only grows, by the block at hand, when AcceptBlock returns.
LEMMA ReturnQueues ==
    ASSUME TypeOK, NEW ok \in BOOLEAN, Return(ok)
    PROVE  /\ Queued' = IF ok THEN Queued \cup {block} ELSE Queued
           /\ job' = "idle" => queue' = <<>>
           /\ orphans' = orphans \ {block}
<1>1. queue \in Seq(index)
  BY DEF TypeOK
<1>2. CASE ok
  <2>1. queue' = Append(queue, block)
    BY <1>2 DEF Return
  <2>2. DOMAIN queue' = 1..(Len(queue) + 1) /\ DOMAIN queue = 1..Len(queue)
    BY <1>1, <2>1
  <2>3. \A i \in DOMAIN queue' :
           queue'[i] = IF i \in DOMAIN queue THEN queue[i] ELSE block
    BY <1>1, <2>1, <2>2
  <2>4. Len(queue) + 1 \in DOMAIN queue' \ DOMAIN queue
    BY <1>1, <2>2
  <2>5. DOMAIN queue \subseteq DOMAIN queue'
    BY <1>1, <2>2
  <2>6. Queued' = Queued \cup {block}
    BY <2>3, <2>4, <2>5 DEF Queued
  <2> QED
    BY <1>2, <2>6 DEF Return
<1>3. CASE ~ok
  BY <1>3 DEF Return, Queued
<1> QED
  BY <1>2, <1>3

\* A block of which no orphan is left leaves the queue without one to serve.
LEMMA TailServes ==
    ASSUME TypeOK, queue # <<>>
    PROVE  Queued \ {Head(queue)} \subseteq {Tail(queue)[i] : i \in DOMAIN Tail(queue)}
<1>1. queue \in Seq(index) /\ Len(queue) \in Nat \ {0}
  BY DEF TypeOK
<1>2. SUFFICES ASSUME NEW i \in DOMAIN queue, queue[i] # Head(queue)
               PROVE  \E j \in DOMAIN Tail(queue) : Tail(queue)[j] = queue[i]
  BY DEF Queued
<1>3. i \in 2..Len(queue)
  BY <1>1, <1>2
<1>4. i - 1 \in DOMAIN Tail(queue) /\ Tail(queue)[i - 1] = queue[i]
  BY <1>1, <1>3
<1> QED
  BY <1>4

LEMMA NextOrphansServed == ASSUME IInv, OrphansServed, [Next]_vars PROVE OrphansServed'
<1> USE DEF disk, held, reorg, history
<1>1. restarts \in Nat /\ TypeOK
  BY BoundsAssumption DEF IInv, TypeOK
<1>2. ASSUME UNCHANGED <<index, queue, restarts, orphans, block>>,
             job \in Pending => job' \in Pending, job' # "idle" \/ job = "idle"
      PROVE  OrphansServed'
  BY <1>2 DEF OrphansServed, Queued
<1>3. CASE UNCHANGED vars
  BY <1>2, <1>3 DEF vars, Pending
<1>4. CASE NextOrphan
  BY <1>4 DEF NextOrphan, OrphansServed, Queued, Pending
<1>5. CASE NextParent
  <2>1. queue # <<>> /\ job = "orphans" /\ queue' = Tail(queue)
        /\ UNCHANGED <<index, orphans, restarts>>
    BY <1>5 DEF NextParent, IInv, BlockPlaced
  <2>2. Queued \ {Head(queue)} \subseteq Queued'
    BY <1>1, <2>1, TailServes DEF Queued
  <2>3. \A o \in orphans : Parent[o] # Head(queue)
    BY <1>5 DEF NextParent, Awaited
  <2>4. job' = "idle" => queue' = <<>>
    BY <1>5 DEF NextParent
  <2> QED
    BY <2>1, <2>2, <2>3, <2>4 DEF OrphansServed, Pending
<1>6. CASE TurnDown
  <2>1. Return(FALSE) /\ job \notin Pending /\ UNCHANGED <<index, restarts>>
    BY <1>6 DEF TurnDown, Pending
  <2>2. Queued' = Queued /\ (job' = "idle" => queue' = <<>>) /\ orphans' = orphans \ {block}
    BY <1>1, <2>1, ReturnQueues
  <2> QED
    BY <2>1, <2>2 DEF OrphansServed
<1>7. CASE AddToBlockIndex
  <2>1. /\ index' = index \cup {block} /\ job \notin Pending /\ UNCHANGED <<block, restarts>>
    BY <1>7 DEF AddToBlockIndex, Pending
  <2>2. CASE Heavier(block, best)
    <3>1. job' = "best" /\ UNCHANGED <<queue, orphans>>
      BY <1>7, <2>2 DEF AddToBlockIndex
    <3> QED
      BY <2>1, <3>1 DEF OrphansServed, Queued, Pending
  <2>3. CASE ~Heavier(block, best)
    <3>1. Return(TRUE)
      BY <1>7, <2>3 DEF AddToBlockIndex
    <3>2. Queued' = Queued \cup {block} /\ (job' = "idle" => queue' = <<>>)
          /\ orphans' = orphans \ {block}
      BY <1>1, <3>1, ReturnQueues
    <3> QED
      BY <2>1, <3>2 DEF OrphansServed
  <2> QED
    BY <2>2, <2>3
<1>8. CASE ExtendFails \/ GiveUp
  <2>1. Return(FALSE) /\ job \in Pending /\ UNCHANGED <<index, restarts, block>>
    BY <1>8 DEF ExtendFails, GiveUp, Pending
  <2>2. Queued' = Queued /\ (job' = "idle" => queue' = <<>>) /\ orphans' = orphans \ {block}
    BY <1>1, <2>1, ReturnQueues
  <2>3. ASSUME restarts = 0, NEW o \in orphans, Valid(o), Parent[o] = block PROVE FALSE
    <3>1. o \in Block \ {Root}
      BY <1>1 DEF TypeOK
    <3> QED
      BY <1>8, <2>3, <3>1, FailsIfInvalid, ValidNext
  <2> QED
    BY <2>1, <2>2, <2>3 DEF OrphansServed
<1>9. CASE Extend \/ StartReorganize \/ DisconnectTip \/ ConnectNext \/ CommitReorganize
           \/ Revive \/ ClearPool \/ ExtendPostponed
  BY <1>2, <1>9 DEF Extend, StartReorganize, DisconnectTip, ConnectNext, CommitReorganize,
                    Revive, ClearPool, ExtendPostponed, Pending
<1>10. CASE SwitchBest
  <2>1. Return(TRUE) /\ UNCHANGED <<index, restarts>>
    BY <1>10 DEF SwitchBest
  <2>2. Queued' = Queued \cup {block} /\ (job' = "idle" => queue' = <<>>)
        /\ orphans' = orphans \ {block}
    BY <1>1, <2>1, ReturnQueues
  <2> QED
    BY <2>1, <2>2 DEF OrphansServed
<1>11. ASSUME NEW b \in due, Receive(b) PROVE OrphansServed'
  <2>1. CASE Refuse(b)
    BY <1>2, <2>1 DEF Refuse, Pending
  <2>2. CASE Hold(b)
    BY <1>11, <2>2 DEF Receive, Hold, Pruned, OrphansServed, Queued, Pending
  <2>3. CASE Take(b)
    BY <1>11, <2>3 DEF Receive, Take, OrphansServed, Queued, Pending
  <2> QED
    BY <1>11, <2>1, <2>2, <2>3 DEF Receive
<1>12. ASSUME NEW t \in Tx, ReceiveTx(t) PROVE OrphansServed'
  BY <1>2, <1>12 DEF ReceiveTx, Pending
<1>13. CASE Restart
  BY <1>1, <1>13 DEF Restart, OrphansServed
<1> QED
  BY <1>3, <1>4, <1>5, <1>6, <1>7, <1>8, <1>9, <1>10, <1>11, <1>12, <1>13 DEF Next, Work

LEMMA SpecOrphansServed == Spec => []OrphansServed
<1>1. Init => OrphansServed
  BY DEF Init, OrphansServed
<1> QED
  BY <1>1, NextOrphansServed, SpecIInv, PTL DEF Spec

-----------------------------------------------------------------------------
(* Transactions of disconnected blocks *)

Members(s) == {s[i] : i \in DOMAIN s}

\* No transaction of s spends itself or a later one.
SpendsEarlier(s) == \A i, j \in DOMAIN s : i <= j => s[j] \notin Spends[s[i]]

\* t is in the chain or in the pool, or has an input that stays out of its reach whatever
\* of rest enters the pool.
Accounted(t, rest) ==
    \/ t \in pool \cup DOMAIN coins
    \/ \E u \in Spends[t] : \/ u \in DOMAIN coins /\ coins[u] # {}
                            \/ \E p \in pool \ {t} : u \in Spends[p]
                            \/ u \notin pool \cup DOMAIN coins \cup rest

\* Blocks whose transactions are revived.
Above(B) == {b \in B : Height[b] > Checkpoint}

\* The transactions that a reorganisation has to revive.
Revivable == TxsOf(Above(Chain[best] \ Chain[goal])) \ (Minted \cup Irregular)

\* vResurrect holds, in the order of the chain, what has been disconnected; and while it is
\* emptied, all that has left it is accounted for.
ReviveInv ==
    /\ job = "reorganize" /\ ~strayed /\ ~misled =>
          /\ SpendsEarlier(revive)
          /\ TxsOf(Above(Chain[best] \ (Chain[tip] \cup Chain[goal]))) \subseteq Members(revive)
          /\ tip \notin Chain[goal] => Members(revive) \cap TxsOf(Chain[tip]) = {}
    /\ job = "revive" /\ ~misled =>
          /\ SpendsEarlier(revive)
          /\ \A t \in Revivable : t \in Members(revive) \/ Accounted(t, Members(revive))

LEMMA ConcatRange ==
    ASSUME NEW a \in Seq(Tx), NEW b \in Seq(Tx)
    PROVE  Members(a \o b) = Members(a) \cup Members(b)
<1>1. /\ DOMAIN a = 1..Len(a) /\ DOMAIN b = 1..Len(b) /\ Len(a) \in Nat /\ Len(b) \in Nat
      /\ DOMAIN (a \o b) = 1..(Len(a) + Len(b))
      /\ \A i \in 1..(Len(a) + Len(b)) :
            (a \o b)[i] = IF i <= Len(a) THEN a[i] ELSE b[i - Len(a)]
  OBVIOUS
<1>2. ASSUME NEW x \in Members(a \o b) PROVE x \in Members(a) \cup Members(b)
  <2>1. PICK i \in 1..(Len(a) + Len(b)) : x = (a \o b)[i]
    BY <1>1, <1>2 DEF Members
  <2>2. CASE i <= Len(a)
    <3>1. i \in DOMAIN a /\ x = a[i]
      BY <1>1, <2>1, <2>2
    <3> QED
      BY <3>1 DEF Members
  <2>3. CASE ~(i <= Len(a))
    <3>1. i - Len(a) \in DOMAIN b /\ x = b[i - Len(a)]
      BY <1>1, <2>1, <2>3
    <3> QED
      BY <3>1 DEF Members
  <2> QED
    BY <2>2, <2>3
<1>3. ASSUME NEW i \in DOMAIN a PROVE a[i] \in Members(a \o b)
  <2>1. i \in DOMAIN (a \o b) /\ (a \o b)[i] = a[i]
    BY <1>1, <1>3
  <2> QED
    BY <2>1 DEF Members
<1>4. ASSUME NEW i \in DOMAIN b PROVE b[i] \in Members(a \o b)
  <2>1. i + Len(a) \in DOMAIN (a \o b) /\ (a \o b)[i + Len(a)] = b[i]
    BY <1>1, <1>4
  <2> QED
    BY <2>1 DEF Members
<1> QED
  BY <1>2, <1>3, <1>4 DEF Members

LEMMA ConcatSpendsEarlier ==
    ASSUME NEW a \in Seq(Tx), NEW b \in Seq(Tx), SpendsEarlier(a), SpendsEarlier(b),
           \A x \in Members(a), y \in Members(b) : y \notin Spends[x]
    PROVE  SpendsEarlier(a \o b)
<1>1. /\ DOMAIN a = 1..Len(a) /\ DOMAIN b = 1..Len(b) /\ Len(a) \in Nat /\ Len(b) \in Nat
      /\ DOMAIN (a \o b) = 1..(Len(a) + Len(b))
      /\ \A i \in 1..(Len(a) + Len(b)) :
            (a \o b)[i] = IF i <= Len(a) THEN a[i] ELSE b[i - Len(a)]
  OBVIOUS
<1> SUFFICES ASSUME NEW i \in DOMAIN (a \o b), NEW j \in DOMAIN (a \o b), i <= j
             PROVE  (a \o b)[j] \notin Spends[(a \o b)[i]]
  BY DEF SpendsEarlier
<1>2. CASE j <= Len(a)
  <2>1. i \in DOMAIN a /\ j \in DOMAIN a /\ (a \o b)[i] = a[i] /\ (a \o b)[j] = a[j]
    BY <1>1, <1>2
  <2> QED
    BY <2>1 DEF SpendsEarlier
<1>3. CASE ~(i <= Len(a))
  <2>1. /\ i - Len(a) \in DOMAIN b /\ j - Len(a) \in DOMAIN b /\ i - Len(a) <= j - Len(a)
        /\ (a \o b)[i] = b[i - Len(a)] /\ (a \o b)[j] = b[j - Len(a)]
    BY <1>1, <1>3
  <2> QED
    BY <2>1 DEF SpendsEarlier
<1>4. CASE i <= Len(a) /\ ~(j <= Len(a))
  <2>1. /\ i \in DOMAIN a /\ (a \o b)[i] = a[i]
        /\ j - Len(a) \in DOMAIN b /\ (a \o b)[j] = b[j - Len(a)]
    BY <1>1, <1>4
  <2> QED
    BY <2>1 DEF Members
<1> QED
  BY <1>2, <1>3, <1>4

LEMMA TailSpendsEarlier ==
    ASSUME NEW s \in Seq(Tx), s # <<>>, SpendsEarlier(s)
    PROVE  /\ SpendsEarlier(Tail(s))
           /\ Members(s) = {Head(s)} \cup Members(Tail(s))
           /\ Spends[Head(s)] \cap Members(s) = {}
<1>1. /\ Len(s) \in Nat \ {0} /\ DOMAIN s = 1..Len(s) /\ Head(s) = s[1]
      /\ DOMAIN Tail(s) = 1..(Len(s) - 1)
      /\ \A i \in 1..(Len(s) - 1) : Tail(s)[i] = s[i + 1]
  OBVIOUS
<1>2. SpendsEarlier(Tail(s))
  <2> SUFFICES ASSUME NEW i \in DOMAIN Tail(s), NEW j \in DOMAIN Tail(s), i <= j
               PROVE  Tail(s)[j] \notin Spends[Tail(s)[i]]
    BY DEF SpendsEarlier
  <2>1. i + 1 \in DOMAIN s /\ j + 1 \in DOMAIN s /\ i + 1 <= j + 1
    BY <1>1
  <2> QED
    BY <1>1, <2>1 DEF SpendsEarlier
<1>3. ASSUME NEW i \in DOMAIN s PROVE s[i] \in {Head(s)} \cup Members(Tail(s))
  <2>1. CASE i = 1
    BY <1>1, <2>1
  <2>2. CASE i # 1
    <3>1. i - 1 \in DOMAIN Tail(s) /\ Tail(s)[i - 1] = s[i]
      BY <1>1, <2>2
    <3> QED
      BY <3>1 DEF Members
  <2> QED
    BY <2>1, <2>2
<1>4. ASSUME NEW i \in DOMAIN Tail(s) PROVE Tail(s)[i] \in Members(s)
  <2>1. i + 1 \in DOMAIN s /\ Tail(s)[i] = s[i + 1]
    BY <1>1
  <2> QED
    BY <2>1 DEF Members
<1>5. 1 \in DOMAIN s
  BY <1>1
<1>6. \A i \in DOMAIN s : s[i] \notin Spends[Head(s)]
  <2> SUFFICES ASSUME NEW i \in DOMAIN s PROVE s[i] \notin Spends[s[1]]
    BY <1>1
  <2>1. 1 <= i
    BY <1>1
  <2> QED
    BY <1>5, <2>1 DEF SpendsEarlier
<1> QED
  BY <1>1, <1>2, <1>3, <1>4, <1>5, <1>6 DEF Members

\* The transactions of a block that connects spend only what comes before them.
LEMMA BlockSpendsEarlier ==
    ASSUME NEW b \in Block \ {Root}, Valid(b)
    PROVE  SpendsEarlier(TxSeq[b])
<1> SUFFICES ASSUME NEW i \in DOMAIN TxSeq[b], NEW j \in DOMAIN TxSeq[b], i <= j,
                    TxSeq[b][j] \in Spends[TxSeq[b][i]]
             PROVE  FALSE
  BY DEF SpendsEarlier
<1> DEFINE u == TxSeq[b][j]
<1>1. /\ TxSeq[b] \in Seq(Tx) /\ i \in Nat /\ j \in Nat
      /\ \A k \in 1..(i - 1) : k \in DOMAIN TxSeq[b]
  BY TxAssumption
<1>2. Parent[b] \in Block /\ Connectable(ViewOf(Parent[b]), b)
  BY ValidNext, ChainFacts
<1>3. u \in Earlier(b, i) \/ u \in TxsOf(Chain[Parent[b]])
  BY <1>2, ViewDomain DEF Connectable
<1>4. u \notin TxsOf(Chain[Parent[b]])
  BY NoRepeat DEF Txs
<1>5. PICK k \in 1..(i - 1) : TxSeq[b][k] = TxSeq[b][j]
  BY <1>3, <1>4 DEF Earlier
<1>6. k = j
  BY <1>1, <1>5, TxAssumption
<1> QED
  BY <1>1, <1>6

\* A disconnected block comes before what vResurrect holds.
LEMMA DisconnectRevives == ASSUME IInv, ReviveInv, DisconnectTip PROVE ReviveInv'
<1> USE DEF disk, held, reorg, history
<1> SUFFICES ASSUME ~strayed, ~misled PROVE ReviveInv'
  BY DEF DisconnectTip, ReviveInv
<1>1. /\ job = "reorganize" /\ job' = "reorganize" /\ tip \in Block /\ goal \in Block
      /\ best \in Block /\ Valid(tip) /\ tip \notin Chain[goal] /\ tip' = Parent[tip]
      /\ revive' = Revived(tip) /\ UNCHANGED <<best, goal>>
  BY DEF DisconnectTip, IInv, BestInStep, TypeOK
<1>2. tip # Root
  BY <1>1, ChainFacts
<1>3. Parent[tip] \in Block /\ Chain[tip] = Chain[Parent[tip]] \cup {tip}
  BY <1>1, <1>2, ChainFacts
<1>4. /\ revive \in Seq(Tx) /\ TxSeq[tip] \in Seq(Tx) /\ SpendsEarlier(revive)
      /\ Members(revive) \cap TxsOf(Chain[tip]) = {}
      /\ TxsOf(Above(Chain[best] \ (Chain[tip] \cup Chain[goal]))) \subseteq Members(revive)
  BY <1>1, TxAssumption DEF ReviveInv, IInv, TypeOK
<1>5. Members(TxSeq[tip]) = Txs(tip)
  BY DEF Members, Txs
<1>6. TxsOf(Chain[Parent[tip]]) \subseteq TxsOf(Chain[tip])
  BY <1>3, TxsOfUnion
<1> DEFINE old == Chain[best] \ (Chain[tip] \cup Chain[goal])
           new == Chain[best] \ (Chain[Parent[tip]] \cup Chain[goal])
<1>7. new \subseteq old \cup {tip}
  BY <1>3
<1>8. CASE Height[tip] > Checkpoint
  <2>1. revive' = TxSeq[tip] \o revive
    BY <1>1, <1>8 DEF Revived
  <2>2. Members(revive') = Txs(tip) \cup Members(revive)
    BY <1>4, <1>5, <2>1, ConcatRange
  <2>3. SpendsEarlier(revive')
    <3>1. SpendsEarlier(TxSeq[tip])
      BY <1>1, <1>2, BlockSpendsEarlier
    <3>2. ASSUME NEW x \in Txs(tip) PROVE Spends[x] \subseteq TxsOf(Chain[tip])
      <4>1. x \in TxsOf(Chain[tip])
        BY <1>1, <1>2, TxsOfChain
      <4> QED
        BY <1>1, <4>1, InputsInChain
    <3>3. \A x \in Members(TxSeq[tip]), y \in Members(revive) : y \notin Spends[x]
      BY <1>4, <1>5, <3>2
    <3> QED
      BY <1>4, <2>1, <3>1, <3>3, ConcatSpendsEarlier
  <2>4. TxsOf(Above(new)) \subseteq Members(revive')
    <3> HIDE DEF old, new
    <3>1. Above(new) \subseteq Above(old) \cup {tip}
      BY <1>7 DEF Above
    <3>2. TxsOf(Above(new)) \subseteq TxsOf(Above(old) \cup {tip})
      BY <3>1, TxsOfUnion
    <3>3. TxsOf(Above(new)) \subseteq TxsOf(Above(old)) \cup TxsOf({tip})
      BY <3>2, TxsOfUnion
    <3>4. TxsOf({tip}) = Txs(tip) /\ TxsOf(Above(old)) \subseteq Members(revive)
      BY <1>1, <1>4, TxsOfBlock DEF old
    <3> QED
      BY <2>2, <3>3, <3>4
  <2>5. Members(revive') \cap TxsOf(Chain[tip']) = {}
    <3>1. Txs(tip) \cap TxsOf(Chain[Parent[tip]]) = {}
      BY <1>1, <1>2, NoRepeat
    <3> QED
      BY <1>1, <1>4, <1>6, <2>2, <3>1
  <2> QED
    BY <1>1, <2>3, <2>4, <2>5 DEF ReviveInv
<1>9. CASE ~(Height[tip] > Checkpoint)
  <2>1. revive' = revive
    BY <1>1, <1>9 DEF Revived
  <2>2. Above(new) \subseteq Above(old)
    BY <1>7, <1>9 DEF Above
  <2>3. TxsOf(Above(new)) \subseteq Members(revive)
    <3> HIDE DEF new
    <3> QED
      BY <1>4, <2>2, TxsOfUnion
  <2>4. Members(revive) \cap TxsOf(Chain[tip']) = {}
    BY <1>1, <1>4, <1>6
  <2> QED
    BY <1>1, <1>4, <2>1, <2>3, <2>4 DEF ReviveInv
<1> QED
  BY <1>8, <1>9

\* Connecting a block of the new chain leaves vResurrect alone.
LEMMA ConnectKeepsRevived == ASSUME IInv, ReviveInv, ConnectNext PROVE ReviveInv'
<1>1. PICK b \in Chain[goal] \ {Root} : Parent[b] = tip /\ tip' = b
  BY DEF ConnectNext
<1>2. /\ job = "reorganize" /\ job' = "reorganize" /\ tip \in Chain[goal] /\ goal \in Block
      /\ UNCHANGED <<best, goal, revive, strayed, misled>>
  BY DEF ConnectNext, IInv, TypeOK, history
<1>3. Chain[tip] \subseteq Chain[goal] /\ Chain[b] \subseteq Chain[goal]
  BY <1>1, <1>2, TreeAssumption
<1>4. Chain[best] \ (Chain[tip] \cup Chain[goal]) = Chain[best] \ (Chain[b] \cup Chain[goal])
  BY <1>3
<1> QED
  BY <1>1, <1>2, <1>4 DEF ReviveInv

\* The transaction that leaves vResurrect is accounted for.
LEMMA HeadAccounted ==
    ASSUME NEW CONSTANT h, NEW CONSTANT rest, h \notin Minted, Spends[h] \cap rest = {},
           pool' = IF Poolable(h) THEN pool \cup {h} ELSE pool, coins' = coins
    PROVE  Accounted(h, rest)'
<1>1. CASE Poolable(h)
  BY <1>1 DEF Accounted
<1>2. CASE ~Poolable(h)
  <2>1. \/ h \in pool \cup DOMAIN coins
        \/ \E p \in pool \ {h} : Spends[p] \cap Spends[h] # {}
        \/ \E u \in Spends[h] : IF u \in DOMAIN coins THEN coins[u] # {} ELSE u \notin pool
    BY <1>2 DEF Poolable
  <2>2. pool' = pool
    BY <1>2
  <2> QED
    BY <2>1, <2>2 DEF Accounted
<1> QED
  BY <1>1, <1>2

\* One that is accounted for stays so while the pool takes in what is left of vResurrect.
LEMMA AccountedStays ==
    ASSUME NEW CONSTANT t, NEW CONSTANT h, NEW CONSTANT rest, Accounted(t, rest \cup {h}),
           pool' \in {pool, pool \cup {h}}, coins' = coins
    PROVE  Accounted(t, rest)'
BY DEF Accounted

LEMMA ReviveAccounts == ASSUME IInv, ReviveInv, Revive PROVE ReviveInv'
<1> SUFFICES ASSUME ~misled PROVE ReviveInv'
  BY DEF Revive, ReviveInv, history
<1>1. /\ job = "revive" /\ job' = "revive" /\ revive # <<>> /\ revive' = Tail(revive)
      /\ pool' \in {pool, pool \cup {Head(revive)}}
      /\ Head(revive) \notin Irregular =>
            pool' = IF Poolable(Head(revive)) THEN pool \cup {Head(revive)} ELSE pool
      /\ UNCHANGED <<best, goal, coins>>
      /\ revive \in Seq(Tx) /\ SpendsEarlier(revive)
  BY DEF Revive, ReviveInv, IInv, TypeOK, disk
<1>2. PICK h : h = Head(revive)
  OBVIOUS
<1>3. PICK rest : rest = Members(Tail(revive))
  OBVIOUS
<1>4. /\ SpendsEarlier(revive') /\ Members(revive) = rest \cup {h}
      /\ Spends[h] \cap rest = {} /\ Members(revive') = rest
  BY <1>1, <1>2, <1>3, TailSpendsEarlier
<1>5. ASSUME NEW t \in Revivable
      PROVE  t \in rest \/ Accounted(t, rest)'
  <2>1. t \in rest \cup {h} \/ Accounted(t, rest \cup {h})
    BY <1>1, <1>4, <1>5 DEF ReviveInv
  <2>2. CASE t = h
    BY <1>1, <1>2, <1>4, <1>5, <2>2, HeadAccounted DEF Revivable
  <2>3. CASE Accounted(t, rest \cup {h})
    BY <1>1, <1>2, <2>3, AccountedStays
  <2> QED
    BY <2>1, <2>2, <2>3
<1>6. \A t \in Revivable : t \in Members(revive') \/ Accounted(t, Members(revive))'
  BY <1>4, <1>5 DEF Accounted
<1>7. Revivable' = Revivable
  BY <1>1 DEF Revivable, Above
<1> QED
  BY <1>1, <1>4, <1>6, <1>7 DEF ReviveInv

LEMMA NextReviveInv == ASSUME IInv, ReviveInv, [Next]_vars PROVE ReviveInv'
<1> USE DEF disk, held, reorg, history
<1>1. ASSUME job' \notin {"reorganize", "revive"} PROVE ReviveInv'
  BY <1>1 DEF ReviveInv
<1>2. CASE StartReorganize
  <2>1. /\ job' = "reorganize" /\ tip' = best /\ best' = best /\ revive' = <<>>
    BY <1>2 DEF StartReorganize
  <2>2. SpendsEarlier(revive') /\ Members(revive') = {}
    BY <2>1 DEF SpendsEarlier, Members
  <2>3. TxsOf(Above(Chain[best'] \ (Chain[tip'] \cup Chain[goal']))) = {}
    BY <2>1 DEF TxsOf, Above
  <2> QED
    BY <2>1, <2>2, <2>3 DEF ReviveInv
<1>3. CASE DisconnectTip
  BY <1>3, DisconnectRevives
<1>4. CASE ConnectNext
  BY <1>4, ConnectKeepsRevived
<1>5. CASE CommitReorganize
  <2>1. /\ job = "reorganize" /\ job' = "revive" /\ tip = goal
        /\ misled' = (misled \/ strayed)
        /\ UNCHANGED <<best, goal, revive>>
    BY <1>5 DEF CommitReorganize, Mislead
  <2>2. Chain[best] \ (Chain[tip] \cup Chain[goal]) = Chain[best] \ Chain[goal]
    BY <2>1
  <2> QED
    BY <2>1, <2>2 DEF ReviveInv, Revivable
<1>6. CASE Revive
  BY <1>6, ReviveAccounts
<1>7. CASE NextOrphan \/ NextParent \/ TurnDown \/ AddToBlockIndex \/ Extend \/ ExtendFails
             \/ GiveUp \/ ClearPool \/ ExtendPostponed \/ SwitchBest
  BY <1>1, <1>7 DEF NextOrphan, NextParent, TurnDown, AddToBlockIndex, Extend, ExtendFails,
                    GiveUp, ClearPool, ExtendPostponed, SwitchBest, Return
<1>8. CASE \E b \in due : Receive(b)
  BY <1>1, <1>8 DEF Receive, Refuse, Hold, Take
<1>9. CASE \E t \in Tx : ReceiveTx(t)
  BY <1>1, <1>9 DEF ReceiveTx
<1>10. CASE Restart
  BY <1>1, <1>10 DEF Restart
<1>11. CASE UNCHANGED vars
  BY <1>11 DEF vars, ReviveInv, Revivable, Accounted
<1> QED
  BY <1>2, <1>3, <1>4, <1>5, <1>6, <1>7, <1>8, <1>9, <1>10, <1>11 DEF Next, Work

LEMMA SpecReviveInv == Spec => []ReviveInv
<1>1. Init => ReviveInv
  BY DEF Init, ReviveInv
<1> QED
  BY <1>1, NextReviveInv, SpecIInv, PTL DEF Spec

\* What leaves the pool for a conflict, or because it spends what does, is not in the chain.
LEMMA RemovedNotInChain ==
    ASSUME IInv, PoolInv, job = "revive", ~misled,
           NEW T, T = TxsOf(Chain[goal] \ Chain[best])
    PROVE  /\ WithSpenders(Conflicts(T)) \cap DOMAIN coins = {}
           /\ \A q \in WithSpenders(Conflicts(T)) \ Conflicts(T) :
                 Spends[q] \cap WithSpenders(Conflicts(T)) # {}
           /\ T \subseteq DOMAIN coins
<1> DEFINE C == Conflicts(T)
           W == WithSpenders(C)
<1>1. /\ tip = goal /\ diskBest = tip /\ coins = ViewOf(goal) /\ goal \in Block /\ Valid(goal)
      /\ pool \cap DOMAIN coins \subseteq T
  BY DEF IInv, CoinsReplay, BestInStep, TypeOK, PoolInv, Arriving
<1>2. T \subseteq DOMAIN coins
  <2>1. Chain[goal] \ Chain[best] \subseteq Chain[goal]
    OBVIOUS
  <2>2. T \subseteq TxsOf(Chain[goal])
    BY <2>1, TxsOfUnion
  <2> QED
    BY <1>1, <2>2, ViewDomain
<1>3. C \subseteq pool /\ C \cap T = {}
  BY DEF Conflicts
<1>4. W \cap DOMAIN coins = {}
  <2> DEFINE D == pool \ DOMAIN coins
  <2>1. C \subseteq D
    BY <1>1, <1>2, <1>3
  <2>2. ASSUME NEW q \in pool, Spends[q] \cap D # {} PROVE q \in D
    BY <1>1, <2>2, InputsInChain, ViewDomain
  <2>3. W \subseteq D
    <3>1. D \in SUBSET pool
      OBVIOUS
    <3> HIDE DEF D, C
    <3> QED
      BY <2>1, <2>2, <3>1 DEF WithSpenders
  <2> QED
    BY <2>3
<1>5. ASSUME NEW q \in W \ C PROVE Spends[q] \cap W # {}
  <2> DEFINE D == W \ {q}
  <2>1. SUFFICES ASSUME Spends[q] \cap W = {} PROVE FALSE
    OBVIOUS
  <2>2. W \subseteq pool
    BY DEF WithSpenders
  <2>3. C \subseteq W
    BY <1>3 DEF WithSpenders
  <2>4. ASSUME NEW p \in pool, Spends[p] \cap W # {} PROVE p \in W
    <3> HIDE DEF C
    <3> QED
      BY <2>4 DEF WithSpenders
  <2>5. D \in SUBSET pool /\ C \subseteq D
    BY <1>5, <2>2, <2>3
  <2>6. ASSUME NEW p \in pool, Spends[p] \cap D # {} PROVE p \in D
    BY <2>1, <2>4, <2>6
  <2>7. q \in D
    <3> HIDE DEF D, C
    <3>1. q \in WithSpenders(C)
      BY <1>5
    <3> QED
      BY <2>5, <2>6, <3>1 DEF WithSpenders
  <2> QED
    BY <2>7
<1> QED
  BY <1>2, <1>4, <1>5

\* When a reorganisation is over, each transaction it has disconnected is in the chain, in
\* the pool or in neither for a reason, unless what kept it out has itself just left.
LEMMA ClearLosesNone ==
    ASSUME IInv, PoolInv, ReviveInv, ClearPool, ~misled, NEW t \in Revivable
    PROVE  \/ t \in pool' \cup DOMAIN coins'
           \/ Lacks(t)'
           \/ \E p \in (pool \ pool') \ {t} : Spends[p] \cap Spends[t] # {}
<1> PICK T : T = TxsOf(Chain[goal] \ Chain[best])
  OBVIOUS
<1> PICK W : W = WithSpenders(Conflicts(T))
  OBVIOUS
<1>1. /\ job = "revive" /\ revive = <<>> /\ pool' = pool \ (T \cup W) /\ coins' = coins
      /\ coins = ViewOf(goal) /\ Valid(goal) /\ goal \in Block
  BY DEF ClearPool, IInv, CoinsReplay, BestInStep, TypeOK, PoolInv, disk
<1>2. /\ W \cap DOMAIN coins = {} /\ T \subseteq DOMAIN coins
      /\ \A q \in W \ Conflicts(T) : Spends[q] \cap W # {}
  BY <1>1, RemovedNotInChain
<1>3. Members(revive) = {}
  BY <1>1 DEF Members
<1>4. Accounted(t, {})
  BY <1>1, <1>3 DEF ReviveInv
<1>5. CASE t \in W /\ t \in Conflicts(T)
  <2>1. PICK n \in T : Spends[n] \cap Spends[t] # {}
    BY <1>5 DEF Conflicts
  <2>2. PICK u \in Spends[t] : u \in Spends[n]
    BY <2>1
  <2>3. n \in TxsOf(Chain[goal])
    BY <1>1, <1>2, <2>1, ViewDomain
  <2>4. u \in TxsOf(Chain[goal])
    BY <1>1, <2>2, <2>3, InputsInChain
  <2>5. u \in DOMAIN coins /\ coins[u] # {}
    BY <1>1, <2>2, <2>3, <2>4, ViewDomain DEF Spenders
  <2> QED
    BY <1>1, <2>2, <2>5 DEF Lacks
<1>6. CASE t \in W /\ t \notin Conflicts(T)
  <2>1. PICK u \in Spends[t] : u \in W
    BY <1>2, <1>6
  <2>2. u \notin pool' \cup DOMAIN coins'
    BY <1>1, <1>2, <2>1
  <2> QED
    BY <2>1, <2>2 DEF Lacks
<1>7. CASE t \notin W /\ t \in pool \cup DOMAIN coins
  BY <1>1, <1>2, <1>7
<1>8. CASE t \notin pool \cup DOMAIN coins
  <2>1. PICK u \in Spends[t] : \/ u \in DOMAIN coins /\ coins[u] # {}
                               \/ \E p \in pool \ {t} : u \in Spends[p]
                               \/ u \notin pool \cup DOMAIN coins
    BY <1>4, <1>8 DEF Accounted
  <2>2. CASE u \in DOMAIN coins /\ coins[u] # {}
    BY <1>1, <2>2 DEF Lacks
  <2>3. CASE \E p \in pool \ {t} : u \in Spends[p]
    BY <2>3 DEF Lacks
  <2>4. CASE u \notin pool \cup DOMAIN coins
    BY <1>1, <2>4 DEF Lacks
  <2> QED
    BY <2>1, <2>2, <2>3, <2>4
<1> QED
  BY <1>5, <1>6, <1>7, <1>8

-----------------------------------------------------------------------------
(* The theorems *)

\* Memory, database and work in progress keep their types: no orphan is in the index
\* once its block is processed, whatever became of it.
THEOREM TypeCorrect == Spec => []TypeOK
BY SpecIInv, PTL DEF IInv

\* After every block, and after every start, the best block in memory is the one in the
\* database, until a postponed block fails to connect: for any tree, good blocks and bad,
\* and stops of the process anywhere.
THEOREM MemoryIsDisk == Spec => []MemoryFollowsDisk
<1>1. IInv => MemoryFollowsDisk
  BY DEF IInv, BestInStep, MemoryFollowsDisk
<1> QED
  BY <1>1, SpecIInv, PTL

\* As long as the process does not stop, no chain that connects is forgotten for a
\* lighter one, for any tree and any order of arrival.
THEOREM KeepsHeaviest == Spec => []HeaviestKept
<1>1. IInv => HeaviestKept
  BY DEF IInv, OthersLighter, HeaviestKept, Pending
<1> QED
  BY <1>1, SpecIInv, PTL

\* The pool never holds a double spend, nor a transaction of the best chain.
THEOREM PoolStaysConsistent == Spec => []PoolConsistent
<1>1. PoolInv => PoolConsistent
  BY DEF PoolInv, PoolConsistent
<1> QED
  BY <1>1, SpecPoolInv, PTL

\* The orphan pool never grows more than one block above its size.
THEOREM OrphansStayFew == Spec => []OrphansBounded
<1>1. FewOrphans => OrphansBounded
  BY DEF FewOrphans, OrphansBounded
<1> QED
  BY <1>1, SpecFewOrphans, PTL

\* As long as the process does not stop, no orphan whose chain connects is left waiting for
\* a block that is there, for any tree, any order of arrival and any pruning.
THEOREM NoOrphanLeft == Spec => []OrphansWait
<1>1. OrphansServed => OrphansWait
  BY DEF OrphansServed, OrphansWait, Queued, Pending
<1> QED
  BY <1>1, SpecOrphansServed, PTL

\* For any blocks and transactions, a reorganisation that the database has not been misled
\* into loses none of the transactions it disconnects above the last checkpoint, of those the
\* pool has to take, whatever it holds, unless a second spender was in the way and is removed.
THEOREM ReorganizeLosesNone == Spec => NoTxLost
<1>1. ASSUME IInv, PoolInv, ReviveInv, [Next]_vars, job = "revive", job' = "extend", ~misled,
             NEW t \in Revivable
      PROVE  \/ t \in pool' \cup DOMAIN coins'
             \/ Lacks(t)'
             \/ \E p \in (pool \ pool') \ {t} : Spends[p] \cap Spends[t] # {}
  <2>1. ClearPool
    BY <1>1 DEF Next, vars, Work, NextOrphan, NextParent, TurnDown, AddToBlockIndex, Extend,
           ExtendFails, StartReorganize, DisconnectTip, ConnectNext, GiveUp, CommitReorganize,
           Revive, ExtendPostponed, SwitchBest, Receive, Refuse, Hold, Take, ReceiveTx,
           Restart, Return
  <2> QED
    BY <1>1, <2>1, ClearLosesNone
<1>2. IInv /\ PoolInv /\ ReviveInv /\ [Next]_vars =>
         [job = "revive" /\ job' = "extend" /\ ~misled =>
             \A t \in TxsOf({b \in Chain[best] \ Chain[goal] : Height[b] > Checkpoint})
                         \ (Minted \cup Irregular) :
                \/ t \in pool' \cup DOMAIN coins'
                \/ Lacks(t)'
                \/ \E p \in (pool \ pool') \ {t} : Spends[p] \cap Spends[t] # {}]_vars
  BY <1>1 DEF Revivable, Above
<1> QED
  BY <1>2, SpecIInv, SpecPoolInv, SpecReviveInv, PTL DEF Spec, NoTxLost

\* Each commit of SetBestChain is a step of BestChain.
LEMMA CommitAdvances ==
    ASSUME NEW b \in Block, Valid(b), Trust[b] > Trust[diskBest],
           diskBest' = b, coins' = ViewOf(b)
    PROVE  Best!Next
<1>1. Best!Advance(b)
  BY DEF Best!Advance
<1> QED
  BY <1>1 DEF Best!Next, ValidBlocks

\* Every step is a step of BestChain on what is in the database, leaves it alone, or misleads
\* it.
LEMMA NextAdvances ==
    ASSUME IInv, [Next]_vars
    PROVE  Best!Next \/ misled' \/ UNCHANGED <<diskBest, coins>>
<1> USE DEF disk, held, reorg, history
<1>1. CASE Extend
  <2> SUFFICES ASSUME ~misled, ~strayed PROVE Best!Next
    BY <1>1 DEF Extend, Mislead
  <2>1. /\ block \in Block \ {Root} /\ Parent[block] = best /\ best = diskBest
        /\ coins = ViewOf(best) /\ Valid(best) /\ Trust[block] > Trust[best]
    BY <1>1 DEF Extend, IInv, BlockPlaced, BestInStep, CoinsReplay, Pending, TypeOK
  <2>2. Valid(block) /\ coins' = ViewOf(block) /\ diskBest' = block
    BY <1>1, <2>1, ValidNext, ConnectIsView DEF Extend, Commit
  <2> QED
    BY <2>1, <2>2, CommitAdvances
<1>2. CASE CommitReorganize
  <2> SUFFICES ASSUME ~misled, ~strayed PROVE Best!Next
    BY <1>2 DEF CommitReorganize, Mislead
  <2>1. /\ goal \in Block /\ Valid(goal) /\ view = ViewOf(goal) /\ best = diskBest
        /\ Trust[goal] > Trust[best]
    BY <1>2 DEF CommitReorganize, IInv, BestInStep, TypeOK
  <2> QED
    BY <1>2, <2>1, CommitAdvances DEF CommitReorganize
<1>3. CASE ExtendPostponed
  <2>1. PICK b \in Chain[block] \ {Root} :
           /\ Parent[b] = tip
           /\ \/ Connectable(coins, b) /\ Commit(b) /\ Mislead
              \/ UNCHANGED <<diskBest, coins>>
    BY <1>3 DEF ExtendPostponed
  <2>2. CASE Connectable(coins, b) /\ Commit(b) /\ Mislead /\ ~misled
    <3>1. /\ b \in Block /\ Valid(b)
          /\ Connected(coins, b) = ViewOf(b) /\ Trust[b] > Trust[diskBest]
      BY <1>3, <2>1, <2>2, PostponedConnects DEF ExtendPostponed
    <3> QED
      BY <2>2, <3>1, CommitAdvances DEF Commit
  <2> QED
    BY <2>1, <2>2 DEF Mislead
<1>4. CASE ~(Extend \/ CommitReorganize \/ ExtendPostponed)
  BY <1>4 DEF Next, vars, Work, NextOrphan, NextParent, TurnDown, AddToBlockIndex,
           ExtendFails, StartReorganize, DisconnectTip, ConnectNext, GiveUp, Revive,
           ClearPool, SwitchBest, Receive, Refuse, Hold, Take, ReceiveTx, Restart
<1> QED
  BY <1>1, <1>2, <1>3, <1>4

\* Whatever blocks come in which order, and wherever the process stops, the database goes
\* from a best chain and its coins to a heavier one that connects, and its coins, until it is
\* written to while the best block in memory is not the one on disk.
THEOREM DatabaseImplementsBestChain == Spec => ImplementsBestChain
<1>1. Init => Best!Init
  BY TreeAssumption DEF Init, Best!Init
<1>2. IInv /\ [Next]_vars => [Best!Next \/ misled']_<<diskBest, coins>>
  BY NextAdvances
<1> QED
  BY <1>1, <1>2, SpecIInv, PTL DEF Spec, ImplementsBestChain
=============================================================================
