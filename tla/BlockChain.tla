----------------------------- MODULE BlockChain -----------------------------
(***************************************************************************)
(* How a full node of the coin takes in blocks: ProcessBlock, AcceptBlock, *)
(* AddToBlockIndex, SetBestChain and Reorganize in                         *)
(* oktools/old-native/src/main.cpp, the memory pool they touch             *)
(* (txmempool.cpp) and LoadBlockIndex (txdb-leveldb.cpp), which rebuilds   *)
(* the memory of the node when it starts.                                  *)
(*                                                                         *)
(* Memory and database change in turn, under the lock cs_main: the index   *)
(* entry of a block is committed on its own, a reorganisation in a second  *)
(* transaction, each block after it in one more, and pindexBest only then. *)
(* The process may stop before or after each of them.                      *)
(*                                                                         *)
(* A transaction has one output; its inputs are the transactions it spends.*)
(***************************************************************************)
EXTENDS Naturals, Sequences, FiniteSets

CONSTANTS Block, Root,          \* blocks, and the genesis block
          Parent,               \* per block but Root: hashPrevBlock
          Chain,                \* per block: it and its ancestors
          Height, Trust,        \* nHeight, nChainTrust
          Stake, NoStake,       \* (prevoutStake, nStakeTime); NoStake: proof of work
          Kernel,               \* per block: the transaction whose output is staked, if any
          Refused,              \* blocks that the other checks of AcceptBlock turn down
          Flawed,               \* blocks with a bad reward, signature or fee
          Tx, TxSeq,            \* transactions, and per block its vtx
          Spends,               \* per transaction: the ones it spends
          Minted,               \* coinbases and coinstakes
          Irregular,            \* fit for a block, but the pool may refuse them: nonstandard,
                                \* of too low a fee, or free when free ones have had their share
          Checkpoint,           \* height of the last checkpoint (GetTotalBlocksEstimate)
          Rooms,                \* bound: sizes of the orphan pool (-maxorphanblocksmib)
          MaxRestarts           \* bound: stops of the process

Txs(b) == {TxSeq[b][i] : i \in DOMAIN TxSeq[b]}
TxsOf(B) == UNION {Txs(b) : b \in B}

\* What a tree of blocks is.  An inputless transaction is a coinbase: it names the
\* height of its block, so it is in one block of a chain.
ASSUME TreeAssumption ==
    /\ Root \in Block
    /\ Parent \in [Block \ {Root} -> Block]
    /\ Height \in [Block -> Nat] /\ Trust \in [Block -> Nat]
    /\ Chain \in [Block -> SUBSET Block]
    /\ Chain[Root] = {Root}
    /\ \A b \in Block \ {Root} : /\ Chain[b] = Chain[Parent[b]] \cup {b}
                                 /\ b \notin Chain[Parent[b]]
                                 /\ Height[b] = Height[Parent[b]] + 1
                                 /\ Trust[b] > Trust[Parent[b]]
    /\ \A b \in Block : \A a \in Chain[b] : /\ Root \in Chain[a] /\ a \in Chain[a]
                                           /\ Chain[a] \subseteq Chain[b]
                                           /\ Height[a] <= Height[b] /\ Trust[a] <= Trust[b]

ASSUME TxAssumption ==
    /\ TxSeq \in [Block -> Seq(Tx)]
    /\ \A b \in Block : \A i, j \in DOMAIN TxSeq[b] : TxSeq[b][i] = TxSeq[b][j] => i = j
    /\ Spends \in [Tx -> SUBSET Tx] /\ Minted \subseteq Tx /\ Irregular \subseteq Tx
    /\ Kernel \in [Block -> SUBSET Tx]
    /\ \A t \in Txs(Root) : Spends[t] = {}
    /\ \A b \in Block \ {Root} : \A t \in Txs(b) \cap TxsOf(Chain[Parent[b]]) : Spends[t] # {}

ASSUME BoundsAssumption == /\ Refused \subseteq Block /\ Flawed \subseteq Block
                           /\ DOMAIN Stake = Block
                           /\ Rooms \subseteq Nat /\ Rooms # {}
                           /\ Checkpoint \in Nat /\ MaxRestarts \in Nat

VARIABLES diskIndex, diskBest, coins,   \* the database: blocks, hashBestChain, tx index
          index, best, pool,            \* mapBlockIndex, pindexBest, mempool
          orphans, orphanStakes,        \* mapOrphanBlocks, setStakeSeenOrphan
          job, block, queue,            \* ProcessBlock: its stage, the block it is at,
                                        \* vWorkQueue from the entry it is at
          goal, tip, view, revive,      \* SetBestChain and Reorganize: pindexIntermediate,
                                        \* the block reached, the open transaction, vResurrect
          due,                          \* blocks that peers are about to send
          strayed,                      \* a postponed block has failed since the start: the
                                        \* best block in memory may not be the one on disk
          misled,                       \* the database has been written to while strayed
          room, restarts

disk == <<diskIndex, diskBest, coins>>
held == <<orphans, orphanStakes>>
reorg == <<goal, tip, view, revive>>
history == <<strayed, misled>>
vars == <<disk, index, best, pool, held, job, block, queue, reorg, due, history, room, restarts>>

-----------------------------------------------------------------------------
(* The tx index: per transaction of the chain, who has spent it (CTxIndex.vSpent). *)

Spenders(T, t) == {s \in T : t \in Spends[s]}

\* What the tx index must be when b is the best block.
ViewOf(b) == [t \in TxsOf(Chain[b]) |-> Spenders(TxsOf(Chain[b]), t)]

Earlier(b, i) == {TxSeq[b][j] : j \in 1..(i - 1)}

\* ConnectBlock accepts b on top of v: no transaction overwrites one with an output to
\* spend, and each input is in v or earlier in the block, and unspent.
Connectable(v, b) ==
    /\ b \notin Flawed
    /\ \A i \in DOMAIN TxSeq[b] :
          LET t == TxSeq[b][i]
          IN  /\ t \in DOMAIN v => v[t] # {}
              /\ \A u \in Spends[t] :
                    /\ Spenders(Earlier(b, i), u) = {}
                    /\ u \in Earlier(b, i) \/ (u \in DOMAIN v /\ v[u] = {})

\* ConnectBlock: the changes it writes.
Connected(v, b) ==
    [t \in DOMAIN v \cup Txs(b) |->
        IF t \in Txs(b) \/ Spenders(Txs(b), t) # {} THEN Spenders(Txs(b), t) ELSE v[t]]

\* DisconnectBlock: its spends are undone and its transactions erased.
Disconnected(v, b) ==
    [t \in DOMAIN v \ Txs(b) |-> IF Spenders(Txs(b), t) # {} THEN {} ELSE v[t]]

\* Every block of the chain of b connects.
Valid(b) == \A a \in Chain[b] \ {Root} : Connectable(ViewOf(Parent[a]), a)

ValidBlocks == {b \in Block : Valid(b)}

\* Blocks that AcceptBlock accepts whenever they come: each stake of the chain is of an
\* output older than any branch.
Sound == {b \in ValidBlocks : \A a \in Chain[b] : a \notin Refused /\ Kernel[a] \subseteq Txs(Root)}

-----------------------------------------------------------------------------
(* The memory pool *)

Conflicts(T) == {p \in pool \ T : \E t \in T : Spends[p] \cap Spends[t] # {}}

\* remove(tx, fRecursive): P and all that spends from it, within the pool.
WithSpenders(P) ==
    {p \in pool : \A D \in SUBSET pool :
        (P \subseteq D /\ \A q \in pool : Spends[q] \cap D # {} => q \in D) => p \in D}

\* AcceptToMemoryPool takes t, or may if it is irregular.
Poolable(t) == /\ t \notin Minted \cup pool \cup DOMAIN coins
               /\ \A p \in pool : Spends[p] \cap Spends[t] = {}
               /\ \A u \in Spends[t] : IF u \in DOMAIN coins THEN coins[u] = {} ELSE u \in pool

-----------------------------------------------------------------------------

Init == /\ diskIndex = {Root} /\ diskBest = Root /\ coins = ViewOf(Root)
        /\ index = {Root} /\ best = Root /\ pool = {}
        /\ orphans = {} /\ orphanStakes = {}
        /\ job = "idle" /\ block = Root /\ queue = <<>>
        /\ goal = Root /\ tip = Root /\ view = coins /\ revive = <<>>
        /\ due = Block \ {Root}
        /\ strayed = FALSE /\ misled = FALSE
        /\ room \in Rooms
        /\ restarts = 0

-----------------------------------------------------------------------------
(* ProcessBlock *)

\* setStakeSeen: filled by AddToBlockIndex and LoadBlockIndex, never emptied.
StakesSeen == {Stake[b] : b \in diskIndex}

Known(b) == b \in index \cup orphans
Awaited(b) == \E o \in orphans : Parent[o] = b

\* Mutant: a stake seen before is refused in any case.
RepeatsAtAll(b, stakes) == Stake[b] # NoStake /\ Stake[b] \in stakes

\* A stake seen before, and no orphan waits for the block.
Repeats(b, stakes) == Stake[b] # NoStake /\ Stake[b] \in stakes /\ ~Awaited(b)

\* "already have block", "duplicate proof-of-stake"
Refuse(b) == /\ \/ Known(b)
                \/ Repeats(b, StakesSeen)
                \/ Parent[b] \notin index /\ Repeats(b, orphanStakes)
             /\ due' = due \ {b}
             /\ UNCHANGED <<disk, index, best, pool, held, job, block, queue, reorg,
                            history, room, restarts>>

\* PruneOrphanBlocks: random orphans without orphans of their own, while there are
\* more than room.
Pruned(kept) == /\ kept \subseteq orphans
                /\ Cardinality(kept) = IF Cardinality(orphans) > room THEN room
                                                                      ELSE Cardinality(orphans)
                /\ \A o \in kept : Parent[o] \notin orphans \ kept

\* WantedByOrphan: the first ancestor of b that is not held itself.
Wanted(b, held1) == {a \in Chain[b] \ held1 : Chain[b] \ Chain[a] \subseteq held1}

\* The previous block is not there: keep b, and ask for the one that is missing.
Hold(b) == /\ ~Known(b) /\ Parent[b] \notin index
           /\ ~Repeats(b, StakesSeen) /\ ~Repeats(b, orphanStakes)
           /\ \E kept \in SUBSET orphans :
                 /\ Pruned(kept)
                 /\ orphans' = kept \cup {b}
                 /\ orphanStakes' = (orphanStakes \ {Stake[o] : o \in orphans \ kept})
                                       \cup ({Stake[b]} \ {NoStake})
           /\ due' = (due \ {b}) \cup (Wanted(b, orphans') \ {Root})
           /\ UNCHANGED <<disk, index, best, pool, job, block, queue, reorg, history, room, restarts>>

\* The previous block is there: AcceptBlock(b).
Take(b) == /\ ~Known(b) /\ Parent[b] \in index
           /\ ~Repeats(b, StakesSeen)
           /\ job' = "accept" /\ block' = b
           /\ due' = due \ {b}
           /\ UNCHANGED <<disk, index, best, pool, held, queue, reorg, history, room, restarts>>

Receive(b) == /\ job = "idle" /\ b \in due
              /\ Refuse(b) \/ Hold(b) \/ Take(b)

\* Mutant: the orphans of an orphan are left waiting.
ReturnOneGeneration(ok) ==
    /\ queue' = IF ok /\ block \notin orphans THEN Append(queue, block) ELSE queue
    /\ orphans' = orphans \ {block}
    /\ orphanStakes' = IF block \in orphans THEN orphanStakes \ {Stake[block]}
                                            ELSE orphanStakes
    /\ job' = IF queue' = <<>> THEN "idle" ELSE "orphans"

\* AcceptBlock returns.  The orphans of an accepted block are next; the block itself,
\* if it was one of them, is an orphan no more, whatever the answer.
Return(ok) == /\ queue' = IF ok THEN Append(queue, block) ELSE queue
              /\ orphans' = orphans \ {block}
              /\ orphanStakes' = IF block \in orphans THEN orphanStakes \ {Stake[block]}
                                                      ELSE orphanStakes
              /\ job' = IF queue' = <<>> THEN "idle" ELSE "orphans"

\* The loops over vWorkQueue and mapOrphanBlocksByPrev.
NextOrphan == /\ job = "orphans"
              /\ \E o \in orphans : /\ Parent[o] = Head(queue)
                                    /\ block' = o /\ job' = "accept"
              /\ UNCHANGED <<disk, index, best, pool, held, queue, reorg, due, history, room, restarts>>

NextParent == /\ job = "orphans" /\ ~Awaited(Head(queue))
              /\ queue' = Tail(queue)
              /\ job' = IF queue' = <<>> THEN "idle" ELSE "orphans"
              /\ UNCHANGED <<disk, index, best, pool, held, block, reorg, due, history, room, restarts>>

-----------------------------------------------------------------------------
(* AcceptBlock and AddToBlockIndex *)

\* CheckProofOfStake looks the staked output up in the tx index, that of the best chain.
Staked(b) == Kernel[b] \subseteq DOMAIN coins

TurnDown == /\ job = "accept" /\ (block \in Refused \/ ~Staked(block))
            /\ Return(FALSE)
            /\ UNCHANGED <<disk, index, best, pool, block, reorg, due, history, room, restarts>>

\* Mutant: a side chain has to be longer.
HeavierByHeight(a, b) == Height[a] > Height[b]

Heavier(a, b) == Trust[a] > Trust[b]

\* The block enters the index, in memory and in a transaction of its own; SetBestChain
\* follows if it is heavier.
AddToBlockIndex == /\ job = "accept" /\ block \notin Refused /\ Staked(block)
                   /\ index' = index \cup {block}
                   /\ diskIndex' = diskIndex \cup {block}
                   /\ IF Heavier(block, best)
                      THEN job' = "best" /\ UNCHANGED <<held, queue>>
                      ELSE Return(TRUE)
                   /\ UNCHANGED <<diskBest, coins, best, pool, block, reorg, due, history, room, restarts>>

-----------------------------------------------------------------------------
(* SetBestChain and Reorganize *)

\* The database is written to on the strength of the best block in memory.
Mislead == misled' = (misled \/ strayed) /\ UNCHANGED strayed

\* Mutant: the coins of the new best block are written with the next one.
CommitWithoutCoins(b) == diskBest' = b /\ UNCHANGED coins

\* The transaction of SetBestChainInner.
Commit(b) == diskBest' = b /\ coins' = Connected(coins, b)

\* Mutant: the transactions of the new best block stay in the pool.
PoolKeeps(b) == pool

PoolAfter(b) == pool \ Txs(b)

\* The block follows the best one.
Extend == /\ job = "best" /\ Parent[block] = best
          /\ Connectable(coins, block)
          /\ Commit(block)
          /\ pool' = PoolAfter(block)
          /\ job' = "switch"
          /\ Mislead
          /\ UNCHANGED <<diskIndex, index, best, held, block, queue, reorg, due, room, restarts>>

\* Mutant: the failure of the connection is passed over.
ExtendFailsUnnoticed == /\ job = "best" /\ Parent[block] = best
                        /\ ~Connectable(coins, block)
                        /\ job' = "switch"
                        /\ UNCHANGED <<disk, index, best, pool, held, block, queue, reorg, due,
                                       history, room, restarts>>

\* TxnAbort: the block stays in the index.
ExtendFails == /\ job = "best" /\ Parent[block] = best
               /\ ~Connectable(coins, block)
               /\ Return(FALSE)
               /\ UNCHANGED <<disk, index, best, pool, block, reorg, due, history, room, restarts>>

\* pindexIntermediate: the lowest of the ancestors that are heavier than the best block.
StartReorganize == /\ job = "best" /\ Parent[block] # best
                   /\ \E b \in Chain[block] : /\ Trust[b] > Trust[best]
                                             /\ Trust[Parent[b]] <= Trust[best]
                                             /\ goal' = b
                   /\ tip' = best /\ view' = coins /\ revive' = <<>>
                   /\ job' = "reorganize"
                   /\ UNCHANGED <<disk, index, best, pool, held, block, queue, due,
                                  history, room, restarts>>

\* Mutant: the transactions of the disconnected blocks are revived in the wrong order.
RevivedBackwards(b) == revive \o TxSeq[b]

\* vResurrect keeps the order of the chain, and is for blocks after the last checkpoint.
\* (It leaves out the minted transactions, which AcceptToMemoryPool would not take.)
Revived(b) == IF Height[b] > Checkpoint THEN TxSeq[b] \o revive ELSE revive

DisconnectTip == /\ job = "reorganize" /\ tip \notin Chain[goal]
                 /\ view' = Disconnected(view, tip)
                 /\ revive' = Revived(tip)
                 /\ tip' = Parent[tip]
                 /\ UNCHANGED <<disk, index, best, pool, held, job, block, queue, goal, due,
                                history, room, restarts>>

ConnectNext == /\ job = "reorganize" /\ tip \in Chain[goal]
               /\ \E b \in Chain[goal] \ {Root} :
                     /\ Parent[b] = tip
                     /\ Connectable(view, b)
                     /\ view' = Connected(view, b)
                     /\ tip' = b
               /\ UNCHANGED <<disk, index, best, pool, held, job, block, queue, goal, revive,
                              due, history, room, restarts>>

\* Reorganize fails: TxnAbort.
GiveUp == /\ job = "reorganize" /\ tip \in Chain[goal]
          /\ \E b \in Chain[goal] \ {Root} : Parent[b] = tip /\ ~Connectable(view, b)
          /\ Return(FALSE)
          /\ UNCHANGED <<disk, index, best, pool, block, reorg, due, history, room, restarts>>

CommitReorganize == /\ job = "reorganize" /\ tip = goal
                    /\ diskBest' = goal /\ coins' = view
                    /\ job' = "revive"
                    /\ Mislead
                    /\ UNCHANGED <<diskIndex, index, best, pool, held, block, queue, reorg,
                                   due, room, restarts>>

\* AcceptToMemoryPool for each transaction of vResurrect.
Revive == /\ job = "revive" /\ revive # <<>>
          /\ \/ Poolable(Head(revive)) /\ pool' = pool \cup {Head(revive)}
             \/ ~Poolable(Head(revive)) /\ UNCHANGED pool
             \/ Head(revive) \in Irregular /\ UNCHANGED pool
          /\ revive' = Tail(revive)
          /\ UNCHANGED <<disk, index, best, held, job, block, queue, goal, tip, view, due,
                         history, room, restarts>>

\* The transactions of the connected blocks, and those in conflict with them, leave the
\* pool (vDelete).
ClearPool == /\ job = "revive" /\ revive = <<>>
             /\ LET new == TxsOf(Chain[goal] \ Chain[best])
                IN  pool' = pool \ (new \cup WithSpenders(Conflicts(new)))
             /\ job' = "extend"
             /\ UNCHANGED <<disk, index, best, held, block, queue, reorg, due, history, room, restarts>>

\* The postponed blocks, each in a transaction of its own.  A block that fails ends the
\* loop ("errors now are not fatal"), and the switch to the new best block follows all
\* the same, in memory only.
ExtendPostponed == /\ job = "extend" /\ tip # block
                   /\ \E b \in Chain[block] \ {Root} :
                         /\ Parent[b] = tip
                         /\ IF Connectable(coins, b)
                            THEN /\ Commit(b)
                                 /\ pool' = PoolAfter(b)
                                 /\ tip' = b
                                 /\ Mislead
                                 /\ UNCHANGED job
                            ELSE /\ job' = "switch"
                                 /\ strayed' = TRUE
                                 /\ UNCHANGED <<diskBest, coins, pool, tip, misled>>
                   /\ UNCHANGED <<diskIndex, index, best, held, block, queue, goal, view,
                                  revive, due, room, restarts>>

\* hashBestChain and pindexBest change, and AcceptBlock succeeds.
SwitchBest == /\ job = "switch" \/ (job = "extend" /\ tip = block)
              /\ best' = block
              /\ Return(TRUE)
              /\ UNCHANGED <<disk, index, pool, block, reorg, due, history, room, restarts>>

-----------------------------------------------------------------------------

\* A transaction from a peer or from the wallet.
ReceiveTx(t) == /\ job = "idle"
                /\ Poolable(t)
                /\ pool' = pool \cup {t}
                /\ UNCHANGED <<disk, index, best, held, job, block, queue, reorg, due, history, room,
                               restarts>>

\* LoadBlockIndex: the blocks above the best one leave the index and become orphans.
LoadBlockIndex == LET above == {b \in diskIndex : Height[b] > Height[diskBest]}
                  IN  /\ index' = diskIndex \ above
                      /\ orphans' = above
                      /\ orphanStakes' = {Stake[b] : b \in above} \ {NoStake}
                      /\ best' = diskBest

\* The process stops, whatever it is at, and starts again; what was only in memory is
\* gone, and the peers offer their blocks anew.
Restart == /\ restarts < MaxRestarts
           /\ restarts' = restarts + 1
           /\ LoadBlockIndex
           /\ pool' = {}
           /\ job' = "idle" /\ block' = Root /\ queue' = <<>>
           /\ goal' = Root /\ tip' = Root /\ view' = coins /\ revive' = <<>>
           /\ due' = Block \ {Root}
           /\ strayed' = FALSE
           /\ UNCHANGED <<disk, misled, room>>

Work == \/ NextOrphan \/ NextParent \/ TurnDown \/ AddToBlockIndex
        \/ Extend \/ ExtendFails \/ StartReorganize \/ DisconnectTip \/ ConnectNext \/ GiveUp
        \/ CommitReorganize \/ Revive \/ ClearPool \/ ExtendPostponed \/ SwitchBest

Next == \/ Work
        \/ \E b \in due : Receive(b)
        \/ \E t \in Tx : ReceiveTx(t)
        \/ Restart

Spec == Init /\ [][Next]_vars

\* The thread that holds cs_main goes on, and of the blocks that peers are about to send
\* one arrives.
Fairness == WF_vars(Work \/ \E b \in due : Receive(b))

FairSpec == Spec /\ Fairness

-----------------------------------------------------------------------------

\* Types of memory, database and work in progress.
TypeOK == /\ diskIndex \subseteq Block /\ diskBest \in diskIndex
          /\ index \subseteq diskIndex /\ best \in index
          /\ pool \subseteq Tx \ Minted
          /\ orphans \subseteq Block \ {Root}
          /\ orphans \cap index \subseteq IF job \in {"idle", "orphans"} THEN {} ELSE {block}
          /\ job \in {"idle", "accept", "orphans", "best", "reorganize", "revive", "extend",
                      "switch"}
          /\ block \in Block /\ goal \in Block /\ tip \in Block
          /\ queue \in Seq(index) /\ revive \in Seq(Tx)
          /\ due \subseteq Block \ {Root}
          /\ strayed \in BOOLEAN /\ misled \in BOOLEAN
          /\ room \in Rooms /\ restarts \in 0..MaxRestarts

\* Between two blocks the best block in memory is the one in the database, whatever
\* failed or stopped on the way (SetBestChain sets the one after the other): only a
\* postponed block that fails parts the two, until the process starts again.
MemoryFollowsDisk == job \in {"idle", "orphans", "accept"} => best = diskBest \/ strayed

\* As long as the process does not stop, no block in the index whose chain connects is
\* heavier than the best one: no branch is forgotten, although a branch is looked at only
\* when its last block arrives.
HeaviestKept == restarts = 0 /\ job \in {"idle", "orphans"}
                   => \A b \in index : Valid(b) => Trust[b] <= Trust[best]

\* No two transactions in the pool spend the same output, and none is in the chain,
\* although reorganisations put transactions back.
PoolConsistent == /\ \A p, q \in pool : p # q => Spends[p] \cap Spends[q] = {}
                  /\ job \in {"idle", "orphans"} => pool \cap DOMAIN coins = {}

\* An input that t cannot have: spent in the chain or in the pool, or unknown.
Lacks(t) == \E u \in Spends[t] :
               \/ u \in DOMAIN coins /\ coins[u] # {}
               \/ \E p \in pool \ {t} : u \in Spends[p]
               \/ u \notin pool \cup DOMAIN coins

\* A reorganisation loses no transaction of the blocks it disconnects: once the pool has
\* been brought up to date, each is in the new chain, in the pool, or can be in neither.
\* The exceptions: a database written to while memory had strayed from it, blocks up to
\* the last checkpoint, transactions the pool does not have to take, and one that was kept
\* out by a transaction of the pool which then had to leave itself: SetBestChainInner does
\* not remove what conflicts with its block, so the pool may hold a second spender of an
\* output that the old chain has spent.
NoTxLost == [][job = "revive" /\ job' = "extend" /\ ~misled =>
                  \A t \in TxsOf({b \in Chain[best] \ Chain[goal] : Height[b] > Checkpoint})
                              \ (Minted \cup Irregular) :
                     \/ t \in pool' \cup DOMAIN coins'
                     \/ Lacks(t)'
                     \/ \E p \in (pool \ pool') \ {t} : Spends[p] \cap Spends[t] # {}]_vars

\* Blocks that wait for others fill the orphan pool no further than one above its size,
\* as long as LoadBlockIndex adds none.
OrphansBounded == restarts = 0 => Cardinality(orphans) <= room + 1

\* What the database holds is at any time a best chain and its coins, across stops of the
\* process at any point: only heavier chains that connect replace it, unless the best
\* block in memory has strayed from the one on disk when it is written to.
Best == INSTANCE BestChain WITH best <- diskBest, Connecting <- ValidBlocks,
                                CoinsOf <- [b \in Block |-> ViewOf(b)]

ImplementsBestChain == Best!Init /\ [][Best!Next \/ misled']_<<diskBest, coins>>

\* A stake of its own: no other block has it.
OwnStake(b) == Stake[b] = NoStake \/ \A a \in Block \ {b} : Stake[a] # Stake[b]

\* With room for every orphan, and as long as it does not stop, the node arrives at a
\* chain as heavy as any it accepts, whatever the order the blocks come in; blocks that
\* repeat a stake are refused at first and asked for again once a child of theirs waits.
Converges == \A b \in {a \in Sound \ {Root} : OwnStake(a)} :
    room >= Cardinality(Block) ~> (restarts > 0 \/ Trust[best] >= Trust[b])

\* An orphan whose chain connects waits for a block that is missing ("shunt it off to
\* holding area until we get it"): ProcessBlock leaves none behind, however many wait for
\* each other.  LoadBlockIndex does: an orphan it makes waits for one that is there.
OrphansWait == restarts = 0 /\ job = "idle"
                  => \A o \in orphans : Valid(o) => Parent[o] \notin index
=============================================================================
