# Formal models of okcash

TLA+ models of the parts of this repository that keep state across awaits,
processes and restarts, the TLC configurations that check them on small
instances, and TLAPS proofs of what matters most of them for all instances.
Paths are relative to the root of the repository; `core`, `adapter-...`,
`client-...` and `plugin-...` stand for `okai/packages/...`.

## The repository

| part | what it is | state | here |
|---|---|---|---|
| `core` | the agent framework: runtime, memory, knowledge, cache, model calls, database interface with its circuit breaker | breaker fields, memory tables, cache | breaker, connections, knowledge |
| `adapter-postgres` | the database adapter: pool, retry loop, circuit breaker around every query | tables, pool | by kind of operation |
| `adapter-{sqlite,sqljs,supabase}` | the same interface without the retry loop | tables | not modelled |
| `client-twitter` | polling for mentions, own tweets, actions on the timeline, paced requests | request queue, last checked id, timers, flags | modelled |
| `client-discord` | text and voice | interests, audio buffers, one timer, one player | voice |
| `client-{telegram,slack,farcaster,lens,github,direct,auto}` | event handlers, or variants of the Twitter loops | interests | not modelled |
| `plugin-node` | services: local model, transcription, video, image, browser, speech | a queue and a flag each, lazily built instances | local model |
| `plugin-bootstrap` | follow and mute a room, continue, evaluators | participant's user state | not modelled |
| `plugin-*` (chains, exchanges) | calls of external SDKs | outside the program | not modelled |
| `okai/agent` | start-up: character files, wiring | none of its own | not modelled |
| token contracts | published libraries | balances, owner | not modelled |
| `okai-s` | a single-page chat application | what is on the screen | not modelled |
| `oktools/old-native` | the node and wallet of the coin's own chain, in C++ | block index, best block, transaction index, memory pool, orphans | taking in blocks |

Two programs carry the core logic: the agent framework, and the node that keeps
the block chain. How the parts of the agent meet:

```
 Twitter loops ----> runtime.ensureConnection ----> adapter (withDatabase)
  mentions  (timer)       |                            circuit breaker
  posts     (two timers)  v                              retry loop
  actions   (loop)     MemoryManager.createMemory ------>  query ---> PostgreSQL
      |                     ^
      |                     |
      |      Discord voice -+-> model (LlamaService)
      +---> RequestQueue ---> Twitter
```

An agent is one JavaScript thread: code between two awaits is one step, and every
await lets any other loop, timer or call run. Processes crash and are restarted;
several may share a database. What is hard is what is read before an await and
used after it: whether a memory exists, when the last tweet was sent, whether a
room is there, in which state the breaker was when a call was let through, which
sequence a completion runs on, whose timer is running.

The node handles one block at a time under a lock, but in several database
transactions with memory changes in between, and may stop between any two of
them. Blocks come in any order; what was passed over, failed or was held back
earlier has to be right when a later block makes it matter.

## The modules

| module | models | state and actions |
|---|---|---|
| `BreakerContract` | what `core/src/database.ts` documents of the breaker | abstract: mode, quiet time, evidence, calls in flight |
| `CircuitBreaker` | `core/src/database/CircuitBreaker.ts` | `state`, `failureCount`, `halfOpenSuccesses` as in the class; `lastFailureTime` as its saturated age. `Admit`/`Reject` are `execute` up to its await, `Succeed`/`Fail` what follows |
| `DatabaseGuard` | `withDatabase`, `withRetry` of `adapter-postgres/src/index.ts` | instantiates `CircuitBreaker`; per task the kind of operation, where it is, attempts of the two nested loops, rows stored |
| `SerialQueue` | what callers expect of a request queue | abstract: waiting, serving, answers |
| `RequestQueue` | `RequestQueue` of `client-twitter/src/base.ts` | `queue`, `processing`; where `processQueue` stands; `Add`, `Settle`, `Wake` |
| `TwitterInteractions` | `client-twitter/src/interactions.ts`, `init` and the last checked id of `base.ts`, the thread builder of `utils.ts`, `ensureRoomExists`, `MemoryManager.createMemory` | durable: tweets, replies, memories, rooms, cached id. Per poll: its await, candidates left, tweet. One action per await |
| `TwitterPosts` | the schedule of `client-twitter/src/post.ts` | per loop: read, post, store, sleep; ages instead of clock values |
| `TwitterActions`, with `Timeline` | `processActionsLoop`, `processTweetActions` of `post.ts` | memories and what was sent per tweet (`Timeline`: what outlives the process), `isProcessing`, rest of the timeline, actions left |
| `Connection` | `ensureConnection` and what it calls in `core/src/runtime.ts`, the tables' keys | three tables; per call five operations, each a read then an insert |
| `Knowledge`, with `KnowledgeState` | `processCharacterKnowledge` of `runtime.ts`, `set` of `knowledge.ts`, `createMemory` | rows by owner; per agent the item and row it is at |
| `LlamaService` | `plugin-node/src/services/llama.ts` | the model's file and who writes it; per call its await; `messageQueue`, the completion under way, what the sequence still holds |
| `VoiceManager` | `client-discord/src/voice.ts` | per user: speech, monitor, `buffers`; `transcriptionTimeout`, `processingVoice`, the player, transcriptions and answers under way |
| `BestChain` | what a node promises: a best block whose chain connects, and its coins | abstract: best, coins |
| `BlockChain` | `ProcessBlock`, `AcceptBlock`, `AddToBlockIndex`, `SetBestChain`, `Reorganize`, `ConnectBlock`, `DisconnectBlock`, orphans and `AcceptToMemoryPool` of `oktools/old-native/src/main.cpp`, `txmempool.cpp`, `LoadBlockIndex` of `txdb-leveldb.cpp` | the database (index, best block, transaction index), the memory (index, best block, pool, orphans), the stage of `ProcessBlock` |
| `LlamaServiceProofs`, `VoiceManagerProofs`, `RequestQueueProofs`, `TwitterInteractionsProofs`, `BlockChainProofs` | - | proofs about the module of that name |
| `DatabaseProofs` | - | proofs about `DatabaseGuard`, and about `CircuitBreaker` on its own (`CB!`) |
| `TwitterPostProofs` | - | proofs about the two halves of `post.ts`: `TwitterPosts`, and `TwitterActions` (`A!`) |
| `RuntimeProofs` | - | proofs about the two parts of `runtime.ts`: `Connection`, and `Knowledge` (`K!`) |
| `MC...` | the instances TLC checks | constants |

`DatabaseGuard` composes with `CircuitBreaker` by `INSTANCE`: both frames of a
nested operation (createMemory runs a similarity search through `withDatabase`
inside its own) are calls of one breaker. `CircuitBreaker` implements
`BreakerContract`, and so does `DatabaseGuard` around it, where a call and the call it
makes before it waits enter together. `RequestQueue` and `LlamaService` implement `SerialQueue` (the one
serves the next request after a pause, the other in the step that answers),
`BlockChain` implements `BestChain`. The modules above the agent's database take single queries
as steps that answer or throw; `DatabaseGuard` shows that they do one or the other.

A definition commented `Mutant:` is not part of a model: it is the definition
that follows it, with a plausible error, and the property it breaks is named in
`PROJECT.json`.

### Abstractions worth knowing

- *Time.* The breaker and the posting loops compare ages with constants; ages are
  kept and saturated one past the largest value compared with. In
  `TwitterPosts`, timers fire on time and posting takes `PostTime`.
- *Search.* A search for mentions returns the latest `SearchCount` (20 in the code), or
  nothing when it fails. With more mentions than that between two polls the program
  passes over the oldest: `leftOut` remembers these, and `CheckedAreRecorded` and
  `EveryMentionConsidered` except them and no others. Selecting target users is left out.
- *The hosted model* answers in the end: its retries are unbounded in the code.
- *User names.* `post.ts` reads `lastPost` under the configured name and writes it
  under the name Twitter reports; they are taken to be spelt alike.
- *Likes and retweets* are handled alike and Twitter ignores repetitions, so
  `TwitterActions` has one of them. The order of the timeline is arbitrary.
- *Database.* A query throws while the database is away, when it meets its own row, and
  at any time because the database refuses it (another caller's row, a missing foreign
  key, an embedding of the wrong dimension).
- *Connection.* Rows are not deleted. Besides what keys refuse, any query of an
  `Unlucky` call may fail, an INSERT before or after its row is stored: `createAccount`
  and `addParticipant` then return `false` (`Lose`), the others throw (`Throw`).
- *LlamaService.* The file at `modelPath` is absent, partial or whole. A stream on a
  deleted file writes on to a file without a name; two streams on one file leave
  either. deleteModel may throw (`DeletionFails`). Ollama variants and embeddings keep no
  state here.
- *VoiceManager.* Members are cached, so that the end of speech is never handled
  before its start; of several monitors of one stream only the latest is modelled;
  streams do not end. Loudness is an arbitrary `Loud`. Nobody hears a user's first
  utterance, as its stream has no data when it is subscribed to.
- *BlockChain, transactions.* A transaction has one output, so it is spent as a whole;
  signatures, rewards and fees are a set of blocks that fail (`Flawed`), the checks of
  `AcceptBlock` another (`Refused`), except for the one that depends on the best chain:
  the output a block stakes (`Kernel`) must be in the transaction index. (CheckSync
  compares heights with a checkpoint and is part of `Refused`.) Disconnecting, connecting
  and committing are as the code orders them.
- *BlockChain, pool.* Inputs and conflicts decide what the pool takes. What else
  AcceptToMemoryPool asks, and a block does not (standard form, fees, its share of free
  transactions), is a set it may refuse or take (`Irregular`). Maturity of minted outputs
  is taken to be given. Reorganize revives nothing up to the last checkpoint
  (`Checkpoint`).
- *BlockChain, trees.* Chains (`Chain`) and threads of tweets (`Ancestors`) are
  constants with assumptions that characterise them, as the prover has no induction
  over data.
- *BlockChain, storage.* A leveldb batch is all or nothing and survives the stop of
  the process (not of the machine). Disk errors are left out.
- *BlockChain, peers.* A peer sends each block once, and again what the node asks for
  directly (`AskFor` of the block an orphan wants); the answer to `getblocks` is not
  relied on. The node is past its initial download; the order in which the orphans of
  a block are taken is arbitrary.
- *BlockChain, what has gone wrong.* Bad blocks and stops come together. In the one case
  in which SetBestChain switches to a block that does not connect, `strayed` is set until
  the next start, and `misled` once the database is written to meanwhile (see "Behaviour
  a reader may not expect"); no guard reads them, and the properties that name them
  except these histories only.

## What the runs check

One passing run per component, with all of its properties under its fairness, and one
run marked (x), which reaches a state a comment of the repository says there is not.

| run | instance | shows |
|---|---|---|
| CircuitBreaker | 3 callers, threshold 2, quota 2, outages | `BreakerContract` is implemented; the breaker recovers once the service stays up |
| DatabaseGuard | 2 tasks, 2 attempts, threshold 2, outages, refusals, lost answers | acknowledged writes are stored, keyed ones once; every promise settles; guard and breaker together implement `BreakerContract`; the breaker is tripped exactly at its threshold, and closes for good once the database stays up and refuses nothing |
| RequestQueue | 4 requests, each may fail | a pause after each request; serial, first come first served; everyone answered |
| TwitterInteractions | 3 tweets (one the agent's own) and a page of 2, 2 polls, 1 crash, database may throw | a mention is answered once while polls do not overlap, the agent's own never; recorded before anything is said; the last checked id never ahead of the memories but for what a page left out; every other mention put to the agent unless something fails |
| InteractionsTwice (x) | 2 polls, nothing fails | two answers to one mention |
| TwitterPosts | intervals 2..3, posting takes 1, with and without an immediate tweet, failures, refused reads, 2 crashes | never three tweets within the shortest interval unless a record was lost; silence bounded by twice the longest interval plus posting time while nothing fails; keeps tweeting, unless refused reads end both loops |
| TwitterActions | 2 tweets, outages, 2 crashes | a tweet is quoted and answered at most once; an empty quote does not starve the rest of the timeline |
| Connection | 2 calls, 1 user, 1 room, 1 restart or failing query of one of the calls | a call that resolves has all its rows, except those an error of its own lost unnoticed; a user who keeps writing is connected |
| Knowledge | 2 agents, 2 items of 2 fragments, failures, 2 crashes | rows of an item form a prefix; an item with rows missing is only passed over by the agent that stored its document; every agent gets ready |
| BlockChain | 8 blocks in 3 branches with shared stakes and double spends, room for 1 orphan or for all, 2 stops | memory follows the database until a postponed block fails; no branch and no orphan is forgotten, and no transaction lost that the pool must take, but for a second spender there; the pool stays consistent; `BestChain` is implemented until the database is written to on the strength of a strayed memory; the heaviest chain is reached |
| LlamaService | 3 calls, file absent, partial or whole, and not always deletable | `SerialQueue` is implemented; completions one at a time and undisturbed; no answered text left in the sequence; every call settles |
| VoiceManager | 2 users who speak 3 times and 2, 2 answers under way | one conversation, one voice; speech in order and once; a user alone in speaking is heard |

*Bounds.* Slots for calls, tasks and polls are reused, so sequences are unbounded
where no counter is. Each hazard needs two actors that overlap (three in the
breaker: a late call and two probes; three in `LlamaService`: one completed, one
waiting, one that still initialises), and one or two crashes: the first leaves a
state behind that the second start meets. `MaxFailures` caps `failureCount` above the
only value it is compared with. Intervals of 2 and 3 units are the smallest with a
choice of delay, and let one tick fall between two tweets that are too close. The
tree of `MCBlockChain` is chosen for its cases: a lower branch that is heavier, a
reorganisation with blocks postponed, one of which may fail after a stop and lead memory
astray, one that revives a chain of two transactions, blocks with one stake on two
branches, a block whose stake only one branch has, a transaction the pool need not take;
the module's comment names them. `Connection` has one fault: what it leaves behind meets
a second call, or the constructor. A room of 1 makes the third orphan prune, a
room of 9 never. The three utterances are one nobody hears, one that starts the timer
and one that meets it; `MaxUnderWay` of 2 is one answer interrupted by the next.
Tweets, requests, rows, blocks and calls are finite inputs, and a run in which they are
used up may stop: the Interactions, RequestQueue, Knowledge, BlockChain and
LlamaService configurations say `CHECK_DEADLOCK FALSE`; everywhere else deadlock is
checked.

*History.* Some properties hold only of histories without a given event, and a
variable that no guard reads remembers it: `overlapped` (two polls, or two
initialisations of the model, at once), `faulted` (a crash or a database error),
`failed` (the same since the process started), `blind` (a tweet was sent in ignorance
of the one before: its record was lost or not read, or the process starts with an
immediate tweet soon after the last), `interrupted` (somebody spoke up while an answer
was under way), `leftOut` (mentions a full page had no room for), `strayed` and `misled`
(above), and in `Connection` the step `lost` (an error nobody noticed). `ages` and `quiet` measure what is on Twitter, `fed` what has been
transcribed. In `BlockChain`, `restarts` serves the same end: `HeaviestKept`,
`OrphansWait` and `Converges` are of a node that does not stop.

*Fairness.* Weak fairness of steps that continue after an await says that queries,
requests and timers settle: the drivers have time-outs, and Node fires timers.
Starting the process is weakly fair (it is run under a supervisor), with whichever
settings. Strong fairness is used where the environment may fail again and again but
not for ever: a search that returns the mentions (`Search(p, Latest)`), a tweet that
Twitter accepts (`Send`), a read the breaker lets through (`Iterate`), an embedding that is computed and stored (`Store`), a user
who keeps writing (`Connect`), opening, downloading and loading the model. In
`BlockChain` one weak fairness condition suffices: the thread that holds the lock goes
on, and some block that peers are about to send arrives. In `VoiceManager`, nobody speaks for ever,
timers fire and what is awaited settles. No fairness is assumed of crashes, failures,
outages, interruptions or new speech; `Recovery` and `EveryTweetRecorded` are
conditional on the services staying up, and the guard's recovery (`Settles`) also on the
database refusing nothing any more.

## What is proved

| module | theorems | argument |
|---|---|---|
| `DatabaseProofs`, the breaker | `BreakerTypeCorrect`, `BreakerTrippedExactly`, `QuotaReachable`, `ReopensOnFailure`, `Refinement` | `CallsInv` is the conjunction of the type invariant and the two safety invariants. `TrippedIffThreshold` is what makes a single failure re-open a half-open breaker (`handleFailure` compares the count, not the state), hence the refinement |
| `DatabaseProofs`, the guard | `TypeCorrect`, `WritesAreStored`, `KeysStoredOnce`, `TrippedExactly`, `GuardKeepsContract` | `IInv` is the breaker's invariant and, per task, that the rows it has stored are bounded by the attempts it has made, that only nested operations search and that only a lookup ends after its search. The refinement goes by frames: where a task stands decides which of its two frames are in flight (`InFlightAfter`), so a step lets frames in, settles one or leaves all as they are (`FramesEnter`, `OuterLeaves`, `InnerLeaves`, `SameFrames`), and each of these is one step of the contract or none |
| `RequestQueueProofs` | `TypeCorrect`, `WakeupNeverLost`, `AlwaysPaced`, `ServesInOrder`, `NobodyOvertakes`, `SettledForGood` | `IInv` adds to the types that flag, loop, queue and awaited request agree; without it the loop could be started twice and neither pacing nor order would follow. `OnceInv`: a request waits once, and neither while it is sent nor after it is settled; hence what `SerialQueue` lets callers conclude |
| `TwitterInteractionsProofs` | `TypeCorrect`, `OneAnswerInTurn`, `RecordedBeforeSaid`, `NeverAnswersItself`, `NothingPassedOver` | `PollInv`: past the INSERT, the tweet a poll holds is recorded; past the filter, it is another's; and, while polls do not overlap, what it has found unrecorded is unanswered. `Page`: everything not above the tweet a poll holds is recorded or still in its hands, and what it puts off is newer, or was left out by a full page; hence the last checked id, whoever sets it, is safe, for any `SearchCount` |
| `TwitterPostProofs`, the scheduler | `TypeCorrect`, `NeverQuietForLong`, `NeverThreeAtOnce` | see below |
| `TwitterPostProofs`, the actions | `ActionsTypeCorrect`, `NothingSaidTwice` | the invariant relates what has been said to the memories and to the plan: a tweet something was said of is recorded, so no later pass takes it up, and what is still planned for the current tweet has not been said of it |
| `RuntimeProofs`, connections | `TypeCorrect`, `ResolvedIsPresent` | `CallInv`: an operation that has returned left its row behind unless it lost it unnoticed, and participations are looked at only after both accounts and the room have returned, so that their foreign keys hold unless an account was lost |
| `RuntimeProofs`, knowledge | `KnowledgeTypeCorrect`, `PrefixAlways`, `GapsAreOwnAlways`, `TwoAgentsKnowAll` | the invariant adds that an agent about to look for or insert a row finds all earlier rows of the item (`EarlierRowsThere`): so at the last row the item is complete, and an agent gets past an item in no other way unless its own document is there. A row is inserted once and stays, so what one agent may pass over the steps of others leave so |
| `LlamaServiceProofs` | `TypeCorrect`, `NeverDisturbed`, `NothingLeaks`, `ServesInOrder`, `NobodyOvertakes`, `SettledForGood` | `QueueInv`: the calls whose promise is open are those that wait, each once, and the one that is completed, and none waits while nothing runs; so every step of `processQueue` is one of `SerialQueue`, in which nobody overtakes and no promise is settled again. `ModelInv`: nothing is queued before there is a model, and while no two initialisations have met, a call that initialises is alone and finds no model; so none can replace the sequence of a completion |
| `VoiceManagerProofs` | `TypeCorrect`, `OneAtATime`, `NeverTwoVoices`, `TranscribedInOrder` | `OneConversation` and `OneVoice` are inductive once typed. `HeardInv`: what a user has had transcribed, then its buffers, then what it says now, is in rising order; while it speaks the monitor holds that utterance and no older one |
| `BlockChainProofs` | `TypeCorrect`, `MemoryIsDisk`, `KeepsHeaviest`, `PoolStaysConsistent`, `NoOrphanLeft`, `ReorganizeLosesNone`, `OrphansStayFew`, `DatabaseImplementsBestChain` | see below |

`BlockChainProofs`, for any tree of blocks and any transactions. The transaction
index is never compared with anything in the code; it is changed by each block
connected and disconnected. The proof shows that it is nonetheless the replay of the
best chain (`ViewOf`): connecting extends the replay, and disconnecting undoes it
exactly, because a block that connects repeats no unspent transaction of its chain and
a coinbase names its height, so no transaction is in a chain twice (`NoRepeat`). Hence
the open transaction of a reorganisation is the replay up to the block it has
reached, and `DatabaseImplementsBestChain` follows. That memory follows the database
needs more: a block postponed by `SetBestChain` may fail only if a heavier branch that
connects was left in the index, which `HeaviestKept` excludes as long as the process
does not stop. So the two are one inductive invariant: while the process has not
stopped, memory cannot stray (`OnceStopped`), and while it has not strayed, every commit is
one on top of the chain on disk, so that the replay breaks off only once `misled`.
`NoOrphanLeft` rests on `OrphansServed`: an orphan that could be connected has its parent
in the work queue or at hand, for a parent that fails makes it an orphan that cannot.
`PoolStaysConsistent` does not rest on the replay, so it holds of a misled node as well:
what a step adds to the chain is named (`Arriving`) and leaves the pool.
`ReorganizeLosesNone` rests on the order of `vResurrect`: what has been disconnected above
the checkpoint (`Revivable`) spends only what comes before it (`SpendsEarlier`), or what
is below, so what is turned away for an unknown input stays without it (`Accounted`); and
what leaves the pool at the end conflicts with the chain, or spends what does.

`TwitterPostProofs`, for any interval and any time a post takes. *Silence*
(`QuietInv`): while nothing fails, a loop that posts or sleeps does so for at most the
time it has left, and the silence so far and that time stay within the bound; a loop
that passes over its moment does so because of a post recorded less than its delay
ago. The bound needs no relation between the two loops: each alone keeps it. *Bursts*
(`BurstInv`): while nothing is lost, every tweet sent since `lastPost` was written is one
that a thread has still to write. There are two loops, and each looked at a record older
than the shortest delay before it posted; so when one thread is about to send, the
tweet before the last is old, and when two are, so is the last. No timer enters the
argument, so it holds however long posts take.

Where a component has no proof module of its own, its theorems are stated of an
`INSTANCE` of it with the same constants and variables. Those of `Knowledge` and
`TwitterActions` come with `KnowledgeState` and `Timeline`, where the properties of the
two stand as well; those of `CircuitBreaker` are declared with the proofs.

The assumptions are the named `ASSUME`s of the modules, as weak as the code
allows (a threshold of at least one, a set of requests without `None`, what a tree of
blocks is), and TLC evaluates them in every run. The theorems hold for any number of
callers, requests, tweets, agents and blocks, and any thresholds.

Some properties are proved and in no run, which checks others of the same module:
most type invariants, `HalfOpenBelowQuota` and `FailureReopens` of the breaker,
`NoLostWakeup` of the queue, `FirstComeFirstServed` and `AnswersStand` of what implements
`SerialQueue`, `OrphansBounded` of the node.

Only model-checked: liveness (`Recovery`, `Settles`, `Answered`, `EveryMentionConsidered`,
`KeepsTweeting`, `EveryTweetRecorded`, `EveryoneConnects`, `AgentsStart`, `Converges`,
`LoneSpeakerHeard`), which needs fairness and ENABLED, out of the prover's reach. Every
invariant and every refinement the runs check is proved.

## Findings

`InteractionsTwice`: overlapping polls answer a mention twice, although the code says
it checks "if we've already processed this tweet"
(`client-twitter/src/interactions.ts:99`, `:239`).

### Behaviour a reader may not expect

It is in the models, and no run is about it.

- *Breaker.* An operation that swallows its error counts as a success, and may close the
  breaker; the retry loop goes on while it is OPEN. `failureCount` is not reset while
  CLOSED (`CircuitBreaker.ts:38`): a few errors of a database that is up, such as the
  second of two `createRoom`, open the breaker, however far apart they are.
- *Twitter.* `start()` runs two posting loops, which may post at once although
  `.env.example` gives an interval between posts (`post.ts:188`). An empty quote ends the
  whole pass, and the next starts without the usual pause (`post.ts:574`). While the
  breaker is OPEN it refuses `getCache` outside its try (`adapter-postgres/src/index.ts:1344`),
  and the iteration of a posting loop rejects before its timer is set (`post.ts:111`,
  `:133`): the process ends, or that loop is over where rejections are listened for. A mention
  stored at start-up, or before a crash, counts as processed and is not answered.
- *Connections.* `createRoom` rejects `ensureConnection` when another call has just made
  the room; the constructor's participation may be refused because its account or room
  is not there yet, and the agent is then left out of its own room. After an error of
  `createAccount` or `addParticipant` (`adapter-postgres/src/index.ts:385`, `:1180`) the
  call resolves with rows missing; the next message makes it good.
- *Knowledge.* An embedding that fails after its document is stored is never made again,
  for the next start finds the document (`runtime.ts:441`); another agent with the same
  knowledge, which does not see that document as its own, fills the gap. Rows inserted by one agent
  are found by another that has the same knowledge and belong to the first.
- *Local model.* First calls that initialise side by side delete each other's
  downloads, possibly for ever, and replace the sequence of a completion: `Settles` and
  `Undisturbed` except them. A completion without an answer leaves its tokens in
  the sequence of the next.
- *Voice.* What a user has said waits for it to speak again when another starts, and is
  dropped when another is answered. After an interruption the first answer may still be
  spoken, and its end clears the flag of the second.
- *Node.* After a stop between the commit of an index entry and that of the best chain,
  `LoadBlockIndex` makes orphans of the blocks above the best one although their
  parents are in the index; they wait until another block connects to that parent. If
  later a block fails that stands on such a branch, `SetBestChain` has reorganised to the
  branch, breaks off, and makes the failed block the best one in memory all the same
  (`main.cpp:2955`, "errors now are not fatal"). A block that follows it is then connected
  to the coins of another, and the chain of the best block in the database has a block
  that does not connect; the run reaches this (`misled`). Blocks that fail stay in the
  index. What the pool does not have to take (nonstandard, free, cheap), or lies below the
  last checkpoint, is lost in a reorganisation (`main.cpp:943`, `:987`, `:1020`, `:2815`). A
  transaction of the pool that a new block makes a second spender stays there
  (`main.cpp:2889`); if a reorganisation then revives the first, it is turned away, and
  both are gone if the second conflicts with the new chain (`NoTxLost` excepts it).

## Hazards no property covers

`PROJECT.json` lists the hazards with their lines and properties. Further ones:

- `handlePoolError` replaces the pool while other calls hold its clients
  (`adapter-postgres/src/index.ts:157`): to the operations it looks like an outage.
- Tweet ids are compared with parseInt, beyond 2^53, in one place and as BigInt in
  another (`interactions.ts:159`); ids are exact in the model.
- `CacheManager.get` deletes an expired entry without awaiting (`core/src/cache.ts:110`),
  so a set in between is lost; no caller is promised that an entry stays.
- The video service processes each request twice at once (`video.ts:108`), takes an
  unfinished mp3 for whole (`:324`) and gives all URLs but YouTube's one key (`:145`).
- Two first callers of `initializeBrowser` launch two browsers (`browser.ts:89`).
- `generateTweetActions` retries without limit (`core/src/generation.ts:1657`).
- In `voice.ts`, the start of speech of a member that is not cached may be handled after
  its end (`:309`), and `activeMonitors` is never filled (`:459`).
- A transcription that Deepgram refuses rejects `processQueue`, which nobody awaits, with
  `processing` up (`transcription.ts:201`); a video that cannot be fetched likewise
  (`video.ts:129`).
- The voice monitor's `while (currentSize > this.maxSize)` does not update `currentSize`: once
  a user has spoken ten megabytes without a pause the loop never ends (`voice.ts:80`).
- In `main.cpp`, orphans with one stake share an entry of `setStakeSeenOrphan` (`:3749`).

## Not modelled

- *Cache manager, transcription, video and image queues, browser*: the queues have no
  error path, so what can be claimed of them holds only while nothing fails.
- *Discord text messages, Telegram*: interest bookkeeping and team coordination in
  handlers of single messages; their decisions depend on wording and scores.
- *Other clients, other adapters, bootstrap, start-up*: variants of what is modelled,
  single database calls, or wiring without state.
- *Chain plug-ins, token contracts*: external SDKs and published libraries.
- *The rest of the legacy node*: initial download, header-only nodes, anonymous
  transactions, the making of stakes, keys and network; what a block must satisfy on its
  own is data of the model.
- *okai-s*: a user interface.

Most lines of the repository are translations of the wallet's interface, generated
tables, vendored libraries and calls of external services: no state to model, and the
reason why the models stand for a small share of all lines.

## Where to go on

1. `Interest`: team coordination of Discord and Telegram messages.
2. Initial download of the node: `getblocks`, `AskFor` and several peers.
