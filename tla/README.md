# Ohmcoin: a TLA+ verification of the node

Ohmcoin is a Bitcoin/PIVX descendant: a node that keeps a block tree and a set of
unspent coins, agrees with its peers on the chain with the most work, and adds proof
of stake, karmanodes (paid service nodes), SwiftTX locks and zerocoin to it. This
directory models the part every other part stands on, the chain state of `main.cpp`,
`coins.cpp`, `txdb.cpp` and `checkqueue.h` (how blocks are indexed, chosen, applied,
undone, verified by threads, cached and written to disk), and parts that stand on it or
beside it: the memory pool with the orphan transactions, SwiftTX locks, karmanode
payment votes and sync, the scheduler and the address manager. Paths below are relative
to `src/src/`.

Run a model with `tlc -config X.cfg M` and a proof with `tlapm M.tla` in this directory.
`PROJECT.json` lists the runs, the mutants that show each property can fail, the source
lines each definition models, the hazards the properties are aimed at, and the findings.

## The system

| Component | State | Operations | Hard because | Correct when |
|---|---|---|---|---|
| Coin views (`coins.cpp`, `txdb.cpp`) | database, `pcoinsTip`, working view; DIRTY/FRESH per entry; best block of each | fetch, modify, batch write, flush | two caches whose flags decide what is dropped; writes fail; the process stops anywhere | caching is invisible |
| Script checks (`checkqueue.h`) | queue, `nTodo`, `nIdle`, `nTotal`, `fAllOk` | add, loop, wait | worker threads, two condition variables, interrupts at shutdown | `Wait` returns, with the conjunction of all checks |
| Applying and undoing blocks (`main.cpp`, `undo.h`) | coin set, undo records, `mapStakeSpent` | `ConnectBlock`, `DisconnectBlock` | the undo order; metadata travels only with the last spend | the coin set is a function of the active chain |
| Block index and activation (`main.cpp`, `chain.h`) | `mapBlockIndex`, flags, `setBlockIndexCandidates`, `mapBlocksUnlinked`, `chainActive` | accept, link, find best, step, invalidate, reconsider, reprocess | blocks out of order; `cs_main` released between steps; failing blocks; operator commands; system errors | the tip is the best valid block known |
| Flushing (`main.cpp`, `txdb.cpp`) | blk/rev files, index and coin databases, dirty sets | `FlushStateToDisk`, `LoadBlockIndexDB` | crash or power failure between any two writes; failing writes | whatever survives can be started from |
| Mempool (`txmempool.cpp`) | `mapTx`, `mapNextTx` | add, remove, removeForBlock | conflicts, reorganisations | no two entries conflict, inputs exist |
| Orphan transactions (`main.cpp`) | `mapOrphanTransactions`, by-previous index | add, erase, limit, resolve | random eviction, two maps | the index is exact |
| SwiftTX (`swifttx.cpp`) | requests, locks, votes, locked inputs | request, vote, expire | messages in any order, conflicting locks | a lock means a quorum, and ends |
| Block download, peers (`main.cpp`, `net.cpp`) | in-flight maps, misbehaviour | inv, getdata, block, timeout | lost and late answers, disconnects | counters match the maps |
| Karmanode payments (`karmanode-payments.cpp`) | votes, tallies by height, last votes | vote, tally, clean, save | the tally is outside the lock; shutdown between the two | a tally counts each vote once; the payee chosen is accepted |
| Karmanode sync (`karmanode-sync.cpp`) | stage, attempts, last-seen times, requests per peer | process, item, sleep, retry | lost answers, timeouts, locks that are only tried | it ends, and only with the data |
| Karmanode list, pings, budget (`karmanodeman.cpp`, `karmanode-budget.cpp`, `activekarmanode.cpp`) | node list, pings, proposals | broadcast, ping, vote | votes in any order | lists and budgets agree |
| Sporks (`spork.cpp`) | active sporks | message, `ReprocessBlocks` | newest wins | monotone |
| Scheduler (`scheduler.cpp`) | task queue, thread count, stop flags | schedule, service, stop | threads on one condition variable, drain, interrupts | tasks run, once; `stop` ends |
| Address manager (`addrman.cpp`) | new and tried tables, id map, random order | add, good, getaddr, save, load | six structures that must agree, collisions | the tables' own `Check_` |
| HTTP queue, Tor, time offset, version bits, limited maps | queues, small tables | - | - | not modelled, see below |
| Stake kernel, zerocoin, wallet, script, GUI, vendored libraries | - | - | numeric or cryptographic, or presentation | not modelled, see below |

`ProcessNewBlock` calls `AcceptBlock` (index and block file), then `ActivateBestChain`,
which calls `ConnectTip`/`DisconnectTip`; these put a working view over `pcoinsTip`, run
`ConnectBlock`/`DisconnectBlock` on it (script checks go to the queue), flush it into
`pcoinsTip` and call `FlushStateToDisk`, which writes files, index and coins in that
order. Everything except the check queue runs under `cs_main`; `ActivateBestChain`
releases it between steps. The modules cut this stack at its interfaces:

```
  ChainState   which block is the tip                 (blocks are tree nodes)
  BlockUndo    what a block does to the coins         (coins are output sets)
  CheckQueue   how its scripts are verified           (checks pass or fail)
  CoinsCache   how coins are cached                   (coins are opaque values)
  FlushState   what reaches the disk                  (coins are sets of blocks)
  Mempool      what waits for a block                 (composed with BlockUndo)
```

`Mempool` EXTENDS `BlockUndo`: `ConnectTip` and `DisconnectTip` of the composed model move
the coins and the pool in one step, as the code does. In `SwiftTX` whether the pool takes
a transaction without a rival is a choice; the `ReprocessBlocks` it calls for a lock that
was rejected before is an action of `ChainState`. `KarmanodeSync` decides when
`KarmanodePayments` may judge blocks.

## Modules

Components that have their proofs in one module share its name space: the definitions of
`FlushState`, `Scheduler` and `KarmanodeSync` that every specification has carry a prefix
there (`FlushSpec`, `SchedulerSpec`, `SyncSpec`, and so on).

**CoinsView, CoinsCache, CoinsProofs.** `CoinsCache` has the database (`db`,
`dbBest`), `pcoinsTip` (`tip`, `tipBest`) and the working view. An entry is `NotCached` or
a record with the coins and the subset of `{DIRTY, FRESH}`; `FetchCoins`, `ModifiedEntry`,
`AfterModifier` and `BatchWriteEntry` are the functions of `coins.cpp` that decide about
flags. An operation is one action, because all run under `cs_main`; a modification is
`ModifyCoins`, the caller's change and the destructor of the modifier together. A failed
batch write empties the cache and keeps the best block, as the code does. `CoinsView` is
the promise: three plain maps copied as a whole. `ImplementsCoinsView` states that the
former implements the latter under the mapping of `View`.

**CheckQueue, ThreadProofs.** One action per critical section of the queue's mutex.
`LoopTop` is the part of `Loop` from the `while (queue.empty())`; `Enter`, `Resume` and
`Finish` reach it from the first iteration, from `cond.wait` and from the clean-up. A
signalled thread is distinguished from a waiting one, so lost wake-ups are possible, and
a waiting thread may also resume spuriously. `InterruptAll` lets every wait throw once,
past `nIdle--`; the master then waits again in `~CCheckQueueControl`.

**BlockUndo, MCBlockUndo, FoldLemmas, MempoolProofs.** A `CCoins` is its flags, height and
set of unspent outputs. `UpdateCoins` folds `Spend` over the inputs, `UndoBlock` folds
`UndoTx` backwards. The undo entry has the metadata only when the spend emptied the `CCoins`
(a height of 0 means none). `Reference` computes the coins from the chain alone. `BlockAt`
gives the blocks `CheckBlock` lets through at a height: one coinbase with its height,
coinstake second, no duplicates.

**ChainState, MCChainState, ChainStateProofs.** The tree is a constant; which blocks break a
rule is drawn in `Init`. The flags of `nStatus` are sets of blocks. One action is one
critical section of `cs_main`: the outcomes of `AcceptBlock` (stored, refused, invalid,
duplicate, reconsidered through a checkpoint), one iteration of `ActivateBestChain` (nothing
to do, a step, a system error), its loop test outside the lock, the operator's
`InvalidateBlock` and `Reconsider`, and `ReprocessBlocks` of `spork.cpp`, which a thread is
inside of (`pc` = "reprocess") while it reconsiders rejected blocks, each under a lock of its
own, until it disconnects (`DisconnectBlocksAndReprocess`) and activates. `MaybeRejected` are
the blocks `mapRejectedBlocks` may name: how often and in which order the loop takes them, and
which are recent enough, is a choice. The nested call of
`ActivateBestChain` inside `AcceptBlock` keeps the lock (`csMain`). The properties are the
assertions of `CheckBlockIndex` and the promise of `ActivateBestChain`. `unsettled` is a
history variable: a call failed with a system error and no call has got through since.

**FlushState, MCFlushState, CoinsProofs.** Every stage of `FlushStateToDisk` is a step;
`chainTip` and `pcoinsTip` are the tip in memory and the coins above the database. For
each file or database there is what was written and what is surely on the medium; `Crash`
loses memory, `PowerFailure` also loses any part of what was not synced: of the files any
part, of the two databases every write from some point on, so that one of their versions
since the last sync is left (`indexMaybe`, `coinMaybe`). Any stage may fail
(`FlushFails`): before it has done anything (`FaultKinds` "space", "index", "last"), with
the file information, some of which is no longer dirty then, or in the coin batch
("coins"), when the cache is empty already (`LostIn`). A coin set is the set of blocks
whose effects it has. `Load` is `LoadBlockIndexDB`. LevelDB's batches are taken to be
atomic and its synced writes durable; the operating system is assumed not to lose what
`fsync` confirmed.

**Mempool, MCMempool, MempoolProofs.** `mapTx` and `mapNextTx` over the coins of
`BlockUndo`, with `remove`, `removeConflicts`, `removeForBlock`, `removeCoinbaseSpends` as
functions on a pool value, so that `ConnectTip`, `DisconnectTip` and the tx message apply
them in the code's order. `AcceptToMemoryPool` returns what its caller can see: accepted,
missing inputs, refused, refused with a score. `refusal` is the policy of the moment (a
transaction lock that is tested before the inputs are looked up, a fee after), which the
environment changes. The tx message resolves orphans breadth first and remembers which
senders it has punished. `InitializeNode`, `FinalizeNode`, `Misbehaving` and the ban in
`SendMessages` are the part of the peer state that orphans depend on.

**SwiftTX, MCSwiftTX, SwiftTXProofs.** A request is absent, a transaction, or the empty
transaction that `operator[]` leaves. A lock has the height it is voted at (0 until the
request makes it known), its votes in order, and the time left. `largeWork` is the fork
warning, under which `GetTransactionLockSignatures` returns -2 and nothing is announced, and
`spork2` the switch of SwiftTX: off, both messages are dropped and the same function returns
-1, but the tests for a complete lock read the lock itself (`LockSignatures`). Both change at
any time. `ProcessIxAccepted`,
`ProcessIxRejected`, `LocalRequest` and `ProcessVote` are whole handlers. Whether a
karmanode is in the quorum of a height is the constant `Top`; a vote for another height than
the lock's is possible.

**KarmanodePayments, MCKarmanodePayments, KarmanodeProofs.** `AddWinningKarmanode` is three
steps: the checks, the record under two locks, the tally without one. Any of the threads
(`Thread`) may process a block and vote for itself (`ProcessBlock`), one of them handles
messages; they run at the same time, and clean-up, shutdown and start come between any two
steps. The own vote has the height 0 and no payee in a budget block or without a karmanode to
pay (`NewWinners`), and is recorded and tallied as any other. A shutdown takes the votes
(`SaveVotes`) and later the tallies (`Restart`, which ends the process and starts the next
one, with the clean-up of `Read`), while all threads still run. `cut`, `extra` and `cleaned`
are history variables: votes a shutdown saved before their tally, votes it saved in the tally
alone, and the height up to which the lists were cleaned. Each map is taken in one step: that
a thread changes a map while it is being written is a data race and not modelled. The ranks
(`Top`) are constant and the tip only grows. A process that dies starts from the file of an
older shutdown, that is from a state `Restart` reached before; this is not an action.

**KarmanodeSync, KarmanodeProofs.** `Process` with the two `TRY_LOCK`s as parameters, one
peer a turn. Times are what the code compares them for: never, within ten seconds, before.
`spork8` is the enforcement of payments, read at every timeout and changed by a message at
any time. With it off a stage may end with nothing received; should it come on afterwards,
the node is synced without the list or the votes. `enforced` is a history variable: the spork
has been on since the sync last started over, or since before the list was first asked for.
An item refreshes the time of its asset without a limit (`Added`), as each one nobody has
seen does.

**Scheduler, ThreadProofs.** What a thread does between two waits is a step. Notification
wakes some waiting thread, whichever; waits also end spuriously. Times are the seconds
left, and a new task goes behind those of its time (`UpperBound`, as in a `multimap`).

**AddrMan, MCAddrMan, AddrManProofs.** One record with the fields of `CAddrMan`; the hash
functions that choose buckets are constants, so that collisions can be chosen. `Loaded` is
what writing and reading `peers.dat` makes of it, with the file version and the bucket count
of this program; the branch for a file of another (`addrman.h:400`) is not modelled.

## Runs

| Run | Instance | Shows |
|---|---|---|
| `coins_cache` | 2 transactions, 2 unpruned coins, 2 blocks | flags truthful (`CachesCoherent`), the assert of `BatchWrite` (`FlushAssert`), refinement of `CoinsView` (`ImplementsCoinsView`) |
| `check_queue` | 2 workers, 4 checks (1 bad), batches of at most 2 | `TodoCountsOutstanding`, `WaitResultCorrect`, `IdleBetweenBlocks`, `WaitReturns` |
| `block_undo` | 13 transactions, chains up to 6 blocks of at most 4, maturity 2 | `UtxoMatchesChain`, `TipCanBeDisconnected`, `StakeSpentSound` |
| `chain_state` | 6 blocks, 2 threads, 2 commands (`ReprocessBlocks` is one) or 1 command and 1 system error | `IndexConsistent`, `FailedMaskSound`, `ActiveChainValid`, `BestIsCandidate`, `CandidatesExactAtRest`, `TipIsBestAtRest`, `ActivationReturns` |
| `flush_state` | 4 blocks, 2 files, 1 flush that fails for lack of space or in the index | `BestBlockRecoverable`, `UndoOfLastFileRecoverable`, `CoinsMatchBest`, `ViewMatchesTipUnlessFailed` |
| `mempool` | 10 transactions, chains up to 4 blocks of at most 3, 2 peers, 2 orphans | `MempoolCheck`, `OrphanMapsSound`, `PunishedPeersSentBad`, `ReorgKeepsTransactions` |
| `swifttx` | 2 conflicting transactions, 2 karmanodes that must both vote, 2 heights | `CompleteByQuorum` (with `VotesCountedOnce`), `EmptyRequestWasRejected`, `CompletingVoteAnnounces`, `LockedInputsExpire` |
| `scheduler` | 2 threads, 3 tasks (1 repeating), delays up to 2 | `CounterExact`, `TaskRunsOnce`, `QueuedTaskRuns`, `ThreadsLeave` |
| `karmanode_payments` | 2 karmanodes, 2 threads, a payee and the empty one, heights 0 and 2, tips 1 and 2, 3 votes, 2 required | `TallyMatchesVotes`, `ChosenPayeeAccepted` |
| `karmanode_sync` | 1 peer that may reconnect, threshold 2 as in the code, 1 sleep or loss of all karmanodes | `SyncedMeansReceived`, `SyncFinishes` |
| `addrman` | 3 addresses, 3 sources, buckets that collide | `CheckOk`, `LoadKeepsTables`, `TriedOnlyDemoted` |
| `flush_write_error` | as `flush_state`, the coin batch fails | `CoinsMatchBest` is violated, see Findings |

The type invariant of a module is a conjunct of its first structural invariant
(`UtxoMatchesChain`, `IndexConsistent`, `BestBlockRecoverable`, `MempoolCheck`,
`CompleteByQuorum`, `TaskRunsOnce`, `TallyMatchesVotes`, `SyncedMeansReceived`, `CheckOk`),
because it says more than types there: which sets contain which, what has the shape of
what. In `CoinsCache` and `CheckQueue` it is proved on its own, as is
`ModifierTakesEffect`; elsewhere with the invariant it is part of, see Proofs.

The bounds let the interesting cases happen. Two transactions are enough for the caches,
whose entries do not influence each other, and two coins let an entry be overwritten
without being pruned. Four checks with batches of two give three threads batches of
different sizes and an empty queue while batches are out. The transactions of
`MCBlockUndo` include conflicts, two spends of one transaction in both orders, chains
inside a block, coinstakes, and one transaction with no spendable output, which never
enters the coin set. The tree of `MCChainState` has two branches above a fork, a heavy
single block, a block that may fail to connect at the end of the longest branch, one that
may fail its contextual check, one that may be refused, two that `ReprocessBlocks` may
reconsider, and a checkpoint; with two commands and a system error in one behaviour the
safety properties hold too (1,044,180 states). In `MCFlushState` two blocks compete above
a common ancestor and a file boundary can fall between any two of them. `MCMempool` has a
chain of dependent transactions, two spends of one output, a spend that a coinstake in a
block contradicts, an invalid child, one too large for the orphan pool and one with a
parent in the pool and one in the chain; with maturity 2 a reorganisation makes coinbases
immature again. In `MCSwiftTX` one karmanode is in the quorum of a wrong height too. In
`karmanode_sync` one peer is enough because it may be replaced at any time and forgets
then what it was asked. In `karmanode_payments` two payees and two heights let votes for
one be cleaned, saved and tallied beside those for another, and the two threads may hold
the same vote. `MCAddrMan` lets one address be wanted in more buckets than it may lie in.
`MaxHeight`, `MaxBlockTx`, `MaxOps`, `MaxFaults`, `MaxFile`, `MaxVotes`, `MaxExtra`,
`MaxTip`, `MaxDelay`, `MaxSleeps` and `MaxId` bound what is unbounded in the program; ids
of the address manager start over at each load, so `MaxId` does not stop the others'
actions for ever.

Deadlock is checked except in `swifttx` and `scheduler`, where everything may be over: all
votes given and all locks expired, or all threads gone.

Fairness. In `CheckQueue` a thread that can enter the loop, holds a batch or was signalled
runs eventually, and `ConnectBlock` gets to its `Wait`; nothing is assumed of spurious
wake-ups, of interrupts or of unsignalled waiters. In `ChainState` (`FairSpec`) a thread
inside `ActivateBestChain` gets its next turn: it polls `cs_main` with `TRY_LOCK` and a
50 ms sleep, and the lock is held for finite times; the loop of `ReprocessBlocks` ends with
`mapRejectedBlocks`. The number of commands is bounded, as
an operator who goes on for ever can keep a thread busy for ever. In `SwiftTX` time passes
and the obfuscation thread calls `CleanTransactionLocksList` every minute. In `Scheduler`
threads run, tasks end and the clock advances; strong fairness of `Timeout` says that a
thread is not notified for ever just before its wait ends. In `KarmanodeSync` `Process` runs
every few seconds and does not always find the lock held; the chain becomes recent and
karmanodes appear; connections end some day; a peer that was asked answers again and again
(strong fairness), not always after the 25 seconds a stage lasts. It is also assumed that the
items of a stage pause: now and then `Process`, which runs every five seconds, finds that none
came for ten. Without that `SyncFinishes` does not hold of the code, because every item
nobody has seen refreshes the time the stage waits for. Nothing is assumed of the spork, or
about an answer on a stage nobody was asked for.

## Findings

`flush_write_error` ends in a violation: a coin batch that fails leaves an empty cache under
the new best block, which the next flush writes over the old coins.

Known divergences. While modelling, the code was found to depart from what its comments,
assertions or headers say in these places too. They are described here and the properties
above are stated where they hold; each can be shown by a run of its own.

- `main.cpp:2839`: `DisconnectBlock` does not restore `fCoinStake`, although `CTxInUndo`
  stores it. It shows when the empty marker output of a coinstake is spent as well, which
  wallets do not do, although no rule of `ConnectBlock` forbids it. The inputs of
  `MCBlockUndo` and `MCMempool` leave it unspent, and it is the premise `MarkerUnspent` of
  the theorems about them.
- `main.cpp:4141`: `ReconsiderBlock` clears failed ancestors without clearing the
  `BLOCK_FAILED_CHILD` they caused in other branches, and without offering the cleared
  ancestors as candidates. With `DeepReconsider = TRUE` `FailedMaskSound` and
  `BestIsCandidate` do not hold; `chain_state` reconsiders only blocks without failed
  ancestors.
- `main.cpp:5084`: between two steps of a failing reorganisation the tip is not a
  candidate, and another thread's `CheckBlockIndex` (on regtest or with
  `-checkblockindex`) asserts that it is (`main.cpp:5726`). The properties about the
  candidates are those at rest.
- `main.cpp:2892`: `FlushBlockFile` syncs the rev file of the last number only, while undo
  records go to the file of their block (`main.cpp:3570` says all undo data is flushed).
- `main.cpp:3581`: when `WriteLastBlockFile` fails no file is dirty any more, and no later
  flush writes the number of the last file. With "last" among `FaultKinds`
  `UndoOfLastFileRecoverable` does not hold, so `flush_state` leaves it out;
  `BestBlockRecoverable` does hold.
- `main.cpp:3754`: a flush that fails inside `ConnectTip` leaves `pcoinsTip` ahead of
  `chainActive`; the next block dies on the assertion in `ConnectBlock`.
- `swifttx.cpp:171`: if more votes than required come before the request, or a fork warning
  stands when the completing vote comes (`swifttx.cpp:466`), the lock is never announced:
  the count is compared with `==` and has passed it by the next vote.
  `swifttx.cpp:109`: the inputs of a rejected request are locked at once and without a
  lock that would expire.
- `scheduler.cpp:58`: two threads that time out on the same first task; the second takes
  the next one before its time, where `scheduler.h` says "at/after time t".
- `karmanode-payments.h:295`: `DumpKarmanodePayments` writes the votes, then the tallies,
  while the threads that add votes still run (`init.cpp:216`; they are stopped at
  `init.cpp:221`). A vote recorded and tallied in between is in the file as a tally only;
  after the restart it is new to the node and tallied a second time, and one karmanode
  counts for two of the signatures that make a payee binding (`karmanode-payments.cpp:554`
  requires "at least 6 signatures"). `TallyMatchesVotes` says how far the two are apart
  then (`extra`).
- `karmanode-payments.cpp:418`: `CanVote` remembers only the last height of a karmanode,
  and before the signature is verified: a karmanode can be counted twice for a height, and
  a genuine vote that follows a bad one is refused.
- `karmanode-sync.cpp:222`, `karmanode-payments.cpp:376`: after a failure the node asks
  the same connection for the winners again, which the peer's handler takes for
  misbehaviour.
- `addrman.h`: `SetServices` calls `Connected_` and not `SetServices_`; `Clear` keeps
  `mapInfo` and `mapAddr`, and a failed load leaves what was read so far.

Hazards without a property, beyond those in `PROJECT.json`: zerocoin serials written to
their own database in the middle of `ConnectBlock` (`main.cpp:3458`; zerocoin is off on the
main network); a stake refused by the state of the tip whose header stays known, so that the
block message never offers it again (`main.cpp:4912`; the message's filter is not
modelled); unlocked reads of `mapBlockIndex` (`main.cpp:6778`) and of the lock maps
(`swifttx.cpp:434`), which are data races; a vote remembered before it is checked and then
ignored when it is sent again (`swifttx.cpp:144`, modelled as it is); a load of
`peers.dat` that fails half way (`net.cpp:2032`).

## Proofs

`CoinsProofs` proves of `CoinsCache`, for every set of transactions, coins and blocks
(`CoinsAssumption`), that `TypeOK`, `CachesCoherent`, `FlushAssert` and
`ModifierTakesEffect` hold and that `CoinsCache` implements `CoinsView`. The inductive
invariant adds to coherence what makes it inductive: every entry of the view has an entry
of `pcoinsTip` below it or is `FRESH`, because each read through the view fills both
caches. From it `BatchWriteEntry` and the destructor of the
modifier are shown to preserve what readers see, entry by entry, and the refinement
follows action by action.

`ThreadProofs` proves of `CheckQueue`, for any number of workers and checks
(`QueueAssumption`), that `nTodo` is the number of checks queued or held, that `Wait`
returns the conjunction of the added checks, and that the assertion of `CCheckQueueControl`
holds. The inductive invariant relates `nTodo` to the checks in the queue and in batches,
says that a bad check that has left them has been counted into `fAllOk` and that `fAllOk` is
false only because of one, that a thread skips its batch only after such a failure, that
`nTotal - nIdle` is the number of running threads, and that the master is in the loop only
while its control waits, with `nTodo` and `fAllOk` reset once the control is gone.

`CoinsProofs` proves of `FlushState`, for any tree of blocks and any number of failing
writes (`FlushAssumption`), that whatever a crash or a power failure leaves can be started
from (`Recoverable`), with the undo records of the last file (`UndoRecoverable`, with the
premise that `WriteLastBlockFile` does not fail: `"last" \notin FaultKinds`, see
Findings), and that `pcoinsTip` stands at the tip until a flush fails (`ViewMatches`). The
inductive invariant is the order of the writes: every version of the index that may
survive is behind the written one and that behind memory (`DiskBehindMemory`), no block
lies in a file after the last (`FilesInOrder`), a block and its undo record are synced
before the index names them and when their file is left (`BlockDataSafe`, `UndoDataSafe`),
each stage has reached what the next one relies on (`StagesReach`), and the chain of every
coin set that may survive is indexed (`ChainsIndexed`). `CoinsMatch`, that a surviving
coin set is the effect of its chain, has the premise that the coin batch does not fail
(`"coins" \notin FaultKinds`): with it failing the statement is false, which is the
finding of `flush_write_error`. Index and file writes may still fail.

`ChainStateProofs` proves, for any finite tree, set of threads and number of commands and
system errors (`TreeAssumption`, `BoundAssumption`), the assertions of `CheckBlockIndex`
on the index (`Consistent`) and that the active chain is valid (`ActiveValid`), with no
further premise. Their invariant says that the index contains the ancestors of its blocks
and that `linked` and `unlinked` follow from the data received, that the sequence numbers
of linked blocks are distinct, that what was connected once was so with its ancestors, and
that no candidate sorts before the tip. What is proved about the candidates (`MaskSound`,
`BestKept`, `CandidatesExact`, `TipIsBest`) needs more: every block that is neither marked
nor a candidate is worse than an eligible candidate that was connected before
(`Dominated`; any better candidate would not do, for one that was never connected may fail
and leave the set), and either the tip is the only candidate, or a call has failed, or
some thread is bound to look again (`Quiet`). They have two premises, `~DeepReconsider`
and `[]CheckpointsShallow`, which together say that nothing is reconsidered below a failed
ancestor: `ReconsiderBlock` clears such an ancestor without repairing its other
descendants (`main.cpp:4141`, see Findings), and then the statements are false.
`ReconsiderBlock` has three callers in the model. The operator's command and the loop of
`ReprocessBlocks` (`spork.cpp:176`, from `swifttx.cpp:124` and `swifttx.cpp:385`) are kept
from it by `DeepReconsider = FALSE`, which is a restriction of the model and not of the
code (`Reconsiderable`); `AcceptBlock` reconsiders the parent of the new block when it is
marked and at a checkpoint (`main.cpp:4866`). `AcceptBlockHeader` has the same lines
(`main.cpp:4823`), which only the headers message could reach past those of `AcceptBlock`.
Which blocks break a rule is fixed in `Init`: that a transaction lock or the payment votes
make a block invalid for a time, which is what `ReprocessBlocks` is for, is not modelled.
`ShallowCheckpoints` discharges the second premise when only the genesis block and its
children are checkpoints, as on testnet and regtest (height 0 only) and in `chain_state`.
On the main network it remains a premise: that no checkpointed block is marked together
with an ancestor. With `-checkpoints=0` every block counts as checkpointed, and the
premise is then about all blocks. TLC found the whole invariant to hold on the instance of
`chain_state` (272,338 states).

`SwiftTXProofs` proves, for any transactions, karmanodes, heights and quorums
(`SwiftAssumption`), that a complete lock has a quorum of different karmanodes (`Quorums`),
that an empty request was rejected (`EmptyRequests`), and the action property that the vote
that completes the lock of a known request announces it unless a fork warning stands
(`Announced`). A lock does not look
for a second vote of a karmanode; it is enough that a vote in a lock is still remembered in
`mapTxLockVote` (`LocksOK`), which is what makes the invariant inductive, also through
`CleanTransactionLocksList`. The number of votes is one more at each `AddSignature`, so that
the vote that completes a lock finds it exactly at the number that is announced.

`ThreadProofs` proves of `Scheduler`, for any finite set of threads and any tasks
(`SchedulerAssumption`, `NoTaskAssumption`), that the thread counter is exact (`Counter`) and
that a task is in one place (`RunsOnce`), through notifications, timeouts, stops and
interrupts. The invariant adds that the queue is sorted, without which the place
`UpperBound` finds for a new task would not exist.

`KarmanodeProofs` proves of `KarmanodePayments`, for any threads, karmanodes, payees,
heights and limits (`PaymentsAssumption`), that a tally is the number of votes recorded, but
for those in flight and those a shutdown saved on one side only (`TallyMatches`), and that a
payee any node chose with the same votes is accepted where no shutdown left the two apart
(`PayeeAccepted`). What makes it inductive is `InFlight`: between the record and the tally a
vote is held by one thread only and is still recorded, unless its height was cleaned
meanwhile; `CleanedBehind`: a height that was cleaned is too old to be voted for again; and
`SavedKept`: of the votes a shutdown has taken only old ones go before it takes the tallies.
TLC checked it on the instance of `karmanode_payments` (2,703,430 states).

`KarmanodeProofs` proves of `KarmanodeSync`, for any peers and any threshold
(`SyncAssumption`), that the sync is past a stage only with items of it, if payments have been
enforced since it started over (`Synced`). The property is inductive as it stands; the proof
follows `Process` through `GetNextAsset`, `Reset` and the failures, and the spork through its
changes.

`FoldLemmas` is what the proofs about loops rest on. It is a module with the step of a loop,
`Op`, as its constant, and each loop of `BlockUndo` and `Mempool` is an instance of it: so
its theorems need no operator as a parameter. `FoldLeftSteps` and `FoldRightSteps` say that
a fold goes through a sequence of values, each made from the one before by `Op`;
`FoldLeftKeeps` that what every step keeps is kept. Induction is over a *set*, that of the
numbers for which a statement holds (`Induction`, `InductionDown`), and comes from the
least-element principle.

`MempoolProofs` proves of `BlockUndo`, for any transactions, any blocks and any maturity
(`UndoAssumption`), that disconnecting a block leaves the coins it was connected to
(`UndoBlockUndoesApplyBlock`), that the coin set and the undo records are those of the
active chain (`UtxoMatchesChainAlways`), that the tip can always be disconnected
(`TipCanBeDisconnectedAlways`) and that what `mapStakeSpent` records was spent by the block
of the active chain at that height (`StakeSpentSoundAlways`). Spending the inputs of a
transaction one by one is shown to be taking a set of outpoints out of the coins
(`UpdateCoinsIs`), and putting them back in the opposite order to be the inverse, also for
the last output of a transaction, whose undo entry alone has the metadata (`RestoreTaken`,
`UndoTxIs`). The inductive invariant `ChainInv` says that no transaction is in two blocks,
that the coins are what the chain creates less what it spends (`RefAt`, which has no loop),
and that every block of the chain, applied again to what is below it, gives the undo record
that is stored (`Replayed`). The last is why the tip can be disconnected after any number of
reorganisations.

All but `StakeSpentSoundAlways` have the premise `MarkerUnspent`: every coinstake has an
output that no transaction spends. Without it they are false, because `DisconnectBlock` does
not restore `fCoinStake` (`main.cpp:2839`, see Findings); the first output of a coinstake is
an empty marker that wallets leave alone, and both TLC instances satisfy the premise.

`MempoolProofs` proves of `Mempool`, with `PoolAssumption` and the same premise, the
assertions of `CTxMemPool::check` (`MempoolCheckAlways`), that the two orphan maps agree and
stay within their limit (`OrphanMapsSoundAlways`), that only peers that sent a bad
transaction are punished (`PunishedPeersSentBadAlways`), and the action property that a
disconnected block loses no transaction it need not lose (`ReorgKeepsTransactionsAlways`). The
inductive invariant `PoolInv` has `ChainInv`, a pool whose `mapTx` and `mapNextTx` agree
(`Linked`) and which is `Over` the chain: its transactions are not in the chain and every
input is an unspent output of the chain or of the pool. Between the steps of `ConnectTip` and
`DisconnectTip` the pool is not `Over` the chain, and the lemmas say what each step repairs:
`removeForBlock` drops every conflict with its descendants, the resurrected transactions are
accepted or dropped with what depends on them, `removeCoinbaseSpends` drops what is immature.
For the action property, what a removal takes out lies in every set that contains its
transaction and is closed under spending (`Closed`, `RemoveDrops`).

`AddrManProofs` proves, for any addresses, sources, buckets and collisions
(`AddrManAssumption`), that the tables pass `Check_` (`CheckOkAlways`), that no step loses
an address of the tried table (`TriedOnlyDemotedAlways`) and that saving and
loading keeps the tables (`LoadKeepsTablesAlways`), with no further premise. The steps of an
operation break what the operation as a whole keeps: `Good_` takes an entry out of all its new
slots before it is in the tried table, and the one it evicts is for a moment in neither. The
invariant `Inv(m, X, c)` therefore has parameters: `X` are the entries that lie in no slot
yet, `c` how many of them `nNew` does not count; between operations `X` is empty and `c` is 0.
`SwapLemma` and `DropLemma` are about the random order, `UnslotLemma` and `PlaceLemma` about
slots and reference counts. For the load, `IndexLemma` shows that writing numbers the entries
without gaps, and `RenumberedLemma` that renumbering along a bijection keeps the invariant.

Only model-checked, and why. Liveness under fairness is out of the prover's reach, as is
`ENABLED`: `WaitReturns`, `ActivationReturns`, `LockedInputsExpire`, `QueuedTaskRuns`,
`ThreadsLeave`, `SyncFinishes`. Every invariant and every action property that a passing run
checks is stated by a theorem.

## Not modelled

Amounts, scripts and signatures; the zerocoin databases and the optional transaction and
address indexes that `ConnectBlock` also writes; the `headers` message (headers-first
syncing is off on every network, `chainparams.cpp`); `pindexBestInvalid` and
`pindexBestHeader`, which only feed warnings; the missing-data branch of
`FindMostWorkChain`, unreachable without pruning; the comparison of addresses in
`CBlockIndexWorkComparator`, reached only among blocks loaded from disk; a `DisconnectTip`
that fails inside `InvalidateBlock`; `VerifyDB`, `RewindBlockIndex` and `-reindex`. The
stake kernel and the accumulators are numeric or cryptographic and out of TLC's reach, and
zerocoin is switched off on the main network (`chainparams.cpp:489`), so the databases it
writes in `ConnectBlock` are left out; the wallet, RPC, GUI and vendored code are clients
or libraries. The download window (`mapBlocksInFlight`, stalling) is not reached without
headers-first syncing. Data races on unlocked maps (`swifttx.cpp`, `mapBlockIndex` in the
block message and `mapRejectedBlocks` in `ReprocessBlocks`, a payment map while it is
written) are not modelled: a handler is a step. Fees, priorities, standardness and the fee
estimator are a choice in `Mempool`; signatures and ranks of karmanodes are constants; of
the sporks only the switches 2 and 8 and `ReprocessBlocks` are modelled; `IsTerrible`,
`GetChance` and `Select_` only choose in `AddrMan`.

## Plan

1. `CoinsView` is the abstract specification of the caches; the same for `ChainState` (an
   abstract node whose tip is the best valid block it knows) from `TipIsBest` and
   `ActiveValid`.
2. `KarmanodeBudget`, composed with the payment votes; `VersionBits` as operators against a
   reference definition.
3. The premise `MarkerUnspent` would go if `DisconnectBlock` restored `fCoinStake`.
