----------------------------- MODULE FlushState -----------------------------
(***************************************************************************)
(* What reaches the disk, and in which order: block and undo files, the    *)
(* block index database and the coin database, as ConnectTip,              *)
(* DisconnectTip and FlushStateToDisk (main.cpp) write them.  Every stage  *)
(* of FlushStateToDisk is a step of its own, so that the process can die   *)
(* between two of them, and so can the machine: a power failure loses any  *)
(* part of what was written and not synced.                                *)
(*                                                                         *)
(* A coin set is abstracted to the set of blocks whose effects it holds;   *)
(* CoinsCache and BlockUndo model how it is computed.                      *)
(***************************************************************************)
EXTENDS Integers, FiniteSets

CONSTANTS Blocks, Genesis, NoBlock,
          Parent,      \* pprev
          Path,        \* Path[b]: b and its ancestors
          MaxFile,     \* bound: the highest block file number
          FaultKinds,  \* what may fail in a flush: "space", "index", "last", "coins"
          MaxFaults    \* bound: failed flushes in a behaviour

ASSUME FlushAssumption ==
    /\ Genesis \in Blocks /\ NoBlock \notin Blocks
    /\ Parent \in [Blocks -> Blocks \cup {NoBlock}] /\ Parent[Genesis] = NoBlock
    /\ Path \in [Blocks -> SUBSET Blocks] /\ Path[Genesis] = {Genesis}
    /\ \A b \in Blocks \ {Genesis} : /\ Parent[b] \in Blocks
                                     /\ Path[b] = {b} \cup Path[Parent[b]]
                                     /\ b \notin Path[Parent[b]]
    /\ MaxFile \in Nat /\ MaxFaults \in Nat
    /\ FaultKinds \subseteq {"space", "index", "last", "coins"}

VARIABLES
    haveData, haveUndo,   \* the flags of the block index in memory
    setDirtyBlockIndex,
    setDirtyFileInfo,
    nFile,                \* nFile[b]: the blk/rev file pair of block b
    nLastBlockFile,
    chainTip,             \* chainActive.Tip()
    pcoinsTip,            \* its coins: [best, coins]
    stage, op,            \* the running FlushStateToDisk and the call it belongs to
    blkFile, blkSynced,   \* blocks in the blk files / surely on the medium
    revFile, revSynced,   \* undo records in the rev files / surely on the medium
    indexDB, indexMaybe,  \* pblocktree: [data, undo, lastFile] / the versions a power
                          \* failure may leave: those since the last sync
    coinDB, coinMaybe,    \* pcoinsdbview: [best, coins] / the versions a power failure may leave
    faults

memory == <<haveData, haveUndo, setDirtyBlockIndex, setDirtyFileInfo, nFile, nLastBlockFile>>
files  == <<blkFile, blkSynced, revFile, revSynced>>
dbs    == <<indexDB, indexMaybe, coinDB, coinMaybe>>
flushVars   == <<memory, chainTip, pcoinsTip, stage, op, files, dbs, faults>>

NoOp == [kind |-> "none", block |-> NoBlock]
Stages == {"none", "files", "info", "last", "index", "coins"}

----------------------------------------------------------------------------
(* Receiving and (dis)connecting blocks *)

\* FlushBlockFile: the last blk file and the rev file of the same number.
SyncedBlk(n) == blkSynced \cup {b \in blkFile : nFile[b] = n}
SyncedRev(n) == revSynced \cup {b \in revFile : nFile[b] = n}

\* AcceptBlock's FindBlockPos, WriteBlockToDisk and ReceivedBlockTransactions.
\* Leaving a full file syncs it (with its rev file) first.
AcceptBlock(b) ==
    /\ stage = "none"
    /\ b \notin haveData /\ Parent[b] \in haveData
    /\ \E n \in {nLastBlockFile, nLastBlockFile + 1} \cap 0 .. MaxFile :
        /\ nFile' = [nFile EXCEPT ![b] = n]
        /\ nLastBlockFile' = n
        /\ setDirtyFileInfo' = setDirtyFileInfo \cup {n}
        /\ IF n = nLastBlockFile THEN UNCHANGED <<blkSynced, revSynced>>
           ELSE /\ blkSynced' = SyncedBlk(nLastBlockFile)
                /\ revSynced' = SyncedRev(nLastBlockFile)
    /\ blkFile' = blkFile \cup {b}
    /\ haveData' = haveData \cup {b}
    /\ setDirtyBlockIndex' = setDirtyBlockIndex \cup {b}
    /\ UNCHANGED <<haveUndo, chainTip, pcoinsTip, stage, op, revFile, dbs, faults>>

\* ConnectTip up to FlushStateToDisk: ConnectBlock asserts that the view stands
\* on the parent, writes the undo record into the rev file of the block's own
\* number unless it has one, and moves the view.  With FLUSH_STATE_IF_NEEDED
\* the flush may not happen; the first block of a new file forces it.
ConnectTip(b) ==
    /\ stage = "none"
    /\ b \in haveData \cap blkFile /\ Parent[b] = chainTip
    /\ pcoinsTip.best = chainTip
    /\ haveUndo' = haveUndo \cup {b}
    /\ IF b \in haveUndo THEN UNCHANGED <<revFile, revSynced, setDirtyFileInfo>>
       ELSE /\ revFile' = revFile \cup {b} /\ UNCHANGED revSynced
            /\ setDirtyFileInfo' = setDirtyFileInfo \cup {nFile[b]}
    /\ setDirtyBlockIndex' = setDirtyBlockIndex \cup {b}
    /\ pcoinsTip' = [best |-> b, coins |-> pcoinsTip.coins \cup {b}]
    /\ \/ stage' = "files" /\ op' = [kind |-> "connect", block |-> b] /\ UNCHANGED chainTip
       \/ nFile[b] = nFile[Parent[b]] /\ chainTip' = b /\ UNCHANGED <<stage, op>>
    /\ UNCHANGED <<haveData, nFile, nLastBlockFile, blkFile, blkSynced, dbs, faults>>

\* Mutant: the best block moves back and the coins do not.
DisconnectTipKeepsCoins ==
    /\ stage = "none"
    /\ chainTip \notin {NoBlock, Genesis}
    /\ chainTip \in blkFile /\ chainTip \in haveUndo /\ chainTip \in revFile
    /\ pcoinsTip.best = chainTip
    /\ pcoinsTip' = [pcoinsTip EXCEPT !.best = Parent[chainTip]]
    /\ stage' = "files" /\ op' = [kind |-> "disconnect", block |-> Parent[chainTip]]
    /\ UNCHANGED <<memory, chainTip, files, dbs, faults>>

\* DisconnectTip up to FlushStateToDisk(FLUSH_STATE_ALWAYS): DisconnectBlock
\* asserts that the view stands on the tip and needs its undo record.
DisconnectTip ==
    /\ stage = "none"
    /\ chainTip \notin {NoBlock, Genesis}
    /\ chainTip \in blkFile /\ chainTip \in haveUndo /\ chainTip \in revFile
    /\ pcoinsTip.best = chainTip
    /\ pcoinsTip' = [best |-> Parent[chainTip], coins |-> pcoinsTip.coins \ {chainTip}]
    /\ stage' = "files" /\ op' = [kind |-> "disconnect", block |-> Parent[chainTip]]
    /\ UNCHANGED <<memory, chainTip, files, dbs, faults>>

\* ActivateBestChain's periodic flush and the one of PrepareShutdown.
StartFlush(kind) ==
    /\ stage = "none" /\ chainTip # NoBlock
    /\ stage' = "files" /\ op' = [kind |-> kind, block |-> chainTip]
    /\ UNCHANGED <<memory, chainTip, pcoinsTip, files, dbs, faults>>

----------------------------------------------------------------------------
(* FlushStateToDisk *)

\* Mutant: the rev files are left out.
FlushBlockFileOnly ==
    /\ stage = "files" /\ stage' = "info"
    /\ blkSynced' = SyncedBlk(nLastBlockFile)
    /\ revSynced' = revSynced
    /\ UNCHANGED <<memory, chainTip, pcoinsTip, op, blkFile, revFile, dbs, faults>>

\* "First make sure all block and undo data is flushed to disk."
FlushBlockFile ==
    /\ stage = "files" /\ stage' = "info"
    /\ blkSynced' = SyncedBlk(nLastBlockFile)
    /\ revSynced' = SyncedRev(nLastBlockFile)
    /\ UNCHANGED <<memory, chainTip, pcoinsTip, op, blkFile, revFile, dbs, faults>>

\* The index entries E are written, with the flags they have in memory.
WithEntries(index, E) ==
    [index EXCEPT !.data = @ \cup (E \cap haveData), !.undo = @ \cup (E \cap haveUndo)]

\* "Then update all block file information": the records of the dirty files,
\* which are all read at a start and so abstracted; without any the last file is
\* as it was written.
WriteBlockFileInfo ==
    /\ stage = "info"
    /\ stage' = IF setDirtyFileInfo = {} THEN "index" ELSE "last"
    /\ setDirtyFileInfo' = {}
    /\ UNCHANGED <<haveData, haveUndo, setDirtyBlockIndex, nFile, nLastBlockFile, chainTip,
                   pcoinsTip, op, files, dbs, faults>>

\* A version of the index more that is not synced.
WriteIndex(index) ==
    /\ indexDB' = index
    /\ indexMaybe' = indexMaybe \cup {index}

WriteLastBlockFile ==
    /\ stage = "last" /\ stage' = "index"
    /\ WriteIndex([indexDB EXCEPT !.lastFile = nLastBlockFile])
    /\ UNCHANGED <<memory, chainTip, pcoinsTip, op, files, coinDB, coinMaybe, faults>>

\* One dirty entry of the block index after the other.
WriteBlockIndex(b) ==
    /\ stage = "index" /\ b \in setDirtyBlockIndex
    /\ WriteIndex(WithEntries(indexDB, {b}))
    /\ setDirtyBlockIndex' = setDirtyBlockIndex \ {b}
    /\ stage' = stage
    /\ UNCHANGED <<haveData, haveUndo, setDirtyFileInfo, nFile, nLastBlockFile, chainTip, pcoinsTip,
                   op, files, coinDB, coinMaybe, faults>>

\* Mutant: pblocktree->Sync() forgotten.
SyncBlockIndexSkipped ==
    /\ stage = "index" /\ setDirtyBlockIndex = {} /\ stage' = "coins"
    /\ UNCHANGED <<memory, chainTip, pcoinsTip, op, files, dbs, faults>>

SyncBlockIndex ==
    /\ stage = "index" /\ setDirtyBlockIndex = {} /\ stage' = "coins"
    /\ indexMaybe' = {indexDB}
    /\ UNCHANGED <<memory, chainTip, pcoinsTip, op, files, indexDB, coinDB, coinMaybe, faults>>

\* Start again from a block index and a coin database: LoadBlockIndexDB.  What
\* the index does not name in the files is overwritten and does not count.
Load(index, coin, blk, rev) ==
    /\ haveData' = index.data /\ haveUndo' = index.undo
    /\ setDirtyBlockIndex' = {} /\ setDirtyFileInfo' = {}
    /\ nLastBlockFile' = index.lastFile
    /\ chainTip' = IF coin.best \in index.data THEN coin.best ELSE NoBlock
    /\ pcoinsTip' = coin
    /\ stage' = "none" /\ op' = NoOp
    /\ blkFile' = blk \cap index.data /\ revFile' = rev \cap index.undo
    /\ indexDB' = index /\ coinDB' = coin
    /\ nFile' = [b \in Blocks |-> IF b \in index.data THEN nFile[b] ELSE 0]

\* Start again with everything that was written.
Reload(coin) ==
    /\ Load(indexDB, coin, blkFile, revFile)
    /\ blkSynced' = blkSynced \cap indexDB.data
    /\ revSynced' = revSynced \cap indexDB.undo
    /\ UNCHANGED indexMaybe

\* Mutant: the caller returns without UpdateTip.
FlushCoinsKeepsTip ==
    /\ stage = "coins"
    /\ coinMaybe' = coinMaybe \cup {pcoinsTip}
    /\ coinDB' = pcoinsTip
    /\ stage' = "none" /\ op' = NoOp
    /\ UNCHANGED <<memory, chainTip, pcoinsTip, files, indexDB, indexMaybe, faults>>

\* "Finally flush the chainstate": one unsynced batch with coins and best
\* block, then the caller's UpdateTip.
FlushCoins ==
    /\ stage = "coins"
    /\ coinMaybe' = coinMaybe \cup {pcoinsTip}
    /\ IF op.kind = "shutdown"
       THEN Reload(pcoinsTip) /\ UNCHANGED faults
       ELSE /\ coinDB' = pcoinsTip
            /\ chainTip' = op.block
            /\ stage' = "none" /\ op' = NoOp
            /\ UNCHANGED <<memory, pcoinsTip, files, indexDB, indexMaybe, faults>>

\* The fault that a stage of the flush can meet.
FaultOf == [files |-> "space", info |-> "index", last |-> "last", index |-> "index",
            coins |-> "coins"]

\* What a failed stage has changed in memory.  WriteBlockFileInfo goes through the
\* files in their order and fails at one of them, the record of the last file is
\* written only if one was dirty, and BatchWrite has emptied the cache before its
\* batch fails: what the view shows is the old coins under the new best block.
LostIn(failed) ==
    /\ CASE failed = "info" ->
               \E n \in setDirtyFileInfo : setDirtyFileInfo' = {m \in setDirtyFileInfo : m >= n}
         [] OTHER -> UNCHANGED setDirtyFileInfo
    /\ CASE failed = "coins" -> pcoinsTip' = [pcoinsTip EXCEPT !.coins = coinDB.coins]
         [] OTHER -> UNCHANGED pcoinsTip

\* A stage fails: FlushStateToDisk returns false and so does its caller,
\* before UpdateTip; a shutdown goes on without it.
FlushFails ==
    /\ stage # "none" /\ FaultOf[stage] \in FaultKinds
    /\ faults < MaxFaults /\ faults' = faults + 1
    /\ IF op.kind = "shutdown"
       THEN Reload(coinDB) /\ UNCHANGED coinMaybe
       ELSE /\ LostIn(stage)
            /\ stage' = "none" /\ op' = NoOp
            /\ UNCHANGED <<haveData, haveUndo, setDirtyBlockIndex, nFile, nLastBlockFile, chainTip,
                           files, dbs>>

----------------------------------------------------------------------------
(* Failures of the process and of the machine *)

\* The process dies: the operating system still has everything written.
Crash == Reload(coinDB) /\ UNCHANGED <<coinMaybe, faults>>

\* The power fails: everything synced survives, and any part of the rest.
PowerFailure ==
    \E blk \in SUBSET (blkFile \ blkSynced), rev \in SUBSET (revFile \ revSynced),
       index \in indexMaybe, coin \in coinMaybe :
        /\ Load(index, coin, blkSynced \cup blk, revSynced \cup rev)
        /\ blkSynced' = blkFile' /\ revSynced' = revFile'
        /\ indexMaybe' = {index} /\ coinMaybe' = {coin}
        /\ UNCHANGED faults

----------------------------------------------------------------------------
FlushInit ==
    LET first == [data |-> {Genesis}, undo |-> {}, lastFile |-> 0]
        coin  == [best |-> Genesis, coins |-> {Genesis}]
    IN /\ haveData = {Genesis} /\ haveUndo = {} /\ setDirtyBlockIndex = {} /\ setDirtyFileInfo = {}
       /\ nFile = [b \in Blocks |-> 0] /\ nLastBlockFile = 0
       /\ chainTip = Genesis /\ pcoinsTip = coin /\ stage = "none" /\ op = NoOp
       /\ blkFile = {Genesis} /\ blkSynced = {Genesis} /\ revFile = {} /\ revSynced = {}
       /\ indexDB = first /\ indexMaybe = {first}
       /\ coinDB = coin /\ coinMaybe = {coin} /\ faults = 0

FlushNext ==
    \/ \E b \in Blocks \ {Genesis} : AcceptBlock(b)
    \/ \E b \in Blocks \ {Genesis} : ConnectTip(b)
    \/ DisconnectTip
    \/ \E kind \in {"periodic", "shutdown"} : StartFlush(kind)
    \/ FlushBlockFile
    \/ WriteBlockFileInfo
    \/ WriteLastBlockFile
    \/ \E b \in Blocks : WriteBlockIndex(b)
    \/ SyncBlockIndex
    \/ FlushCoins
    \/ FlushFails
    \/ Crash
    \/ PowerFailure

FlushSpec == FlushInit /\ [][FlushNext]_flushVars

----------------------------------------------------------------------------
(* Properties *)

CoinState == [best : Blocks, coins : SUBSET Blocks]
IndexState == [data : SUBSET Blocks, undo : SUBSET Blocks, lastFile : 0 .. MaxFile]

\* The variables hold values of the program's types; what is synced was
\* written, and the databases never run ahead of memory.
FlushTypeOK ==
    /\ haveData \subseteq Blocks /\ haveUndo \subseteq haveData
    /\ setDirtyBlockIndex \subseteq haveData /\ setDirtyFileInfo \subseteq 0 .. MaxFile
    /\ nFile \in [Blocks -> 0 .. MaxFile] /\ nLastBlockFile \in 0 .. MaxFile
    /\ chainTip \in Blocks \cup {NoBlock} /\ pcoinsTip \in CoinState
    /\ stage \in Stages
    /\ op \in [kind : {"none", "connect", "disconnect", "periodic", "shutdown"},
               block : Blocks \cup {NoBlock}]
    /\ blkSynced \subseteq blkFile /\ blkFile \subseteq Blocks
    /\ revSynced \subseteq revFile /\ revFile \subseteq Blocks
    /\ indexMaybe \subseteq IndexState /\ indexDB \in indexMaybe
    /\ coinDB \in CoinState /\ coinMaybe \subseteq CoinState /\ coinDB \in coinMaybe
    /\ faults \in 0 .. MaxFaults

\* The order of FlushStateToDisk ("Finally flush the chainstate (which may
\* refer to block index entries)") works: whatever versions of the coin
\* database and of the index a crash or a power failure leaves, the best block
\* and all its ancestors are in the index and their data is on the medium, and
\* nothing is on disk that was not in memory (FlushTypeOK).
BestBlockRecoverable ==
    /\ FlushTypeOK
    /\ \A coin \in coinMaybe, index \in indexMaybe :
        /\ Path[coin.best] \subseteq index.data
        /\ Path[coin.best] \subseteq blkSynced

\* "First make sure all block and undo data is flushed to disk.": a block the
\* coin database may contain can be disconnected after any failure, because
\* its undo record is on the medium and the index says so.  This holds while the
\* block is in the file that is being filled, the only one whose undo file
\* FlushBlockFile syncs, and as long as WriteLastBlockFile does not fail: the
\* files are no longer dirty then, and no later flush writes the record.
UndoOfLastFileRecoverable ==
    \A coin \in coinMaybe, index \in indexMaybe : \A b \in Path[coin.best] \ {Genesis} :
        nFile[b] = nLastBlockFile => b \in index.undo \cap revSynced

\* A coin database that any failure can leave holds exactly the effects of the
\* chain that ends in its best block.
CoinsMatchBest == \A coin \in coinMaybe : coin.coins = Path[coin.best]

\* "verify that the view's current state corresponds to the previous block":
\* between two operations pcoinsTip stands on chainActive.Tip(), so the
\* assertions of ConnectBlock and DisconnectBlock hold, as long as no flush has
\* failed: through crashes and power failures at every stage of a flush.
ViewMatchesTipUnlessFailed ==
    (faults = 0 /\ stage = "none") => pcoinsTip.best = chainTip /\ pcoinsTip.coins = Path[chainTip]
=============================================================================
