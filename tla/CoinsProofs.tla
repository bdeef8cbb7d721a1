---------------------------- MODULE CoinsProofs -----------------------------
(***************************************************************************)
(* Proofs about the coins in memory and on disk.  FlushState, for any block*)
(* tree, any number of files and of failed flushes: what a crash or a power*)
(* failure leaves can be started from.  CoinsCache, for every set of       *)
(* transactions, coins and blocks: the caches are coherent, the assert in  *)
(* BatchWrite never fires, and CoinsCache implements CoinsView.            *)
(***************************************************************************)
EXTENDS FlushState, CoinsCache, TLAPS

-----------------------------------------------------------------------------
(* FlushState *)

USE FlushAssumption

\* WriteLastBlockFile, after which no file counts as dirty, does not fail.
LastFileWritten == "last" \notin FaultKinds

\* What the disk says is a part of what memory says, whatever version of the index
\* a failure leaves; an undo record belongs to data.
DiskBehindMemory ==
    /\ indexDB.data \subseteq haveData /\ indexDB.undo \subseteq haveUndo
    /\ indexDB.lastFile <= nLastBlockFile
    /\ \A index \in indexMaybe :
          /\ index.data \subseteq indexDB.data /\ index.undo \subseteq indexDB.undo
          /\ index.undo \subseteq index.data /\ index.lastFile <= indexDB.lastFile

\* No block is in a file after the last one, for memory and every index.
FilesInOrder ==
    LastFileWritten =>
        /\ \A b \in haveData : nFile[b] <= nLastBlockFile
        /\ \A index \in indexMaybe : \A b \in index.data : nFile[b] <= index.lastFile

\* An index entry not dirty is on disk; a block's data is synced before its
\* index entry is written, and when its file is left.
BlockDataSafe ==
    /\ haveData \subseteq indexDB.data \cup setDirtyBlockIndex
    /\ haveData \subseteq blkFile
    /\ indexDB.data \subseteq blkSynced
    /\ \A b \in haveData : b \in blkSynced \/ nFile[b] = nLastBlockFile

\* The same for undo records, as far as they are in the last file.
UndoDataSafe ==
    /\ haveUndo \subseteq indexDB.undo \cup setDirtyBlockIndex
    /\ LastFileWritten =>
          /\ \A b \in haveUndo : nFile[b] = nLastBlockFile => b \in revFile
          /\ \A index \in indexMaybe : \A b \in index.undo :
                nFile[b] = index.lastFile => b \in revSynced

\* The record of the last file is as in memory, or a file is dirty.
LastFileKnown ==
    \/ indexDB.lastFile = nLastBlockFile
    \/ setDirtyFileInfo # {}
    \/ stage = "last"

\* What each stage of FlushStateToDisk has reached.
StagesReach ==
    /\ stage \in {"info", "last", "index", "coins"} => haveData \subseteq blkSynced
    /\ stage = "coins" => setDirtyBlockIndex = {} /\ indexMaybe = {indexDB}
    /\ LastFileWritten =>
          /\ stage \in {"info", "last", "index", "coins"} =>
                \A b \in haveUndo : nFile[b] = nLastBlockFile => b \in revSynced
          /\ LastFileKnown
          /\ stage \in {"index", "coins"} => indexDB.lastFile = nLastBlockFile

\* The chain of every coin set, cached or on disk, is indexed, with undo records.
ChainsIndexed ==
    /\ Path[pcoinsTip.best] \subseteq haveData /\ Path[pcoinsTip.best] \ {Genesis} \subseteq haveUndo
    /\ \A coin \in coinMaybe, index \in indexMaybe :
          /\ Path[coin.best] \subseteq index.data
          /\ Path[coin.best] \ {Genesis} \subseteq index.undo

\* Coins and best block move together, unless a coin batch may have failed.
CoinsMove ==
    (faults = 0 \/ "coins" \notin FaultKinds) =>
        \A coin \in coinMaybe \cup {pcoinsTip} : coin.coins = Path[coin.best]

\* The view stands where the running call will leave the tip.
ViewMoves ==
    faults = 0 => pcoinsTip.best = IF stage = "none" THEN chainTip ELSE op.block

\* The inductive invariant.
FlushIInv == /\ FlushTypeOK
             /\ DiskBehindMemory
             /\ FilesInOrder
             /\ BlockDataSafe
             /\ UndoDataSafe
             /\ StagesReach
             /\ ChainsIndexed
             /\ CoinsMove
             /\ ViewMoves

----------------------------------------------------------------------------
(* Lemmas *)

\* A block is on its own chain, and on that of its children.
LEMMA PathLemma ==
    /\ \A b \in Blocks : b \in Path[b] /\ Path[b] \subseteq Blocks
    /\ \A b \in Blocks \ {Genesis} :
          /\ Path[b] = {b} \cup Path[Parent[b]] /\ b \notin Path[Parent[b]]
          /\ Parent[b] \in Blocks
  <1>1. ASSUME NEW b \in Blocks PROVE b \in Path[b] /\ Path[b] \subseteq Blocks
    BY <1>1
  <1>. QED  BY <1>1

\* Starting from an index that all that may be left are a part of, from data the
\* medium surely has, and from a coin set whose chain every index holds, restores
\* the invariant.
LEMMA LoadLemma ==
    ASSUME FlushIInv, NEW index, NEW coin, NEW blk, NEW rev,
           Load(index, coin, blk, rev),
           indexMaybe' \subseteq IndexState, index \in indexMaybe',
           \A i \in indexMaybe' :
              /\ i.data \subseteq index.data /\ i.undo \subseteq index.undo
              /\ i.undo \subseteq i.data /\ i.lastFile <= index.lastFile
              /\ LastFileWritten => /\ \A b \in i.data : nFile[b] <= i.lastFile
                                    /\ \A b \in i.undo : nFile[b] = i.lastFile => b \in revSynced',
           index.data \subseteq blkSynced', blkSynced' \subseteq blkFile', blk \subseteq Blocks,
           revSynced' \subseteq revFile', rev \subseteq Blocks,
           coin \in coinMaybe', coinMaybe' \subseteq CoinState,
           \A c \in coinMaybe', i \in indexMaybe' :
              /\ Path[c.best] \subseteq i.data /\ Path[c.best] \ {Genesis} \subseteq i.undo,
           (faults' = 0 \/ "coins" \notin FaultKinds) =>
               \A c \in coinMaybe' : c.coins = Path[c.best],
           faults' \in 0 .. MaxFaults
    PROVE  FlushIInv'
  <1>1. coin \in CoinState /\ coin.best \in Blocks /\ coin.best \in index.data
    BY PathLemma DEF CoinState
  <1>2. index.data \subseteq Blocks /\ index.undo \subseteq Blocks
        /\ index.lastFile \in 0 .. MaxFile /\ index.undo \subseteq index.data
    BY DEF IndexState
  <1>3. /\ haveData' = index.data /\ haveUndo' = index.undo /\ indexDB' = index
        /\ setDirtyBlockIndex' = {} /\ setDirtyFileInfo' = {} /\ nLastBlockFile' = index.lastFile
        /\ chainTip' = coin.best /\ pcoinsTip' = coin /\ coinDB' = coin
        /\ stage' = "none" /\ op' = NoOp
        /\ blkFile' = blk \cap index.data /\ revFile' = rev \cap index.undo
    BY <1>1 DEF Load
  <1>4. nFile' \in [Blocks -> 0 .. MaxFile] /\ \A b \in index.data : nFile'[b] = nFile[b]
    <2>1. nFile' = [b \in Blocks |-> IF b \in index.data THEN nFile[b] ELSE 0]
      BY DEF Load
    <2>. QED  BY <1>2, <2>1 DEF FlushIInv, FlushTypeOK
  <1>5. FlushTypeOK'
    <2>1. op' \in [kind : {"none", "connect", "disconnect", "periodic", "shutdown"},
                   block : Blocks \cup {NoBlock}]
      BY <1>3 DEF NoOp
    <2>. QED  BY <1>1, <1>2, <1>3, <1>4, <2>1 DEF FlushTypeOK, Stages
  <1>6. DiskBehindMemory'
    BY <1>2, <1>3 DEF DiskBehindMemory
  <1>7. FilesInOrder'
    BY <1>3, <1>4 DEF FilesInOrder, LastFileWritten
  <1>8. BlockDataSafe'
    BY <1>3 DEF BlockDataSafe
  <1>9. UndoDataSafe'
    BY <1>2, <1>3, <1>4 DEF UndoDataSafe, LastFileWritten
  <1>10. StagesReach'
    BY <1>3 DEF StagesReach, LastFileKnown
  <1>11. ChainsIndexed'
    BY <1>3 DEF ChainsIndexed
  <1>12. CoinsMove' /\ ViewMoves'
    BY <1>3 DEF CoinsMove, ViewMoves
  <1>. QED  BY <1>5, <1>6, <1>7, <1>8, <1>9, <1>10, <1>11, <1>12 DEF FlushIInv

\* A process that starts again finds everything that was written.
LEMMA ReloadLemma ==
    ASSUME FlushIInv, NEW coin, Reload(coin),
           coin \in coinMaybe', coinMaybe' \subseteq CoinState,
           \A c \in coinMaybe', i \in indexMaybe :
              /\ Path[c.best] \subseteq i.data /\ Path[c.best] \ {Genesis} \subseteq i.undo,
           (faults' = 0 \/ "coins" \notin FaultKinds) =>
               \A c \in coinMaybe' : c.coins = Path[c.best],
           faults' \in 0 .. MaxFaults
    PROVE  FlushIInv'
  <1>1. /\ Load(indexDB, coin, blkFile, revFile) /\ indexMaybe' = indexMaybe
        /\ blkSynced' = blkSynced \cap indexDB.data /\ revSynced' = revSynced \cap indexDB.undo
        /\ blkFile' = blkFile \cap indexDB.data /\ revFile' = revFile \cap indexDB.undo
    BY DEF Reload, Load
  <1>2. indexMaybe' \subseteq IndexState /\ indexDB \in indexMaybe'
    BY <1>1 DEF FlushIInv, FlushTypeOK
  <1>3. \A i \in indexMaybe' :
           /\ i.data \subseteq indexDB.data /\ i.undo \subseteq indexDB.undo
           /\ i.undo \subseteq i.data /\ i.lastFile <= indexDB.lastFile
    BY <1>1 DEF FlushIInv, DiskBehindMemory
  <1>4. LastFileWritten => \A i \in indexMaybe' :
           /\ \A b \in i.data : nFile[b] <= i.lastFile
           /\ \A b \in i.undo : nFile[b] = i.lastFile => b \in revSynced'
    BY <1>1, <1>3 DEF FlushIInv, FilesInOrder, UndoDataSafe
  <1>5. /\ indexDB.data \subseteq blkSynced' /\ blkSynced' \subseteq blkFile' /\ blkFile \subseteq Blocks
        /\ revSynced' \subseteq revFile' /\ revFile \subseteq Blocks
    BY <1>1 DEF FlushIInv, BlockDataSafe, FlushTypeOK
  <1>6. \A c \in coinMaybe', i \in indexMaybe' :
           /\ Path[c.best] \subseteq i.data /\ Path[c.best] \ {Genesis} \subseteq i.undo
    BY <1>1
  <1>. QED  BY <1>1, <1>2, <1>3, <1>4, <1>5, <1>6, LoadLemma

----------------------------------------------------------------------------
(* The steps *)

\* A fresh data directory: nothing is behind anything.
LEMMA InitLemma == FlushInit => FlushIInv
  <1> SUFFICES ASSUME FlushInit PROVE FlushIInv
    OBVIOUS
  <1> USE DEF FlushInit
  <1>1. Path[Genesis] = {Genesis}
    OBVIOUS
  <1>2. FlushTypeOK
    <2>1. nFile \in [Blocks -> 0 .. MaxFile]
      OBVIOUS
    <2>2. indexDB \in IndexState /\ indexMaybe = {indexDB}
      BY DEF IndexState
    <2>3. coinDB \in CoinState
      BY DEF CoinState
    <2>. QED  BY <2>1, <2>2, <2>3 DEF FlushTypeOK, Stages, NoOp
  <1>3. DiskBehindMemory /\ FilesInOrder
    BY DEF DiskBehindMemory, FilesInOrder
  <1>4. BlockDataSafe /\ UndoDataSafe /\ StagesReach
    BY DEF BlockDataSafe, UndoDataSafe, StagesReach, LastFileKnown
  <1>5. ChainsIndexed /\ CoinsMove /\ ViewMoves
    BY <1>1 DEF ChainsIndexed, CoinsMove, ViewMoves
  <1>. QED  BY <1>2, <1>3, <1>4, <1>5 DEF FlushIInv

\* A file is left with everything in it synced.
LEMMA AcceptBlockLemma ==
    ASSUME FlushIInv, NEW b \in Blocks \ {Genesis}, AcceptBlock(b)
    PROVE  FlushIInv'
  <1>1. PICK n \in {nLastBlockFile, nLastBlockFile + 1} \cap 0 .. MaxFile :
        /\ nFile' = [nFile EXCEPT ![b] = n]
        /\ nLastBlockFile' = n
        /\ setDirtyFileInfo' = setDirtyFileInfo \cup {n}
        /\ IF n = nLastBlockFile THEN UNCHANGED <<blkSynced, revSynced>>
           ELSE /\ blkSynced' = SyncedBlk(nLastBlockFile)
                /\ revSynced' = SyncedRev(nLastBlockFile)
    BY DEF AcceptBlock
  <1> USE DEF FlushIInv, AcceptBlock
  <1>2. /\ nFile \in [Blocks -> 0 .. MaxFile] /\ nLastBlockFile \in 0 .. MaxFile
        /\ haveData \subseteq Blocks /\ haveUndo \subseteq haveData
        /\ indexDB.data \subseteq haveData /\ indexDB.undo \subseteq haveUndo
        /\ \A index \in indexMaybe : /\ index.data \subseteq haveData
                                      /\ index.undo \subseteq haveData
        /\ indexDB.lastFile \in 0 .. MaxFile /\ indexDB.lastFile <= nLastBlockFile
    BY DEF FlushTypeOK, DiskBehindMemory, IndexState
  <1>3. /\ nFile' \in [Blocks -> 0 .. MaxFile] /\ nFile'[b] = n
        /\ \A a \in haveData : nFile'[a] = nFile[a]
    BY <1>1, <1>2
  <1>4. blkSynced \subseteq blkSynced' /\ revSynced \subseteq revSynced'
    BY <1>1 DEF SyncedBlk, SyncedRev
  <1>5. blkSynced' \subseteq blkFile' /\ revSynced' \subseteq revFile'
    BY <1>1 DEF SyncedBlk, SyncedRev, FlushTypeOK
  <1>6. FlushTypeOK'
    BY <1>1, <1>2, <1>3, <1>5 DEF FlushTypeOK, dbs
  <1>7. DiskBehindMemory'
    BY <1>1, <1>2 DEF DiskBehindMemory, dbs
  <1>8. FilesInOrder'
    <2>1. \A a \in haveData' : a = b \/ a \in haveData
      OBVIOUS
    <2>. QED  BY <1>1, <1>2, <1>3, <2>1 DEF FilesInOrder, dbs
  <1>9. BlockDataSafe'
    <2>1. ASSUME NEW a \in haveData', n # nLastBlockFile, a # b
          PROVE  a \in blkSynced'
      BY <1>1, <1>4, <2>1 DEF SyncedBlk, BlockDataSafe
    <2>2. \A a \in haveData' : a \in blkSynced' \/ nFile'[a] = nLastBlockFile'
      BY <1>1, <1>3, <1>4, <2>1 DEF BlockDataSafe
    <2>. QED  BY <1>2, <1>4, <2>2 DEF BlockDataSafe, dbs
  <1>10. UndoDataSafe'
    <2>1. LastFileWritten => \A a \in haveUndo' : nFile'[a] = nLastBlockFile' => a \in revFile'
      BY <1>1, <1>2, <1>3 DEF UndoDataSafe, FilesInOrder
    <2>. QED  BY <1>2, <1>3, <1>4, <2>1 DEF UndoDataSafe, dbs
  <1>11. StagesReach'
    BY <1>1 DEF StagesReach, LastFileKnown
  <1>12. ChainsIndexed' /\ CoinsMove' /\ ViewMoves'
    BY DEF ChainsIndexed, CoinsMove, ViewMoves, dbs
  <1>. QED  BY <1>6, <1>7, <1>8, <1>9, <1>10, <1>11, <1>12

\* Connecting a block writes its undo data, not yet synced, and marks its entry dirty.
LEMMA ConnectTipLemma ==
    ASSUME FlushIInv, NEW b \in Blocks \ {Genesis}, ConnectTip(b)
    PROVE  FlushIInv'
  <1> USE DEF FlushIInv, ConnectTip
  <1>1. pcoinsTip \in CoinState /\ pcoinsTip' \in CoinState /\ pcoinsTip'.best = b
        /\ pcoinsTip'.coins = pcoinsTip.coins \cup {b} /\ Parent[b] = pcoinsTip.best
    BY DEF FlushTypeOK, CoinState
  <1>2. Path[b] = {b} \cup Path[pcoinsTip.best]
    BY <1>1, PathLemma
  <1>3. \/ stage' = "files" /\ op' = [kind |-> "connect", block |-> b] /\ chainTip' = chainTip
        \/ stage' = stage /\ op' = op /\ chainTip' = b
    OBVIOUS
  <1>4. /\ b \in haveData /\ indexDB.undo \subseteq haveUndo
        /\ \A index \in indexMaybe : index.undo \subseteq haveUndo
    BY DEF DiskBehindMemory
  <1>5. FlushTypeOK'
    <2>1. op' \in [kind : {"none", "connect", "disconnect", "periodic", "shutdown"},
                   block : Blocks \cup {NoBlock}]
      BY <1>3 DEF FlushTypeOK
    <2>2. revSynced' \subseteq revFile' /\ revFile' \subseteq Blocks
      BY DEF FlushTypeOK
    <2>3. setDirtyFileInfo' \subseteq 0 .. MaxFile
      <3>1. nFile[b] \in 0 .. MaxFile /\ setDirtyFileInfo \subseteq 0 .. MaxFile
        BY DEF FlushTypeOK
      <3>2. setDirtyFileInfo' \in {setDirtyFileInfo, setDirtyFileInfo \cup {nFile[b]}}
        OBVIOUS
      <3> HIDE DEF FlushIInv, ConnectTip
      <3>. QED  BY <3>1, <3>2
    <2>. QED  BY <1>1, <1>3, <1>4, <2>1, <2>2, <2>3 DEF FlushTypeOK, dbs, Stages
  <1>6. DiskBehindMemory' /\ FilesInOrder'
    BY DEF DiskBehindMemory, FilesInOrder, dbs
  <1>7. BlockDataSafe'
    BY DEF BlockDataSafe, dbs
  <1>8. UndoDataSafe'
    <2>1. revFile \subseteq revFile' /\ revSynced \subseteq revSynced'
      OBVIOUS
    <2>2. LastFileWritten => \A a \in haveUndo' : nFile'[a] = nLastBlockFile' => a \in revFile'
      BY <2>1 DEF UndoDataSafe
    <2>. QED  BY <1>4, <2>1, <2>2 DEF UndoDataSafe, dbs
  <1>9. StagesReach'
    <2>1. stage = "none" /\ indexDB' = indexDB /\ nLastBlockFile' = nLastBlockFile
          /\ setDirtyFileInfo \subseteq setDirtyFileInfo'
      BY DEF dbs
    <2>. QED  BY <1>3, <2>1 DEF StagesReach, LastFileKnown
  <1>10. ChainsIndexed'
    BY <1>1, <1>2, <1>4 DEF ChainsIndexed, dbs
  <1>11. CoinsMove' /\ ViewMoves'
    <2>1. coinMaybe' = coinMaybe /\ faults' = faults /\ stage = "none" /\ pcoinsTip.best = chainTip
      BY DEF dbs
    <2>2. faults = 0 \/ "coins" \notin FaultKinds => pcoinsTip'.coins = Path[pcoinsTip'.best]
      <3>1. faults = 0 \/ "coins" \notin FaultKinds => pcoinsTip.coins = Path[pcoinsTip.best]
        BY DEF CoinsMove
      <3>. QED  BY <1>1, <1>2, <3>1
    <2>3. CoinsMove'
      BY <2>1, <2>2 DEF CoinsMove
    <2>4. ViewMoves'
      BY <1>1, <1>3, <2>1 DEF ViewMoves
    <2>. QED  BY <2>3, <2>4
  <1>. QED  BY <1>5, <1>6, <1>7, <1>8, <1>9, <1>10, <1>11

\* Disconnecting moves the view back and leaves the files as they are.
LEMMA DisconnectTipLemma ==
    ASSUME FlushIInv, DisconnectTip
    PROVE  FlushIInv'
  <1> USE DEF FlushIInv, DisconnectTip, memory, files, dbs
  <1>1. chainTip \in Blocks \ {Genesis} /\ pcoinsTip.best = chainTip
    BY DEF FlushTypeOK
  <1>2. /\ Parent[chainTip] \in Blocks /\ Path[chainTip] = {chainTip} \cup Path[Parent[chainTip]]
        /\ chainTip \notin Path[Parent[chainTip]]
    BY <1>1, PathLemma
  <1>3. /\ pcoinsTip \in CoinState /\ pcoinsTip' \in CoinState /\ pcoinsTip'.best = Parent[chainTip]
        /\ pcoinsTip'.coins = pcoinsTip.coins \ {chainTip}
    BY <1>2 DEF FlushTypeOK, CoinState
  <1>4. FlushTypeOK'
    BY <1>2, <1>3 DEF FlushTypeOK, Stages
  <1>5. DiskBehindMemory' /\ FilesInOrder'
    BY DEF DiskBehindMemory, FilesInOrder
  <1>6. BlockDataSafe' /\ UndoDataSafe' /\ StagesReach'
    BY DEF BlockDataSafe, UndoDataSafe, StagesReach, LastFileKnown
  <1>7. ChainsIndexed'
    BY <1>1, <1>2, <1>3 DEF ChainsIndexed
  <1>8. CoinsMove'
    <2>1. pcoinsTip.coins = Path[chainTip] => pcoinsTip'.coins = Path[Parent[chainTip]]
      BY <1>2, <1>3
    <2>2. coinMaybe' = coinMaybe /\ faults' = faults /\ CoinsMove
      OBVIOUS
    <2> HIDE DEF FlushIInv, DisconnectTip, memory, files, dbs
    <2>3. (faults = 0 \/ "coins" \notin FaultKinds) => pcoinsTip.coins = Path[chainTip]
      BY <1>1, <2>2 DEF CoinsMove
    <2>. QED  BY <1>3, <2>1, <2>2, <2>3 DEF CoinsMove
  <1>9. ViewMoves'
    BY <1>3 DEF ViewMoves
  <1>. QED  BY <1>4, <1>5, <1>6, <1>7, <1>8, <1>9

\* A flush that no connection or disconnection asked for begins.
LEMMA StartFlushLemma ==
    ASSUME FlushIInv, NEW kind \in {"periodic", "shutdown"}, StartFlush(kind)
    PROVE  FlushIInv'
  <1> USE DEF FlushIInv, StartFlush, memory, files, dbs
  <1>1. FlushTypeOK'
    BY DEF FlushTypeOK, Stages
  <1>2. DiskBehindMemory' /\ FilesInOrder'
    BY DEF DiskBehindMemory, FilesInOrder
  <1>3. BlockDataSafe' /\ UndoDataSafe' /\ StagesReach'
    BY DEF BlockDataSafe, UndoDataSafe, StagesReach, LastFileKnown
  <1>4. ChainsIndexed' /\ CoinsMove' /\ ViewMoves'
    BY DEF ChainsIndexed, CoinsMove, ViewMoves
  <1>. QED  BY <1>1, <1>2, <1>3, <1>4

\* What is not synced is in the last file, and goes now.
LEMMA FlushBlockFileLemma ==
    ASSUME FlushIInv, FlushBlockFile
    PROVE  FlushIInv'
  <1> USE DEF FlushIInv, FlushBlockFile, memory, dbs, SyncedBlk, SyncedRev
  <1>1. FlushTypeOK'
    BY DEF FlushTypeOK, Stages
  <1>2. DiskBehindMemory' /\ FilesInOrder'
    BY DEF DiskBehindMemory, FilesInOrder
  <1>3. BlockDataSafe' /\ UndoDataSafe'
    BY DEF BlockDataSafe, UndoDataSafe
  <1>4. StagesReach'
    BY DEF StagesReach, LastFileKnown, BlockDataSafe, UndoDataSafe
  <1>5. ChainsIndexed' /\ CoinsMove' /\ ViewMoves'
    BY DEF ChainsIndexed, CoinsMove, ViewMoves
  <1>. QED  BY <1>1, <1>2, <1>3, <1>4, <1>5

\* Without a dirty file the record of the last file is as it should be.
LEMMA WriteBlockFileInfoLemma ==
    ASSUME FlushIInv, WriteBlockFileInfo
    PROVE  FlushIInv'
  <1> USE DEF FlushIInv, WriteBlockFileInfo, files, dbs
  <1>1. FlushTypeOK'
    BY DEF FlushTypeOK, Stages
  <1>2. DiskBehindMemory' /\ FilesInOrder' /\ BlockDataSafe' /\ UndoDataSafe'
    BY DEF DiskBehindMemory, FilesInOrder, BlockDataSafe, UndoDataSafe
  <1>3. StagesReach'
    <2>1. CASE setDirtyFileInfo = {}
      BY <2>1 DEF StagesReach, LastFileKnown
    <2>2. CASE setDirtyFileInfo # {}
      BY <2>2 DEF StagesReach, LastFileKnown
    <2>. QED  BY <2>1, <2>2
  <1>4. ChainsIndexed' /\ CoinsMove' /\ ViewMoves'
    BY DEF ChainsIndexed, CoinsMove, ViewMoves
  <1>. QED  BY <1>1, <1>2, <1>3, <1>4

\* The record of the last file goes into the database before the entries do.
LEMMA WriteLastBlockFileLemma ==
    ASSUME FlushIInv, WriteLastBlockFile
    PROVE  FlushIInv'
  <1>1. /\ indexDB' = [indexDB EXCEPT !.lastFile = nLastBlockFile]
        /\ indexMaybe' = indexMaybe \cup {indexDB'}
    BY DEF WriteLastBlockFile, WriteIndex
  <1>2. /\ stage = "last" /\ stage' = "index"
        /\ UNCHANGED <<memory, chainTip, pcoinsTip, op, files, coinDB, coinMaybe, faults>>
    BY DEF WriteLastBlockFile
  <1>3. /\ indexDB \in indexMaybe /\ indexMaybe \subseteq IndexState
        /\ nLastBlockFile \in 0 .. MaxFile
    BY DEF FlushIInv, FlushTypeOK
  <1>4. /\ indexDB' \in IndexState /\ indexDB'.data = indexDB.data
        /\ indexDB'.undo = indexDB.undo /\ indexDB'.lastFile = nLastBlockFile
        /\ indexDB' \in indexMaybe' /\ indexMaybe' \subseteq IndexState
        /\ \A index \in indexMaybe' : index \in indexMaybe \/ index = indexDB'
    BY <1>1, <1>3 DEF IndexState
  <1>5. /\ \A index \in indexMaybe : index.lastFile <= nLastBlockFile
        /\ nLastBlockFile <= nLastBlockFile
    <2>1. nLastBlockFile \in Int /\ \A index \in indexMaybe : index.lastFile \in Int
      BY <1>3 DEF IndexState
    <2>2. /\ indexDB.lastFile <= nLastBlockFile
          /\ \A index \in indexMaybe : index.lastFile <= indexDB.lastFile
      BY DEF FlushIInv, DiskBehindMemory
    <2>. QED  BY <1>3, <2>1, <2>2
  <1> USE DEF memory, files
  <1> HIDE FlushAssumption
  <1>6. FlushTypeOK'
    BY <1>2, <1>4 DEF FlushIInv, FlushTypeOK, Stages
  <1>7. DiskBehindMemory'
    BY <1>2, <1>3, <1>4, <1>5 DEF FlushIInv, DiskBehindMemory
  <1>8. FilesInOrder'
    BY <1>2, <1>3, <1>4 DEF FlushIInv, FilesInOrder, DiskBehindMemory, BlockDataSafe
  <1>9. BlockDataSafe'
    BY <1>2, <1>4 DEF FlushIInv, BlockDataSafe
  <1>10. UndoDataSafe'
    BY <1>2, <1>3, <1>4 DEF FlushIInv, UndoDataSafe, StagesReach, DiskBehindMemory
  <1>11. StagesReach'
    BY <1>2, <1>4 DEF FlushIInv, StagesReach, LastFileKnown
  <1>12. ChainsIndexed' /\ CoinsMove' /\ ViewMoves'
    BY <1>2, <1>3, <1>4 DEF FlushIInv, ChainsIndexed, CoinsMove, ViewMoves
  <1>. QED  BY <1>6, <1>7, <1>8, <1>9, <1>10, <1>11, <1>12 DEF FlushIInv

\* An entry of the index follows; its data was synced in the stage before.
LEMMA WriteBlockIndexLemma ==
    ASSUME FlushIInv, NEW b \in Blocks, WriteBlockIndex(b)
    PROVE  FlushIInv'
  <1>1. /\ indexDB' = WithEntries(indexDB, {b})
        /\ indexMaybe' = indexMaybe \cup {indexDB'}
    BY DEF WriteBlockIndex, WriteIndex
  <1>2. /\ stage = "index" /\ stage' = "index" /\ b \in setDirtyBlockIndex
        /\ setDirtyBlockIndex' = setDirtyBlockIndex \ {b}
        /\ UNCHANGED <<haveData, haveUndo, setDirtyFileInfo, nFile, nLastBlockFile, chainTip,
                       pcoinsTip, op, files, coinDB, coinMaybe, faults>>
    BY DEF WriteBlockIndex
  <1>3. /\ indexDB \in indexMaybe /\ indexMaybe \subseteq IndexState
        /\ haveUndo \subseteq haveData /\ haveData \subseteq Blocks
        /\ nLastBlockFile \in 0 .. MaxFile
        /\ setDirtyBlockIndex \subseteq haveData
    BY DEF FlushIInv, FlushTypeOK
  <1>4. /\ indexDB' \in IndexState /\ indexDB'.lastFile = indexDB.lastFile
        /\ indexDB'.data = indexDB.data \cup {b}
        /\ indexDB'.undo = indexDB.undo \cup ({b} \cap haveUndo)
        /\ indexDB' \in indexMaybe' /\ indexMaybe' \subseteq IndexState
        /\ \A index \in indexMaybe' : index \in indexMaybe \/ index = indexDB'
    <2>1. indexDB \in IndexState /\ b \in haveData
      BY <1>2, <1>3
    <2>2. indexDB' = [indexDB EXCEPT !.data = @ \cup ({b} \cap haveData),
                                    !.undo = @ \cup ({b} \cap haveUndo)]
      BY <1>1, Zenon DEF WithEntries
    <2> HIDE FlushAssumption
    <2>3. /\ indexDB'.lastFile = indexDB.lastFile
          /\ indexDB'.data = indexDB.data \cup ({b} \cap haveData)
          /\ indexDB'.undo = indexDB.undo \cup ({b} \cap haveUndo)
      BY <2>1, <2>2 DEF IndexState
    <2>4. indexDB' \in IndexState
      BY <1>3, <2>1, <2>2 DEF IndexState
    <2>. QED  BY <1>1, <1>3, <2>1, <2>3, <2>4
  <1>5. /\ haveData \subseteq blkSynced /\ b \in haveData
        /\ LastFileWritten => /\ indexDB.lastFile = nLastBlockFile
                              /\ \A a \in haveUndo : nFile[a] = nLastBlockFile => a \in revSynced
    BY <1>2, <1>3 DEF FlushIInv, StagesReach
  <1> USE DEF files
  <1> HIDE FlushAssumption
  <1>6. FlushTypeOK'
    BY <1>2, <1>4 DEF FlushIInv, FlushTypeOK, Stages
  <1>7. DiskBehindMemory'
    <2>1. \A index \in indexMaybe : index.lastFile \in Int
      BY <1>3 DEF IndexState
    <2>2. indexDB'.lastFile \in Int /\ indexDB'.lastFile <= indexDB'.lastFile
      BY <1>4 DEF IndexState
    <2>. QED  BY <1>2, <1>3, <1>4, <1>5, <2>1, <2>2 DEF FlushIInv, DiskBehindMemory
  <1>8. FilesInOrder'
    <2>1. LastFileWritten => \A a \in indexDB'.data : nFile[a] <= indexDB'.lastFile
      BY <1>3, <1>4, <1>5 DEF FlushIInv, FilesInOrder
    <2>. QED  BY <1>2, <1>4, <2>1 DEF FlushIInv, FilesInOrder
  <1>9. BlockDataSafe'
    BY <1>2, <1>4, <1>5 DEF FlushIInv, BlockDataSafe
  <1>10. UndoDataSafe'
    <2>1. LastFileWritten => \A a \in indexDB'.undo :
             nFile[a] = indexDB'.lastFile => a \in revSynced
      BY <1>3, <1>4, <1>5 DEF FlushIInv, UndoDataSafe
    <2>. QED  BY <1>2, <1>4, <2>1 DEF FlushIInv, UndoDataSafe
  <1>11. StagesReach'
    BY <1>2, <1>4 DEF FlushIInv, StagesReach, LastFileKnown
  <1>12. ChainsIndexed' /\ CoinsMove' /\ ViewMoves'
    BY <1>2, <1>3, <1>4 DEF FlushIInv, ChainsIndexed, CoinsMove, ViewMoves
  <1>. QED  BY <1>6, <1>7, <1>8, <1>9, <1>10, <1>11, <1>12 DEF FlushIInv

\* The index is made durable.
LEMMA SyncBlockIndexLemma ==
    ASSUME FlushIInv, SyncBlockIndex
    PROVE  FlushIInv'
  <1> USE DEF FlushIInv, SyncBlockIndex, memory, files
  <1>1. indexMaybe' = {indexDB} /\ indexDB \in indexMaybe /\ indexDB \in IndexState
        /\ indexDB.lastFile \in Int
    BY DEF FlushTypeOK, IndexState
  <1>2. FlushTypeOK'
    BY <1>1 DEF FlushTypeOK, Stages
  <1>3. DiskBehindMemory' /\ FilesInOrder'
    BY <1>1 DEF DiskBehindMemory, FilesInOrder
  <1>4. BlockDataSafe' /\ UndoDataSafe' /\ StagesReach'
    BY <1>1 DEF BlockDataSafe, UndoDataSafe, StagesReach, LastFileKnown
  <1>5. ChainsIndexed' /\ CoinsMove' /\ ViewMoves'
    BY <1>1 DEF ChainsIndexed, CoinsMove, ViewMoves
  <1>. QED  BY <1>2, <1>3, <1>4, <1>5

\* The chain of the view is in the synced index by now, so the coin batch may
\* reach the disk at any time from here on.
LEMMA FlushCoinsLemma ==
    ASSUME FlushIInv, FlushCoins
    PROVE  FlushIInv'
  <1>1. /\ stage = "coins" /\ setDirtyBlockIndex = {} /\ indexMaybe = {indexDB}
        /\ haveData = indexDB.data /\ haveUndo = indexDB.undo
    BY DEF FlushIInv, FlushCoins, StagesReach, BlockDataSafe, UndoDataSafe, DiskBehindMemory
  <1>2. /\ coinMaybe' = coinMaybe \cup {pcoinsTip} /\ coinMaybe' \subseteq CoinState
        /\ pcoinsTip \in CoinState
    BY DEF FlushIInv, FlushCoins, FlushTypeOK
  <1>3. \A c \in coinMaybe', i \in indexMaybe :
           /\ Path[c.best] \subseteq i.data /\ Path[c.best] \ {Genesis} \subseteq i.undo
    BY <1>1, <1>2 DEF FlushIInv, ChainsIndexed
  <1>4. faults' = faults /\ faults \in 0 .. MaxFaults
    BY DEF FlushIInv, FlushCoins, FlushTypeOK
  <1>5. (faults' = 0 \/ "coins" \notin FaultKinds) =>
            \A c \in coinMaybe' : c.coins = Path[c.best]
    BY <1>2, <1>4 DEF FlushIInv, CoinsMove
  <1>6. CASE op.kind = "shutdown"
    <2>1. Reload(pcoinsTip)
      BY <1>6 DEF FlushCoins
    <2>. QED  BY <1>2, <1>3, <1>4, <1>5, <2>1, ReloadLemma
  <1>7. CASE op.kind # "shutdown"
    <2>1. /\ coinDB' = pcoinsTip /\ chainTip' = op.block /\ stage' = "none" /\ op' = NoOp
          /\ UNCHANGED <<memory, pcoinsTip, files, indexDB, indexMaybe, faults>>
      BY <1>7 DEF FlushCoins
    <2> USE DEF memory, files
    <2>2. FlushTypeOK'
      <3>1. op' \in [kind : {"none", "connect", "disconnect", "periodic", "shutdown"},
                     block : Blocks \cup {NoBlock}]
        BY <2>1 DEF NoOp
      <3>. QED  BY <1>2, <2>1, <3>1 DEF FlushIInv, FlushTypeOK, Stages
    <2>3. DiskBehindMemory' /\ FilesInOrder'
      BY <2>1 DEF FlushIInv, DiskBehindMemory, FilesInOrder
    <2>4. BlockDataSafe' /\ UndoDataSafe' /\ StagesReach'
      BY <1>1, <2>1 DEF FlushIInv, BlockDataSafe, UndoDataSafe, StagesReach, LastFileKnown
    <2>5. ChainsIndexed'
      BY <1>3, <2>1 DEF FlushIInv, ChainsIndexed
    <2>6. CoinsMove' /\ ViewMoves'
      BY <1>1, <1>2, <1>5, <2>1 DEF FlushIInv, CoinsMove, ViewMoves
    <2>. QED  BY <2>2, <2>3, <2>4, <2>5, <2>6 DEF FlushIInv
  <1>. QED  BY <1>6, <1>7

\* A failed flush leaves the disk as far as it got.
LEMMA FlushFailsLemma ==
    ASSUME FlushIInv, FlushFails
    PROVE  FlushIInv'
  <1>1. /\ stage # "none" /\ FaultOf[stage] \in FaultKinds
        /\ faults' \in 0 .. MaxFaults /\ faults' # 0
    BY DEF FlushIInv, FlushFails, FlushTypeOK
  <1>2. CASE op.kind = "shutdown"
    <2>1. Reload(coinDB) /\ UNCHANGED coinMaybe
      BY <1>2 DEF FlushFails
    <2>2. coinDB \in coinMaybe' /\ coinMaybe' \subseteq CoinState
      BY <2>1 DEF FlushIInv, FlushTypeOK
    <2>3. \A c \in coinMaybe', i \in indexMaybe :
             /\ Path[c.best] \subseteq i.data /\ Path[c.best] \ {Genesis} \subseteq i.undo
      BY <2>1 DEF FlushIInv, ChainsIndexed
    <2>4. "coins" \notin FaultKinds => \A c \in coinMaybe' : c.coins = Path[c.best]
      BY <2>1 DEF FlushIInv, CoinsMove
    <2>. QED  BY <1>1, <2>1, <2>2, <2>3, <2>4, ReloadLemma
  <1>3. CASE op.kind # "shutdown"
    <2>1. /\ LostIn(stage) /\ stage' = "none" /\ op' = NoOp
          /\ UNCHANGED <<haveData, haveUndo, setDirtyBlockIndex, nFile, nLastBlockFile, chainTip,
                         files, dbs>>
      BY <1>3 DEF FlushFails
    <2>a. /\ pcoinsTip' = [pcoinsTip EXCEPT !.coins = coinDB.coins] \/ pcoinsTip' = pcoinsTip
          /\ stage # "coins" => pcoinsTip' = pcoinsTip
          /\ setDirtyFileInfo' \subseteq setDirtyFileInfo
          /\ stage = "info" => setDirtyFileInfo' # {}
          /\ stage # "info" => setDirtyFileInfo' = setDirtyFileInfo
      <3>1. \A n \in setDirtyFileInfo : n \in Int
        BY DEF FlushIInv, FlushTypeOK
      <3>2. CASE stage = "info"
        <4>1. PICK n \in setDirtyFileInfo : setDirtyFileInfo' = {m \in setDirtyFileInfo : m >= n}
          BY <2>1, <3>2 DEF LostIn
        <4>2. n \in setDirtyFileInfo'
          BY <3>1, <4>1
        <4>. QED  BY <2>1, <3>2, <4>1, <4>2 DEF LostIn
      <3>3. CASE stage # "info"
        BY <2>1, <3>3 DEF LostIn
      <3>. QED  BY <3>2, <3>3
    <2> USE DEF memory, files, dbs
    <2>2. /\ pcoinsTip' \in CoinState /\ pcoinsTip'.best = pcoinsTip.best
          /\ pcoinsTip' = pcoinsTip \/ "coins" \in FaultKinds
      BY <1>1, <2>1, <2>a DEF FlushIInv, FlushTypeOK, CoinState, FaultOf
    <2>3. FlushTypeOK'
      <3>1. op' \in [kind : {"none", "connect", "disconnect", "periodic", "shutdown"},
                     block : Blocks \cup {NoBlock}]
        BY <2>1 DEF NoOp
      <3>. QED  BY <1>1, <2>1, <2>a, <2>2, <3>1 DEF FlushIInv, FlushTypeOK, Stages
    <2>4. DiskBehindMemory' /\ FilesInOrder'
      BY <2>1 DEF FlushIInv, DiskBehindMemory, FilesInOrder
    <2>5. BlockDataSafe' /\ UndoDataSafe'
      BY <2>1 DEF FlushIInv, BlockDataSafe, UndoDataSafe
    <2>b. StagesReach'
      <3>1. LastFileWritten => stage # "last"
        BY <1>1 DEF LastFileWritten, FaultOf
      <3>2. LastFileWritten => indexDB.lastFile = nLastBlockFile \/ setDirtyFileInfo # {}
        BY <3>1 DEF FlushIInv, StagesReach, LastFileKnown
      <3>3. LastFileWritten => LastFileKnown'
        BY <2>1, <2>a, <3>2 DEF LastFileKnown
      <3>. QED  BY <2>1, <3>3 DEF StagesReach, LastFileWritten
    <2>6. ChainsIndexed'
      BY <2>1, <2>2 DEF FlushIInv, ChainsIndexed
    <2>7. CoinsMove' /\ ViewMoves'
      BY <1>1, <2>1, <2>2 DEF FlushIInv, CoinsMove, ViewMoves
    <2>. QED  BY <2>3, <2>4, <2>5, <2>b, <2>6, <2>7 DEF FlushIInv
  <1>. QED  BY <1>2, <1>3

\* The process dies: memory goes, what was written stays.
LEMMA CrashLemma ==
    ASSUME FlushIInv, Crash
    PROVE  FlushIInv'
  <1>1. Reload(coinDB) /\ UNCHANGED <<coinMaybe, faults>>
    BY DEF Crash
  <1>2. coinDB \in coinMaybe' /\ coinMaybe' \subseteq CoinState /\ faults' \in 0 .. MaxFaults
    BY <1>1 DEF FlushIInv, FlushTypeOK
  <1>3. \A c \in coinMaybe', i \in indexMaybe :
           /\ Path[c.best] \subseteq i.data /\ Path[c.best] \ {Genesis} \subseteq i.undo
    BY <1>1 DEF FlushIInv, ChainsIndexed
  <1>4. (faults' = 0 \/ "coins" \notin FaultKinds) =>
            \A c \in coinMaybe' : c.coins = Path[c.best]
    BY <1>1 DEF FlushIInv, CoinsMove
  <1>. QED  BY <1>1, <1>2, <1>3, <1>4, ReloadLemma

\* The machine dies: what was not synced may go too.
LEMMA PowerFailureLemma ==
    ASSUME FlushIInv, PowerFailure
    PROVE  FlushIInv'
  <1>1. PICK blk \in SUBSET (blkFile \ blkSynced), rev \in SUBSET (revFile \ revSynced),
             index \in indexMaybe, coin \in coinMaybe :
        /\ Load(index, coin, blkSynced \cup blk, revSynced \cup rev)
        /\ blkSynced' = blkFile' /\ revSynced' = revFile'
        /\ indexMaybe' = {index} /\ coinMaybe' = {coin}
        /\ UNCHANGED faults
    BY DEF PowerFailure
  <1>2. /\ index \in IndexState /\ index.lastFile \in Int
        /\ index.data \subseteq indexDB.data /\ index.undo \subseteq index.data
    BY DEF FlushIInv, FlushTypeOK, DiskBehindMemory, IndexState
  <1>3. /\ blkSynced' = (blkSynced \cup blk) \cap index.data
        /\ revSynced' = (revSynced \cup rev) \cap index.undo
    BY <1>1 DEF Load
  <1>4. LastFileWritten =>
           /\ \A b \in index.data : nFile[b] <= index.lastFile
           /\ \A b \in index.undo : nFile[b] = index.lastFile => b \in revSynced'
    BY <1>3 DEF FlushIInv, FilesInOrder, UndoDataSafe
  <1>5. /\ index.data \subseteq blkSynced' /\ blkSynced \cup blk \subseteq Blocks
        /\ revSynced \cup rev \subseteq Blocks
    BY <1>2, <1>3 DEF FlushIInv, BlockDataSafe, FlushTypeOK
  <1>6. coinMaybe' \subseteq CoinState /\ faults' \in 0 .. MaxFaults
    BY <1>1 DEF FlushIInv, FlushTypeOK
  <1>7. /\ Path[coin.best] \subseteq index.data
        /\ Path[coin.best] \ {Genesis} \subseteq index.undo
    BY DEF FlushIInv, ChainsIndexed
  <1>8. (faults' = 0 \/ "coins" \notin FaultKinds) =>
            \A c \in coinMaybe' : c.coins = Path[c.best]
    BY <1>1 DEF FlushIInv, CoinsMove
  <1>9. index.lastFile <= index.lastFile
    BY <1>2
  <1>. QED  BY <1>1, <1>2, <1>3, <1>4, <1>5, <1>6, <1>7, <1>8, <1>9, LoadLemma

----------------------------------------------------------------------------
(* The theorems *)

\* FlushStateToDisk's order keeps the inductive invariant through every crash
\* and power failure.
THEOREM Inductive == FlushSpec => []FlushIInv
  <1>1. FlushIInv /\ [FlushNext]_flushVars => FlushIInv'
    <2> SUFFICES ASSUME FlushIInv, [FlushNext]_flushVars PROVE FlushIInv'
      OBVIOUS
    <2>1. ASSUME NEW b \in Blocks \ {Genesis}, AcceptBlock(b) PROVE FlushIInv'
      BY <2>1, AcceptBlockLemma
    <2>2. ASSUME NEW b \in Blocks \ {Genesis}, ConnectTip(b) PROVE FlushIInv'
      BY <2>2, ConnectTipLemma
    <2>3. CASE DisconnectTip
      BY <2>3, DisconnectTipLemma
    <2>4. ASSUME NEW kind \in {"periodic", "shutdown"}, StartFlush(kind) PROVE FlushIInv'
      BY <2>4, StartFlushLemma
    <2>5. CASE FlushBlockFile
      BY <2>5, FlushBlockFileLemma
    <2>6. CASE WriteBlockFileInfo \/ WriteLastBlockFile
      BY <2>6, WriteBlockFileInfoLemma, WriteLastBlockFileLemma
    <2>7. ASSUME NEW b \in Blocks, WriteBlockIndex(b) PROVE FlushIInv'
      BY <2>7, WriteBlockIndexLemma
    <2>8. CASE SyncBlockIndex
      BY <2>8, SyncBlockIndexLemma
    <2>9. CASE FlushCoins
      BY <2>9, FlushCoinsLemma
    <2>10. CASE FlushFails
      BY <2>10, FlushFailsLemma
    <2>11. CASE Crash
      BY <2>11, CrashLemma
    <2>12. CASE PowerFailure
      BY <2>12, PowerFailureLemma
    <2>13. CASE UNCHANGED flushVars
      <3> USE <2>13 DEF flushVars, memory, files, dbs
      <3>1. FlushTypeOK' /\ DiskBehindMemory' /\ FilesInOrder'
        BY DEF FlushIInv, FlushTypeOK, DiskBehindMemory, FilesInOrder
      <3>2. BlockDataSafe' /\ UndoDataSafe' /\ StagesReach'
        BY DEF FlushIInv, BlockDataSafe, UndoDataSafe, StagesReach, LastFileKnown
      <3>3. ChainsIndexed' /\ CoinsMove' /\ ViewMoves'
        BY DEF FlushIInv, ChainsIndexed, CoinsMove, ViewMoves
      <3>. QED  BY <3>1, <3>2, <3>3 DEF FlushIInv
    <2>. QED
      BY <2>1, <2>2, <2>3, <2>4, <2>5, <2>6, <2>7, <2>8, <2>9, <2>10, <2>11, <2>12, <2>13
      DEF FlushNext
  <1>. QED  BY <1>1, InitLemma, PTL DEF FlushSpec

\* Whatever coin database a crash or a power failure leaves, at any stage of
\* any flush, its chain is in the index left and in the synced block files.
THEOREM Recoverable == FlushSpec => []BestBlockRecoverable
  <1>1. FlushIInv => BestBlockRecoverable
    BY DEF FlushIInv, BestBlockRecoverable, ChainsIndexed, BlockDataSafe, DiskBehindMemory
  <1>. QED  BY <1>1, Inductive, PTL

\* The undo records of its blocks in the file being filled are there too, as long
\* as it is known which file that is: after a WriteLastBlockFile that failed a node
\* that starts again fills an older file.
THEOREM UndoRecoverable ==
    ASSUME "last" \notin FaultKinds
    PROVE  FlushSpec => []UndoOfLastFileRecoverable
  <1>1. FlushIInv => UndoOfLastFileRecoverable
    <2> SUFFICES ASSUME FlushIInv, NEW coin \in coinMaybe, NEW index \in indexMaybe,
                        NEW b \in Path[coin.best] \ {Genesis}, nFile[b] = nLastBlockFile
                 PROVE  b \in index.undo \cap revSynced
      BY DEF UndoOfLastFileRecoverable
    <2>1. b \in index.undo /\ b \in index.data /\ b \in Blocks
      BY DEF FlushIInv, ChainsIndexed, DiskBehindMemory, FlushTypeOK, IndexState
    <2>2. nFile[b] = index.lastFile
      <3>1. nFile[b] <= index.lastFile
        BY <2>1 DEF FlushIInv, FilesInOrder, LastFileWritten
      <3>2. index.lastFile <= indexDB.lastFile /\ indexDB.lastFile <= nLastBlockFile
        BY DEF FlushIInv, DiskBehindMemory
      <3>3. index.lastFile \in Int /\ indexDB.lastFile \in Int /\ nLastBlockFile \in Int
        BY DEF FlushIInv, FlushTypeOK, IndexState
      <3>. QED  BY <3>1, <3>2, <3>3
    <2>. QED  BY <2>1, <2>2 DEF FlushIInv, UndoDataSafe, LastFileWritten
  <1>. QED  BY <1>1, Inductive, PTL

\* Unless the write of the coin batch itself fails, every coin database that
\* may be found holds the effects of its own chain.  The premise is needed: see
\* the run flush_write_error.
THEOREM CoinsMatch ==
    ASSUME "coins" \notin FaultKinds
    PROVE  FlushSpec => []CoinsMatchBest
  <1>1. FlushIInv => CoinsMatchBest
    BY DEF FlushIInv, CoinsMove, CoinsMatchBest
  <1>. QED  BY <1>1, Inductive, PTL

\* Through crashes and power failures, and as long as no flush has failed, the
\* view stands on the tip whenever no call is running.
THEOREM ViewMatches == FlushSpec => []ViewMatchesTipUnlessFailed
  <1>1. FlushIInv => ViewMatchesTipUnlessFailed
    BY DEF FlushIInv, CoinsMove, ViewMoves, ViewMatchesTipUnlessFailed
  <1>. QED  BY <1>1, Inductive, PTL

HIDE FlushAssumption

-----------------------------------------------------------------------------
(* CoinsCache *)

\* An entry of the view that pcoinsTip does not hold is FRESH: reading through
\* the view fills pcoinsTip too, unless the database has nothing.
ViewBacked ==
    \A t \in Txid :
        view[t] # NotCached /\ tip[t] = NotCached => "FRESH" \in view[t].flags

\* The inductive invariant.
IInv == TypeOK /\ CachesCoherent /\ ViewBacked

USE CoinsAssumption

\* What FetchCoins returns for an entry over a parent that answers p.
LEMMA FetchLemma ==
    ASSUME NEW cache \in [Txid -> Entry \cup {NotCached}], NEW t \in Txid,
           NEW p \in Coins \cup {NotCached}
    PROVE  /\ FetchCoins(cache, t, p) \in Entry \cup {NotCached}
           /\ cache[t] # NotCached => FetchCoins(cache, t, p) = cache[t]
           /\ cache[t] = NotCached /\ p = NotCached
                => FetchCoins(cache, t, p) = NotCached
           /\ cache[t] = NotCached /\ p # NotCached
                => /\ FetchCoins(cache, t, p) \in Entry
                   /\ FetchCoins(cache, t, p).coins = p
                   /\ "DIRTY" \notin FetchCoins(cache, t, p).flags
                   /\ "FRESH" \in FetchCoins(cache, t, p).flags => p = Pruned
  BY DEF FetchCoins, Entry, Flag

\* Pulling an entry into pcoinsTip keeps its coins and its coherence.
LEMMA TipFetchLemma ==
    ASSUME TypeOK, CachesCoherent, NEW t \in Txid
    PROVE  /\ TipFetch(t) \in Entry \cup {NotCached}
           /\ TipFetch(t) = NotCached => tip[t] = NotCached /\ db[t] = Pruned
           /\ TipFetch(t) # NotCached => TipFetch(t).coins = TipCoins(t)
           /\ EntryCoherent(TipFetch(t), db[t])
           /\ CoinsOf(TipFetch(t)) \in Coins \cup {NotCached}
           /\ CoinsOf(TipFetch(t)) = NotCached => TipFetch(t) = NotCached
           /\ CoinsOf(TipFetch(t)) # NotCached => CoinsOf(TipFetch(t)) = TipCoins(t)
           /\ TipCoins(t) \in Coins
  <1>1. DbGetCoins(t) \in Coins \cup {NotCached}
    BY DEF DbGetCoins, TypeOK
  <1>2. tip \in [Txid -> Entry \cup {NotCached}] /\ db[t] \in Coins
    BY DEF TypeOK
  <1>3. EntryCoherent(tip[t], db[t])
    BY DEF CachesCoherent
  <1>. HIDE DEF Entry
  <1>4. TipFetch(t) \in Entry \cup {NotCached}
    BY <1>1, <1>2, FetchLemma DEF TipFetch
  <1>5. /\ TipFetch(t) = NotCached => tip[t] = NotCached /\ db[t] = Pruned
        /\ TipFetch(t) # NotCached => TipFetch(t).coins = TipCoins(t)
        /\ EntryCoherent(TipFetch(t), db[t])
    BY <1>1, <1>2, <1>3, FetchLemma DEF TipFetch, TipCoins, EntryCoherent, DbGetCoins
  <1>6. TipCoins(t) \in Coins
    BY <1>2 DEF TipCoins, Entry
  <1>. QED
    BY <1>4, <1>5, <1>6 DEF CoinsOf, Entry

\* Merging a child's entry e over parent entry p over stored coins d.
LEMMA BatchWriteLemma ==
    ASSUME NEW p \in Entry \cup {NotCached}, NEW e \in Entry \cup {NotCached},
           NEW d \in Coins, EntryCoherent(p, d),
           EntryCoherent(e, IF p = NotCached THEN d ELSE p.coins),
           e # NotCached /\ p = NotCached => "FRESH" \in e.flags
    PROVE  LET m == BatchWriteEntry(p, e)
           IN  /\ m \in Entry \cup {NotCached}
               /\ EntryCoherent(m, d)
               /\ (IF m = NotCached THEN d ELSE m.coins) =
                     IF e = NotCached THEN IF p = NotCached THEN d ELSE p.coins
                     ELSE e.coins
  BY DEF BatchWriteEntry, EntryCoherent, Entry, Flag

\* Handing an entry of the view to a modifier and letting it go.
LEMMA ModifierLemma ==
    ASSUME TypeOK, CachesCoherent, ViewBacked, NEW t \in Txid, NEW c \in Coins
    PROVE  LET m == AfterModifier([coins |-> c,
                        flags |-> ModifiedEntry(t).flags \cup {"DIRTY"}])
           IN  /\ m \in Entry \cup {NotCached}
               /\ EntryCoherent(m, TipCoins(t))
               /\ m # NotCached /\ view[t] = NotCached /\ TipFetch(t) = NotCached
                    => "FRESH" \in m.flags
               /\ m # NotCached /\ view[t] # NotCached /\ tip[t] = NotCached
                    => "FRESH" \in m.flags
               /\ (IF m = NotCached THEN TipCoins(t) ELSE m.coins) = c
  <1>1. view[t] \in Entry \cup {NotCached} /\ EntryCoherent(view[t], TipCoins(t))
    BY DEF TypeOK, CachesCoherent
  <1>2. view[t] # NotCached /\ tip[t] = NotCached => "FRESH" \in view[t].flags
    BY DEF ViewBacked
  <1>3. /\ ModifiedEntry(t) \in Entry
        /\ "FRESH" \in ModifiedEntry(t).flags => TipCoins(t) = Pruned
        /\ view[t] = NotCached /\ TipFetch(t) = NotCached
             => "FRESH" \in ModifiedEntry(t).flags
        /\ view[t] # NotCached /\ tip[t] = NotCached
             => "FRESH" \in ModifiedEntry(t).flags
    BY <1>1, <1>2, TipFetchLemma
    DEF ModifiedEntry, Entry, Flag, EntryCoherent, CoinsOf, TipCoins
  <1>. QED
    BY <1>3, TipFetchLemma DEF AfterModifier, EntryCoherent, Entry, Flag

\* Reading through the view.
LEMMA ViewFetchLemma ==
    ASSUME TypeOK, CachesCoherent, ViewBacked, NEW t \in Txid
    PROVE  /\ ViewFetch(t) \in Entry \cup {NotCached}
           /\ EntryCoherent(ViewFetch(t), TipCoins(t))
           /\ ViewFetch(t) # NotCached => ViewFetch(t).coins = ViewCoins(t)
           /\ ViewFetch(t) = NotCached => view[t] = NotCached
           /\ view[t] # NotCached => ViewFetch(t) = view[t]
           /\ view[t] = NotCached /\ TipFetch(t) = NotCached
                => ViewFetch(t) = NotCached
  <1>1. view \in [Txid -> Entry \cup {NotCached}] /\ EntryCoherent(view[t], TipCoins(t))
    BY DEF TypeOK, CachesCoherent
  <1>. DEFINE p == CoinsOf(TipFetch(t))
  <1>2. /\ p \in Coins \cup {NotCached}
        /\ p # NotCached => p = TipCoins(t)
        /\ TipFetch(t) = NotCached => p = NotCached
    BY TipFetchLemma DEF CoinsOf
  <1>. HIDE DEF p
  <1>3. ViewFetch(t) = FetchCoins(view, t, p)
    BY DEF ViewFetch, p
  <1>. QED
    BY <1>1, <1>2, <1>3, FetchLemma DEF EntryCoherent, ViewCoins

\* The inductive invariant holds initially.
LEMMA InitIInv == Init => IInv
  BY DEF Init, IInv, TypeOK, CachesCoherent, ViewBacked, Empty, EntryCoherent

\* Pulling one entry into pcoinsTip and setting one entry of the view to e.
LEMMA PullLemma ==
    ASSUME IInv, NEW t \in Txid, NEW e \in Entry \cup {NotCached},
           EntryCoherent(e, TipCoins(t)),
           e # NotCached /\ view[t] = NotCached /\ TipFetch(t) = NotCached
              => "FRESH" \in e.flags,
           e # NotCached /\ view[t] # NotCached /\ tip[t] = NotCached
              => "FRESH" \in e.flags,
           viewOpen,
           view' = [view EXCEPT ![t] = e],
           tip' = IF view[t] = NotCached THEN [tip EXCEPT ![t] = TipFetch(t)] ELSE tip,
           UNCHANGED <<db, dbBest, tipBest, viewOpen, writeFailed>>,
           viewBest' = viewBest
    PROVE  /\ IInv'
           /\ \A u \in Txid : TipCoins(u)' = TipCoins(u)
           /\ \A u \in Txid : ViewCoins(u)' =
                 IF u = t THEN IF e = NotCached THEN TipCoins(t) ELSE e.coins
                 ELSE ViewCoins(u)
  <1>. USE DEF IInv
  <1>1. TypeOK'
    BY TipFetchLemma DEF TypeOK
  <1>2. \A u \in Txid : TipCoins(u)' = TipCoins(u) /\ EntryCoherent(tip'[u], db[u])
    BY TipFetchLemma DEF TypeOK, CachesCoherent, TipCoins
  <1>3. CachesCoherent'
    BY <1>2 DEF TypeOK, CachesCoherent, EntryCoherent
  <1>4. ViewBacked'
    BY TipFetchLemma DEF TypeOK, ViewBacked
  <1>5. \A u \in Txid : ViewCoins(u)' =
              IF u = t THEN IF e = NotCached THEN TipCoins(t) ELSE e.coins
              ELSE ViewCoins(u)
    BY <1>2 DEF TypeOK, ViewCoins
  <1>. QED
    BY <1>1, <1>2, <1>3, <1>4, <1>5

-----------------------------------------------------------------------------
\* A modifier keeps the invariant and changes one entry of the working view.
LEMMA ModifyLemma ==
    ASSUME IInv, NEW t \in Txid, NEW c \in Coins, ViewModifyCoins(t, c)
    PROVE  IInv' /\ View!AbsModify(t, c)
  <1>. DEFINE base == [u \in Txid |-> TipCoins(u)]
              work == [u \in Txid |-> ViewCoins(u)]
  <1>. USE DEF IInv
  <1>. DEFINE m == AfterModifier([coins |-> c,
                        flags |-> ModifiedEntry(t).flags \cup {"DIRTY"}])
  <1>1. /\ m \in Entry \cup {NotCached}
        /\ EntryCoherent(m, TipCoins(t))
        /\ m # NotCached /\ view[t] = NotCached /\ TipFetch(t) = NotCached
             => "FRESH" \in m.flags
        /\ m # NotCached /\ view[t] # NotCached /\ tip[t] = NotCached
             => "FRESH" \in m.flags
        /\ (IF m = NotCached THEN TipCoins(t) ELSE m.coins) = c
    BY ModifierLemma
  <1>2. /\ view' = [view EXCEPT ![t] = m]
        /\ viewOpen
        /\ tip' = IF view[t] = NotCached THEN [tip EXCEPT ![t] = TipFetch(t)] ELSE tip
        /\ UNCHANGED <<db, dbBest, tipBest, viewOpen, writeFailed>>
        /\ viewBest' = viewBest
    BY DEF ViewModifyCoins
  <1>. HIDE DEF m
  <1>3. /\ IInv'
        /\ \A u \in Txid : TipCoins(u)' = TipCoins(u)
        /\ \A u \in Txid : ViewCoins(u)' =
              IF u = t THEN IF m = NotCached THEN TipCoins(t) ELSE m.coins
              ELSE ViewCoins(u)
    BY <1>1, <1>2, PullLemma
  <1>4. base' = base /\ work' = [work EXCEPT ![t] = c]
    BY <1>1, <1>3
  <1>5. TipBestBlock' = TipBestBlock
    BY <1>2 DEF TipBestBlock
  <1>. QED  BY <1>2, <1>3, <1>4, <1>5 DEF View!AbsModify

\* Every step keeps the invariant and is a step of CoinsView or a stutter.
LEMMA StepLemma ==
    ASSUME IInv, [Next]_vars
    PROVE  IInv' /\ [View!AbsNext]_(View!absVars)
  <1>. DEFINE base == [t \in Txid |-> TipCoins(t)]
              work == [t \in Txid |-> ViewCoins(t)]
  <1>. USE DEF IInv
  <1>1. CASE OpenView
    <2>1. IInv'
      BY <1>1 DEF OpenView, TypeOK, CachesCoherent, ViewBacked, Empty, EntryCoherent,
                  TipCoins
    <2>2. base' = base /\ work' = base /\ TipBestBlock' = TipBestBlock
      BY <1>1 DEF OpenView, TipCoins, ViewCoins, Empty, TipBestBlock
    <2>3. View!AbsOpen
      BY <1>1, <2>2 DEF OpenView, View!AbsOpen
    <2>. QED  BY <2>1, <2>3 DEF View!AbsNext
  <1>2. CASE DropView
    <2>1. IInv'
      BY <1>2 DEF DropView, TypeOK, CachesCoherent, ViewBacked, Empty, EntryCoherent,
                  TipCoins
    <2>2. base' = base /\ work' = base /\ TipBestBlock' = TipBestBlock
      BY <1>2 DEF DropView, TipCoins, ViewCoins, Empty, TipBestBlock
    <2>3. View!AbsDiscard
      BY <1>2, <2>2 DEF DropView, View!AbsDiscard
    <2>. QED  BY <2>1, <2>3 DEF View!AbsNext
  <1>3. CASE ViewGetBestBlock \/ TipGetBestBlock
    <2>1. IInv'
      BY <1>3 DEF ViewGetBestBlock, TipGetBestBlock, TypeOK, CachesCoherent, ViewBacked,
                  EntryCoherent, TipCoins, ViewBestBlock, TipBestBlock
    <2>2. base' = base /\ work' = work /\ TipBestBlock' = TipBestBlock
      BY <1>3 DEF ViewGetBestBlock, TipGetBestBlock, TipCoins, ViewCoins, TipBestBlock
    <2>3. UNCHANGED View!absVars
      BY <1>3, <2>2 DEF ViewGetBestBlock, TipGetBestBlock, View!absVars
    <2>. QED  BY <2>1, <2>3
  <1>4. CASE FlushTip
    <2>1. \A t \in Txid : DbWriteEntry(db[t], tip[t]) = TipCoins(t)
      BY DEF DbWriteEntry, TypeOK, CachesCoherent, EntryCoherent, TipCoins
    <2>2. db' = base /\ base \in [Txid -> Coins]
      BY <1>4, <2>1, TipFetchLemma DEF FlushTip
    <2>3. base' = base /\ work' = base
      BY <1>4, <2>2 DEF FlushTip, TypeOK, TipCoins, ViewCoins, Empty
    <2>4. dbBest' = TipBestBlock /\ TipBestBlock' = TipBestBlock
      BY <1>4 DEF FlushTip, TipBestBlock
    <2>5. IInv'
      BY <1>4, <2>2 DEF FlushTip, TypeOK, CachesCoherent, ViewBacked, Empty, EntryCoherent
    <2>6. View!AbsPersist
      BY <1>4, <2>2, <2>3, <2>4 DEF FlushTip, View!AbsPersist
    <2>. QED  BY <2>5, <2>6 DEF View!AbsNext
  <1>5. CASE FlushTipFails
    <2>1. IInv'
      BY <1>5 DEF FlushTipFails, TypeOK, CachesCoherent, ViewBacked, Empty, EntryCoherent
    <2>2. base' = db /\ work' = db /\ TipBestBlock' = TipBestBlock
      BY <1>5 DEF FlushTipFails, TypeOK, TipCoins, ViewCoins, Empty, TipBestBlock
    <2>3. View!AbsPersistFails
      BY <1>5, <2>2 DEF FlushTipFails, View!AbsPersistFails
    <2>. QED  BY <2>1, <2>3 DEF View!AbsNext
  <1>6. CASE Restart
    <2>1. IInv'
      BY <1>6 DEF Restart, TypeOK, CachesCoherent, ViewBacked, Empty, EntryCoherent
    <2>2. base' = db /\ work' = db /\ TipBestBlock' = dbBest
      BY <1>6 DEF Restart, TypeOK, TipCoins, ViewCoins, Empty, TipBestBlock
    <2>3. View!AbsRestart
      BY <1>6, <2>2 DEF Restart, View!AbsRestart
    <2>. QED  BY <2>1, <2>3 DEF View!AbsNext
  <1>7. ASSUME NEW t \in Txid, ViewGetCoins(t)
        PROVE  IInv' /\ UNCHANGED View!absVars
    <2>1. /\ IInv'
          /\ \A u \in Txid : TipCoins(u)' = TipCoins(u)
          /\ \A u \in Txid : ViewCoins(u)' =
                IF u = t THEN IF ViewFetch(t) = NotCached THEN TipCoins(t)
                              ELSE ViewFetch(t).coins
                ELSE ViewCoins(u)
      BY <1>7, PullLemma, ViewFetchLemma DEF ViewGetCoins, ViewBacked
    <2>2. base' = base /\ work' = work
      BY <2>1, ViewFetchLemma DEF ViewCoins
    <2>3. TipBestBlock' = TipBestBlock
      BY <1>7 DEF ViewGetCoins, TipBestBlock
    <2>. QED  BY <1>7, <2>1, <2>2, <2>3 DEF ViewGetCoins, View!absVars
  <1>8. ASSUME NEW t \in Txid, TipGetCoins(t)
        PROVE  IInv' /\ UNCHANGED View!absVars
    <2>1. \A u \in Txid : TipCoins(u)' = TipCoins(u) /\ EntryCoherent(tip'[u], db[u])
      BY <1>8, TipFetchLemma DEF TipGetCoins, TypeOK, CachesCoherent, TipCoins
    <2>2. TypeOK' /\ CachesCoherent'
      BY <1>8, <2>1, TipFetchLemma
      DEF TipGetCoins, TypeOK, CachesCoherent, EntryCoherent, Empty
    <2>3. ViewBacked'
      BY <1>8, TipFetchLemma DEF TipGetCoins, TypeOK, ViewBacked
    <2>4. base' = base /\ work' = work /\ TipBestBlock' = TipBestBlock
      BY <1>8, <2>1 DEF TipGetCoins, ViewCoins, TipBestBlock
    <2>. QED  BY <1>8, <2>2, <2>3, <2>4 DEF TipGetCoins, View!absVars
  <1>9. ASSUME NEW t \in Txid, NEW c \in Coins, ViewModifyCoins(t, c)
        PROVE  IInv' /\ View!AbsModify(t, c)
    BY <1>9, ModifyLemma
  <1>10. ASSUME NEW b \in Block, CommitView(b)
         PROVE  IInv' /\ View!AbsCommit(b)
    <2>1. \A t \in Txid : /\ tip'[t] = BatchWriteEntry(tip[t], view[t])
                          /\ tip'[t] \in Entry \cup {NotCached}
                          /\ EntryCoherent(tip'[t], db[t])
                          /\ TipCoins(t)' = ViewCoins(t)
      <3>. SUFFICES ASSUME NEW t \in Txid
                    PROVE  /\ tip'[t] = BatchWriteEntry(tip[t], view[t])
                           /\ tip'[t] \in Entry \cup {NotCached}
                           /\ EntryCoherent(tip'[t], db[t])
                           /\ TipCoins(t)' = ViewCoins(t)
        OBVIOUS
      <3>1. /\ tip[t] \in Entry \cup {NotCached} /\ view[t] \in Entry \cup {NotCached}
            /\ db[t] \in Coins
            /\ EntryCoherent(tip[t], db[t])
            /\ EntryCoherent(view[t], IF tip[t] = NotCached THEN db[t] ELSE tip[t].coins)
            /\ view[t] # NotCached /\ tip[t] = NotCached => "FRESH" \in view[t].flags
        BY DEF TypeOK, CachesCoherent, ViewBacked, TipCoins
      <3>2. tip'[t] = BatchWriteEntry(tip[t], view[t]) /\ db' = db
        BY <1>10 DEF CommitView
      <3>. QED  BY <3>1, <3>2, BatchWriteLemma DEF TipCoins, ViewCoins
    <2>2. IInv'
      BY <1>10, <2>1 DEF CommitView, TypeOK, CachesCoherent, ViewBacked, Empty, EntryCoherent
    <2>3. base' = work /\ work' = work
      BY <1>10, <2>1 DEF CommitView, Empty, ViewCoins
    <2>4. TipBestBlock' = b
      BY <1>10 DEF CommitView, TipBestBlock
    <2>. QED  BY <1>10, <2>2, <2>3, <2>4 DEF CommitView, View!AbsCommit
  <1>11. CASE UNCHANGED vars
    <2>1. IInv'
      BY <1>11 DEF vars, TypeOK, CachesCoherent, ViewBacked, Empty, EntryCoherent, TipCoins
    <2>2. UNCHANGED View!absVars
      BY <1>11 DEF vars, View!absVars, TipCoins, ViewCoins, TipBestBlock
    <2>. QED  BY <2>1, <2>2
  <1>. QED
    BY <1>1, <1>2, <1>3, <1>4, <1>5, <1>6, <1>7, <1>8, <1>9, <1>10, <1>11
    DEF Next, View!AbsNext

\* The inductive invariant holds in every reachable state.
THEOREM Invariance == Spec => []IInv
  BY InitIInv, StepLemma, PTL DEF Spec

\* Every operation of the caches keeps every variable in its type.
THEOREM TypeCorrect == Spec => []TypeOK
  BY Invariance, PTL DEF IInv

\* In every reachable state no entry of pcoinsTip or of a working view is FRESH
\* over unspent coins or clean with coins that differ from its parent's.
THEOREM Coherence == Spec => []CachesCoherent
  BY Invariance, PTL DEF IInv

\* The assert in CCoinsViewCache::BatchWrite cannot fail.
THEOREM FlushAssertHolds == Spec => []FlushAssert
  <1>1. IInv => FlushAssert
    BY DEF IInv, ViewBacked, FlushAssert
  <1>. QED
    BY <1>1, Invariance, PTL

\* A change made through a CCoinsModifier is what the view answers afterwards,
\* whether the destructor kept the entry or dropped it.
THEOREM ModifierCorrect == Spec => ModifierTakesEffect
  <1>1. IInv /\ [Next]_vars =>
          [\A t \in Txid, c \in Coins :
              ViewModifyCoins(t, c) =>
                \A u \in Txid : ViewCoins(u)' = IF u = t THEN c ELSE ViewCoins(u)]_vars
    <2>. SUFFICES ASSUME IInv, NEW t \in Txid, NEW c \in Coins, ViewModifyCoins(t, c),
                         NEW u \in Txid
                  PROVE  ViewCoins(u)' = IF u = t THEN c ELSE ViewCoins(u)
      OBVIOUS
    <2>1. View!AbsModify(t, c)
      BY ModifyLemma
    <2>. QED
      BY <2>1 DEF View!AbsModify
  <1>. QED
    BY <1>1, Invariance, PTL DEF Spec, ModifierTakesEffect

\* The caches implement the plain maps of CoinsView, whatever is cached when.
THEOREM Refinement == Spec => ImplementsCoinsView
  <1>1. Init => View!AbsInit
    BY DEF Init, View!AbsInit, TipCoins, ViewCoins, Empty, TipBestBlock
  <1>. QED
    BY <1>1, StepLemma, Invariance, PTL DEF Spec, ImplementsCoinsView, View!AbsSpec
=============================================================================
