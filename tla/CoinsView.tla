----------------------------- MODULE CoinsView -----------------------------
(***************************************************************************)
(* What the stack of coin views promises its callers (coins.h: CCoinsView, *)
(* CCoinsViewCache; txdb.h: CCoinsViewDB).  Three versions of the set of   *)
(* unspent coins are visible: the one on disk, the one of the active tip   *)
(* (pcoinsTip) and, while a block is being connected or disconnected, the  *)
(* one of the working view.  No caching is visible at this level: CoinsCache *)
(* is shown to implement it.                                               *)
(***************************************************************************)
CONSTANTS
    Txid,      \* transaction ids
    Coins,     \* the possible CCoins of a transaction, Pruned among them
    Pruned,    \* a CCoins without unspent outputs
    Block,     \* block hashes
    NullBlock  \* uint256(0)

VARIABLES
    disk, diskBest,   \* the chainstate database and its best block
    base, baseBest,   \* what pcoinsTip answers
    work, workOpen,   \* what the working view answers, while there is one
    torn              \* a database write has failed since the last start

absVars == <<disk, diskBest, base, baseBest, work, workOpen, torn>>

CoinMap == [Txid -> Coins]

AbsInit ==
    /\ disk = [t \in Txid |-> Pruned]
    /\ diskBest = NullBlock
    /\ base = disk
    /\ baseBest = NullBlock
    /\ work = disk
    /\ workOpen = FALSE
    /\ torn = FALSE

\* A working view starts as a copy of the active one.
AbsOpen ==
    /\ ~workOpen
    /\ workOpen' = TRUE
    /\ work' = base
    /\ UNCHANGED <<disk, diskBest, base, baseBest, torn>>

\* Only the working view changes when one of its coins is modified.
AbsModify(t, c) ==
    /\ workOpen
    /\ work' = [work EXCEPT ![t] = c]
    /\ UNCHANGED <<disk, diskBest, base, baseBest, workOpen, torn>>

\* The working view replaces the active one as a whole, with its best block.
AbsCommit(b) ==
    /\ workOpen
    /\ base' = work
    /\ baseBest' = b
    /\ workOpen' = FALSE
    /\ UNCHANGED <<disk, diskBest, work, torn>>

\* A view that is dropped leaves no trace.
AbsDiscard ==
    /\ workOpen
    /\ workOpen' = FALSE
    /\ work' = base
    /\ UNCHANGED <<disk, diskBest, base, baseBest, torn>>

\* Coins and best block reach the disk together.
AbsPersist ==
    /\ ~workOpen
    /\ disk' = base
    /\ diskBest' = baseBest
    /\ work' = base
    /\ UNCHANGED <<base, baseBest, workOpen, torn>>

\* A failed write loses the unsaved coins, not the best block.
AbsPersistFails ==
    /\ ~workOpen
    /\ base' = disk
    /\ work' = disk
    /\ torn' = TRUE
    /\ UNCHANGED <<disk, diskBest, baseBest, workOpen>>

\* The process stops and starts again from what is on disk.
AbsRestart ==
    /\ base' = disk
    /\ baseBest' = diskBest
    /\ work' = disk
    /\ workOpen' = FALSE
    /\ torn' = FALSE
    /\ UNCHANGED <<disk, diskBest>>

AbsNext ==
    \/ AbsOpen \/ AbsDiscard \/ AbsPersist \/ AbsPersistFails \/ AbsRestart
    \/ \E t \in Txid, c \in Coins : AbsModify(t, c)
    \/ \E b \in Block : AbsCommit(b)

AbsSpec == AbsInit /\ [][AbsNext]_absVars
=============================================================================
