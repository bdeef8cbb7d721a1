----------------------------- MODULE CoinsCache -----------------------------
(***************************************************************************)
(* The two stacked caches of unspent coins over the chainstate database    *)
(* (coins.cpp, txdb.cpp): db is CCoinsViewDB, tip is pcoinsTip, and view   *)
(* is the CCoinsViewCache that ConnectTip and DisconnectTip (main.cpp) put *)
(* over pcoinsTip while a block is applied or undone.  An entry carries    *)
(* the DIRTY and FRESH flags of CCoinsCacheEntry.  Every operation runs    *)
(* under cs_main, so an operation is one action.                           *)
(***************************************************************************)
CONSTANTS
    Txid,       \* transaction ids
    Coins,      \* the possible CCoins of a transaction
    Pruned,     \* the CCoins for which IsPruned() holds
    NotCached,  \* the answer cacheCoins.end(), and "no coins"
    Block,      \* block hashes
    NullBlock   \* uint256(0)

Flag == {"DIRTY", "FRESH"}
Entry == [coins : Coins, flags : SUBSET Flag]

ASSUME CoinsAssumption ==
    /\ Pruned \in Coins
    /\ NotCached \notin Coins
    /\ NotCached \notin Entry
    /\ NullBlock \notin Block

VARIABLES
    db, dbBest,      \* what the chainstate LevelDB holds; Pruned: no record
    tip, tipBest,    \* pcoinsTip: cacheCoins and hashBlock
    view, viewBest,  \* the working view: cacheCoins and hashBlock
    viewOpen,        \* the working view exists
    writeFailed      \* a batch write has thrown since the last start

vars == <<db, dbBest, tip, tipBest, view, viewBest, viewOpen, writeFailed>>

Empty == [t \in Txid |-> NotCached]

-----------------------------------------------------------------------------
\* CCoinsViewCache::FetchCoins on cache, given what the parent answers.
FetchCoins(cache, t, parent) ==
    IF cache[t] # NotCached \/ parent = NotCached
    THEN cache[t]
    ELSE [coins |-> parent, flags |-> IF parent = Pruned THEN {"FRESH"} ELSE {}]

\* CCoinsViewCache::GetCoins: the coins of an entry, if there is one.
CoinsOf(e) == IF e = NotCached THEN NotCached ELSE e.coins

\* CCoinsViewDB::GetCoins: a pruned record is never stored.
DbGetCoins(t) == IF db[t] = Pruned THEN NotCached ELSE db[t]

TipFetch(t) == FetchCoins(tip, t, DbGetCoins(t))
ViewFetch(t) == FetchCoins(view, t, CoinsOf(TipFetch(t)))

\* CCoinsViewCache::GetBestBlock of both caches, the hash being read lazily.
TipBestBlock == IF tipBest = NullBlock THEN dbBest ELSE tipBest
ViewBestBlock == IF viewBest = NullBlock THEN TipBestBlock ELSE viewBest

\* CCoinsViewCache::ModifyCoins: the entry the modifier is handed.
ModifiedEntry(t) ==
    LET parent == CoinsOf(TipFetch(t))
    IN  IF view[t] # NotCached THEN view[t]
        ELSE IF parent \in {NotCached, Pruned}
             THEN [coins |-> Pruned, flags |-> {"FRESH"}]
             ELSE [coins |-> parent, flags |-> {}]

\* CCoinsModifier::~CCoinsModifier: a fresh entry that ends up pruned is dropped.
AfterModifier(e) ==
    IF "FRESH" \in e.flags /\ e.coins = Pruned THEN NotCached ELSE e

\* Mutant: a merged entry is marked FRESH whatever the grandparent holds.
BatchWriteAlwaysFresh(ours, child) ==
    IF child = NotCached \/ "DIRTY" \notin child.flags THEN ours
    ELSE IF child.coins = Pruned /\ (ours = NotCached \/ "FRESH" \in ours.flags)
    THEN NotCached
    ELSE [coins |-> child.coins, flags |-> {"DIRTY", "FRESH"}]

\* CCoinsViewCache::BatchWrite: the parent's entry ours after the child's.
BatchWriteEntry(ours, child) ==
    IF child = NotCached \/ "DIRTY" \notin child.flags THEN ours
    ELSE IF ours = NotCached
    THEN IF child.coins = Pruned THEN NotCached
         ELSE [coins |-> child.coins, flags |-> {"DIRTY", "FRESH"}]
    ELSE IF "FRESH" \in ours.flags /\ child.coins = Pruned THEN NotCached
    ELSE [coins |-> child.coins, flags |-> ours.flags \cup {"DIRTY"}]

\* Mutant: a pruned entry is not erased from the database.
DbWriteEntryKeepsPruned(stored, e) ==
    IF e # NotCached /\ "DIRTY" \in e.flags /\ e.coins # Pruned THEN e.coins ELSE stored

\* CCoinsViewDB::BatchWrite: dirty entries are written or erased.
DbWriteEntry(stored, e) ==
    IF e # NotCached /\ "DIRTY" \in e.flags THEN e.coins ELSE stored

-----------------------------------------------------------------------------
Init ==
    /\ db = [t \in Txid |-> Pruned]
    /\ dbBest = NullBlock
    /\ tip = Empty
    /\ tipBest = NullBlock
    /\ view = Empty
    /\ viewBest = NullBlock
    /\ viewOpen = FALSE
    /\ writeFailed = FALSE

\* CCoinsViewCache view(pcoinsTip).
OpenView ==
    /\ ~viewOpen
    /\ viewOpen' = TRUE
    /\ view' = Empty
    /\ viewBest' = NullBlock
    /\ UNCHANGED <<db, dbBest, tip, tipBest, writeFailed>>

\* GetCoins, AccessCoins, HaveCoins of the view; both caches may fill.
ViewGetCoins(t) ==
    /\ viewOpen
    /\ view' = [view EXCEPT ![t] = ViewFetch(t)]
    /\ tip' = IF view[t] = NotCached THEN [tip EXCEPT ![t] = TipFetch(t)] ELSE tip
    /\ UNCHANGED <<db, dbBest, tipBest, viewBest, viewOpen, writeFailed>>

\* Mutant: the parent answers from the database without caching the entry.
ViewModifyCoinsUncached(t, c) ==
    /\ viewOpen
    /\ view' = [view EXCEPT ![t] =
                  AfterModifier([coins |-> c,
                                 flags |-> ModifiedEntry(t).flags \cup {"DIRTY"}])]
    /\ UNCHANGED <<db, dbBest, tip, tipBest, viewBest, viewOpen, writeFailed>>

\* ModifyCoins(t), the caller's change to c, and the modifier's destructor.
ViewModifyCoins(t, c) ==
    /\ viewOpen
    /\ view' = [view EXCEPT ![t] =
                  AfterModifier([coins |-> c,
                                 flags |-> ModifiedEntry(t).flags \cup {"DIRTY"}])]
    /\ tip' = IF view[t] = NotCached THEN [tip EXCEPT ![t] = TipFetch(t)] ELSE tip
    /\ UNCHANGED <<db, dbBest, tipBest, viewBest, viewOpen, writeFailed>>

\* ConnectBlock asserts on view.GetBestBlock(); both hashes are remembered.
ViewGetBestBlock ==
    /\ viewOpen
    /\ viewBest' = ViewBestBlock
    /\ tipBest' = IF viewBest = NullBlock THEN TipBestBlock ELSE tipBest
    /\ UNCHANGED <<db, dbBest, tip, view, viewOpen, writeFailed>>

\* SetBestBlock(b), then Flush of the view into pcoinsTip.
CommitView(b) ==
    /\ viewOpen
    /\ tip' = [t \in Txid |-> BatchWriteEntry(tip[t], view[t])]
    /\ tipBest' = b
    /\ view' = Empty
    /\ viewBest' = NullBlock
    /\ viewOpen' = FALSE
    /\ UNCHANGED <<db, dbBest, writeFailed>>

\* The view goes out of scope without Flush: an invalid block, a dry run.
DropView ==
    /\ viewOpen
    /\ view' = Empty
    /\ viewBest' = NullBlock
    /\ viewOpen' = FALSE
    /\ UNCHANGED <<db, dbBest, tip, tipBest, writeFailed>>

\* A read of pcoinsTip itself (mempool admission, RPC).
TipGetCoins(t) ==
    /\ tip' = [tip EXCEPT ![t] = TipFetch(t)]
    /\ UNCHANGED <<db, dbBest, tipBest, view, viewBest, viewOpen, writeFailed>>

TipGetBestBlock ==
    /\ tipBest' = TipBestBlock
    /\ UNCHANGED <<db, dbBest, tip, view, viewBest, viewOpen, writeFailed>>

\* pcoinsTip->Flush() inside FlushStateToDisk; the batch is atomic.
FlushTip ==
    /\ ~viewOpen
    /\ db' = [t \in Txid |-> DbWriteEntry(db[t], tip[t])]
    /\ dbBest' = IF tipBest # NullBlock THEN tipBest ELSE dbBest
    /\ tip' = Empty
    /\ UNCHANGED <<tipBest, view, viewBest, viewOpen, writeFailed>>

\* WriteBatch throws after CCoinsViewDB::BatchWrite has emptied the cache;
\* FlushStateToDisk catches it and hashBlock stays.
FlushTipFails ==
    /\ ~viewOpen
    /\ tip' = Empty
    /\ writeFailed' = TRUE
    /\ UNCHANGED <<db, dbBest, tipBest, view, viewBest, viewOpen>>

\* The process stops at any point; the next one starts with empty caches.
Restart ==
    /\ tip' = Empty
    /\ tipBest' = NullBlock
    /\ view' = Empty
    /\ viewBest' = NullBlock
    /\ viewOpen' = FALSE
    /\ writeFailed' = FALSE
    /\ UNCHANGED <<db, dbBest>>

Next ==
    \/ OpenView \/ DropView \/ ViewGetBestBlock \/ TipGetBestBlock
    \/ FlushTip \/ FlushTipFails \/ Restart
    \/ \E t \in Txid : ViewGetCoins(t) \/ TipGetCoins(t)
    \/ \E t \in Txid, c \in Coins : ViewModifyCoins(t, c)
    \/ \E b \in Block : CommitView(b)

Spec == Init /\ [][Next]_vars

-----------------------------------------------------------------------------
\* Every variable has its type, and a view that does not exist holds nothing.
TypeOK ==
    /\ db \in [Txid -> Coins]
    /\ dbBest \in Block \cup {NullBlock}
    /\ tip \in [Txid -> Entry \cup {NotCached}]
    /\ tipBest \in Block \cup {NullBlock}
    /\ view \in [Txid -> Entry \cup {NotCached}]
    /\ viewBest \in Block \cup {NullBlock}
    /\ viewOpen \in BOOLEAN
    /\ writeFailed \in BOOLEAN
    /\ ~viewOpen => view = Empty /\ viewBest = NullBlock

\* The coins a reader of each cache is given; absent and pruned are the same.
TipCoins(t) == IF tip[t] = NotCached THEN db[t] ELSE tip[t].coins
ViewCoins(t) == IF view[t] = NotCached THEN TipCoins(t) ELSE view[t].coins

\* An entry e over parent coins p may be FRESH only when p is pruned, and
\* differs from p only when it is DIRTY.
EntryCoherent(e, p) ==
    e # NotCached =>
        /\ "FRESH" \in e.flags => p = Pruned
        /\ "DIRTY" \notin e.flags => e.coins = p

\* No entry of either cache claims more than its flags allow: a wrong FRESH
\* lets BatchWrite or ~CCoinsModifier drop a deletion, and a missing DIRTY
\* loses a change at the next Flush.
CachesCoherent ==
    \A t \in Txid : /\ EntryCoherent(tip[t], db[t])
                    /\ EntryCoherent(view[t], TipCoins(t))

\* The assert in CCoinsViewCache::BatchWrite: whenever the view could be
\* flushed, an unpruned dirty entry that pcoinsTip does not hold is FRESH.
FlushAssert ==
    \A t \in Txid :
        view[t] # NotCached /\ tip[t] = NotCached =>
            ("DIRTY" \in view[t].flags /\ view[t].coins # Pruned
                 => "FRESH" \in view[t].flags)

\* What ModifyCoins wrote is what the next reader of the view is given, though
\* ~CCoinsModifier may have dropped the entry, and no other coins change.
ModifierTakesEffect ==
    [][\A t \in Txid, c \in Coins :
          ViewModifyCoins(t, c) =>
              \A u \in Txid : ViewCoins(u)' = IF u = t THEN c ELSE ViewCoins(u)]_vars

-----------------------------------------------------------------------------
\* The refinement mapping: what the readers of each level see.
View == INSTANCE CoinsView WITH
            disk <- db, diskBest <- dbBest,
            base <- [t \in Txid |-> TipCoins(t)], baseBest <- TipBestBlock,
            work <- [t \in Txid |-> ViewCoins(t)], workOpen <- viewOpen,
            torn <- writeFailed

\* Caching is invisible: through every interleaving of reads, changes, commits,
\* drops, flushes, failed flushes and restarts the two caches behave as three
\* plain maps of coins that are copied as a whole (CCoinsViewCache, CCoinsViewDB).
ImplementsCoinsView == View!AbsSpec
=============================================================================
