------------------------------ MODULE Mempool ------------------------------
(***************************************************************************)
(* The memory pool and the orphan transactions over a chain that grows and *)
(* is reorganised (txmempool.cpp; main.cpp: AcceptToMemoryPool, the tx     *)
(* message, AddOrphanTx, ConnectTip, DisconnectTip).  The chain and its    *)
(* coins are those of BlockUndo; this module composes the pool with it.    *)
(* Every action is one critical section of cs_main.  Fees, priorities,     *)
(* standardness and transaction locks are "refusal", the reason for which  *)
(* a transaction would be turned down at the moment.                       *)
(***************************************************************************)
EXTENDS BlockUndo

CONSTANTS
    Peer,          \* node ids
    BadTx,         \* transactions whose scripts or amounts are invalid (DoS 100)
    LargeTx,       \* transactions of more than 5000 bytes
    Refusable,     \* transactions policy may refuse
    MaxOrphanTx,   \* -maxorphantx
    NoTx, NoPeer

ASSUME PoolAssumption ==
    /\ IsFiniteSet(Tx)
    /\ MaxOrphanTx \in Nat
    /\ NoTx \notin Tx /\ NoPeer \notin Peer
    /\ Refusable \subseteq Tx

VARIABLES
    mapTx,        \* the transactions in the pool
    mapNextTx,    \* which pool transaction spends an outpoint
    orphans,      \* mapOrphanTransactions: fromPeer of each orphan, or NoPeer
    byPrev,       \* mapOrphanTransactionsByPrev
    nodes,        \* mapNodeState: the peers the node has state for
    shouldBan,    \* those with fShouldBan
    refusal,      \* why a transaction would be turned down now: "lock" (early,
                  \* like a transaction lock), "fee" (after the inputs were
                  \* found) or "none"
    sentBad       \* history: peers that sent a transaction with a DoS score

poolVars == <<mapTx, mapNextTx>>
orphanVars == <<orphans, byPrev>>
peerVars == <<nodes, shouldBan, sentBad>>
chainVars == <<coins, chain, undoData, mapStakeSpent>>
allVars == <<chainVars, poolVars, orphanVars, peerVars, refusal>>

InputSet(t) == Range(Inputs[t])
Parents(t) == {o[1] : o \in InputSet(t)}
Pool(txs, next) == [txs |-> txs, next |-> next]
pool == Pool(mapTx, mapNextTx)
Refused(t, why) == t \in Refusable /\ refusal[t] = why

-----------------------------------------------------------------------------
\* CTxMemPool::addUnchecked.
addUnchecked(p, t) ==
    Pool(p.txs \cup {t}, [o \in Outpoint |-> IF o \in InputSet(t) THEN t ELSE p.next[o]])

\* The pool transactions that spend outputs of the set S, found by mapNextTx.
Spenders(p, S) == {p.next[o] : o \in {x \in Outpoint : x[1] \in S}} \ {NoTx}

\* What remove visits: t, and if recursive whatever depends on it.
ToRemove(p, t, fRecursive) ==
    IF fRecursive
    THEN FoldLeft(LAMBDA S, i : S \cup Spenders(p, S), {t}, [i \in 1..Cardinality(Tx) |-> i])
    ELSE {t}

\* CTxMemPool::remove.
remove(p, t, fRecursive) ==
    LET gone == ToRemove(p, t, fRecursive) \cap p.txs
    IN  Pool(p.txs \ gone,
             [o \in Outpoint |-> IF \E g \in gone : o \in InputSet(g) THEN NoTx ELSE p.next[o]])

\* CTxMemPool::removeConflicts.
removeConflicts(p, t) ==
    FoldLeft(LAMBDA q, o : IF q.next[o] \notin {NoTx, t} THEN remove(q, q.next[o], TRUE) ELSE q,
             p, Inputs[t])

\* CTxMemPool::removeForBlock.
removeForBlock(p, b) ==
    FoldLeft(LAMBDA q, t : removeConflicts(remove(q, t, FALSE), t), p, b)

\* CTxMemPool::removeCoinbaseSpends: what spends coins that are gone or are
\* immature in a block at height h.
removeCoinbaseSpends(p, cs, h) ==
    LET stale == {t \in p.txs : \E o \in InputSet(t) :
                    /\ o[1] \notin p.txs
                    /\ LET c == cs[o[1]]
                       IN  \/ c.vout = {}
                           \/ (c.fCoinBase \/ c.fCoinStake) /\ h - c.nHeight < COINBASE_MATURITY}
    IN  FoldLeft(LAMBDA q, t : remove(q, t, TRUE), p, SetToSeq(stale))

-----------------------------------------------------------------------------
\* CCoinsViewMemPool::HaveCoins over the coins cs.
HaveCoins(p, cs, t) == t \in p.txs \/ cs[t].vout # {}

\* CCoinsViewCache::HaveInputs over the pool's view.
PoolHaveInputs(p, cs, t) ==
    \A o \in InputSet(t) : IF o[1] \in p.txs THEN o[2] \in Outs[o[1]] ELSE o[2] \in cs[o[1]].vout

\* CheckInputs in AcceptToMemoryPool: coins of the pool are never coinbases.
PoolMature(p, cs, t, h) ==
    \A o \in InputSet(t) :
        LET c == cs[o[1]]
        IN  o[1] \notin p.txs /\ (c.fCoinBase \/ c.fCoinStake)
              => h - c.nHeight >= COINBASE_MATURITY

\* Mutant: a second spend of an outpoint is not noticed.
AcceptIgnoringConflicts(p, cs, h, t) ==
    IF Kind[t] # "normal" THEN "dos"
    ELSE IF t \in p.txs \/ Refused(t, "lock") \/ HaveCoins(p, cs, t) THEN "no"
    ELSE IF \E q \in Parents(t) : ~HaveCoins(p, cs, q) THEN "missing"
    ELSE IF ~PoolHaveInputs(p, cs, t) \/ Refused(t, "fee") \/ ~PoolMature(p, cs, t, h) THEN "no"
    ELSE IF t \in BadTx THEN "dos"
    ELSE "ok"

\* AcceptToMemoryPool of t over coins cs of a chain whose next height is h:
\* "ok", "missing" (fMissingInputs), "dos" (refused with a score) or "no".
AcceptToMemoryPool(p, cs, h, t) ==
    IF Kind[t] # "normal" THEN "dos"
    ELSE IF \/ t \in p.txs \/ Refused(t, "lock")
            \/ \E o \in InputSet(t) : p.next[o] # NoTx
            \/ HaveCoins(p, cs, t) THEN "no"
    ELSE IF \E q \in Parents(t) : ~HaveCoins(p, cs, q) THEN "missing"
    ELSE IF ~PoolHaveInputs(p, cs, t) \/ Refused(t, "fee") \/ ~PoolMature(p, cs, t, h) THEN "no"
    ELSE IF t \in BadTx THEN "dos"
    ELSE "ok"

\* Mutant: the transactions go back last to first, children before parents.
ResurrectBackwards(p, cs, h, b) ==
    FoldLeft(LAMBDA q, t : IF AcceptToMemoryPool(q, cs, h, t) = "ok"
                           THEN addUnchecked(q, t) ELSE remove(q, t, TRUE), p, Reverse(b))

\* DisconnectTip: the transactions of the block go back to the pool in block
\* order; what is refused takes its pool descendants with it.
Resurrect(p, cs, h, b) ==
    FoldLeft(LAMBDA q, t : IF AcceptToMemoryPool(q, cs, h, t) = "ok"
                           THEN addUnchecked(q, t) ELSE remove(q, t, TRUE), p, b)

-----------------------------------------------------------------------------
\* mapOrphanTransactions and mapOrphanTransactionsByPrev as one value.
orphanMaps == [from |-> orphans, prev |-> byPrev]
Stored(m) == {t \in Tx : m.from[t] # NoPeer}

\* AddOrphanTx.
AddOrphanTx(m, t, p) ==
    IF t \in Stored(m) \cup LargeTx THEN m
    ELSE [from |-> [m.from EXCEPT ![t] = p],
          prev |-> [q \in Tx |-> IF q \in Parents(t) THEN m.prev[q] \cup {t} ELSE m.prev[q]]]

\* Mutant: only the first input is taken out of the index.
EraseOneParent(m, E) ==
    [from |-> [t \in Tx |-> IF t \in E THEN NoPeer ELSE m.from[t]],
     prev |-> [q \in Tx |-> m.prev[q] \ {t \in E \cap Stored(m) : Inputs[t][1][1] = q}]]

\* EraseOrphanTx of every member of E.
EraseOrphanTxs(m, E) ==
    [from |-> [t \in Tx |-> IF t \in E THEN NoPeer ELSE m.from[t]],
     prev |-> [q \in Tx |-> m.prev[q] \ {t \in E \cap Stored(m) : q \in Parents(t)}]]

\* EraseOrphansFor.
EraseOrphansFor(m, p) == EraseOrphanTxs(m, {t \in Tx : m.from[t] = p})

\* LimitOrphanTxSize: what the random eviction may leave.
LimitOrphanTxSize(m) ==
    {EraseOrphanTxs(m, E) : E \in {F \in SUBSET Stored(m) :
        Cardinality(F) = IF Cardinality(Stored(m)) > MaxOrphanTx
                         THEN Cardinality(Stored(m)) - MaxOrphanTx ELSE 0}}

\* The tx message, one orphan o that spends a transaction just accepted.
ResolveOrphan(s, o) ==
    LET verdict == AcceptToMemoryPool(s.pool, coins, Len(chain) + 1, o)
    IN  IF orphans[o] \in s.bad \/ verdict = "missing" THEN s
        ELSE IF verdict = "ok"
        THEN [s EXCEPT !.pool = addUnchecked(@, o), !.queue = Append(@, o), !.erase = @ \cup {o}]
        ELSE [s EXCEPT !.erase = @ \cup {o},
                       !.bad = IF verdict = "dos" THEN @ \cup {orphans[o]} ELSE @]

\* The tx message: orphans are tried breadth first, from the accepted t on.
ResolveOrphans(t) ==
    FoldLeft(LAMBDA s, i : IF i > Len(s.queue) THEN s
                           ELSE FoldLeft(ResolveOrphan, s, SetToSeq(byPrev[s.queue[i]])),
             [pool |-> addUnchecked(pool, t), queue |-> <<t>>, erase |-> {}, bad |-> {}],
             [i \in 1..Cardinality(Tx) |-> i])

-----------------------------------------------------------------------------
SetPool(p) == mapTx' = p.txs /\ mapNextTx' = p.next
SetOrphans(m) == orphans' = m.from /\ byPrev' = m.prev

PoolInit ==
    /\ Init
    /\ mapTx = {} /\ mapNextTx = [o \in Outpoint |-> NoTx]
    /\ orphans = [t \in Tx |-> NoPeer] /\ byPrev = [t \in Tx |-> {}]
    /\ nodes = {} /\ shouldBan = {} /\ sentBad = {}
    /\ refusal = [t \in Refusable |-> "none"]

\* InitializeNode.
InitializeNode(p) ==
    /\ p \notin nodes
    /\ nodes' = nodes \cup {p}
    /\ UNCHANGED <<chainVars, poolVars, orphanVars, shouldBan, sentBad, refusal>>

\* FinalizeNode; node ids are not used again, so the history of p ends.
FinalizeNode(p) ==
    /\ p \in nodes
    /\ nodes' = nodes \ {p} /\ shouldBan' = shouldBan \ {p} /\ sentBad' = sentBad \ {p}
    /\ SetOrphans(EraseOrphansFor(orphanMaps, p))
    /\ UNCHANGED <<chainVars, poolVars, refusal>>

\* Misbehaving with a full score; the peers S that still have a state.
Misbehaving(S) == shouldBan' = shouldBan \cup (S \cap nodes)

\* SendMessages acts on fShouldBan (ban or disconnect) and clears it.
SendMessagesBan(p) ==
    /\ p \in shouldBan
    /\ shouldBan' = shouldBan \ {p}
    /\ UNCHANGED <<chainVars, poolVars, orphanVars, nodes, sentBad, refusal>>

\* What AcceptToMemoryPool says of t now.
Verdict(t) == AcceptToMemoryPool(pool, coins, Len(chain) + 1, t)

\* Mutant: the peer that sent the parent is punished for the orphan.
TxAcceptedBlamesSender(p, t) ==
    LET r == ResolveOrphans(t)
    IN  /\ Verdict(t) = "ok"
        /\ SetPool(r.pool)
        /\ SetOrphans(EraseOrphanTxs(orphanMaps, r.erase))
        /\ Misbehaving(IF r.bad = {} THEN {} ELSE {p})

\* The tx message with a transaction that is accepted.
TxAccepted(p, t) ==
    LET r == ResolveOrphans(t)
    IN  /\ Verdict(t) = "ok"
        /\ SetPool(r.pool)
        /\ SetOrphans(EraseOrphanTxs(orphanMaps, r.erase))
        /\ Misbehaving(r.bad)

\* The tx message with one whose parents are missing.
TxMissingInputs(p, t) ==
    /\ Verdict(t) = "missing"
    /\ \E m \in LimitOrphanTxSize(AddOrphanTx(orphanMaps, t, p)) : SetOrphans(m)
    /\ UNCHANGED <<poolVars, shouldBan>>

\* The tx message with one that is refused.
TxRefused(p, t) ==
    /\ Verdict(t) \in {"dos", "no"}
    /\ Misbehaving(IF Verdict(t) = "dos" THEN {p} ELSE {})
    /\ UNCHANGED <<poolVars, orphanVars>>

\* The tx message: t arrives from p.
ProcessTx(p, t) ==
    /\ p \in nodes
    /\ sentBad' = IF t \in BadTx \/ Kind[t] # "normal" THEN sentBad \cup {p} ELSE sentBad
    /\ TxAccepted(p, t) \/ TxMissingInputs(p, t) \/ TxRefused(p, t)
    /\ UNCHANGED <<chainVars, nodes, refusal>>

\* A transaction of the wallet or of an RPC command: no orphans are tried.
LocalTx(t) ==
    /\ Verdict(t) = "ok"
    /\ SetPool(addUnchecked(pool, t))
    /\ UNCHANGED <<chainVars, orphanVars, peerVars, refusal>>

\* ConnectTip with its effect on the pool.
PoolConnectTip(b) ==
    /\ Range(b) \cap BadTx = {}
    /\ ConnectTip(b)
    /\ SetPool(removeForBlock(pool, b))
    /\ UNCHANGED <<orphanVars, peerVars, refusal>>

\* DisconnectTip with its effect on the pool: the transactions of the block
\* first, then what spends coins that are not mature any more.
PoolDisconnectTip ==
    /\ DisconnectTip
    /\ LET h == Len(chain)
       IN  IF Len(chain') < h
           THEN SetPool(removeCoinbaseSpends(Resurrect(pool, coins', h, chain[h]), coins', h))
           ELSE UNCHANGED poolVars
    /\ UNCHANGED <<orphanVars, peerVars, refusal>>

\* CreateNewBlock empties the pool when the block it built is not valid.
ClearPool ==
    /\ SetPool(Pool({}, [o \in Outpoint |-> NoTx]))
    /\ UNCHANGED <<chainVars, orphanVars, peerVars, refusal>>

\* Locks, fees and priorities change with time (environment).
ChangePolicy ==
    /\ refusal' \in [Refusable -> {"none", "lock", "fee"}]
    /\ UNCHANGED <<chainVars, poolVars, orphanVars, peerVars>>

PoolNext ==
    \/ /\ Len(chain) < MaxHeight
       /\ \E b \in BlockAt(Len(chain) + 1) : PoolConnectTip(b)
    \/ PoolDisconnectTip
    \/ \E p \in Peer : InitializeNode(p) \/ FinalizeNode(p) \/ SendMessagesBan(p)
    \/ \E p \in Peer, t \in Tx : ProcessTx(p, t)
    \/ \E t \in Tx : LocalTx(t)
    \/ ClearPool
    \/ ChangePolicy

PoolSpec == PoolInit /\ [][PoolNext]_allVars

-----------------------------------------------------------------------------
\* Every variable has its type.
PoolTypeOK ==
    /\ mapTx \subseteq Tx
    /\ mapNextTx \in [Outpoint -> Tx \cup {NoTx}]
    /\ orphans \in [Tx -> Peer \cup {NoPeer}]
    /\ byPrev \in [Tx -> SUBSET Tx]
    /\ shouldBan \subseteq nodes /\ nodes \subseteq Peer /\ sentBad \subseteq nodes
    /\ refusal \in [Refusable -> {"none", "lock", "fee"}]

\* The assertions of CTxMemPool::check: mapNextTx holds exactly the inputs of
\* the pool's transactions; each input is an output of another one or an
\* unspent coin that the next block may spend; a confirmed transaction is gone.
\* It must survive every block, conflict and reorganisation. No ban is left for
\* a peer without node state (PoolTypeOK).
MempoolCheck ==
    /\ PoolTypeOK
    /\ \A o \in Outpoint : mapNextTx[o] # NoTx => mapNextTx[o] \in mapTx /\ o \in InputSet(mapNextTx[o])
    /\ \A t \in mapTx : \A o \in InputSet(t) : mapNextTx[o] = t
    /\ \A t \in mapTx : /\ PoolHaveInputs(pool, coins, t)
                        /\ PoolMature(pool, coins, t, Len(chain) + 1)
                        /\ coins[t].vout = {}

\* mapOrphanTransactionsByPrev lists exactly the stored orphans under each
\* parent, their number never exceeds -maxorphantx, and every orphan's sender
\* still has a node state (the tx message dereferences it).
OrphanMapsSound ==
    /\ \A q, t \in Tx : t \in byPrev[q] <=> orphans[t] # NoPeer /\ q \in Parents(t)
    /\ Cardinality(Stored(orphanMaps)) <= MaxOrphanTx
    /\ \A t \in Stored(orphanMaps) : orphans[t] \in nodes

\* Only a peer that sent an invalid transaction is punished, however orphans and
\* their parents come together from different peers.
PunishedPeersSentBad == shouldBan \subseteq sentBad

\* The part of the block at the tip, and what depends on it, that a
\* reorganisation may drop from the pool.
MayDrop(b) ==
    LET roots == {t \in Range(b) : Kind[t] # "normal" \/ (t \in Refusable /\ refusal[t] # "none")}
                 \cup {t \in mapTx : \E o \in InputSet(t) :
                         Kind[o[1]] # "normal" /\ Len(chain) - coins[o[1]].nHeight < COINBASE_MATURITY}
    IN  FoldLeft(LAMBDA S, i : S \cup {t \in Tx : Parents(t) \cap S # {}}, roots,
                 [i \in 1..Cardinality(Tx) |-> i])

\* Disconnecting the tip loses no transaction: what the block confirmed and what
\* waited in the pool is in the pool afterwards, except what policy refuses, what
\* spends a coinbase or coinstake that is gone or immature, and their descendants.
ReorgKeepsTransactions ==
    [][Len(chain') < Len(chain) =>
         (mapTx \cup Range(Last(chain))) \ mapTx' \subseteq MayDrop(Last(chain))]_allVars
=============================================================================
