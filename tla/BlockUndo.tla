----------------------------- MODULE BlockUndo -----------------------------
(***************************************************************************)
(* Applying a block to the set of unspent coins and undoing it again       *)
(* (main.cpp: ConnectBlock, CheckInputs, UpdateCoins, DisconnectBlock;     *)
(* coins.cpp: CCoins::Spend; undo.h: CTxInUndo).  A transaction's CCoins   *)
(* is its metadata and the set of its unspent outputs; amounts, scripts    *)
(* and versions are left out.  The undo data of a spent output carries the *)
(* metadata only when the spend emptied the CCoins, and a height of 0      *)
(* stands for "no metadata".                                               *)
(***************************************************************************)
EXTENDS Integers, Sequences, SequencesExt, FiniteSets

CONSTANTS
    Tx,                  \* the transactions
    Kind,                \* each one's kind: "coinbase", "coinstake" or "normal"
    Inputs,              \* the sequence of outpoints <<tx, n>> each one spends
    Outs,                \* the set of outputs each one creates that can be spent
    CoinbaseHeight,      \* the height a coinbase commits to (BIP34), else 0
    COINBASE_MATURITY,   \* Params().COINBASE_MATURITY()
    MaxReorg,            \* Params().MaxReorganizationDepth()
    MaxHeight,           \* bound: the longest chain considered
    MaxBlockTx           \* bound: the most transactions in a block

Outpoint == UNION {{<<t, n>> : n \in Outs[t]} : t \in Tx}

\* CheckTransaction refuses a transaction without inputs and one with an input
\* twice; the null input of a coinbase is not in Inputs.
ASSUME UndoAssumption ==
    /\ COINBASE_MATURITY \in Nat
    /\ MaxReorg \in Nat
    /\ MaxHeight \in Nat
    /\ MaxBlockTx \in Nat
    /\ \A t \in Tx : Kind[t] = "coinbase" <=> Inputs[t] = <<>>
    /\ \A t \in Tx : Kind[t] = "coinbase" => CoinbaseHeight[t] > 0
    /\ Inputs \in [Tx -> Seq(Outpoint)]
    /\ \A t \in Tx : \A i, j \in DOMAIN Inputs[t] : Inputs[t][i] = Inputs[t][j] => i = j

VARIABLES
    coins,          \* the unspent coins: a CCoins for every transaction
    chain,          \* the blocks of the active chain above genesis
    undoData,       \* the undo data of those blocks, on disk
    mapStakeSpent   \* when recently spent outpoints were spent; 0: no entry

vars == <<coins, chain, undoData, mapStakeSpent>>

\* CCoins::Clear and the state every pruned CCoins is read back as.
Cleared == [fCoinBase |-> FALSE, fCoinStake |-> FALSE, nHeight |-> 0, vout |-> {}]

Prune(c) == IF c.vout = {} THEN Cleared ELSE c

\* CCoins::FromTx.
FromTx(t, h) ==
    Prune([fCoinBase |-> Kind[t] = "coinbase", fCoinStake |-> Kind[t] = "coinstake",
           nHeight |-> h, vout |-> Outs[t]])

-----------------------------------------------------------------------------
\* CCoins::Spend of one input: the coins without it and the undo entry.
Spend(s, out) ==
    LET c == s.coins[out[1]]
        rest == c.vout \ {out[2]}
    IN  [coins |-> [s.coins EXCEPT ![out[1]] = Prune([c EXCEPT !.vout = rest])],
         undo  |-> Append(s.undo,
                     IF rest = {}
                     THEN [n |-> out[2], nHeight |-> c.nHeight,
                           fCoinBase |-> c.fCoinBase, fCoinStake |-> c.fCoinStake]
                     ELSE [n |-> out[2], nHeight |-> 0,
                           fCoinBase |-> FALSE, fCoinStake |-> FALSE])]

\* UpdateCoins: spend the inputs in order, then add the outputs.
UpdateCoins(cs, t, h) ==
    LET s == FoldLeft(Spend, [coins |-> cs, undo |-> <<>>], Inputs[t])
    IN  [coins |-> [s.coins EXCEPT ![t] = FromTx(t, h)], undo |-> s.undo]

\* CCoinsViewCache::HaveInputs.
HaveInputs(cs, t) ==
    \A i \in DOMAIN Inputs[t] : Inputs[t][i][2] \in cs[Inputs[t][i][1]].vout

\* CheckInputs: coinbase and coinstake outputs are spent only when mature.
Mature(cs, t, h) ==
    \A i \in DOMAIN Inputs[t] :
        LET c == cs[Inputs[t][i][1]]
        IN  c.fCoinBase \/ c.fCoinStake => h - c.nHeight >= COINBASE_MATURITY

\* One transaction of a block at height h; ok becomes false when it is refused.
ApplyTx(s, t, h) ==
    LET u == UpdateCoins(s.coins, t, h)
    IN  IF s.ok /\ HaveInputs(s.coins, t) /\ Mature(s.coins, t, h)
        THEN [coins |-> u.coins, undo |-> Append(s.undo, u.undo), ok |-> TRUE]
        ELSE [s EXCEPT !.ok = FALSE]

\* ConnectBlock: no transaction may overwrite one that is not fully spent
\* (BIP30), then the transactions are applied in order.
ApplyBlock(cs, b, h) ==
    FoldLeft(LAMBDA s, t : ApplyTx(s, t, h),
             [coins |-> cs, undo |-> <<>>,
              ok |-> \A i \in DOMAIN b : cs[b[i]].vout = {}], b)

\* Mutant: the coinbase flag of the undo entry is not put back.
RestoreInputForgetsCoinbase(s, out, u) ==
    LET c == s.coins[out[1]]
        base == IF u.nHeight # 0 THEN [Cleared EXCEPT !.nHeight = u.nHeight] ELSE c
    IN  [coins |-> [s.coins EXCEPT ![out[1]] = [base EXCEPT !.vout = @ \cup {out[2]}]],
         clean |-> /\ s.clean
                   /\ (u.nHeight # 0) = (c.vout = {})
                   /\ out[2] \notin base.vout]

\* DisconnectBlock, one input: put the output back, with the metadata if the
\* undo entry has it.  The entry's fCoinStake is not used.
RestoreInput(s, out, u) ==
    LET c == s.coins[out[1]]
        base == IF u.nHeight # 0
                THEN [Cleared EXCEPT !.fCoinBase = u.fCoinBase, !.nHeight = u.nHeight]
                ELSE c
    IN  [coins |-> [s.coins EXCEPT ![out[1]] = [base EXCEPT !.vout = @ \cup {out[2]}]],
         clean |-> /\ s.clean
                   /\ (u.nHeight # 0) = (c.vout = {})
                   /\ out[2] \notin base.vout]

\* DisconnectBlock, the outputs of one transaction: they must be there exactly
\* as the block created them, and are removed.
RemoveOutputs(s, t, h) ==
    [coins |-> [s.coins EXCEPT ![t] = Cleared],
     clean |-> s.clean /\ s.coins[t] = FromTx(t, h)]

\* Mutant: the inputs are put back first to last.
UndoTxForwards(s, t, undo, h) ==
    FoldLeft(LAMBDA r, j : RestoreInput(r, Inputs[t][j], undo[j]),
             RemoveOutputs(s, t, h), [j \in DOMAIN Inputs[t] |-> j])

\* DisconnectBlock, one transaction: the inputs are put back last to first.
UndoTx(s, t, undo, h) ==
    FoldRight(LAMBDA j, r : RestoreInput(r, Inputs[t][j], undo[j]),
              [j \in DOMAIN Inputs[t] |-> j], RemoveOutputs(s, t, h))

\* DisconnectBlock: the transactions are undone last to first.
UndoBlock(cs, b, undo, h) ==
    FoldRight(LAMBDA i, s : UndoTx(s, b[i], undo[i], h),
              [i \in DOMAIN b |-> i], [coins |-> cs, clean |-> TRUE])

\* The outpoints the transactions of a block spend.
SpentBy(b) == UNION {Range(Inputs[b[i]]) : i \in DOMAIN b}

-----------------------------------------------------------------------------
Init ==
    /\ coins = [t \in Tx |-> Cleared]
    /\ chain = <<>>
    /\ undoData = <<>>
    /\ mapStakeSpent = [o \in Outpoint |-> 0]

\* The blocks that can be offered at height h: a coinbase that commits to the
\* height, then distinct transactions, a coinstake only in second place.
BlockAt(h) ==
    {b \in UNION {[1..n -> Tx] : n \in 1..MaxBlockTx} :
        /\ \A i, j \in DOMAIN b : i # j => b[i] # b[j]
        /\ \A i \in DOMAIN b : /\ Kind[b[i]] = "coinbase" <=> i = 1
                               /\ Kind[b[i]] = "coinstake" => i = 2
        /\ CoinbaseHeight[b[1]] = h}

\* ConnectTip with a block that ConnectBlock accepts: coins, undo data, the
\* recently spent outpoints (the oldest entries go), best block.
ConnectTip(b) ==
    LET h == Len(chain) + 1
        r == ApplyBlock(coins, b, h)
    IN  /\ r.ok
        /\ coins' = r.coins
        /\ chain' = Append(chain, b)
        /\ undoData' = Append(undoData, r.undo)
        /\ mapStakeSpent' =
             [o \in Outpoint |->
                LET at == IF o \in SpentBy(b) /\ mapStakeSpent[o] = 0
                          THEN h ELSE mapStakeSpent[o]
                IN  IF at < h - MaxReorg THEN 0 ELSE at]

\* Mutant: the spent outpoints stay recorded when their block is undone.
DisconnectTipKeepsSpent ==
    LET h == Len(chain)
        r == UndoBlock(coins, chain[h], undoData[h], h)
    IN  /\ h > 0 /\ r.clean
        /\ coins' = r.coins
        /\ chain' = Front(chain)
        /\ undoData' = Front(undoData)
        /\ UNCHANGED mapStakeSpent

\* DisconnectTip: when the undo is not clean the view is dropped and the block
\* stays, but the recently spent outpoints are gone already.
DisconnectTip ==
    LET h == Len(chain)
        r == UndoBlock(coins, chain[h], undoData[h], h)
    IN  /\ h > 0
        /\ mapStakeSpent' = [o \in Outpoint |->
                               IF o \in SpentBy(chain[h]) THEN 0 ELSE mapStakeSpent[o]]
        /\ IF r.clean
           THEN /\ coins' = r.coins
                /\ chain' = Front(chain)
                /\ undoData' = Front(undoData)
           ELSE UNCHANGED <<coins, chain, undoData>>

Next ==
    \/ /\ Len(chain) < MaxHeight
       /\ \E b \in BlockAt(Len(chain) + 1) : ConnectTip(b)
    \/ DisconnectTip

Spec == Init /\ [][Next]_vars

-----------------------------------------------------------------------------
\* Every variable has its type, and every block has the undo data of its inputs.
TypeOK ==
    /\ \A t \in Tx : /\ coins[t].vout \subseteq Outs[t]
                     /\ coins[t].nHeight \in 0..MaxHeight
    /\ Len(chain) <= MaxHeight
    /\ Len(undoData) = Len(chain)
    /\ \A h \in DOMAIN chain : \A i \in DOMAIN chain[h] :
          Len(undoData[h][i]) = Len(Inputs[chain[h][i]])
    /\ mapStakeSpent \in [Outpoint -> 0..MaxHeight]

\* The reference: what the coins of t are, read off the chain alone.
InChain(t) == {h \in DOMAIN chain : t \in Range(chain[h])}
Reference(t) ==
    IF InChain(t) = {} THEN Cleared
    ELSE LET h == CHOOSE x \in InChain(t) : \A y \in InChain(t) : y <= x
         IN  Prune([FromTx(t, h) EXCEPT
                      !.vout = {n \in @ : \A g \in DOMAIN chain : <<t, n>> \notin SpentBy(chain[g])}])

\* The UTXO set is a function of the active chain: after any sequence of connected
\* and disconnected blocks every CCoins, its flags and height included, is what
\* replaying the chain from genesis gives (DisconnectBlock undoes ConnectBlock).
\* The undo data has the shape of the chain (TypeOK).
UtxoMatchesChain == TypeOK /\ \A t \in Tx : coins[t] = Reference(t)

\* The tip can always be disconnected: DisconnectBlock never reports undo data
\* that does not match or a corrupted database.
TipCanBeDisconnected ==
    LET h == Len(chain)
    IN  h > 0 => UndoBlock(coins, chain[h], undoData[h], h).clean

\* An outpoint recorded as recently spent was spent by the block at that height
\* of the active chain, through every reorganisation.
StakeSpentSound ==
    \A o \in Outpoint :
        mapStakeSpent[o] # 0 =>
            mapStakeSpent[o] \in DOMAIN chain /\ o \in SpentBy(chain[mapStakeSpent[o]])

=============================================================================
