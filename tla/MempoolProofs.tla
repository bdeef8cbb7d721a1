--------------------------- MODULE MempoolProofs ---------------------------
(***************************************************************************)
(* Proofs about BlockUndo and Mempool: DisconnectBlock undoes ConnectBlock,*)
(* whatever the transactions and however long the chain, so the coins are  *)
(* always a function of the active chain; and the assertions of            *)
(* CTxMemPool::check survive every block, conflict, reorganisation and     *)
(* orphan, and so do the orphan maps.                                      *)
(***************************************************************************)
EXTENDS Mempool, FiniteSetTheorems, TLAPS

-----------------------------------------------------------------------------
(* Applying and undoing blocks *)

\* The folds of BlockUndo.
SpendOp(c, s, out) == Spend(s, out)
RestoreOp(c, s, j) == RestoreInput(s, Inputs[c[1]][j], c[2][j])
ApplyOp(h, s, t) == ApplyTx(s, t, h)
UndoOp(c, s, i) == UndoTx(s, c[1][i], c[2][i], c[3])

SpendFold == INSTANCE FoldLemmas WITH Op <- SpendOp
RestoreFold == INSTANCE FoldLemmas WITH Op <- RestoreOp
ApplyFold == INSTANCE FoldLemmas WITH Op <- ApplyOp
UndoFold == INSTANCE FoldLemmas WITH Op <- UndoOp

-----------------------------------------------------------------------------
(* Coins *)

Out == UNION {Outs[t] : t \in Tx}
CCoins == [fCoinBase : BOOLEAN, fCoinStake : BOOLEAN, nHeight : Nat, vout : SUBSET Out]

\* No transaction spends the output n of t.  The first output of a coinstake is
\* an empty marker, worth nothing, that no wallet spends.
NeverSpent(t, n) == \A u \in Tx : \A i \in DOMAIN Inputs[u] : Inputs[u][i] # <<t, n>>

\* The premise of the theorems: every coinstake has such an output.
MarkerUnspent == \A t \in Tx : Kind[t] = "coinstake" => \E n \in Outs[t] : NeverSpent(t, n)

\* The coins of t as they are in the unspent set: pruned or with a height, and
\* with the marker output of a coinstake.
SoundCoin(c, t) ==
    /\ c \in CCoins /\ c.vout \subseteq Outs[t]
    /\ c.vout = {} => c = Cleared
    /\ c.vout # {} => c.nHeight # 0
    /\ c.fCoinStake => \E n \in c.vout : NeverSpent(t, n)
Sound(cs) == cs \in [Tx -> CCoins] /\ \A t \in Tx : SoundCoin(cs[t], t)

\* The coins c of t without the outpoints in T.
Take(c, t, T) == Prune([c EXCEPT !.vout = {n \in @ : <<t, n>> \notin T}])
TakeAll(cs, T) == [t \in Tx |-> Take(cs[t], t, T)]

LEMMA ClearedLemma == Cleared \in CCoins /\ \A t \in Tx : SoundCoin(Cleared, t)
  BY DEF Cleared, CCoins, SoundCoin

\* Prune keeps a CCoins and its outputs.
LEMMA PruneLemma ==
    ASSUME NEW c \in CCoins
    PROVE  Prune(c) \in CCoins /\ Prune(c).vout = c.vout
  BY DEF Prune, CCoins, Cleared

\* Take removes the outpoints and nothing else: d is c without those in T.
IsTaken(d, c, t, T) ==
    /\ d \in CCoins
    /\ \A n : n \in d.vout <=> n \in c.vout /\ <<t, n>> \notin T
    /\ d.vout # {} => /\ d.nHeight = c.nHeight
                      /\ d.fCoinBase = c.fCoinBase
                      /\ d.fCoinStake = c.fCoinStake
    /\ d.vout = {} => d = Cleared

LEMMA TakeLemma ==
    ASSUME NEW t, NEW c \in CCoins, NEW T
    PROVE  IsTaken(Take(c, t, T), c, t, T)
  <1> DEFINE d == [c EXCEPT !.vout = {n \in @ : <<t, n>> \notin T}]
  <1>1. d \in CCoins /\ d.vout = {n \in c.vout : <<t, n>> \notin T}
        /\ d.nHeight = c.nHeight /\ d.fCoinBase = c.fCoinBase /\ d.fCoinStake = c.fCoinStake
    BY DEF CCoins
  <1>2. Take(c, t, T) = Prune(d)
    BY DEF Take
  <1> HIDE DEF d
  <1>. QED  BY <1>1, <1>2, PruneLemma DEF Prune, Cleared, IsTaken

\* Two CCoins are equal when their fields are.
LEMMA SameCoins ==
    ASSUME NEW c \in CCoins, NEW d \in CCoins,
           c.fCoinBase = d.fCoinBase, c.fCoinStake = d.fCoinStake,
           c.nHeight = d.nHeight, c.vout = d.vout
    PROVE  c = d
  BY DEF CCoins

\* The description determines the coins.
LEMMA TakenUnique ==
    ASSUME NEW t, NEW c \in CCoins, NEW T, NEW d, NEW e,
           IsTaken(d, c, t, T), IsTaken(e, c, t, T)
    PROVE  d = e
  <1>1. d.vout = e.vout
    BY DEF IsTaken, CCoins
  <1>. QED  BY <1>1, SameCoins DEF IsTaken

\* Nothing is taken from coins that hold none of T.
LEMMA TakeNothing ==
    ASSUME NEW t \in Tx, NEW c, SoundCoin(c, t), NEW T, \A n \in c.vout : <<t, n>> \notin T
    PROVE  Take(c, t, T) = c
  <1>1. c \in CCoins /\ IsTaken(c, c, t, T)
    BY DEF SoundCoin, IsTaken
  <1>2. IsTaken(Take(c, t, T), c, t, T)
    BY <1>1, TakeLemma, Zenon
  <1>. QED  BY <1>1, <1>2, TakenUnique, Zenon

\* Taking twice is taking the union.
LEMMA TakeTwice ==
    ASSUME NEW t, NEW c \in CCoins, NEW T, NEW U
    PROVE  Take(Take(c, t, T), t, U) = Take(c, t, T \cup U)
  <1> DEFINE d == Take(c, t, T)
             e == Take(d, t, U)
  <1>1. IsTaken(d, c, t, T)
    BY TakeLemma, Zenon
  <1>2. d \in CCoins
    BY <1>1 DEF IsTaken
  <1>3. IsTaken(e, d, t, U)
    BY <1>2, TakeLemma, Zenon
  <1> HIDE DEF d, e
  <1>4. IsTaken(e, c, t, T \cup U)
    BY <1>1, <1>3 DEF IsTaken
  <1>5. IsTaken(Take(c, t, T \cup U), c, t, T \cup U)
    BY TakeLemma, Zenon
  <1>6. e = Take(c, t, T \cup U)
    BY <1>4, <1>5, TakenUnique, Zenon
  <1>. QED  BY <1>6 DEF d, e

\* Taking outpoints that are not markers leaves sound coins.
LEMMA TakeSound ==
    ASSUME NEW t \in Tx, NEW c, SoundCoin(c, t), NEW T,
           \A n \in Outs[t] : NeverSpent(t, n) => <<t, n>> \notin T
    PROVE  SoundCoin(Take(c, t, T), t)
  <1> DEFINE d == Take(c, t, T)
  <1>1. c \in CCoins /\ c.vout \subseteq Outs[t]
    BY DEF SoundCoin
  <1>2. IsTaken(d, c, t, T)
    BY <1>1, TakeLemma, Zenon
  <1> HIDE DEF d
  <1>3. SoundCoin(d, t)
    <2>1. CASE d.vout = {}
      BY <1>2, <2>1, ClearedLemma DEF IsTaken
    <2>2. CASE d.vout # {}
      <3>1. c.vout # {} /\ c.nHeight # 0
        BY <1>2, <2>2 DEF SoundCoin, IsTaken
      <3>2. d.fCoinStake => \E n \in d.vout : NeverSpent(t, n)
        BY <1>1, <1>2, <2>2 DEF SoundCoin, IsTaken
      <3>. QED  BY <1>1, <1>2, <2>2, <3>1, <3>2 DEF SoundCoin, IsTaken
    <2>. QED  BY <2>1, <2>2
  <1>. QED  BY <1>3 DEF d

\* What FromTx makes at a height that is not 0 is sound.
LEMMA FromTxLemma ==
    ASSUME MarkerUnspent, NEW t \in Tx, NEW h \in Nat, h # 0
    PROVE  /\ FromTx(t, h) \in CCoins
           /\ FromTx(t, h).vout = Outs[t]
           /\ SoundCoin(FromTx(t, h), t)
  <1> DEFINE c == [fCoinBase |-> Kind[t] = "coinbase", fCoinStake |-> Kind[t] = "coinstake",
                   nHeight |-> h, vout |-> Outs[t]]
  <1>1. c \in CCoins /\ c.vout = Outs[t] /\ c.nHeight = h
        /\ (c.fCoinStake => Kind[t] = "coinstake")
    BY DEF CCoins, Out
  <1>2. FromTx(t, h) = Prune(c)
    BY DEF FromTx
  <1> HIDE DEF c
  <1>3. CASE Outs[t] = {}
    BY <1>1, <1>2, <1>3, ClearedLemma, PruneLemma DEF Prune
  <1>4. CASE Outs[t] # {}
    <2>1. Prune(c) = c
      BY <1>1, <1>4 DEF Prune
    <2>2. c.fCoinStake => \E n \in c.vout : NeverSpent(t, n)
      BY <1>1 DEF MarkerUnspent
    <2>. QED  BY <1>1, <1>2, <1>4, <2>1, <2>2 DEF SoundCoin
  <1>. QED  BY <1>3, <1>4

-----------------------------------------------------------------------------
(* One input: CCoins::Spend, and what DisconnectBlock makes of its undo *)

\* The undo entry of spending output n of the coins c.
Entry(c, n) ==
    IF c.vout \ {n} = {}
    THEN [n |-> n, nHeight |-> c.nHeight, fCoinBase |-> c.fCoinBase, fCoinStake |-> c.fCoinStake]
    ELSE [n |-> n, nHeight |-> 0, fCoinBase |-> FALSE, fCoinStake |-> FALSE]

\* The coins DisconnectBlock starts from, and the coins it ends with.
Base(c, u) ==
    IF u.nHeight # 0
    THEN [Cleared EXCEPT !.fCoinBase = u.fCoinBase, !.nHeight = u.nHeight]
    ELSE c
PutBack(c, n, u) == [Base(c, u) EXCEPT !.vout = @ \cup {n}]

\* An outpoint is an output of a transaction.
LEMMA OutpointLemma ==
    ASSUME NEW out \in Outpoint
    PROVE  out[1] \in Tx /\ out[2] \in Outs[out[1]] /\ out = <<out[1], out[2]>>
  BY DEF Outpoint

\* Spending one output takes its outpoint.
LEMMA SpendOne ==
    ASSUME NEW t, NEW c \in CCoins, NEW n
    PROVE  Prune([c EXCEPT !.vout = c.vout \ {n}]) = Take(c, t, {<<t, n>>})
  <1>1. c.vout \ {n} = {m \in c.vout : <<t, m>> \notin {<<t, n>>}}
    OBVIOUS
  <1>. QED  BY <1>1 DEF Take

\* Putting an output back undoes spending it: the CCoins has the output, the
\* height and the flags it had.
LEMMA RestoreOne ==
    ASSUME NEW t \in Tx, NEW c, SoundCoin(c, t), NEW n \in c.vout, ~NeverSpent(t, n)
    PROVE  LET d == Take(c, t, {<<t, n>>})
               u == Entry(c, n)
           IN  /\ PutBack(d, n, u) = c
               /\ (u.nHeight # 0) = (d.vout = {})
               /\ n \notin Base(d, u).vout
  <1> DEFINE d == Take(c, t, {<<t, n>>})
             u == Entry(c, n)
  <1>1. c \in CCoins /\ c.nHeight # 0
    BY DEF SoundCoin
  <1>2. IsTaken(d, c, t, {<<t, n>>})
    BY <1>1, TakeLemma, Zenon
  <1> HIDE DEF d
  <1>3. d \in CCoins /\ d.vout = c.vout \ {n}
    BY <1>2 DEF IsTaken
  <1>4. CASE d.vout = {}
    <2>1. /\ u.nHeight = c.nHeight /\ u.fCoinBase = c.fCoinBase
      BY <1>3, <1>4 DEF Entry
    <2>2. ~c.fCoinStake
      BY <1>3, <1>4 DEF SoundCoin
    <2>3. c.vout = {n}
      BY <1>3, <1>4
    <2> HIDE DEF u
    <2> DEFINE e == [Cleared EXCEPT !.fCoinBase = u.fCoinBase, !.nHeight = u.nHeight]
               f == [e EXCEPT !.vout = @ \cup {n}]
    <2>4. e.vout = {} /\ e \in CCoins /\ e.fCoinBase = c.fCoinBase /\ e.nHeight = c.nHeight
          /\ e.fCoinStake = FALSE
      BY <1>1, <2>1 DEF Cleared, CCoins
    <2>5. Base(d, u) = e
      BY <1>1, <2>1 DEF Base
    <2> HIDE DEF e
    <2>6. f \in CCoins /\ f.vout = {n} /\ f.fCoinBase = c.fCoinBase /\ f.nHeight = c.nHeight
          /\ f.fCoinStake = FALSE
      BY <1>1, <2>3, <2>4 DEF CCoins
    <2>7. f = c
      <3>1. c.fCoinStake = FALSE
        BY <1>1, <2>2 DEF CCoins
      <3> HIDE DEF f
      <3>. QED  BY <1>1, <2>3, <2>6, <3>1, SameCoins
    <2>. QED  BY <1>1, <1>4, <2>1, <2>4, <2>5, <2>7 DEF PutBack, d, u
  <1>5. CASE d.vout # {}
    <2>1. u.nHeight = 0
      BY <1>3, <1>5 DEF Entry
    <2>2. d.nHeight = c.nHeight /\ d.fCoinBase = c.fCoinBase /\ d.fCoinStake = c.fCoinStake
      BY <1>2, <1>5 DEF IsTaken
    <2> HIDE DEF u
    <2>3. Base(d, u) = d
      BY <2>1 DEF Base
    <2> DEFINE f == [d EXCEPT !.vout = @ \cup {n}]
    <2>4. f \in CCoins /\ f.vout = c.vout /\ f.fCoinBase = c.fCoinBase /\ f.nHeight = c.nHeight
          /\ f.fCoinStake = c.fCoinStake
      BY <1>1, <1>3, <2>2 DEF CCoins
    <2>5. f = c
      <3> HIDE DEF f
      <3>. QED  BY <1>1, <2>4, SameCoins
    <2>. QED  BY <1>3, <1>5, <2>1, <2>3, <2>5 DEF PutBack, d, u
  <1>. QED  BY <1>4, <1>5 DEF d

-----------------------------------------------------------------------------
(* The inputs of a transaction *)

\* A set of outpoints without markers.
Spendable(T) == \A t \in Tx : \A n : NeverSpent(t, n) => <<t, n>> \notin T

TakeOne(X, out) == [X EXCEPT ![out[1]] = Take(X[out[1]], out[1], {out})]

LEMMA TakeAllAt ==
    ASSUME NEW cs, NEW T, NEW t \in Tx
    PROVE  TakeAll(cs, T)[t] = Take(cs[t], t, T)
  BY DEF TakeAll

LEMMA TakeAllSound ==
    ASSUME NEW cs, Sound(cs), NEW T, Spendable(T)
    PROVE  Sound(TakeAll(cs, T))
  <1>1. ASSUME NEW t \in Tx PROVE SoundCoin(Take(cs[t], t, T), t)
    BY TakeSound DEF Sound, Spendable
  <1>. QED  BY <1>1 DEF Sound, SoundCoin, TakeAll

\* Taking one outpoint more changes the coins of its transaction only.
LEMMA TakeAllOne ==
    ASSUME NEW cs, Sound(cs), NEW T, Spendable(T), NEW out \in Outpoint
    PROVE  TakeAll(cs, T \cup {out}) = TakeOne(TakeAll(cs, T), out)
  <1> DEFINE X == TakeAll(cs, T)
             t == out[1]
  <1>1. t \in Tx /\ out = <<t, out[2]>>
    BY OutpointLemma
  <1>2. Sound(X)
    BY TakeAllSound
  <1>3. ASSUME NEW u \in Tx PROVE Take(cs[u], u, T \cup {out}) = Take(X[u], u, {out})
    <2>1. cs[u] \in CCoins
      BY DEF Sound
    <2>2. Take(Take(cs[u], u, T), u, {out}) = Take(cs[u], u, T \cup {out})
      BY <2>1, TakeTwice
    <2>. QED  BY <2>2, TakeAllAt
  <1>4. ASSUME NEW u \in Tx, u # t PROVE Take(X[u], u, {out}) = X[u]
    <2>1. SoundCoin(X[u], u)
      BY <1>2 DEF Sound
    <2>2. \A n : <<u, n>> # out
      BY <1>1, <1>4
    <2> HIDE DEF X
    <2>. QED  BY <2>1, <2>2, TakeNothing
  <1>5. X = [u \in Tx |-> X[u]]
    BY DEF TakeAll
  <1> HIDE DEF X
  <1>6. TakeAll(cs, T \cup {out}) = [u \in Tx |-> IF u = t THEN Take(X[u], u, {out}) ELSE X[u]]
    BY <1>3, <1>4 DEF TakeAll
  <1>. QED  BY <1>1, <1>5, <1>6 DEF X, TakeOne

\* The results of Spend and UpdateCoins, and of RestoreInput and UndoTx.
Done(cs, undo) == [coins |-> cs, undo |-> undo]
Undone(cs, clean) == [coins |-> cs, clean |-> clean]

\* Spend with T already taken.
LEMMA SpendTaken ==
    ASSUME NEW cs, Sound(cs), NEW T, Spendable(T), NEW out \in Outpoint,
           NEW s, s.coins = TakeAll(cs, T)
    PROVE  Spend(s, out) = Done(TakeAll(cs, T \cup {out}),
                                Append(s.undo, Entry(TakeAll(cs, T)[out[1]], out[2])))
  <1> DEFINE X == TakeAll(cs, T)
             t == out[1]
             c == X[t]
             rest == c.vout \ {out[2]}
  <1>1. t \in Tx /\ out = <<t, out[2]>>
    BY OutpointLemma
  <1>2. c \in CCoins
    <2>1. Sound(X)
      BY TakeAllSound
    <2>. QED  BY <1>1, <2>1 DEF Sound
  <1>3. Prune([c EXCEPT !.vout = rest]) = Take(c, t, {out})
    <2> HIDE DEF c
    <2>1. Prune([c EXCEPT !.vout = rest]) = Take(c, t, {<<t, out[2]>>})
      BY <1>2, SpendOne, Zenon
    <2>. QED  BY <1>1, <2>1
  <1>4. [X EXCEPT ![t] = Prune([c EXCEPT !.vout = rest])] = TakeAll(cs, T \cup {out})
    <2>1. TakeAll(cs, T \cup {out}) = TakeOne(TakeAll(cs, T), out)
      BY TakeAllOne
    <2>. QED  BY <1>3, <2>1, Zenon DEF TakeOne
  <1>5. Spend(s, out) =
          [coins |-> [X EXCEPT ![t] = Prune([c EXCEPT !.vout = rest])],
           undo |-> Append(s.undo, Entry(c, out[2]))]
    BY DEF Spend, Entry
  <1>. QED  BY <1>4, <1>5, Zenon DEF Done

\* RestoreInput of an input that is there when T is taken.
LEMMA RestoreTaken ==
    ASSUME NEW cs, Sound(cs), NEW T, Spendable(T), NEW out \in Outpoint,
           ~NeverSpent(out[1], out[2]), out[2] \in TakeAll(cs, T)[out[1]].vout,
           NEW cl \in BOOLEAN
    PROVE  RestoreInput(Undone(TakeAll(cs, T \cup {out}), cl), out,
                        Entry(TakeAll(cs, T)[out[1]], out[2]))
             = Undone(TakeAll(cs, T), cl)
  <1> DEFINE X == TakeAll(cs, T)
             Y == TakeAll(cs, T \cup {out})
             t == out[1]
             n == out[2]
             d == Take(X[t], t, {out})
             u == Entry(X[t], n)
  <1>1. t \in Tx /\ out = <<t, n>>
    BY OutpointLemma
  <1>2. Sound(X)
    BY TakeAllSound
  <1>3. SoundCoin(X[t], t) /\ X \in [Tx -> CCoins]
    BY <1>1, <1>2 DEF Sound
  <1>4. Y = [X EXCEPT ![t] = d]
    <2>1. Y = TakeOne(X, out)
      BY TakeAllOne, Zenon
    <2>. QED  BY <2>1, Zenon DEF TakeOne
  <1>5. /\ PutBack(d, n, u) = X[t]
        /\ (u.nHeight # 0) = (d.vout = {})
        /\ n \notin Base(d, u).vout
    <2> DEFINE c == X[t]
    <2>1. SoundCoin(c, t) /\ n \in c.vout
      BY <1>3
    <2> HIDE DEF c, X
    <2>2. LET dd == Take(c, t, {<<t, n>>})
              uu == Entry(c, n)
          IN  /\ PutBack(dd, n, uu) = c
              /\ (uu.nHeight # 0) = (dd.vout = {})
              /\ n \notin Base(dd, uu).vout
      BY <1>1, <2>1, RestoreOne
    <2>. QED  BY <1>1, <2>2 DEF c
  <1> HIDE DEF X, d, u
  <1>6. Y[t] = d /\ [Y EXCEPT ![t] = PutBack(d, n, u)] = X
    BY <1>1, <1>3, <1>4, <1>5
  <1> HIDE DEF Y
  <1>7. RestoreInput([coins |-> Y, clean |-> cl], out, u) =
          [coins |-> [Y EXCEPT ![t] = PutBack(d, n, u)],
           clean |-> cl /\ (u.nHeight # 0) = (d.vout = {}) /\ n \notin Base(d, u).vout]
    BY <1>6 DEF RestoreInput, PutBack, Base
  <1>8. (cl /\ (u.nHeight # 0) = (d.vout = {}) /\ n \notin Base(d, u).vout) = cl
    BY <1>5
  <1>9. RestoreInput([coins |-> Y, clean |-> cl], out, u) = [coins |-> X, clean |-> cl]
    BY <1>6, <1>7, <1>8
  <1>. QED  BY <1>9 DEF X, Y, u, Undone

\* The first k inputs of t; what UpdateCoins writes to the undo data and makes
\* of the coins.
SpentUpTo(t, k) == {Inputs[t][j] : j \in 1 .. k}
NIn(t) == Len(Inputs[t])
EntryOf(cs, t, j) == Entry(TakeAll(cs, SpentUpTo(t, j - 1))[Inputs[t][j][1]], Inputs[t][j][2])
UndoOf(cs, t) == [j \in 1 .. NIn(t) |-> EntryOf(cs, t, j)]
AfterTx(cs, t, h) == [TakeAll(cs, SpentUpTo(t, NIn(t))) EXCEPT ![t] = FromTx(t, h)]

\* The inputs are outpoints that are not markers, and distinct.
LEMMA InputsLemma ==
    ASSUME NEW t \in Tx
    PROVE  /\ NIn(t) \in Nat /\ DOMAIN Inputs[t] = 1 .. NIn(t)
           /\ \A j \in 1 .. NIn(t) : /\ Inputs[t][j] \in Outpoint
                                     /\ ~NeverSpent(Inputs[t][j][1], Inputs[t][j][2])
                                     /\ Inputs[t][j] \notin SpentUpTo(t, j - 1)
  <1>1. Inputs[t] \in Seq(Outpoint)
    BY UndoAssumption
  <1>2. NIn(t) \in Nat /\ DOMAIN Inputs[t] = 1 .. NIn(t)
        /\ \A j \in 1 .. NIn(t) : Inputs[t][j] \in Outpoint
    BY <1>1 DEF NIn
  <1>3. ASSUME NEW j \in 1 .. NIn(t) PROVE ~NeverSpent(Inputs[t][j][1], Inputs[t][j][2])
    <2> DEFINE out == Inputs[t][j]
    <2>1. out = <<out[1], out[2]>>
      BY <1>2, OutpointLemma
    <2>. QED  BY <1>2, <2>1 DEF NeverSpent
  <1>4. ASSUME NEW j \in 1 .. NIn(t) PROVE Inputs[t][j] \notin SpentUpTo(t, j - 1)
    <2>1. \A i \in 1 .. j - 1 : i \in DOMAIN Inputs[t] /\ i # j
      BY <1>2
    <2>2. \A i \in DOMAIN Inputs[t] : Inputs[t][i] = Inputs[t][j] => i = j
      BY <1>2, UndoAssumption, Zenon
    <2>. QED  BY <2>1, <2>2 DEF SpentUpTo
  <1>. QED  BY <1>2, <1>3, <1>4

LEMMA SpentUpToLemma ==
    ASSUME NEW t \in Tx
    PROVE  /\ SpentUpTo(t, 0) = {}
           /\ \A k \in 1 .. NIn(t) : SpentUpTo(t, k) = SpentUpTo(t, k - 1) \cup {Inputs[t][k]}
           /\ \A k \in 0 .. NIn(t) : Spendable(SpentUpTo(t, k))
  <1>1. NIn(t) \in Nat /\ DOMAIN Inputs[t] = 1 .. NIn(t)
    BY InputsLemma
  <1>2. SpentUpTo(t, 0) = {}
    BY DEF SpentUpTo
  <1>3. ASSUME NEW k \in 1 .. NIn(t)
        PROVE  SpentUpTo(t, k) = SpentUpTo(t, k - 1) \cup {Inputs[t][k]}
    <2>1. 1 .. k = (1 .. k - 1) \cup {k}
      BY <1>1
    <2>. QED  BY <2>1 DEF SpentUpTo
  <1>4. ASSUME NEW k \in 0 .. NIn(t), NEW u \in Tx, NEW n, NeverSpent(u, n)
        PROVE  <<u, n>> \notin SpentUpTo(t, k)
    <2>1. \A j \in 1 .. k : j \in DOMAIN Inputs[t]
      BY <1>1
    <2>. QED  BY <1>4, <2>1 DEF SpentUpTo, NeverSpent
  <1>. QED  BY <1>2, <1>3, <1>4 DEF Spendable

\* What UpdateCoins computes.
LEMMA UpdateCoinsIs ==
    ASSUME NEW cs, Sound(cs), NEW t \in Tx, NEW h
    PROVE  UpdateCoins(cs, t, h) = Done(AfterTx(cs, t, h), UndoOf(cs, t))
  <1> DEFINE N == NIn(t)
             base == [coins |-> cs, undo |-> <<>>]
             Is(k) == [coins |-> TakeAll(cs, SpentUpTo(t, k)),
                       undo |-> [j \in 1 .. k |-> EntryOf(cs, t, j)]]
  <1>1. N \in Nat /\ DOMAIN Inputs[t] = 1 .. N
    BY InputsLemma
  <1>2. PICK st : SpendFold!LeftSteps(1, base, N, Inputs[t], st)
    BY <1>1, SpendFold!FoldLeftSteps, Zenon
  <1>3. /\ st[0] = base
        /\ \A i \in 1 .. N : st[i] = Spend(st[i - 1], Inputs[t][i])
        /\ SpendFold!LeftFold(1, base, Inputs[t]) = st[N]
    BY <1>2, Zenon DEF SpendFold!LeftSteps, SpendOp
  <1>4. FoldLeft(Spend, base, Inputs[t]) = st[N]
    <2>1. FoldLeft(Spend, base, Inputs[t]) = SpendFold!LeftFold(1, base, Inputs[t])
      BY DEF FoldLeft, MapThenFoldSet, Max, SpendFold!MapThenFoldSet,
             SpendFold!Greatest, SpendFold!LeftFold, SpendOp
    <2>. QED  BY <1>3, <2>1
  <1> DEFINE S == {k \in 0 .. N : st[k] = Is(k)}
  <1>5. 0 \in S
    <2>1. TakeAll(cs, {}) = cs
      <3>1. \A u \in Tx : Take(cs[u], u, {}) = cs[u]
        BY TakeNothing DEF Sound
      <3>. QED  BY <3>1 DEF TakeAll, Sound
    <2>2. [j \in 1 .. 0 |-> EntryOf(cs, t, j)] = <<>>
      OBVIOUS
    <2>3. SpentUpTo(t, 0) = {}
      BY SpentUpToLemma
    <2>4. Is(0) = base
      BY <2>1, <2>2, <2>3, Zenon
    <2>5. 0 \in 0 .. N
      BY <1>1
    <2>. QED  BY <1>3, <2>4, <2>5, Zenon
  <1>6. ASSUME NEW k \in 0 .. N - 1, k \in S PROVE k + 1 \in S
    <2> DEFINE out == Inputs[t][k + 1]
               T == SpentUpTo(t, k)
    <2>1. k + 1 \in 1 .. N /\ k + 1 \in 0 .. N /\ (k + 1) - 1 = k /\ k \in 0 .. N
      BY <1>1
    <2>2. out \in Outpoint /\ Spendable(T) /\ SpentUpTo(t, k + 1) = T \cup {out}
      BY <2>1, InputsLemma, SpentUpToLemma
    <2>3. st[k] = Is(k)
      BY <1>6
    <2>4. st[k].coins = TakeAll(cs, T) /\ st[k].undo = [j \in 1 .. k |-> EntryOf(cs, t, j)]
      BY <2>3
    <2>5. Spend(st[k], out) = Done(TakeAll(cs, T \cup {out}),
                                   Append(st[k].undo, Entry(TakeAll(cs, T)[out[1]], out[2])))
      <3> HIDE DEF out, T, Is, S
      <3>1. out \in Outpoint /\ Spendable(T) /\ st[k].coins = TakeAll(cs, T)
        BY <2>2, <2>4
      <3>. QED  BY <3>1, SpendTaken, Zenon
    <2>6. Entry(TakeAll(cs, T)[out[1]], out[2]) = EntryOf(cs, t, k + 1)
      BY <2>1 DEF EntryOf
    <2>7. Append([j \in 1 .. k |-> EntryOf(cs, t, j)], EntryOf(cs, t, k + 1))
            = [j \in 1 .. k + 1 |-> EntryOf(cs, t, j)]
      BY <2>1
    <2>8. st[k + 1] = Is(k + 1)
      BY <1>3, <2>1, <2>2, <2>4, <2>5, <2>6, <2>7 DEF Done
    <2>. QED  BY <2>1, <2>8
  <1>7. \A k \in 0 .. N : k \in S
    <2> HIDE DEF S
    <2>. QED  BY <1>1, <1>5, <1>6, SpendFold!Induction, Zenon
  <1>8. st[N] = Is(N)
    BY <1>1, <1>7
  <1>9. UpdateCoins(cs, t, h) = [coins |-> [st[N].coins EXCEPT ![t] = FromTx(t, h)],
                                 undo |-> st[N].undo]
    BY <1>4 DEF UpdateCoins
  <1>. QED  BY <1>8, <1>9 DEF AfterTx, UndoOf, Done

LEMMA AfterTxSound ==
    ASSUME MarkerUnspent, NEW cs, Sound(cs), NEW t \in Tx, NEW h \in Nat, h # 0
    PROVE  Sound(AfterTx(cs, t, h))
  <1> DEFINE X == TakeAll(cs, SpentUpTo(t, NIn(t)))
  <1>1. Sound(X)
    <2>1. Spendable(SpentUpTo(t, NIn(t)))
      BY InputsLemma, SpentUpToLemma
    <2>. QED  BY <2>1, TakeAllSound
  <1>2. FromTx(t, h) \in CCoins /\ SoundCoin(FromTx(t, h), t)
    BY FromTxLemma
  <1>3. AfterTx(cs, t, h) = [X EXCEPT ![t] = FromTx(t, h)]
    BY DEF AfterTx
  <1> HIDE DEF X
  <1>. QED  BY <1>1, <1>2, <1>3 DEF Sound

\* The inputs HaveInputs found are there when the earlier ones are spent.
LEMMA StillThere ==
    ASSUME NEW cs, Sound(cs), NEW t \in Tx, HaveInputs(cs, t), NEW k \in 1 .. NIn(t)
    PROVE  Inputs[t][k][2] \in TakeAll(cs, SpentUpTo(t, k - 1))[Inputs[t][k][1]].vout
  <1> DEFINE out == Inputs[t][k]
             T == SpentUpTo(t, k - 1)
             u == out[1]
  <1>1. k \in DOMAIN Inputs[t] /\ out \in Outpoint /\ out \notin T
    BY InputsLemma
  <1>2. u \in Tx /\ out = <<u, out[2]>>
    BY <1>1, OutpointLemma
  <1>3. out[2] \in cs[u].vout
    BY <1>1 DEF HaveInputs
  <1>4. cs[u] \in CCoins
    BY <1>2 DEF Sound
  <1>5. IsTaken(Take(cs[u], u, T), cs[u], u, T)
    BY <1>4, TakeLemma, Zenon
  <1>6. TakeAll(cs, T)[u] = Take(cs[u], u, T)
    BY <1>2, TakeAllAt, Zenon
  <1> HIDE DEF out, T, u
  <1>7. out[2] \in Take(cs[u], u, T).vout
    BY <1>1, <1>2, <1>3, <1>5 DEF IsTaken
  <1>. QED  BY <1>6, <1>7 DEF out, T, u

\* Undoing a transaction gives back the coins it was applied to.
LEMMA UndoTxIs ==
    ASSUME NEW cs, Sound(cs), NEW t \in Tx, NEW h, cs[t] = Cleared, HaveInputs(cs, t),
           NEW cl \in BOOLEAN
    PROVE  UndoTx(Undone(AfterTx(cs, t, h), cl), t, UndoOf(cs, t), h) = Undone(cs, cl)
  <1> DEFINE N == NIn(t)
             undo == UndoOf(cs, t)
             c == <<t, undo>>
             base == RemoveOutputs(Undone(AfterTx(cs, t, h), cl), t, h)
             seq == [j \in DOMAIN Inputs[t] |-> j]
             Is(k) == Undone(TakeAll(cs, SpentUpTo(t, k)), cl)
  <1>1. N \in Nat /\ DOMAIN Inputs[t] = 1 .. N /\ DOMAIN seq = 1 .. N
    BY InputsLemma
  <1>2. PICK st : RestoreFold!RightSteps(c, base, N, seq, st)
    <2> HIDE DEF c, base, seq, N
    <2>. QED  BY <1>1, RestoreFold!FoldRightSteps, Zenon
  <1>3. /\ st[N] = base
        /\ \A i \in 1 .. N : st[i - 1] = RestoreInput(st[i], Inputs[t][i], undo[i])
        /\ RestoreFold!RightFold(c, base, seq) = st[0]
    <2> HIDE DEF base, undo
    <2>1. \A i \in 1 .. N : RestoreOp(c, st[i], seq[i]) = RestoreInput(st[i], Inputs[t][i], undo[i])
      BY <1>1 DEF RestoreOp
    <2> HIDE DEF c, seq, N
    <2>. QED  BY <1>2, <2>1 DEF RestoreFold!RightSteps
  <1>4. UndoTx(Undone(AfterTx(cs, t, h), cl), t, undo, h) = st[0]
    <2>1. FoldRight(LAMBDA j, r : RestoreInput(r, Inputs[t][j], undo[j]), seq, base)
            = RestoreFold!RightFold(c, base, seq)
      <3> HIDE DEF base, seq, undo
      <3>. QED  BY DEF FoldRight, MapThenFoldSet, Min, RestoreFold!MapThenFoldSet,
             RestoreFold!Least, RestoreFold!RightFold, RestoreOp
    <2>. QED  BY <1>3, <2>1 DEF UndoTx
  <1> DEFINE S == {k \in 0 .. N : st[k] = Is(k)}
  <1>5. N \in S
    <2> DEFINE X == TakeAll(cs, SpentUpTo(t, N))
    <2>1. Take(Cleared, t, SpentUpTo(t, N)) = Cleared
      BY ClearedLemma, TakeNothing DEF Cleared
    <2>2. X[t] = Cleared /\ X = [u \in Tx |-> X[u]]
      BY <2>1, TakeAllAt DEF TakeAll
    <2>3. AfterTx(cs, t, h) = [X EXCEPT ![t] = FromTx(t, h)]
      BY DEF AfterTx
    <2> HIDE DEF X
    <2>4. AfterTx(cs, t, h)[t] = FromTx(t, h) /\ [AfterTx(cs, t, h) EXCEPT ![t] = Cleared] = X
      BY <2>2, <2>3
    <2>5. base = Undone(X, cl)
      BY <2>4 DEF RemoveOutputs, Undone
    <2>. QED  BY <1>1, <1>3, <2>5 DEF X
  <1>6. ASSUME NEW k \in 1 .. N, k \in S PROVE k - 1 \in S
    <2> DEFINE out == Inputs[t][k]
               T == SpentUpTo(t, k - 1)
    <2>1. k - 1 \in 0 .. N
      BY <1>1
    <2>2. out \in Outpoint /\ ~NeverSpent(out[1], out[2])
      BY InputsLemma
    <2>3. Spendable(T) /\ SpentUpTo(t, k) = T \cup {out}
      BY <2>1, SpentUpToLemma
    <2>4. out[2] \in TakeAll(cs, T)[out[1]].vout
      BY StillThere
    <2>5. undo[k] = Entry(TakeAll(cs, T)[out[1]], out[2])
      BY DEF UndoOf, EntryOf
    <2>6. st[k] = Undone(TakeAll(cs, T \cup {out}), cl)
      BY <1>6, <2>3
    <2>7. st[k - 1] = RestoreInput(st[k], out, undo[k])
      BY <1>3
    <2> HIDE DEF undo, out, T, S
    <2>8. RestoreInput(Undone(TakeAll(cs, T \cup {out}), cl), out, Entry(TakeAll(cs, T)[out[1]], out[2]))
            = Undone(TakeAll(cs, T), cl)
      BY <2>2, <2>3, <2>4, RestoreTaken
    <2>9. st[k - 1] = Undone(TakeAll(cs, T), cl)
      BY <2>5, <2>6, <2>7, <2>8, Zenon
    <2>. QED  BY <2>1, <2>9 DEF S, T
  <1>7. \A k \in 0 .. N : k \in S
    <2> HIDE DEF S
    <2>. QED  BY <1>1, <1>5, <1>6, RestoreFold!InductionDown, Zenon
  <1>8. st[0] = Is(0)
    BY <1>1, <1>7
  <1>9. TakeAll(cs, SpentUpTo(t, 0)) = cs
    <2>1. SpentUpTo(t, 0) = {}
      BY SpentUpToLemma
    <2>2. \A u \in Tx : Take(cs[u], u, {}) = cs[u]
      BY TakeNothing DEF Sound
    <2>. QED  BY <2>1, <2>2 DEF TakeAll, Sound
  <1>. QED  BY <1>4, <1>8, <1>9

-----------------------------------------------------------------------------
(* The transactions of a block *)

Applied(cs, undo, ok) == [coins |-> cs, undo |-> undo, ok |-> ok]

\* The coin sets X[0] to X[n] that ConnectBlock goes through for a block it
\* accepts: a transaction finds its inputs, and is not there before its turn.
BlockSteps(cs, b, n, h, X) ==
    /\ X[0] = cs
    /\ \A i \in 1 .. n : /\ HaveInputs(X[i - 1], b[i]) /\ Mature(X[i - 1], b[i], h)
                        /\ X[i] = AfterTx(X[i - 1], b[i], h)
    /\ \A i \in 0 .. n : Sound(X[i])
    /\ \A i \in 0 .. n : \A j \in i + 1 .. n : X[i][b[j]] = Cleared
    /\ ApplyBlock(cs, b, h) = Applied(X[n], [i \in 1 .. n |-> UndoOf(X[i - 1], b[i])], TRUE)

\* One transaction that is accepted.
TxApplied(cs, undo, t, h) ==
    Applied(UpdateCoins(cs, t, h).coins, Append(undo, UpdateCoins(cs, t, h).undo), TRUE)

IsApplied(s) == \E c2, u2 : \E k \in BOOLEAN : s = Applied(c2, u2, k)

LEMMA ApplyTxLemma ==
    ASSUME NEW s, IsApplied(s), NEW t, NEW h
    PROVE  /\ IsApplied(ApplyTx(s, t, h))
           /\ ApplyTx(s, t, h).ok => /\ s.ok /\ HaveInputs(s.coins, t) /\ Mature(s.coins, t, h)
                                     /\ ApplyTx(s, t, h) = TxApplied(s.coins, s.undo, t, h)
  <1> DEFINE r == ApplyTx(s, t, h)
             good == s.ok /\ HaveInputs(s.coins, t) /\ Mature(s.coins, t, h)
  <1>1. CASE good
    <2>1. r = TxApplied(s.coins, s.undo, t, h)
      BY <1>1 DEF ApplyTx, Applied, TxApplied
    <2>2. IsApplied(r)
      BY <2>1, Zenon DEF TxApplied, IsApplied
    <2>. QED  BY <1>1, <2>1, <2>2
  <1>2. CASE ~good
    <2>1. r = [s EXCEPT !.ok = FALSE]
      BY <1>2 DEF ApplyTx
    <2>2. r = Applied(s.coins, s.undo, FALSE)
      BY <2>1 DEF Applied, IsApplied
    <2> HIDE DEF r
    <2>3. ~r.ok
      BY <2>2 DEF Applied
    <2>4. IsApplied(r)
      BY <2>2, Zenon DEF IsApplied
    <2>. QED  BY <2>3, <2>4 DEF r
  <1>. QED  BY <1>1, <1>2

\* Such a record is determined by its fields.
LEMMA AppliedFields ==
    ASSUME NEW s, IsApplied(s), s.ok
    PROVE  s = Applied(s.coins, s.undo, TRUE)
  BY DEF IsApplied, Applied

\* A transaction that is not t leaves t cleared.
LEMMA StaysCleared ==
    ASSUME NEW cs, Sound(cs), NEW t \in Tx, NEW u \in Tx, u # t, cs[u] = Cleared, NEW h
    PROVE  AfterTx(cs, t, h)[u] = Cleared
  <1> DEFINE X == TakeAll(cs, SpentUpTo(t, NIn(t)))
  <1>1. Take(Cleared, u, SpentUpTo(t, NIn(t))) = Cleared
    BY ClearedLemma, TakeNothing DEF Cleared
  <1>2. X[u] = Cleared
    BY <1>1, TakeAllAt
  <1>3. X = [v \in Tx |-> X[v]]
    BY DEF TakeAll
  <1> HIDE DEF X
  <1>. QED  BY <1>2, <1>3 DEF AfterTx, X

\* What ConnectBlock computes when it accepts a block.
LEMMA ApplyBlockSteps ==
    ASSUME MarkerUnspent, NEW cs, Sound(cs), NEW n \in Nat, NEW b \in [1 .. n -> Tx],
           \A i, j \in 1 .. n : i # j => b[i] # b[j],
           NEW h \in Nat, h # 0, ApplyBlock(cs, b, h).ok
    PROVE  \E X : BlockSteps(cs, b, n, h, X)
  <1> DEFINE base == Applied(cs, <<>>, \A i \in DOMAIN b : cs[b[i]].vout = {})
  <1>1. DOMAIN b = 1 .. n
    OBVIOUS
  <1>2. PICK st : ApplyFold!LeftSteps(h, base, n, b, st)
    <2> HIDE DEF base
    <2>. QED  BY <1>1, ApplyFold!FoldLeftSteps, Zenon
  <1>3. /\ st[0] = base
        /\ \A i \in 1 .. n : st[i] = ApplyTx(st[i - 1], b[i], h)
        /\ ApplyFold!LeftFold(h, base, b) = st[n]
    <2> HIDE DEF base
    <2>. QED  BY <1>2, Zenon DEF ApplyFold!LeftSteps, ApplyOp
  <1>4. ApplyBlock(cs, b, h) = st[n]
    <2> DEFINE base0 == [coins |-> cs, undo |-> <<>>, ok |-> \A i \in DOMAIN b : cs[b[i]].vout = {}]
    <2>1. base0 = base
      BY DEF Applied
    <2> HIDE DEF base
    <2>2. ApplyBlock(cs, b, h) = FoldLeft(LAMBDA s, t : ApplyTx(s, t, h), base0, b)
      BY DEF ApplyBlock
    <2> HIDE DEF base0
    <2>3. FoldLeft(LAMBDA s, t : ApplyTx(s, t, h), base0, b) = ApplyFold!LeftFold(h, base0, b)
      BY DEF FoldLeft, MapThenFoldSet, Max, ApplyFold!MapThenFoldSet,
             ApplyFold!Greatest, ApplyFold!LeftFold, ApplyOp
    <2>. QED  BY <1>3, <2>1, <2>2, <2>3
  <1> DEFINE S1 == {i \in 0 .. n : IsApplied(st[i])}
  <1>5. \A i \in 0 .. n : i \in S1
    <2>1. 0 \in S1
      <3>1. IsApplied(base)
        <4>1. (\A i \in DOMAIN b : cs[b[i]].vout = {}) \in BOOLEAN
          OBVIOUS
        <4>. QED  BY <4>1, Zenon DEF IsApplied
      <3> HIDE DEF base
      <3>2. 0 \in 0 .. n
        OBVIOUS
      <3>. QED  BY <1>3, <3>1, <3>2, Zenon
    <2>2. ASSUME NEW i \in 0 .. n - 1, i \in S1 PROVE i + 1 \in S1
      <3>1. i + 1 \in 1 .. n /\ i + 1 \in 0 .. n /\ (i + 1) - 1 = i
        OBVIOUS
      <3>2. st[i + 1] = ApplyTx(st[i], b[i + 1], h)
        BY <1>3, <3>1
      <3>. QED  BY <2>2, <3>1, <3>2, ApplyTxLemma
    <2> HIDE DEF S1
    <2>. QED  BY <2>1, <2>2, ApplyFold!Induction, Zenon
  <1>6. ASSUME NEW i \in 1 .. n, st[i].ok
        PROVE  /\ st[i - 1].ok
               /\ HaveInputs(st[i - 1].coins, b[i]) /\ Mature(st[i - 1].coins, b[i], h)
               /\ st[i] = TxApplied(st[i - 1].coins, st[i - 1].undo, b[i], h)
    <2>1. i - 1 \in 0 .. n
      OBVIOUS
    <2>2. IsApplied(st[i - 1])
      BY <1>5, <2>1
    <2>3. st[i] = ApplyTx(st[i - 1], b[i], h)
      BY <1>3
    <2>. QED  BY <1>6, <2>2, <2>3, ApplyTxLemma
  <1> DEFINE S2 == {i \in 0 .. n : st[i].ok}
  <1>7. \A i \in 0 .. n : i \in S2
    <2>1. n \in S2
      BY <1>4
    <2>2. ASSUME NEW i \in 1 .. n, i \in S2 PROVE i - 1 \in S2
      <3>1. i - 1 \in 0 .. n
        OBVIOUS
      <3>. QED  BY <1>6, <2>2, <3>1
    <2> HIDE DEF S2
    <2>. QED  BY <2>1, <2>2, ApplyFold!InductionDown, Zenon
  <1> DEFINE X == [i \in 0 .. n |-> st[i].coins]
             Is(i) == /\ Sound(X[i])
                      /\ \A j \in i + 1 .. n : X[i][b[j]] = Cleared
                      /\ st[i].undo = [k \in 1 .. i |-> UndoOf(X[k - 1], b[k])]
  <1>8. ASSUME NEW i \in 1 .. n, Sound(X[i - 1])
        PROVE  /\ HaveInputs(X[i - 1], b[i]) /\ Mature(X[i - 1], b[i], h)
               /\ X[i] = AfterTx(X[i - 1], b[i], h)
               /\ st[i] = Applied(X[i], Append(st[i - 1].undo, UndoOf(X[i - 1], b[i])), TRUE)
               /\ st[i].undo = Append(st[i - 1].undo, UndoOf(X[i - 1], b[i]))
    <2>1. i - 1 \in 0 .. n /\ i \in 0 .. n /\ b[i] \in Tx
      OBVIOUS
    <2>2. X[i - 1] = st[i - 1].coins /\ X[i] = st[i].coins /\ st[i].ok
      BY <1>7, <2>1
    <2> HIDE DEF X
    <2>3. UpdateCoins(X[i - 1], b[i], h) = Done(AfterTx(X[i - 1], b[i], h), UndoOf(X[i - 1], b[i]))
      BY <1>8, <2>1, UpdateCoinsIs
    <2>4. st[i] = Applied(AfterTx(X[i - 1], b[i], h), Append(st[i - 1].undo, UndoOf(X[i - 1], b[i])), TRUE)
      <3>1. st[i] = TxApplied(X[i - 1], st[i - 1].undo, b[i], h)
        BY <1>6, <2>2
      <3>2. /\ UpdateCoins(X[i - 1], b[i], h).coins = AfterTx(X[i - 1], b[i], h)
            /\ UpdateCoins(X[i - 1], b[i], h).undo = UndoOf(X[i - 1], b[i])
        BY <2>3 DEF Done
      <3>. QED  BY <3>1, <3>2, Zenon DEF TxApplied
    <2>5. X[i] = AfterTx(X[i - 1], b[i], h)
      BY <2>2, <2>4 DEF Applied
    <2>6. st[i].undo = Append(st[i - 1].undo, UndoOf(X[i - 1], b[i]))
      BY <2>4 DEF Applied
    <2>. QED  BY <1>6, <2>2, <2>4, <2>5, <2>6
  <1> DEFINE S3 == {i \in 0 .. n : Is(i)}
  <1>9. 0 \in S3
    <2>1. X[0] = cs
      BY <1>3 DEF Applied
    <2>2. \A j \in 1 .. n : cs[b[j]] = Cleared
      <3>1. base.ok
        <4>1. 0 \in S2
          BY <1>7
        <4> HIDE DEF base
        <4>. QED  BY <1>3, <4>1
      <3>2. \A i \in DOMAIN b : cs[b[i]].vout = {}
        BY <3>1 DEF Applied
      <3>. QED  BY <1>1, <3>2 DEF Sound, SoundCoin
    <2>3. st[0].undo = <<>>
      BY <1>3 DEF Applied
    <2> HIDE DEF X
    <2>4. [k \in 1 .. 0 |-> UndoOf(X[k - 1], b[k])] = <<>>
      OBVIOUS
    <2>5. Is(0) /\ 0 \in 0 .. n
      BY <2>1, <2>2, <2>3, <2>4
    <2>. QED  BY <2>5, Zenon
  <1>10. ASSUME NEW i \in 0 .. n - 1, i \in S3 PROVE i + 1 \in S3
    <2>1. i + 1 \in 1 .. n /\ i + 1 \in 0 .. n /\ (i + 1) - 1 = i /\ b[i + 1] \in Tx
      OBVIOUS
    <2>2. Is(i)
      BY <1>10, Zenon
    <2> HIDE DEF X
    <2>3. /\ X[i + 1] = AfterTx(X[i], b[i + 1], h)
          /\ st[i + 1].undo = Append(st[i].undo, UndoOf(X[i], b[i + 1]))
      BY <1>8, <2>1, <2>2
    <2>4. Sound(X[i + 1])
      BY <2>1, <2>2, <2>3, AfterTxSound
    <2>5. ASSUME NEW j \in (i + 1) + 1 .. n PROVE X[i + 1][b[j]] = Cleared
      <3>1. j \in i + 1 .. n /\ j \in 1 .. n /\ j # i + 1
        OBVIOUS
      <3>2. b[j] \in Tx /\ b[j] # b[i + 1] /\ X[i][b[j]] = Cleared
        BY <2>1, <2>2, <3>1
      <3>. QED  BY <2>1, <2>2, <2>3, <3>2, StaysCleared
    <2>6. Append([k \in 1 .. i |-> UndoOf(X[k - 1], b[k])], UndoOf(X[i], b[i + 1]))
            = [k \in 1 .. i + 1 |-> UndoOf(X[k - 1], b[k])]
      <3> DEFINE e == [k \in 1 .. i + 1 |-> UndoOf(X[k - 1], b[k])]
      <3>1. e[i + 1] = UndoOf(X[i], b[i + 1])
        BY <2>1
      <3>2. \A k \in 1 .. i : UndoOf(X[k - 1], b[k]) = e[k]
        OBVIOUS
      <3>3. e = [k \in 1 .. i + 1 |-> e[k]]
        OBVIOUS
      <3> HIDE DEF e
      <3>4. Append([k \in 1 .. i |-> e[k]], e[i + 1]) = [k \in 1 .. i + 1 |-> e[k]]
        BY <2>1
      <3>5. [k \in 1 .. i |-> UndoOf(X[k - 1], b[k])] = [k \in 1 .. i |-> e[k]]
        BY <3>2
      <3>. QED  BY <3>1, <3>3, <3>4, <3>5 DEF e
    <2>7. Is(i + 1)
      BY <2>2, <2>3, <2>4, <2>5, <2>6
    <2>. QED  BY <2>1, <2>7, Zenon
  <1>11. \A i \in 0 .. n : i \in S3
    <2> HIDE DEF S3
    <2>. QED  BY <1>9, <1>10, ApplyFold!Induction, Zenon
  <1>12. \A i \in 0 .. n : Sound(X[i]) /\ \A j \in i + 1 .. n : X[i][b[j]] = Cleared
    <2> HIDE DEF X
    <2>. QED  BY <1>11
  <1>13. \A i \in 1 .. n : /\ HaveInputs(X[i - 1], b[i]) /\ Mature(X[i - 1], b[i], h)
                           /\ X[i] = AfterTx(X[i - 1], b[i], h)
    <2> HIDE DEF X
    <2>1. \A i \in 1 .. n : i - 1 \in 0 .. n
      OBVIOUS
    <2>. QED  BY <1>8, <1>12, <2>1
  <1>14. st[n] = Applied(X[n], [i \in 1 .. n |-> UndoOf(X[i - 1], b[i])], TRUE)
    <2>1. n \in 0 .. n /\ X[n] = st[n].coins /\ st[n].ok
      BY <1>7
    <2>2. st[n].undo = [i \in 1 .. n |-> UndoOf(X[i - 1], b[i])]
      <3> HIDE DEF X
      <3>. QED  BY <1>11, <2>1
    <2> HIDE DEF X
    <2>3. st[n] = Applied(st[n].coins, st[n].undo, TRUE)
      BY <1>5, <2>1, AppliedFields
    <2>. QED  BY <2>1, <2>2, <2>3
  <1>15. X[0] = cs
    BY <1>3 DEF Applied
  <1>16. BlockSteps(cs, b, n, h, X)
    <2> HIDE DEF X
    <2>. QED  BY <1>4, <1>12, <1>13, <1>14, <1>15 DEF BlockSteps
  <1>. QED  BY <1>16, Zenon

\* DisconnectBlock undoes ConnectBlock: it gives back the coins the block was
\* applied to, and reports a clean undo.
THEOREM UndoBlockUndoesApplyBlock ==
    ASSUME MarkerUnspent, NEW cs, Sound(cs), NEW n \in Nat, NEW b \in [1 .. n -> Tx],
           \A i, j \in 1 .. n : i # j => b[i] # b[j],
           NEW h \in Nat, h # 0, ApplyBlock(cs, b, h).ok
    PROVE  LET r == ApplyBlock(cs, b, h)
           IN  UndoBlock(r.coins, b, r.undo, h) = Undone(cs, TRUE)
  <1>1. PICK X : BlockSteps(cs, b, n, h, X)
    BY ApplyBlockSteps
  <1> DEFINE undo == [i \in 1 .. n |-> UndoOf(X[i - 1], b[i])]
             c == <<b, undo, h>>
             base == Undone(X[n], TRUE)
             seq == [i \in DOMAIN b |-> i]
  <1>2. ApplyBlock(cs, b, h).coins = X[n] /\ ApplyBlock(cs, b, h).undo = undo
    BY <1>1 DEF BlockSteps, Applied
  <1>3. DOMAIN b = 1 .. n /\ DOMAIN seq = 1 .. n
    OBVIOUS
  <1>4. PICK st : UndoFold!RightSteps(c, base, n, seq, st)
    <2> HIDE DEF c, base, seq
    <2>. QED  BY <1>3, UndoFold!FoldRightSteps, Zenon
  <1>5. /\ st[n] = base
        /\ \A i \in 1 .. n : st[i - 1] = UndoTx(st[i], b[i], undo[i], h)
        /\ UndoFold!RightFold(c, base, seq) = st[0]
    <2> HIDE DEF base, undo
    <2>1. \A i \in 1 .. n : UndoOp(c, st[i], seq[i]) = UndoTx(st[i], b[i], undo[i], h)
      BY <1>3 DEF UndoOp
    <2> HIDE DEF c, seq
    <2>. QED  BY <1>4, <2>1 DEF UndoFold!RightSteps
  <1>6. UndoBlock(X[n], b, undo, h) = st[0]
    <2>1. UndoBlock(X[n], b, undo, h) = FoldRight(LAMBDA i, s : UndoTx(s, b[i], undo[i], h), seq, base)
      <3> HIDE DEF undo
      <3>. QED  BY DEF UndoBlock, Undone
    <2>2. FoldRight(LAMBDA i, s : UndoTx(s, b[i], undo[i], h), seq, base)
            = UndoFold!RightFold(c, base, seq)
      <3> HIDE DEF base, seq, undo
      <3>. QED  BY DEF FoldRight, MapThenFoldSet, Min, UndoFold!MapThenFoldSet, UndoFold!Least, UndoFold!RightFold, UndoOp
    <2>. QED  BY <1>5, <2>1, <2>2, Zenon
  <1> DEFINE S == {i \in 0 .. n : st[i] = Undone(X[i], TRUE)}
  <1>7. n \in S
    <2>1. n \in 0 .. n
      OBVIOUS
    <2>. QED  BY <1>5, <2>1, Zenon
  <1>8. ASSUME NEW i \in 1 .. n, i \in S PROVE i - 1 \in S
    <2>1. i - 1 \in 0 .. n /\ i \in (i - 1) + 1 .. n /\ b[i] \in Tx
      OBVIOUS
    <2>2. /\ Sound(X[i - 1]) /\ HaveInputs(X[i - 1], b[i]) /\ X[i - 1][b[i]] = Cleared
          /\ X[i] = AfterTx(X[i - 1], b[i], h)
      BY <1>1, <2>1 DEF BlockSteps
    <2>3. st[i - 1] = UndoTx(Undone(AfterTx(X[i - 1], b[i], h), TRUE), b[i], UndoOf(X[i - 1], b[i]), h)
      BY <1>5, <1>8, <2>2
    <2>4. UndoTx(Undone(AfterTx(X[i - 1], b[i], h), TRUE), b[i], UndoOf(X[i - 1], b[i]), h)
            = Undone(X[i - 1], TRUE)
      BY <2>1, <2>2, UndoTxIs
    <2>. QED  BY <2>1, <2>3, <2>4
  <1>9. \A i \in 0 .. n : i \in S
    <2> HIDE DEF S
    <2>. QED  BY <1>7, <1>8, UndoFold!InductionDown, Zenon
  <1>10. st[0] = Undone(cs, TRUE)
    <2>1. 0 \in 0 .. n
      OBVIOUS
    <2>2. st[0] = Undone(X[0], TRUE)
      BY <1>9, <2>1, Zenon
    <2>. QED  BY <1>1, <2>2 DEF BlockSteps
  <1>. QED  BY <1>2, <1>6, <1>10

\* The outpoints that the first i transactions of a block spend, and the coins
\* of t before anything is spent from them.
SpentIn(b, i) == UNION {SpentUpTo(b[k], NIn(b[k])) : k \in 1 .. i}
Made(cs, b, i, t, h) == IF \E k \in 1 .. i : b[k] = t THEN FromTx(t, h) ELSE cs[t]

CoinsAfter(cs, b, i, h) == [t \in Tx |-> Take(Made(cs, b, i, t, h), t, SpentIn(b, i))]

LEMMA SpentInLemma ==
    ASSUME NEW n \in Nat, NEW b \in [1 .. n -> Tx]
    PROVE  /\ SpentIn(b, 0) = {}
           /\ \A i \in 1 .. n : SpentIn(b, i) = SpentIn(b, i - 1) \cup SpentUpTo(b[i], NIn(b[i]))
           /\ SpentIn(b, n) = SpentBy(b)
           /\ Spendable(SpentBy(b))
  <1>1. SpentIn(b, 0) = {}
    BY DEF SpentIn
  <1>2. ASSUME NEW i \in 1 .. n
        PROVE  SpentIn(b, i) = SpentIn(b, i - 1) \cup SpentUpTo(b[i], NIn(b[i]))
    <2>1. 1 .. i = (1 .. i - 1) \cup {i}
      OBVIOUS
    <2>. QED  BY <2>1 DEF SpentIn
  <1>3. \A k \in 1 .. n : Range(Inputs[b[k]]) = SpentUpTo(b[k], NIn(b[k]))
    BY InputsLemma DEF Range, SpentUpTo
  <1>4. SpentIn(b, n) = SpentBy(b)
    BY <1>3 DEF SpentIn, SpentBy
  <1>5. \A k \in 1 .. n : Spendable(SpentUpTo(b[k], NIn(b[k])))
    BY InputsLemma, SpentUpToLemma
  <1>6. Spendable(SpentIn(b, n))
    BY <1>5 DEF SpentIn, Spendable
  <1>. QED  BY <1>1, <1>2, <1>4, <1>6

\* No output is spent before its transaction is applied.
LEMMA NotSpentBefore ==
    ASSUME NEW cs, NEW n \in Nat, NEW b \in [1 .. n -> Tx], NEW h, NEW X,
           BlockSteps(cs, b, n, h, X), NEW i \in 1 .. n, NEW m
    PROVE  <<b[i], m>> \notin SpentIn(b, i)
  <1> SUFFICES ASSUME NEW k \in 1 .. i, <<b[i], m>> \in SpentUpTo(b[k], NIn(b[k])) PROVE FALSE
    BY DEF SpentIn
  <1>1. k \in 1 .. n /\ k - 1 \in 0 .. n /\ i \in (k - 1) + 1 .. n /\ b[k] \in Tx
    OBVIOUS
  <1>2. PICK j \in 1 .. NIn(b[k]) : Inputs[b[k]][j] = <<b[i], m>>
    BY DEF SpentUpTo
  <1>3. j \in DOMAIN Inputs[b[k]]
    BY <1>1, InputsLemma
  <1>4. HaveInputs(X[k - 1], b[k])
    BY <1>1 DEF BlockSteps
  <1>5. m \in X[k - 1][b[i]].vout
    BY <1>2, <1>3, <1>4 DEF HaveInputs
  <1>6. X[k - 1][b[i]] = Cleared
    BY <1>1 DEF BlockSteps
  <1>. QED  BY <1>5, <1>6 DEF Cleared

\* The coins after i transactions of a block.
LEMMA BlockCoins ==
    ASSUME MarkerUnspent, NEW cs, Sound(cs), NEW n \in Nat, NEW b \in [1 .. n -> Tx],
           \A i, j \in 1 .. n : i # j => b[i] # b[j],
           NEW h \in Nat, h # 0, NEW X, BlockSteps(cs, b, n, h, X)
    PROVE  \A i \in 0 .. n : X[i] = CoinsAfter(cs, b, i, h)
  <1> DEFINE Is(i) == [t \in Tx |-> Take(Made(cs, b, i, t, h), t, SpentIn(b, i))]
             S == {i \in 0 .. n : X[i] = Is(i)}
  <1>1. 0 \in S
    <2>1. \A t \in Tx : Take(Made(cs, b, 0, t, h), t, SpentIn(b, 0)) = cs[t]
      <3>1. \A t \in Tx : Made(cs, b, 0, t, h) = cs[t]
        BY DEF Made
      <3>2. SpentIn(b, 0) = {}
        BY SpentInLemma
      <3>3. \A t \in Tx : Take(cs[t], t, {}) = cs[t]
        BY TakeNothing DEF Sound
      <3>. QED  BY <3>1, <3>2, <3>3
    <2>2. X[0] = Is(0)
      <3>1. X[0] = cs /\ cs = [t \in Tx |-> cs[t]]
        BY DEF BlockSteps, Sound
      <3>. QED  BY <2>1, <3>1
    <2>3. 0 \in 0 .. n
      OBVIOUS
    <2>. QED  BY <2>2, <2>3, Zenon
  <1>2. ASSUME NEW i \in 0 .. n - 1, i \in S PROVE i + 1 \in S
    <2> DEFINE k == i + 1
               Y == TakeAll(X[i], SpentUpTo(b[k], NIn(b[k])))
    <2>1. k \in 1 .. n /\ k \in 0 .. n /\ k - 1 = i /\ i \in 0 .. n /\ b[k] \in Tx
      OBVIOUS
    <2>2. X[k] = AfterTx(X[i], b[k], h) /\ Sound(X[i])
      BY <2>1 DEF BlockSteps
    <2>3. X[i] = Is(i)
      BY <1>2, Zenon
    <2>4. SpentIn(b, k) = SpentIn(b, i) \cup SpentUpTo(b[k], NIn(b[k]))
      BY <2>1, SpentInLemma
    <2>5. ASSUME NEW t \in Tx PROVE X[k][t] = Take(Made(cs, b, k, t, h), t, SpentIn(b, k))
      <3>1. X[k] = [Y EXCEPT ![b[k]] = FromTx(b[k], h)] /\ Y = [u \in Tx |-> Y[u]]
        BY <2>2 DEF AfterTx, TakeAll
      <3>2. Y[t] = Take(X[i][t], t, SpentUpTo(b[k], NIn(b[k])))
        BY TakeAllAt
      <3> HIDE DEF Y
      <3>3. CASE t = b[k]
        <4>1. X[k][t] = FromTx(t, h)
          BY <2>1, <3>1, <3>3
        <4>2. Made(cs, b, k, t, h) = FromTx(t, h)
          BY <2>1, <3>3 DEF Made
        <4>3. \A m : <<t, m>> \notin SpentIn(b, k)
          BY <2>1, <3>3, NotSpentBefore
        <4>4. SoundCoin(FromTx(t, h), t)
          BY FromTxLemma
        <4>5. Take(FromTx(t, h), t, SpentIn(b, k)) = FromTx(t, h)
          BY <4>3, <4>4, TakeNothing
        <4>. QED  BY <4>1, <4>2, <4>5
      <3>4. CASE t # b[k]
        <4> DEFINE m == Made(cs, b, i, t, h)
        <4>1. X[k][t] = Take(X[i][t], t, SpentUpTo(b[k], NIn(b[k])))
          BY <3>1, <3>2, <3>4
        <4>2. X[i][t] = Take(m, t, SpentIn(b, i))
          BY <2>3
        <4>3. m \in CCoins
          BY FromTxLemma DEF Made, Sound
        <4>4. Made(cs, b, k, t, h) = m
          <5>1. 1 .. k = (1 .. i) \cup {k}
            BY <2>1
          <5>. QED  BY <3>4, <5>1 DEF Made
        <4> HIDE DEF m
        <4>5. Take(Take(m, t, SpentIn(b, i)), t, SpentUpTo(b[k], NIn(b[k])))
                = Take(m, t, SpentIn(b, i) \cup SpentUpTo(b[k], NIn(b[k])))
          BY <4>3, TakeTwice
        <4>. QED  BY <2>4, <4>1, <4>2, <4>4, <4>5
      <3>. QED  BY <3>3, <3>4
    <2>6. X[k] = [t \in Tx |-> X[k][t]]
      BY <2>1 DEF BlockSteps, Sound
    <2>7. X[k] = Is(k)
      BY <2>5, <2>6
    <2>. QED  BY <2>1, <2>7
  <1>3. \A i \in 0 .. n : i \in S
    <2> HIDE DEF S
    <2>. QED  BY <1>1, <1>2, ApplyFold!Induction, Zenon
  <1>. QED  BY <1>3 DEF CoinsAfter

\* The undo data.
UndoEntry == [n : Out, nHeight : Nat, fCoinBase : BOOLEAN, fCoinStake : BOOLEAN]
BlockUndoData == Seq(Seq(UndoEntry))
Block == UNION {[1 .. n -> Tx] : n \in 1 .. MaxBlockTx}

LEMMA UndoOfType ==
    ASSUME NEW cs, Sound(cs), NEW t \in Tx
    PROVE  UndoOf(cs, t) \in Seq(UndoEntry) /\ Len(UndoOf(cs, t)) = NIn(t)
  <1>1. NIn(t) \in Nat
    BY InputsLemma
  <1>2. ASSUME NEW j \in 1 .. NIn(t) PROVE EntryOf(cs, t, j) \in UndoEntry
    <2> DEFINE X == TakeAll(cs, SpentUpTo(t, j - 1))
               out == Inputs[t][j]
    <2>1. j - 1 \in 0 .. NIn(t)
      BY <1>1
    <2>2. Sound(X)
      BY <2>1, SpentUpToLemma, TakeAllSound
    <2>3. out \in Outpoint
      BY InputsLemma
    <2>4. out[1] \in Tx /\ out[2] \in Out
      BY <2>3, OutpointLemma DEF Out
    <2>5. X[out[1]] \in CCoins
      BY <2>2, <2>4 DEF Sound
    <2> HIDE DEF X, out
    <2>6. Entry(X[out[1]], out[2]) \in UndoEntry
      BY <2>4, <2>5 DEF Entry, UndoEntry, CCoins
    <2>. QED  BY <2>6 DEF X, out, EntryOf
  <1>. QED  BY <1>1, <1>2 DEF UndoOf

\* Everything the chain needs to know of a block that is accepted.
BlockFacts(cs, b, h) ==
    LET r == ApplyBlock(cs, b, h)
    IN  /\ r = Applied(r.coins, r.undo, TRUE)
        /\ r.coins = [t \in Tx |-> Take(IF t \in Range(b) THEN FromTx(t, h) ELSE cs[t], t, SpentBy(b))]
        /\ \A i \in DOMAIN b : \A j \in DOMAIN Inputs[b[i]] :
              LET out == Inputs[b[i]][j]
              IN  out[2] \in cs[out[1]].vout \/ \E k \in 1 .. i - 1 : b[k] = out[1]
        /\ r.undo \in BlockUndoData
        /\ \A i \in DOMAIN b : Len(r.undo[i]) = Len(Inputs[b[i]])
        /\ UndoBlock(r.coins, b, r.undo, h) = Undone(cs, TRUE)

LEMMA BlockLemma ==
    ASSUME NEW h, NEW b \in BlockAt(h)
    PROVE  /\ b \in Block
           /\ \E n \in Nat : b \in [1 .. n -> Tx] /\ \A i, j \in 1 .. n : i # j => b[i] # b[j]
           /\ \A i \in DOMAIN b : Kind[b[i]] = "coinbase" <=> i = 1
           /\ 1 \in DOMAIN b /\ CoinbaseHeight[b[1]] = h
  <1>1. PICK n \in 1 .. MaxBlockTx : b \in [1 .. n -> Tx]
    BY DEF BlockAt
  <1>2. n \in Nat /\ n >= 1 /\ 1 \in 1 .. n
    BY UndoAssumption
  <1>3. b \in Block
    BY DEF BlockAt, Block
  <1>4. /\ \A i, j \in DOMAIN b : i # j => b[i] # b[j]
        /\ \A i \in DOMAIN b : Kind[b[i]] = "coinbase" <=> i = 1
        /\ CoinbaseHeight[b[1]] = h
    BY DEF BlockAt
  <1>5. DOMAIN b = 1 .. n
    BY <1>1
  <1>. QED  BY <1>1, <1>2, <1>3, <1>4, <1>5

LEMMA BlockFactsHold ==
    ASSUME MarkerUnspent, NEW cs, Sound(cs), NEW h \in Nat, h # 0, NEW b \in BlockAt(h),
           ApplyBlock(cs, b, h).ok
    PROVE  BlockFacts(cs, b, h)
  <1> DEFINE r == ApplyBlock(cs, b, h)
  <1>1. PICK n \in Nat : b \in [1 .. n -> Tx] /\ \A i, j \in 1 .. n : i # j => b[i] # b[j]
    BY BlockLemma
  <1>2. PICK X : BlockSteps(cs, b, n, h, X)
    BY <1>1, ApplyBlockSteps
  <1>3. r = Applied(X[n], [i \in 1 .. n |-> UndoOf(X[i - 1], b[i])], TRUE)
    BY <1>2 DEF BlockSteps
  <1>4. r.coins = X[n] /\ r.undo = [i \in 1 .. n |-> UndoOf(X[i - 1], b[i])]
    BY <1>3 DEF Applied
  <1>5. r = Applied(r.coins, r.undo, TRUE)
    BY <1>3, <1>4
  <1>6. UndoBlock(r.coins, b, r.undo, h) = Undone(cs, TRUE)
    BY <1>1, UndoBlockUndoesApplyBlock
  <1> HIDE DEF r
  <1>7. ASSUME NEW i \in 1 .. n
        PROVE  UndoOf(X[i - 1], b[i]) \in Seq(UndoEntry) /\ Len(UndoOf(X[i - 1], b[i])) = NIn(b[i])
    <2>1. i - 1 \in 0 .. n /\ b[i] \in Tx
      BY <1>1
    <2>2. Sound(X[i - 1])
      BY <1>2, <2>1 DEF BlockSteps
    <2>. QED  BY <2>1, <2>2, UndoOfType
  <1>8. r.undo \in BlockUndoData
    <2> DEFINE U == Seq(UndoEntry)
               u == [i \in 1 .. n |-> UndoOf(X[i - 1], b[i])]
    <2>1. \A i \in 1 .. n : UndoOf(X[i - 1], b[i]) \in U
      BY <1>7
    <2> HIDE DEF U
    <2>2. u \in [1 .. n -> U]
      BY <2>1
    <2> HIDE DEF u
    <2>3. u \in Seq(U)
      BY <1>1, <2>2
    <2>. QED  BY <1>4, <2>3 DEF BlockUndoData, U, u
  <1>9. \A i \in DOMAIN b : Len(r.undo[i]) = Len(Inputs[b[i]])
    BY <1>1, <1>4, <1>7 DEF NIn
  <1>10. \A i \in 0 .. n : X[i] = CoinsAfter(cs, b, i, h)
    BY <1>1, <1>2, BlockCoins
  <1>11. r.coins = [t \in Tx |-> Take(IF t \in Range(b) THEN FromTx(t, h) ELSE cs[t], t, SpentBy(b))]
    <2>1. SpentIn(b, n) = SpentBy(b)
      BY <1>1, SpentInLemma
    <2>2. \A t \in Tx : Made(cs, b, n, t, h) = IF t \in Range(b) THEN FromTx(t, h) ELSE cs[t]
      BY <1>1 DEF Made, Range
    <2>3. n \in 0 .. n
      OBVIOUS
    <2>. QED  BY <1>4, <1>10, <2>1, <2>2, <2>3 DEF CoinsAfter
  <1>12. ASSUME NEW i \in DOMAIN b, NEW j \in DOMAIN Inputs[b[i]],
                ~ \E k \in 1 .. i - 1 : b[k] = Inputs[b[i]][j][1]
         PROVE  Inputs[b[i]][j][2] \in cs[Inputs[b[i]][j][1]].vout
    <2> DEFINE out == Inputs[b[i]][j]
               t == out[1]
    <2>1. i \in 1 .. n /\ i - 1 \in 0 .. n /\ b[i] \in Tx
      BY <1>1
    <2>2. HaveInputs(X[i - 1], b[i])
      BY <1>2, <2>1 DEF BlockSteps
    <2>3. out[2] \in X[i - 1][t].vout
      BY <2>2 DEF HaveInputs
    <2>4. out \in Outpoint
      BY <2>1, InputsLemma
    <2>5. t \in Tx
      BY <2>4, OutpointLemma
    <2>6. X[i - 1][t] = Take(Made(cs, b, i - 1, t, h), t, SpentIn(b, i - 1))
      BY <1>10, <2>1, <2>5 DEF CoinsAfter
    <2>7. Made(cs, b, i - 1, t, h) = cs[t]
      BY <1>12 DEF Made
    <2>8. cs[t] \in CCoins
      BY <2>5 DEF Sound
    <2> HIDE DEF t, out
    <2>9. IsTaken(Take(cs[t], t, SpentIn(b, i - 1)), cs[t], t, SpentIn(b, i - 1))
      BY <2>8, TakeLemma, Zenon
    <2>10. out[2] \in cs[t].vout
      BY <2>3, <2>6, <2>7, <2>9 DEF IsTaken
    <2>. QED  BY <2>10 DEF t, out
  <1> USE DEF r
  <1>13. /\ r = Applied(r.coins, r.undo, TRUE)
         /\ r.coins = [t \in Tx |-> Take(IF t \in Range(b) THEN FromTx(t, h) ELSE cs[t], t, SpentBy(b))]
         /\ r.undo \in BlockUndoData
         /\ \A i \in DOMAIN b : Len(r.undo[i]) = Len(Inputs[b[i]])
         /\ UndoBlock(r.coins, b, r.undo, h) = Undone(cs, TRUE)
    BY <1>5, <1>6, <1>8, <1>9, <1>11
  <1>. QED  BY <1>12, <1>13, Zenon DEF BlockFacts

-----------------------------------------------------------------------------
(* The chain *)

\* The heights up to g at which the chain ch has t, the outpoints it spends up
\* to g, and the coins they leave: Reference, at every height.
Created(ch, g, t) == {k \in 1 .. g : t \in Range(ch[k])}
SpentTo(ch, g) == UNION {SpentBy(ch[k]) : k \in 1 .. g}
CoinAt(ch, g, t) ==
    IF Created(ch, g, t) = {} THEN Cleared
    ELSE Take(FromTx(t, CHOOSE k \in Created(ch, g, t) : TRUE), t, SpentTo(ch, g))
RefAt(ch, g) == [t \in Tx |-> CoinAt(ch, g, t)]

\* The inductive invariant: no transaction is in two blocks, the coins are those
\* the chain leaves, and so were the coins every block was applied to, with the
\* undo data that is kept.
Shape ==
    /\ chain \in Seq(Block) /\ Len(chain) <= MaxHeight
    /\ undoData \in Seq(BlockUndoData) /\ Len(undoData) = Len(chain)
    /\ \A g \in DOMAIN chain : chain[g] \in BlockAt(g)
Disjoint ==
    \A g, k \in DOMAIN chain : g # k => \A t \in Range(chain[g]) : t \notin Range(chain[k])
Replayed ==
    \A g \in DOMAIN chain :
        ApplyBlock(RefAt(chain, g - 1), chain[g], g) = Applied(RefAt(chain, g), undoData[g], TRUE)
ChainInv == Shape /\ Disjoint /\ coins = RefAt(chain, Len(chain)) /\ Replayed

\* What the chain leaves at g depends on its first g blocks.
LEMMA RefAtPrefix ==
    ASSUME NEW ch, NEW ch2, NEW g, \A k \in 1 .. g : ch[k] = ch2[k]
    PROVE  RefAt(ch, g) = RefAt(ch2, g)
  <1>1. \A t : Created(ch, g, t) = Created(ch2, g, t)
    BY DEF Created
  <1>2. SpentTo(ch, g) = SpentTo(ch2, g)
    BY DEF SpentTo
  <1>3. ASSUME NEW t PROVE CoinAt(ch, g, t) = CoinAt(ch2, g, t)
    <2> DEFINE A == Created(ch, g, t)
               B == Created(ch2, g, t)
    <2>1. A = B
      BY <1>1
    <2> HIDE DEF A, B
    <2>2. CoinAt(ch2, g, t) =
            IF B = {} THEN Cleared
            ELSE Take(FromTx(t, CHOOSE k \in B : TRUE), t, SpentTo(ch, g))
      BY <1>2 DEF CoinAt, B
    <2>3. CoinAt(ch, g, t) =
            IF A = {} THEN Cleared
            ELSE Take(FromTx(t, CHOOSE k \in A : TRUE), t, SpentTo(ch, g))
      BY DEF CoinAt, A
    <2>. QED  BY <2>1, <2>2, <2>3
  <1>. QED  BY <1>3 DEF RefAt

LEMMA RefAtAt ==
    ASSUME NEW ch, NEW g, NEW t \in Tx
    PROVE  RefAt(ch, g)[t] = CoinAt(ch, g, t)
  BY DEF RefAt

\* The outpoints of a chain are not markers.
LEMMA SpentToSpendable ==
    ASSUME NEW ch, NEW g, \A k \in 1 .. g : ch[k] \in Block
    PROVE  Spendable(SpentTo(ch, g))
  <1>1. ASSUME NEW k \in 1 .. g PROVE Spendable(SpentBy(ch[k]))
    <2>1. PICK n \in 1 .. MaxBlockTx : ch[k] \in [1 .. n -> Tx]
      BY DEF Block
    <2>2. n \in Nat
      BY UndoAssumption
    <2>. QED  BY <2>1, <2>2, SpentInLemma
  <1>. QED  BY <1>1 DEF SpentTo, Spendable

LEMMA RefAtSound ==
    ASSUME MarkerUnspent, NEW ch, NEW g \in Nat, \A k \in 1 .. g : ch[k] \in Block
    PROVE  /\ Sound(RefAt(ch, g))
           /\ \A t \in Tx : CoinAt(ch, g, t).nHeight \in 0 .. g
  <1>1. ASSUME NEW t \in Tx PROVE SoundCoin(CoinAt(ch, g, t), t) /\ CoinAt(ch, g, t).nHeight \in 0 .. g
    <2>1. CASE Created(ch, g, t) = {}
      BY <2>1, ClearedLemma DEF CoinAt, Cleared
    <2>2. CASE Created(ch, g, t) # {}
      <3> DEFINE k == CHOOSE x \in Created(ch, g, t) : TRUE
                 c == FromTx(t, k)
                 T == SpentTo(ch, g)
      <3>1. k \in Created(ch, g, t)
        BY <2>2, Zenon
      <3>2. k \in 1 .. g
        BY <3>1 DEF Created
      <3> HIDE DEF k
      <3>3. SoundCoin(c, t) /\ c \in CCoins
        BY <3>2, FromTxLemma
      <3>4. Spendable(T)
        BY SpentToSpendable
      <3>5. SoundCoin(Take(c, t, T), t)
        <4> HIDE DEF c, T
        <4>. QED  BY <3>3, <3>4, TakeSound DEF Spendable
      <3>6. CoinAt(ch, g, t) = Take(c, t, T)
        BY <2>2, Zenon DEF CoinAt, k
      <3>7. c.nHeight \in 0 .. g
        BY <3>2 DEF FromTx, Prune, Cleared
      <3>8. IsTaken(Take(c, t, T), c, t, T)
        BY <3>3, TakeLemma, Zenon
      <3> HIDE DEF c, T
      <3>9. Take(c, t, T).nHeight \in 0 .. g
        BY <3>7, <3>8 DEF IsTaken, Cleared
      <3>. QED  BY <3>5, <3>6, <3>9
    <2>. QED  BY <2>1, <2>2
  <1>. QED  BY <1>1 DEF Sound, RefAt, SoundCoin

\* A coin that is there was created by the chain and is not spent by it.
LEMMA CoinAtLemma ==
    ASSUME MarkerUnspent, NEW ch, NEW g \in Nat, NEW t \in Tx, NEW m, m \in CoinAt(ch, g, t).vout
    PROVE  Created(ch, g, t) # {} /\ <<t, m>> \notin SpentTo(ch, g)
  <1>1. Created(ch, g, t) # {}
    BY DEF CoinAt, Cleared
  <1> DEFINE k == CHOOSE x \in Created(ch, g, t) : TRUE
             c == FromTx(t, k)
             T == SpentTo(ch, g)
  <1>2. k \in Created(ch, g, t)
    BY <1>1, Zenon
  <1>3. k \in 1 .. g
    BY <1>2 DEF Created
  <1>4. CoinAt(ch, g, t) = Take(c, t, T)
    BY <1>1, Zenon DEF CoinAt
  <1> HIDE DEF k
  <1>5. c \in CCoins
    BY <1>3, FromTxLemma
  <1>6. IsTaken(Take(c, t, T), c, t, T)
    BY <1>5, TakeLemma, Zenon
  <1> HIDE DEF c, T
  <1>7. <<t, m>> \notin T
    BY <1>4, <1>6 DEF IsTaken
  <1>. QED  BY <1>1, <1>7 DEF T

\* What the invariant says of one block of the chain.
LEMMA ChainFacts ==
    ASSUME MarkerUnspent, ChainInv
    PROVE  /\ Len(chain) \in Nat /\ DOMAIN chain = 1 .. Len(chain)
           /\ \A g \in 0 .. Len(chain) : Sound(RefAt(chain, g))
           /\ \A g \in 1 .. Len(chain) : BlockFacts(RefAt(chain, g - 1), chain[g], g)
  <1>1. Len(chain) \in Nat /\ DOMAIN chain = 1 .. Len(chain)
        /\ \A k \in 1 .. Len(chain) : chain[k] \in Block
    BY DEF ChainInv, Shape
  <1>2. ASSUME NEW g \in 0 .. Len(chain) PROVE Sound(RefAt(chain, g))
    <2>1. g \in Nat /\ \A k \in 1 .. g : chain[k] \in Block
      BY <1>1
    <2>. QED  BY <2>1, RefAtSound
  <1>3. ASSUME NEW g \in 1 .. Len(chain) PROVE BlockFacts(RefAt(chain, g - 1), chain[g], g)
    <2>1. g \in Nat /\ g # 0 /\ g - 1 \in 0 .. Len(chain) /\ chain[g] \in BlockAt(g)
      BY <1>1 DEF ChainInv, Shape
    <2>2. Sound(RefAt(chain, g - 1))
      BY <1>2, <2>1
    <2>3. ApplyBlock(RefAt(chain, g - 1), chain[g], g).ok
      <3>1. ApplyBlock(RefAt(chain, g - 1), chain[g], g) = Applied(RefAt(chain, g), undoData[g], TRUE)
        BY <1>1, Zenon DEF ChainInv, Replayed
      <3>. QED  BY <3>1 DEF Applied
    <2>. QED  BY <2>1, <2>2, <2>3, BlockFactsHold
  <1>. QED  BY <1>1, <1>2, <1>3

\* What a block of the chain spends was created at its height or below.
LEMMA SpendsKnown ==
    ASSUME MarkerUnspent, ChainInv, NEW g \in 1 .. Len(chain), NEW out \in SpentBy(chain[g])
    PROVE  \E k \in 1 .. g : out[1] \in Range(chain[k])
  <1>1. Len(chain) \in Nat /\ DOMAIN chain = 1 .. Len(chain)
    BY ChainFacts
  <1>2. PICK i \in DOMAIN chain[g] : out \in Range(Inputs[chain[g][i]])
    BY DEF SpentBy
  <1>3. chain[g] \in BlockAt(g)
    BY <1>1 DEF ChainInv, Shape
  <1>4. PICK n \in Nat : chain[g] \in [1 .. n -> Tx]
    BY <1>3, BlockLemma
  <1> DEFINE t == chain[g][i]
  <1>5. i \in 1 .. n /\ t \in Tx
    BY <1>2, <1>4
  <1>6. PICK j \in DOMAIN Inputs[t] : out = Inputs[t][j]
    BY <1>2 DEF Range
  <1>7. out \in Outpoint
    BY <1>5, <1>6, InputsLemma
  <1>8. out[1] \in Tx
    BY <1>7, OutpointLemma
  <1>9. BlockFacts(RefAt(chain, g - 1), chain[g], g)
    BY ChainFacts
  <1>10. out[2] \in RefAt(chain, g - 1)[out[1]].vout \/ \E k \in 1 .. i - 1 : chain[g][k] = out[1]
    BY <1>2, <1>6, <1>9, Zenon DEF BlockFacts
  <1>11. CASE \E k \in 1 .. i - 1 : chain[g][k] = out[1]
    <2>1. PICK k \in 1 .. i - 1 : chain[g][k] = out[1]
      BY <1>11
    <2>2. k \in DOMAIN chain[g]
      BY <1>4, <1>5
    <2>3. out[1] \in Range(chain[g])
      BY <2>1, <2>2 DEF Range
    <2>4. g \in 1 .. g
      BY <1>1
    <2>. QED  BY <2>3, <2>4
  <1>12. CASE out[2] \in RefAt(chain, g - 1)[out[1]].vout
    <2>1. out[2] \in CoinAt(chain, g - 1, out[1]).vout
      BY <1>8, <1>12, RefAtAt
    <2>2. g - 1 \in Nat
      BY <1>1
    <2>3. Created(chain, g - 1, out[1]) # {}
      BY <1>8, <2>1, <2>2, CoinAtLemma
    <2>4. PICK k \in 1 .. g - 1 : out[1] \in Range(chain[k])
      BY <2>3 DEF Created
    <2>5. k \in 1 .. g
      BY <1>1
    <2>. QED  BY <2>4, <2>5
  <1>. QED  BY <1>10, <1>11, <1>12

\* The transactions of a block that ConnectBlock accepts are new: a coinbase
\* commits to its height, and another transaction that is in the chain already
\* has an input that the chain has spent.
LEMMA NewBlock ==
    ASSUME MarkerUnspent, ChainInv, NEW b \in BlockAt(Len(chain) + 1),
           ApplyBlock(coins, b, Len(chain) + 1).ok
    PROVE  \A g \in DOMAIN chain : \A t \in Range(b) : t \notin Range(chain[g])
  <1> DEFINE L == Len(chain)
             Old == {i \in DOMAIN b : \E g \in 1 .. L : b[i] \in Range(chain[g])}
  <1>1. L \in Nat /\ DOMAIN chain = 1 .. L
    BY ChainFacts
  <1> SUFFICES ASSUME Old # {} PROVE FALSE
    BY <1>1 DEF Range
  <1>2. PICK n \in Nat : b \in [1 .. n -> Tx]
    BY BlockLemma
  <1>3. Old \in SUBSET Nat
    BY <1>2
  <1>4. PICK i \in Old : \A k \in Old : i <= k
    <2> HIDE DEF Old
    <2>. QED  BY <1>3, ApplyFold!LeastOf, Zenon
  <1>5. i \in 1 .. n /\ b[i] \in Tx
    BY <1>2, <1>4
  <1>6. PICK g \in 1 .. L : b[i] \in Range(chain[g])
    BY <1>4
  <1>7. PICK m \in DOMAIN chain[g] : b[i] = chain[g][m]
    BY <1>6 DEF Range
  <1>8. chain[g] \in BlockAt(g)
    BY <1>1 DEF ChainInv, Shape
  <1> DEFINE t == b[i]
  <1>9. Kind[t] # "coinbase"
    <2> SUFFICES ASSUME Kind[t] = "coinbase" PROVE FALSE
      OBVIOUS
    <2>1. i = 1 /\ CoinbaseHeight[t] = L + 1
      BY <1>2, <1>5, BlockLemma
    <2>2. m = 1 /\ CoinbaseHeight[t] = g
      BY <1>7, <1>8, BlockLemma
    <2>. QED  BY <1>1, <2>1, <2>2
  <1>10. 1 \in DOMAIN Inputs[t]
    <2>1. Inputs[t] # <<>> /\ Inputs[t] \in Seq(Outpoint)
      BY <1>5, <1>9, UndoAssumption
    <2>. QED  BY <2>1
  <1> DEFINE out == Inputs[t][1]
  <1>11. out \in SpentBy(chain[g])
    <2>1. out \in Range(Inputs[chain[g][m]])
      BY <1>7, <1>10 DEF Range
    <2>. QED  BY <2>1, Zenon DEF SpentBy
  <1>12. out \in Outpoint
    BY <1>5, <1>10, InputsLemma
  <1>13. out[1] \in Tx /\ out = <<out[1], out[2]>>
    BY <1>12, OutpointLemma
  <1>14. PICK k \in 1 .. g : out[1] \in Range(chain[k])
    BY <1>11, SpendsKnown
  <1>15. k \in 1 .. L
    BY <1>1
  <1>16. ~ \E x \in 1 .. i - 1 : b[x] = out[1]
    <2> SUFFICES ASSUME NEW x \in 1 .. i - 1, b[x] = out[1] PROVE FALSE
      OBVIOUS
    <2>1. x \in DOMAIN b
      BY <1>2, <1>5
    <2>2. x \in Old
      BY <1>14, <1>15, <2>1
    <2>. QED  BY <1>3, <1>4, <1>5, <2>2
  <1>17. Sound(coins)
    <2>1. L \in 0 .. L
      BY <1>1
    <2>. QED  BY <2>1, ChainFacts DEF ChainInv
  <1>18. BlockFacts(coins, b, L + 1)
    BY <1>1, <1>17, BlockFactsHold
  <1>19. out[2] \in coins[out[1]].vout
    <2>1. i \in DOMAIN b
      BY <1>4
    <2>. QED  BY <1>10, <1>16, <1>18, <2>1, Zenon DEF BlockFacts
  <1>20. out[2] \in CoinAt(chain, L, out[1]).vout
    BY <1>13, <1>19, RefAtAt DEF ChainInv
  <1>21. out \notin SpentTo(chain, L)
    BY <1>1, <1>13, <1>20, CoinAtLemma
  <1>. QED  BY <1>11, <1>21 DEF SpentTo

\* What the chain leaves after one block more is what ConnectBlock makes.
LEMMA RefAtNext ==
    ASSUME MarkerUnspent, ChainInv, NEW b \in BlockAt(Len(chain) + 1),
           ApplyBlock(coins, b, Len(chain) + 1).ok,
           NEW ch, \A k \in 1 .. Len(chain) : ch[k] = chain[k], ch[Len(chain) + 1] = b
    PROVE  ApplyBlock(coins, b, Len(chain) + 1).coins = RefAt(ch, Len(chain) + 1)
  <1> DEFINE L == Len(chain)
             h == L + 1
             r == ApplyBlock(coins, b, h)
  <1>1. L \in Nat /\ DOMAIN chain = 1 .. L /\ 1 .. h = (1 .. L) \cup {h} /\ h \in Nat /\ h # 0
    <2>1. L \in Nat /\ DOMAIN chain = 1 .. L
      BY ChainFacts
    <2>. QED  BY <2>1
  <1>2. Sound(coins) /\ coins = RefAt(chain, L)
    <2>1. L \in 0 .. L
      BY <1>1
    <2>. QED  BY <2>1, ChainFacts DEF ChainInv
  <1>3. BlockFacts(coins, b, h)
    BY <1>1, <1>2, BlockFactsHold
  <1>4. r.coins = [t \in Tx |-> Take(IF t \in Range(b) THEN FromTx(t, h) ELSE coins[t], t, SpentBy(b))]
    BY <1>3 DEF BlockFacts
  <1>5. \A g \in 1 .. L : \A t \in Range(b) : t \notin Range(chain[g])
    BY <1>1, NewBlock
  <1>6. SpentTo(ch, h) = SpentTo(chain, L) \cup SpentBy(b)
    BY <1>1 DEF SpentTo
  <1>7. ASSUME NEW t \in Tx
        PROVE  CoinAt(ch, h, t) = Take(IF t \in Range(b) THEN FromTx(t, h) ELSE coins[t], t, SpentBy(b))
    <2>1. CASE t \in Range(b)
      <3>1. Created(ch, h, t) = {h}
        BY <1>1, <1>5, <2>1 DEF Created
      <3>2. CoinAt(ch, h, t) = Take(FromTx(t, h), t, SpentTo(ch, h))
        <4>1. (CHOOSE k \in {h} : TRUE) = h
          OBVIOUS
        <4>. QED  BY <3>1, <4>1 DEF CoinAt
      <3>3. \A m : <<t, m>> \notin SpentTo(chain, L)
        <4> SUFFICES ASSUME NEW m, NEW g \in 1 .. L, <<t, m>> \in SpentBy(chain[g]) PROVE FALSE
          BY DEF SpentTo
        <4> DEFINE out == <<t, m>>
        <4>1. out \in SpentBy(chain[g]) /\ out[1] = t
          OBVIOUS
        <4> HIDE DEF out
        <4>2. PICK k \in 1 .. g : t \in Range(chain[k])
          BY <4>1, SpendsKnown
        <4>3. k \in 1 .. L
          BY <1>1
        <4>. QED  BY <1>5, <2>1, <4>2, <4>3
      <3> DEFINE c == FromTx(t, h)
      <3>4. SoundCoin(c, t) /\ c \in CCoins
        BY <1>1, FromTxLemma
      <3> HIDE DEF c
      <3>5. Take(c, t, SpentTo(chain, L)) = c
        BY <3>3, <3>4, TakeNothing
      <3>6. Take(Take(c, t, SpentTo(chain, L)), t, SpentBy(b)) = Take(c, t, SpentTo(chain, L) \cup SpentBy(b))
        BY <3>4, TakeTwice
      <3>. QED  BY <1>6, <2>1, <3>2, <3>5, <3>6 DEF c
    <2>2. CASE t \notin Range(b)
      <3>1. Created(ch, h, t) = Created(chain, L, t)
        BY <1>1, <2>2 DEF Created
      <3>2. coins[t] = CoinAt(chain, L, t)
        BY <1>2, RefAtAt
      <3>3. CASE Created(chain, L, t) = {}
        <4>1. CoinAt(ch, h, t) = Cleared /\ coins[t] = Cleared
          BY <3>1, <3>2, <3>3 DEF CoinAt
        <4>2. Take(Cleared, t, SpentBy(b)) = Cleared
          BY ClearedLemma, TakeNothing DEF Cleared
        <4>. QED  BY <2>2, <4>1, <4>2
      <3>4. CASE Created(chain, L, t) # {}
        <4> DEFINE k == CHOOSE x \in Created(chain, L, t) : TRUE
                   c == FromTx(t, k)
        <4>1. k \in Created(chain, L, t)
          BY <3>4, Zenon
        <4>2. CoinAt(chain, L, t) = Take(c, t, SpentTo(chain, L))
          BY <3>4, Zenon DEF CoinAt
        <4>3. CoinAt(ch, h, t) = Take(c, t, SpentTo(ch, h))
          BY <3>1, <3>4 DEF CoinAt
        <4>4. k \in 1 .. L
          BY <4>1 DEF Created
        <4> HIDE DEF k
        <4>5. c \in CCoins
          BY <1>1, <4>4, FromTxLemma
        <4> HIDE DEF c
        <4>6. Take(Take(c, t, SpentTo(chain, L)), t, SpentBy(b)) = Take(c, t, SpentTo(chain, L) \cup SpentBy(b))
          BY <4>5, TakeTwice
        <4>. QED  BY <1>6, <2>2, <3>2, <4>2, <4>3, <4>6
      <3>. QED  BY <3>3, <3>4
    <2>. QED  BY <2>1, <2>2
  <1>8. RefAt(ch, h) = [t \in Tx |-> Take(IF t \in Range(b) THEN FromTx(t, h) ELSE coins[t], t, SpentBy(b))]
    BY <1>7 DEF RefAt
  <1>. QED  BY <1>4, <1>8

LEMMA ChainInvInit == Init => ChainInv
  <1> SUFFICES ASSUME Init PROVE ChainInv
    OBVIOUS
  <1>1. Shape /\ Disjoint /\ Replayed /\ Len(chain) = 0
    BY UndoAssumption DEF Init, Shape, Disjoint, Replayed
  <1>2. RefAt(chain, 0) = [t \in Tx |-> Cleared]
    <2>1. \A t \in Tx : CoinAt(chain, 0, t) = Cleared
      BY DEF CoinAt, Created
    <2>. QED  BY <2>1 DEF RefAt
  <1>. QED  BY <1>1, <1>2 DEF ChainInv, Init

LEMMA ChainInvConnect ==
    ASSUME MarkerUnspent, ChainInv, Len(chain) < MaxHeight,
           NEW b \in BlockAt(Len(chain) + 1), ConnectTip(b)
    PROVE  ChainInv'
  <1> DEFINE L == Len(chain)
             h == L + 1
             r == ApplyBlock(coins, b, h)
  <1>1. L \in Nat /\ DOMAIN chain = 1 .. L /\ h \in Nat /\ h # 0 /\ L \in 0 .. L
    <2>1. L \in Nat /\ DOMAIN chain = 1 .. L
      BY ChainFacts
    <2>. QED  BY <2>1
  <1>2. Sound(coins) /\ coins = RefAt(chain, L)
    BY <1>1, ChainFacts DEF ChainInv
  <1>3. r.ok /\ coins' = r.coins /\ chain' = Append(chain, b) /\ undoData' = Append(undoData, r.undo)
    BY DEF ConnectTip
  <1>4. BlockFacts(coins, b, h)
    BY <1>1, <1>2, <1>3, BlockFactsHold
  <1>5. r = Applied(r.coins, r.undo, TRUE) /\ r.undo \in BlockUndoData
    BY <1>4, Zenon DEF BlockFacts
  <1>6. b \in Block
    BY BlockLemma
  <1>7. Shape
    BY DEF ChainInv
  <1> HIDE DEF r
  <1>8. /\ Len(chain') = h /\ DOMAIN chain' = 1 .. h /\ chain' \in Seq(Block)
        /\ \A k \in 1 .. L : chain'[k] = chain[k]
        /\ chain'[h] = b
    BY <1>1, <1>3, <1>6, <1>7 DEF Shape
  <1>9. /\ undoData' \in Seq(BlockUndoData) /\ Len(undoData') = h
        /\ \A k \in 1 .. L : undoData'[k] = undoData[k]
        /\ undoData'[h] = r.undo
    BY <1>1, <1>3, <1>5, <1>7 DEF Shape
  <1>10. 1 .. h = (1 .. L) \cup {h}
    BY <1>1
  <1>11. Shape'
    <2>1. \A g \in 1 .. L : chain'[g] \in BlockAt(g)
      BY <1>1, <1>7, <1>8 DEF Shape
    <2>2. chain'[h] \in BlockAt(h)
      BY <1>8
    <2>3. \A g \in DOMAIN chain' : chain'[g] \in BlockAt(g)
      BY <1>8, <1>10, <2>1, <2>2
    <2>4. Len(chain') <= MaxHeight
      BY <1>1, <1>8, UndoAssumption
    <2>. QED  BY <1>8, <1>9, <2>3, <2>4 DEF Shape, BlockAt
  <1>12. Disjoint'
    <2>1. \A g \in 1 .. L : \A t \in Range(b) : t \notin Range(chain[g])
      BY <1>1, <1>3, NewBlock DEF r
    <2>2. \A g \in 1 .. L : chain'[g] = chain[g]
      BY <1>8
    <2>3. \A g, k \in 1 .. L : g # k => \A t \in Range(chain[g]) : t \notin Range(chain[k])
      BY <1>1 DEF ChainInv, Disjoint
    <2>4. \A g, k \in (1 .. L) \cup {h} :
             g # k => \A t \in Range(chain'[g]) : t \notin Range(chain'[k])
      BY <1>8, <2>1, <2>2, <2>3
    <2>. QED  BY <1>8, <1>10, <2>4 DEF Disjoint
  <1>13. coins' = RefAt(chain', h)
    BY <1>3, <1>8, RefAtNext DEF r
  <1>14. ASSUME NEW g \in 0 .. L PROVE RefAt(chain', g) = RefAt(chain, g)
    <2>1. \A k \in 1 .. g : chain'[k] = chain[k]
      BY <1>1, <1>8
    <2>. QED  BY <2>1, RefAtPrefix
  <1>15. Replayed'
    <2>1. ASSUME NEW g \in 1 .. L
          PROVE  ApplyBlock(RefAt(chain', g - 1), chain'[g], g) = Applied(RefAt(chain', g), undoData'[g], TRUE)
      <3>1. g - 1 \in 0 .. L /\ g \in 0 .. L
        BY <1>1
      <3>2. RefAt(chain', g - 1) = RefAt(chain, g - 1) /\ RefAt(chain', g) = RefAt(chain, g)
        BY <1>14, <3>1
      <3>3. ApplyBlock(RefAt(chain, g - 1), chain[g], g) = Applied(RefAt(chain, g), undoData[g], TRUE)
        BY <1>1 DEF ChainInv, Replayed
      <3>4. chain'[g] = chain[g] /\ undoData'[g] = undoData[g]
        BY <1>8, <1>9
      <3>. QED  BY <3>2, <3>3, <3>4, Zenon
    <2>2. ApplyBlock(RefAt(chain', h - 1), chain'[h], h) = Applied(RefAt(chain', h), undoData'[h], TRUE)
      <3>1. h - 1 = L
        BY <1>1
      <3>2. RefAt(chain', h - 1) = coins
        BY <1>1, <1>2, <1>14, <3>1
      <3>3. ApplyBlock(coins, b, h) = r
        BY DEF r
      <3>4. r.coins = RefAt(chain', h)
        BY <1>3, <1>13
      <3>. QED  BY <1>5, <1>8, <1>9, <3>2, <3>3, <3>4, Zenon
    <2>3. \A g \in DOMAIN chain' :
            ApplyBlock(RefAt(chain', g - 1), chain'[g], g) = Applied(RefAt(chain', g), undoData'[g], TRUE)
      <3> SUFFICES ASSUME NEW g \in (1 .. L) \cup {h}
                   PROVE  ApplyBlock(RefAt(chain', g - 1), chain'[g], g)
                            = Applied(RefAt(chain', g), undoData'[g], TRUE)
        BY <1>8, <1>10
      <3>. QED  BY <2>1, <2>2, Zenon
    <2>. QED  BY <2>3, Zenon DEF Replayed
  <1>. QED  BY <1>8, <1>11, <1>12, <1>13, <1>15 DEF ChainInv

\* The undo of the tip.
LEMMA TipUndo ==
    ASSUME MarkerUnspent, ChainInv, Len(chain) > 0
    PROVE  UndoBlock(coins, chain[Len(chain)], undoData[Len(chain)], Len(chain))
             = Undone(RefAt(chain, Len(chain) - 1), TRUE)
  <1> DEFINE h == Len(chain)
             r == ApplyBlock(RefAt(chain, h - 1), chain[h], h)
  <1>1. h \in Nat /\ DOMAIN chain = 1 .. h
    BY ChainFacts
  <1>2. h \in 1 .. h
    BY <1>1
  <1>3. r = Applied(RefAt(chain, h), undoData[h], TRUE)
    BY <1>1, <1>2 DEF ChainInv, Replayed
  <1>4. r.coins = coins /\ r.undo = undoData[h]
    BY <1>3 DEF ChainInv, Applied
  <1>5. BlockFacts(RefAt(chain, h - 1), chain[h], h)
    BY <1>2, ChainFacts
  <1>6. UndoBlock(r.coins, chain[h], r.undo, h) = Undone(RefAt(chain, h - 1), TRUE)
    BY <1>5, Zenon DEF BlockFacts
  <1> HIDE DEF r
  <1>. QED  BY <1>4, <1>6

LEMMA ChainInvDisconnect ==
    ASSUME MarkerUnspent, ChainInv, DisconnectTip
    PROVE  ChainInv'
  <1> DEFINE h == Len(chain)
             L == h - 1
             r == UndoBlock(coins, chain[h], undoData[h], h)
  <1>1. h > 0 /\ h \in Nat /\ DOMAIN chain = 1 .. h
    BY ChainFacts DEF DisconnectTip
  <1>2. r = Undone(RefAt(chain, L), TRUE)
    BY <1>1, TipUndo
  <1>3. r.clean /\ r.coins = RefAt(chain, L)
    BY <1>2 DEF Undone
  <1>4. coins' = RefAt(chain, L) /\ chain' = Front(chain) /\ undoData' = Front(undoData)
    BY <1>3 DEF DisconnectTip
  <1>5. Shape
    BY DEF ChainInv
  <1> HIDE DEF r
  <1>6. /\ L \in Nat /\ Len(chain') = L /\ DOMAIN chain' = 1 .. L /\ chain' \in Seq(Block)
        /\ \A k \in 1 .. L : chain'[k] = chain[k]
    BY <1>1, <1>4, <1>5 DEF Shape, Front
  <1>7. /\ undoData' \in Seq(BlockUndoData) /\ Len(undoData') = L
        /\ \A k \in 1 .. L : undoData'[k] = undoData[k]
    BY <1>1, <1>4, <1>5 DEF Shape, Front
  <1>8. \A g \in 1 .. L : g \in 1 .. h /\ g - 1 \in 0 .. L /\ g \in 0 .. L
    BY <1>1
  <1>9. Shape'
    <2>1. \A g \in DOMAIN chain' : chain'[g] \in BlockAt(g)
      BY <1>1, <1>5, <1>6, <1>8 DEF Shape
    <2>2. Len(chain') <= MaxHeight
      BY <1>1, <1>5, <1>6, UndoAssumption DEF Shape
    <2>. QED  BY <1>6, <1>7, <2>1, <2>2 DEF Shape
  <1>10. Disjoint'
    BY <1>1, <1>6, <1>8 DEF ChainInv, Disjoint
  <1>11. ASSUME NEW g \in 0 .. L PROVE RefAt(chain', g) = RefAt(chain, g)
    <2>1. \A k \in 1 .. g : chain'[k] = chain[k]
      BY <1>6
    <2>. QED  BY <2>1, RefAtPrefix
  <1>12. coins' = RefAt(chain', L)
    BY <1>4, <1>6, <1>11
  <1>13. Replayed'
    <2>1. ASSUME NEW g \in 1 .. L
          PROVE  ApplyBlock(RefAt(chain', g - 1), chain'[g], g) = Applied(RefAt(chain', g), undoData'[g], TRUE)
      <3>1. RefAt(chain', g - 1) = RefAt(chain, g - 1) /\ RefAt(chain', g) = RefAt(chain, g)
        BY <1>8, <1>11
      <3>2. ApplyBlock(RefAt(chain, g - 1), chain[g], g) = Applied(RefAt(chain, g), undoData[g], TRUE)
        BY <1>1, <1>8 DEF ChainInv, Replayed
      <3>3. chain'[g] = chain[g] /\ undoData'[g] = undoData[g]
        BY <1>6, <1>7
      <3>. QED  BY <3>1, <3>2, <3>3, Zenon
    <2>. QED  BY <1>6, <2>1 DEF Replayed
  <1>. QED  BY <1>6, <1>9, <1>10, <1>12, <1>13 DEF ChainInv

LEMMA ChainInvNext ==
    ASSUME MarkerUnspent, ChainInv, [Next]_vars
    PROVE  ChainInv'
  <1>1. ASSUME NEW b \in BlockAt(Len(chain) + 1), Len(chain) < MaxHeight, ConnectTip(b)
        PROVE  ChainInv'
    BY <1>1, ChainInvConnect
  <1>2. ASSUME DisconnectTip PROVE ChainInv'
    BY <1>2, ChainInvDisconnect
  <1>3. ASSUME UNCHANGED vars PROVE ChainInv'
    BY <1>3 DEF vars, ChainInv, Shape, Disjoint, Replayed
  <1>. QED  BY <1>1, <1>2, <1>3 DEF Next

\* The recently spent outpoints: every entry is the height of the block of the
\* chain that spends the outpoint.
StakeInv ==
    /\ chain \in Seq(Block) /\ Len(chain) <= MaxHeight
    /\ mapStakeSpent \in [Outpoint -> 0 .. MaxHeight]
    /\ StakeSpentSound

LEMMA StakeInvInit == Init => StakeInv
  BY UndoAssumption DEF Init, StakeInv, StakeSpentSound

LEMMA StakeInvNext ==
    ASSUME StakeInv, [Next]_vars
    PROVE  StakeInv'
  <1> DEFINE L == Len(chain)
  <1>1. L \in Nat /\ DOMAIN chain = 1 .. L
    BY DEF StakeInv
  <1>2. ASSUME NEW b \in BlockAt(L + 1), L < MaxHeight, ConnectTip(b) PROVE StakeInv'
    <2> DEFINE h == L + 1
    <2>1. b \in Block
      BY BlockLemma
    <2>2. chain' = Append(chain, b)
      BY <1>2 DEF ConnectTip
    <2>3. /\ chain' \in Seq(Block) /\ Len(chain') = h /\ DOMAIN chain' = 1 .. h
          /\ chain'[h] = b /\ \A k \in 1 .. L : chain'[k] = chain[k]
      BY <1>1, <2>1, <2>2 DEF StakeInv
    <2>4. h \in 1 .. MaxHeight /\ Len(chain') <= MaxHeight
      BY <1>1, <1>2, <2>3, UndoAssumption
    <2>5. ASSUME NEW o \in Outpoint
          PROVE  \/ mapStakeSpent'[o] = 0
                 \/ mapStakeSpent'[o] = mapStakeSpent[o]
                 \/ mapStakeSpent'[o] = h /\ o \in SpentBy(b)
      BY <1>2 DEF ConnectTip
    <2>6. mapStakeSpent' = [o \in Outpoint |-> mapStakeSpent'[o]]
      BY <1>2 DEF ConnectTip
    <2>7. mapStakeSpent' \in [Outpoint -> 0 .. MaxHeight]
      BY <2>4, <2>5, <2>6, UndoAssumption DEF StakeInv
    <2>8. StakeSpentSound'
      <3> SUFFICES ASSUME NEW o \in Outpoint, mapStakeSpent'[o] # 0
                   PROVE  /\ mapStakeSpent'[o] \in 1 .. h
                          /\ o \in SpentBy(chain'[mapStakeSpent'[o]])
        BY <2>3 DEF StakeSpentSound, SpentBy
      <3>1. CASE mapStakeSpent'[o] = mapStakeSpent[o]
        <4>1. mapStakeSpent[o] \in 1 .. L /\ o \in SpentBy(chain[mapStakeSpent[o]])
          BY <1>1, <3>1 DEF StakeInv, StakeSpentSound
        <4>2. mapStakeSpent[o] \in 1 .. h
          BY <1>1, <4>1
        <4>. QED  BY <2>3, <3>1, <4>1, <4>2
      <3>2. CASE mapStakeSpent'[o] = h /\ o \in SpentBy(b)
        BY <1>1, <2>3, <3>2
      <3>. QED  BY <2>5, <3>1, <3>2
    <2>. QED  BY <2>3, <2>4, <2>7, <2>8 DEF StakeInv
  <1>3. ASSUME DisconnectTip PROVE StakeInv'
    <2>1. L > 0 /\ mapStakeSpent' = [o \in Outpoint |->
                                       IF o \in SpentBy(chain[L]) THEN 0 ELSE mapStakeSpent[o]]
      BY <1>3 DEF DisconnectTip
    <2>2. chain' = chain \/ chain' = Front(chain)
      BY <1>3 DEF DisconnectTip
    <2>3. /\ chain' \in Seq(Block) /\ Len(chain') <= MaxHeight
          /\ \A k \in 1 .. L : k # L => k \in DOMAIN chain' /\ chain'[k] = chain[k]
      <3>1. CASE chain' = chain
        BY <1>1, <3>1 DEF StakeInv
      <3>2. CASE chain' = Front(chain)
        <4>1. /\ chain' \in Seq(Block) /\ Len(chain') = L - 1 /\ DOMAIN chain' = 1 .. L - 1
              /\ \A k \in 1 .. L - 1 : chain'[k] = chain[k]
          BY <1>1, <2>1, <3>2 DEF StakeInv, Front
        <4>2. L <= MaxHeight /\ MaxHeight \in Nat
          BY UndoAssumption DEF StakeInv
        <4> HIDE DEF L
        <4>3. L - 1 <= MaxHeight /\ \A k \in 1 .. L : k # L => k \in 1 .. L - 1
          BY <1>1, <4>2
        <4>4. \A k \in 1 .. L : k # L => k \in DOMAIN chain' /\ chain'[k] = chain[k]
          BY <4>1, <4>3
        <4>. QED  BY <4>1, <4>3, <4>4
      <3>. QED  BY <2>2, <3>1, <3>2
    <2>4. mapStakeSpent' \in [Outpoint -> 0 .. MaxHeight]
      BY <2>1, UndoAssumption DEF StakeInv
    <2>5. StakeSpentSound'
      <3> SUFFICES ASSUME NEW o \in Outpoint, mapStakeSpent'[o] # 0
                   PROVE  /\ mapStakeSpent'[o] \in DOMAIN chain'
                          /\ o \in SpentBy(chain'[mapStakeSpent'[o]])
        BY DEF StakeSpentSound, SpentBy
      <3>1. mapStakeSpent'[o] = mapStakeSpent[o] /\ o \notin SpentBy(chain[L])
        BY <2>1
      <3>2. mapStakeSpent[o] \in 1 .. L /\ o \in SpentBy(chain[mapStakeSpent[o]])
        BY <1>1, <3>1 DEF StakeInv, StakeSpentSound
      <3>3. mapStakeSpent[o] # L
        BY <3>1, <3>2
      <3>. QED  BY <2>3, <3>1, <3>2, <3>3
    <2>. QED  BY <2>3, <2>4, <2>5 DEF StakeInv
  <1>4. ASSUME UNCHANGED vars PROVE StakeInv'
    BY <1>4 DEF vars, StakeInv, StakeSpentSound, SpentBy
  <1>. QED  BY <1>2, <1>3, <1>4 DEF Next

-----------------------------------------------------------------------------
(* The theorems *)

\* An outpoint recorded as recently spent (mapStakeSpent) was spent by the block
\* at that height of the active chain, whatever ConnectTip and DisconnectTip did.
THEOREM StakeSpentSoundAlways == Spec => []StakeSpentSound
  <1>1. StakeInv => StakeSpentSound
    BY DEF StakeInv
  <1>. QED  BY <1>1, StakeInvInit, StakeInvNext, PTL DEF Spec

\* The inductive invariant holds, for chains of any length and blocks of any
\* size, when the marker outputs of coinstakes are not spent.
THEOREM ChainInvAlways ==
    ASSUME MarkerUnspent
    PROVE  Spec => [](ChainInv /\ StakeInv)
  <1>1. Init => ChainInv
    BY ChainInvInit
  <1>2. ChainInv /\ [Next]_vars => ChainInv'
    BY ChainInvNext
  <1>. QED  BY <1>1, <1>2, StakeInvInit, StakeInvNext, PTL DEF Spec

\* The coins are those the chain leaves, read as Reference reads them.
LEMMA ReferenceIsRefAt ==
    ASSUME MarkerUnspent, ChainInv, NEW t \in Tx
    PROVE  coins[t] = Reference(t)
  <1> DEFINE L == Len(chain)
             I == InChain(t)
  <1>1. L \in Nat /\ DOMAIN chain = 1 .. L
    BY ChainFacts
  <1>2. I = Created(chain, L, t)
    BY <1>1 DEF InChain, Created
  <1>3. coins[t] = CoinAt(chain, L, t)
    BY RefAtAt DEF ChainInv
  <1>4. CASE I = {}
    BY <1>2, <1>3, <1>4 DEF CoinAt, Reference
  <1>5. CASE I # {}
    <2>1. PICK k \in I : TRUE
      BY <1>5
    <2>2. I = {k}
      BY <1>1, <2>1 DEF ChainInv, Disjoint, InChain
    <2>3. k \in 1 .. L
      BY <1>1, <2>1 DEF InChain
    <2> HIDE DEF I
    <2>4. (CHOOSE x \in I : \A y \in I : y <= x) = k
      BY <1>1, <2>2, <2>3
    <2>5. (CHOOSE x \in I : TRUE) = k
      BY <2>2
    <2>6. CoinAt(chain, L, t) = Take(FromTx(t, k), t, SpentTo(chain, L))
      BY <1>2, <1>5, <2>5 DEF CoinAt
    <2> DEFINE c == FromTx(t, k)
    <2>7. {n \in c.vout : \A g \in DOMAIN chain : <<t, n>> \notin SpentBy(chain[g])}
            = {n \in c.vout : <<t, n>> \notin SpentTo(chain, L)}
      BY <1>1 DEF SpentTo
    <2>8. Reference(t) = Prune([c EXCEPT !.vout =
                            {n \in @ : \A g \in DOMAIN chain : <<t, n>> \notin SpentBy(chain[g])}])
      BY <1>5, <2>4 DEF Reference, I
    <2> HIDE DEF c
    <2>9. Reference(t) = Take(c, t, SpentTo(chain, L))
      BY <2>7, <2>8 DEF Take
    <2>. QED  BY <1>3, <2>6, <2>9 DEF c
  <1>. QED  BY <1>4, <1>5

\* The variables have their types and every block has the undo data of its inputs.
LEMMA ChainInvTypes ==
    ASSUME MarkerUnspent, ChainInv, StakeInv
    PROVE  TypeOK
  <1> DEFINE L == Len(chain)
  <1>1. L \in Nat /\ DOMAIN chain = 1 .. L /\ L \in 0 .. L /\ L <= MaxHeight
    <2>1. L \in Nat /\ DOMAIN chain = 1 .. L
      BY ChainFacts
    <2>. QED  BY <2>1 DEF ChainInv, Shape
  <1>2. ASSUME NEW t \in Tx PROVE coins[t].vout \subseteq Outs[t] /\ coins[t].nHeight \in 0 .. MaxHeight
    <2>1. coins[t] = CoinAt(chain, L, t)
      BY RefAtAt DEF ChainInv
    <2>2. Sound(coins)
      BY <1>1, ChainFacts DEF ChainInv
    <2>3. \A k \in 1 .. L : chain[k] \in Block
      BY <1>1 DEF ChainInv, Shape
    <2>4. CoinAt(chain, L, t).nHeight \in 0 .. L
      BY <1>1, <2>3, RefAtSound
    <2>5. coins[t].nHeight \in 0 .. MaxHeight
      BY <1>1, <2>1, <2>4, UndoAssumption
    <2>. QED  BY <2>2, <2>5 DEF Sound, SoundCoin
  <1>3. ASSUME NEW h \in DOMAIN chain, NEW i \in DOMAIN chain[h]
        PROVE  Len(undoData[h][i]) = Len(Inputs[chain[h][i]])
    <2> DEFINE r == ApplyBlock(RefAt(chain, h - 1), chain[h], h)
    <2>1. BlockFacts(RefAt(chain, h - 1), chain[h], h)
      BY <1>1, ChainFacts
    <2>2. Len(r.undo[i]) = Len(Inputs[chain[h][i]])
      BY <2>1, Zenon DEF BlockFacts
    <2>3. r = Applied(RefAt(chain, h), undoData[h], TRUE)
      BY DEF ChainInv, Replayed
    <2>4. r.undo = undoData[h]
      BY <2>3 DEF Applied
    <2> HIDE DEF r
    <2>. QED  BY <2>2, <2>4
  <1>. QED  BY <1>1, <1>2, <1>3 DEF TypeOK, ChainInv, Shape, StakeInv

\* The UTXO set is a function of the active chain: whatever blocks ConnectTip and
\* DisconnectTip applied and undid, every CCoins is what replaying the chain gives.
THEOREM UtxoMatchesChainAlways ==
    ASSUME MarkerUnspent
    PROVE  Spec => []UtxoMatchesChain
  <1>1. ChainInv /\ StakeInv => UtxoMatchesChain
    BY ReferenceIsRefAt, ChainInvTypes DEF UtxoMatchesChain
  <1>. QED  BY <1>1, ChainInvAlways, PTL

\* DisconnectBlock never reports an unclean undo of the tip.
THEOREM TipCanBeDisconnectedAlways ==
    ASSUME MarkerUnspent
    PROVE  Spec => []TipCanBeDisconnected
  <1>1. ChainInv => TipCanBeDisconnected
    <2> SUFFICES ASSUME ChainInv, Len(chain) > 0
                 PROVE  UndoBlock(coins, chain[Len(chain)], undoData[Len(chain)], Len(chain)).clean
      BY DEF TipCanBeDisconnected
    <2>1. UndoBlock(coins, chain[Len(chain)], undoData[Len(chain)], Len(chain))
            = Undone(RefAt(chain, Len(chain) - 1), TRUE)
      BY TipUndo
    <2>. QED  BY <2>1 DEF Undone
  <1>. QED  BY <1>1, ChainInvAlways, PTL
-----------------------------------------------------------------------------
(* The pool *)

\* The folds of Mempool.
GatherOp(p, S, i) == S \cup Spenders(p, S)
ConflictOp(t, q, o) == IF q.next[o] \notin {NoTx, t} THEN remove(q, q.next[o], TRUE) ELSE q
ForBlockOp(c, q, t) == removeConflicts(remove(q, t, FALSE), t)
StaleOp(c, q, t) == remove(q, t, TRUE)
ResurrectOp(c, q, t) ==
    IF AcceptToMemoryPool(q, c[1], c[2], t) = "ok" THEN addUnchecked(q, t) ELSE remove(q, t, TRUE)
OrphanOp(c, s, o) == ResolveOrphan(s, o)
LevelOp(c, s, i) ==
    IF i > Len(s.queue) THEN s ELSE FoldLeft(ResolveOrphan, s, SetToSeq(byPrev[s.queue[i]]))
DropOp(c, S, i) == S \cup {t \in Tx : Parents(t) \cap S # {}}

GatherFold == INSTANCE FoldLemmas WITH Op <- GatherOp
ConflictFold == INSTANCE FoldLemmas WITH Op <- ConflictOp
ForBlockFold == INSTANCE FoldLemmas WITH Op <- ForBlockOp
StaleFold == INSTANCE FoldLemmas WITH Op <- StaleOp
ResurrectFold == INSTANCE FoldLemmas WITH Op <- ResurrectOp
OrphanFold == INSTANCE FoldLemmas WITH Op <- OrphanOp
LevelFold == INSTANCE FoldLemmas WITH Op <- LevelOp
DropFold == INSTANCE FoldLemmas WITH Op <- DropOp

-----------------------------------------------------------------------------
(* Finite sets *)

\* SetToSeq enumerates a finite set.
LEMMA SetToSeqLemma ==
    ASSUME NEW S, IsFiniteSet(S)
    PROVE  /\ Cardinality(S) \in Nat
           /\ DOMAIN SetToSeq(S) = 1 .. Cardinality(S)
           /\ \A i \in 1 .. Cardinality(S) : SetToSeq(S)[i] \in S
           /\ \A x \in S : \E i \in 1 .. Cardinality(S) : SetToSeq(S)[i] = x
  <1> DEFINE n == Cardinality(S)
             D == 1 .. n
  <1>1. n \in Nat /\ ExistsBijection(D, S)
    BY FS_CardinalityType, Zenon
  <1>2. \E f \in [D -> S] : IsInjective(f)
    BY <1>1 DEF ExistsBijection, Bijection, Injection
  <1> DEFINE g == SetToSeq(S)
  <1>3. g \in [D -> S] /\ IsInjective(g)
    BY <1>2, Zenon DEF SetToSeq
  <1> HIDE DEF g
  <1>4. g \in Injection(D, S)
    BY <1>3 DEF Injection
  <1>5. Cardinality(D) = n
    <2>1. 1 \in Int /\ n \in Int
      BY <1>1
    <2>2. Cardinality(1 .. n) = IF 1 > n THEN 0 ELSE n - 1 + 1
      BY <2>1, FS_Interval
    <2>. QED  BY <1>1, <2>2
  <1>6. g \in Surjection(D, S)
    BY <1>4, <1>5, FS_Injection, Zenon
  <1>7. \A x \in S : \E i \in D : g[i] = x
    BY <1>6 DEF Surjection
  <1>8. DOMAIN g = D /\ \A i \in D : g[i] \in S
    BY <1>3
  <1>. QED  BY <1>1, <1>7, <1>8 DEF g

\* A function that only adds elements of U to a set, applied as often as U has
\* elements, reaches a set it adds nothing to.
LEMMA StepsClose ==
    ASSUME NEW U, IsFiniteSet(U), NEW F \in [SUBSET U -> SUBSET U], \A T \in SUBSET U : T \subseteq F[T],
           NEW st, st[0] \in SUBSET U, \A i \in 1 .. Cardinality(U) : st[i] = F[st[i - 1]]
    PROVE  LET G == st[Cardinality(U)] IN st[0] \subseteq G /\ G \in SUBSET U /\ F[G] = G
  <1> DEFINE n == Cardinality(U)
             Is(i) == /\ st[0] \subseteq st[i] /\ st[i] \in SUBSET U
                      /\ F[st[i]] = st[i] \/ Cardinality(st[i]) >= i
             S == {i \in 0 .. n : Is(i)}
  <1>1. n \in Nat
    BY FS_CardinalityType, Zenon
  <1>2. 0 \in S
    <2>1. IsFiniteSet(st[0])
      BY FS_Subset, Zenon
    <2>2. Cardinality(st[0]) \in Nat
      BY <2>1, FS_CardinalityType, Zenon
    <2>3. Cardinality(st[0]) >= 0 /\ 0 \in 0 .. n
      BY <1>1, <2>2
    <2>. QED  BY <2>3, Zenon
  <1>3. ASSUME NEW i \in 0 .. n - 1, i \in S PROVE i + 1 \in S
    <2>1. i + 1 \in 1 .. n /\ i + 1 \in 0 .. n /\ (i + 1) - 1 = i
      BY <1>1
    <2> DEFINE a == st[i]
               b == st[i + 1]
    <2>2. st[0] \subseteq a /\ a \in SUBSET U /\ (F[a] = a \/ Cardinality(a) >= i)
      BY <1>3
    <2>3. b = F[a]
      BY <2>1
    <2> HIDE DEF a, b
    <2>4. a \subseteq b /\ b \in SUBSET U
      BY <2>2, <2>3
    <2>5. F[b] = b \/ Cardinality(b) >= i + 1
      <3>1. CASE F[a] = a
        BY <2>3, <3>1
      <3>2. CASE F[a] # a
        <4>1. a \in SUBSET b /\ b # a
          BY <2>3, <2>4, <3>2
        <4>2. IsFiniteSet(a) /\ IsFiniteSet(b)
          BY <2>2, <2>4, FS_Subset, Zenon
        <4>3. Cardinality(a) <= Cardinality(b) /\ Cardinality(b) # Cardinality(a)
          BY <4>1, <4>2, FS_Subset, Zenon
        <4>4. Cardinality(a) \in Nat /\ Cardinality(b) \in Nat
          BY <4>2, FS_CardinalityType, Zenon
        <4>. QED  BY <2>2, <3>2, <4>3, <4>4
      <3>. QED  BY <3>1, <3>2
    <2>6. Is(i + 1)
      BY <2>2, <2>4, <2>5 DEF b
    <2>. QED  BY <2>1, <2>6
  <1>4. \A i \in 0 .. n : i \in S
    <2> HIDE DEF S
    <2>. QED  BY <1>1, <1>2, <1>3, SpendFold!Induction, Zenon
  <1>5. Is(n)
    BY <1>1, <1>4
  <1>6. F[st[n]] = st[n]
    <2>1. CASE Cardinality(st[n]) >= n
      <3>1. st[n] \in SUBSET U
        BY <1>5
      <3>2. IsFiniteSet(st[n]) /\ Cardinality(st[n]) <= n /\ (n = Cardinality(st[n]) => U = st[n])
        BY <3>1, FS_Subset, Zenon
      <3>3. Cardinality(st[n]) \in Nat
        BY <3>2, FS_CardinalityType
      <3>4. U = st[n]
        BY <1>1, <2>1, <3>2, <3>3
      <3>. QED  BY <3>1, <3>4
    <2>. QED  BY <1>5, <2>1
  <1>. QED  BY <1>5, <1>6

-----------------------------------------------------------------------------
(* The pool *)

PoolSet == [txs : SUBSET Tx, next : [Outpoint -> Tx \cup {NoTx}]]

\* mapNextTx holds exactly the inputs of the pool's transactions, which are
\* neither coinbases nor coinstakes.
Linked(p) ==
    /\ p \in PoolSet
    /\ \A o \in Outpoint : p.next[o] # NoTx => p.next[o] \in p.txs /\ o \in InputSet(p.next[o])
    /\ \A t \in p.txs : Kind[t] = "normal" /\ \A o \in InputSet(t) : p.next[o] = t

\* q is what some removals leave of p.
Shrunk(p, q) ==
    /\ q.txs \subseteq p.txs
    /\ \A o \in Outpoint : q.next[o] \in {p.next[o], NoTx}

\* Everything that depends on a removed transaction is removed.
KeepsParents(p, q) ==
    Shrunk(p, q) /\ \A u \in q.txs : \A o \in InputSet(u) : o[1] \in p.txs => o[1] \in q.txs

LEMMA InputSetLemma ==
    ASSUME NEW t \in Tx
    PROVE  InputSet(t) \subseteq Outpoint
  BY InputsLemma DEF InputSet, Range

LEMMA PoolIs ==
    ASSUME NEW txs \in SUBSET Tx, NEW next \in [Outpoint -> Tx \cup {NoTx}]
    PROVE  Pool(txs, next) \in PoolSet /\ Pool(txs, next).txs = txs /\ Pool(txs, next).next = next
  BY DEF Pool, PoolSet

\* addUnchecked of a transaction without conflict.
LEMMA AddLemma ==
    ASSUME NEW p, Linked(p), NEW t \in Tx, Kind[t] = "normal", t \notin p.txs,
           \A o \in InputSet(t) : p.next[o] = NoTx
    PROVE  Linked(addUnchecked(p, t)) /\ addUnchecked(p, t).txs = p.txs \cup {t}
  <1> DEFINE q == addUnchecked(p, t)
             next == [o \in Outpoint |-> IF o \in InputSet(t) THEN t ELSE p.next[o]]
  <1>1. p.txs \cup {t} \in SUBSET Tx /\ next \in [Outpoint -> Tx \cup {NoTx}]
    BY DEF Linked, PoolSet
  <1>2. q \in PoolSet /\ q.txs = p.txs \cup {t} /\ q.next = next
    BY <1>1, PoolIs DEF addUnchecked
  <1> HIDE DEF q
  <1>3. InputSet(t) \subseteq Outpoint /\ \A u \in p.txs : InputSet(u) \subseteq Outpoint /\ u \in Tx
    BY InputSetLemma DEF Linked, PoolSet
  <1>4. t # NoTx
    BY PoolAssumption
  <1>5. ASSUME NEW o \in Outpoint, q.next[o] # NoTx PROVE q.next[o] \in q.txs /\ o \in InputSet(q.next[o])
    BY <1>2, <1>5 DEF Linked
  <1>6. ASSUME NEW u \in q.txs, NEW o \in InputSet(u) PROVE q.next[o] = u
    <2>1. CASE u = t
      BY <1>2, <1>3, <1>6, <2>1
    <2>2. CASE u # t
      <3>1. u \in p.txs
        BY <1>2, <2>2
      <3>2. o \in Outpoint /\ p.next[o] = u /\ u \in Tx
        BY <1>3, <1>6, <3>1 DEF Linked
      <3>3. u # NoTx
        BY <3>2, PoolAssumption
      <3>4. o \notin InputSet(t)
        BY <3>2, <3>3
      <3>. QED  BY <1>2, <3>2, <3>4
    <2>. QED  BY <2>1, <2>2
  <1>7. \A u \in q.txs : Kind[u] = "normal"
    BY <1>2 DEF Linked
  <1>. QED  BY <1>2, <1>5, <1>6, <1>7 DEF Linked, q

\* What remove visits is closed: it has every pool transaction that spends an
\* output of one of its own.
LEMMA ToRemoveLemma ==
    ASSUME NEW p, p \in PoolSet, NEW t \in Tx
    PROVE  LET G == ToRemove(p, t, TRUE)
           IN  t \in G /\ G \subseteq Tx /\ Spenders(p, G) \subseteq G
  <1> DEFINE N == Cardinality(Tx)
             seq == [i \in 1 .. N |-> i]
             F == [T \in SUBSET Tx |-> GatherOp(p, T, 1)]
             G == ToRemove(p, t, TRUE)
  <1>1. IsFiniteSet(Tx) /\ N \in Nat
    BY PoolAssumption, FS_CardinalityType
  <1>2. F \in [SUBSET Tx -> SUBSET Tx] /\ \A T \in SUBSET Tx : T \subseteq F[T]
    BY DEF GatherOp, Spenders, PoolSet
  <1>3. PICK st : GatherFold!LeftSteps(p, {t}, N, seq, st)
    <2>1. DOMAIN seq = 1 .. N
      OBVIOUS
    <2> HIDE DEF seq, N
    <2>. QED  BY <1>1, <2>1, GatherFold!FoldLeftSteps, Zenon
  <1>4. G = st[N]
    <2> HIDE DEF seq
    <2>1. FoldLeft(LAMBDA S, i : S \cup Spenders(p, S), {t}, seq) = GatherFold!LeftFold(p, {t}, seq)
      BY DEF FoldLeft, MapThenFoldSet, Max, GatherFold!MapThenFoldSet,
             GatherFold!Greatest, GatherFold!LeftFold, GatherOp
    <2>2. G = FoldLeft(LAMBDA S, i : S \cup Spenders(p, S), {t}, seq)
      BY DEF ToRemove, seq
    <2> HIDE DEF G
    <2>. QED  BY <1>3, <2>1, <2>2 DEF GatherFold!LeftSteps
  <1> HIDE DEF F, G
  <1>5. {t} \subseteq G /\ G \in SUBSET Tx /\ F[G] = G
    <2>1. st[0] = {t} /\ \A i \in 1 .. N : st[i] = GatherOp(p, st[i - 1], i)
      BY <1>3 DEF GatherFold!LeftSteps
    <2>2. st[0] \in SUBSET Tx
      BY <2>1
    <2>3. \A i \in 0 .. N : st[i] \in SUBSET Tx
      <3> DEFINE S == {i \in 0 .. N : st[i] \in SUBSET Tx}
      <3>1. 0 \in S
        BY <1>1, <2>2
      <3>2. ASSUME NEW i \in 0 .. N - 1, i \in S PROVE i + 1 \in S
        <4>1. i + 1 \in 1 .. N /\ i + 1 \in 0 .. N /\ (i + 1) - 1 = i
          BY <1>1
        <4>2. st[i + 1] = GatherOp(p, st[i], i + 1) /\ st[i] \in SUBSET Tx
          BY <2>1, <3>2, <4>1
        <4>. QED  BY <4>1, <4>2 DEF GatherOp, Spenders, PoolSet
      <3> HIDE DEF S
      <3>3. \A i \in 0 .. N : i \in S
        BY <1>1, <3>1, <3>2, GatherFold!Induction, Zenon
      <3>. QED  BY <3>3 DEF S
    <2>4. ASSUME NEW i \in 1 .. N PROVE st[i] = F[st[i - 1]]
      <3>1. st[i - 1] \in SUBSET Tx
        BY <1>1, <2>3
      <3>. QED  BY <2>1, <3>1 DEF F, GatherOp
    <2> HIDE DEF N
    <2>5. st[0] \subseteq st[N] /\ st[N] \in SUBSET Tx /\ F[st[N]] = st[N]
      BY <1>1, <1>2, <2>2, <2>4, StepsClose DEF N
    <2>. QED  BY <1>4, <2>1, <2>5
  <1>6. Spenders(p, G) \subseteq G
    BY <1>5 DEF GatherOp, F
  <1>. QED  BY <1>5, <1>6 DEF G

\* remove, with or without descendants.
LEMMA RemoveGone ==
    ASSUME NEW p, Linked(p), NEW t \in Tx, NEW fRecursive \in BOOLEAN
    PROVE  LET q == remove(p, t, fRecursive)
           IN  /\ Linked(q) /\ Shrunk(p, q)
               /\ q.txs = p.txs \ ToRemove(p, t, fRecursive)
               /\ t \in ToRemove(p, t, fRecursive)
  <1> DEFINE G == ToRemove(p, t, fRecursive)
             gone == G \cap p.txs
             next == [o \in Outpoint |-> IF \E g \in gone : o \in InputSet(g) THEN NoTx ELSE p.next[o]]
             q == remove(p, t, fRecursive)
  <1>1. t \in G
    <2>1. CASE fRecursive = TRUE
      BY <2>1, ToRemoveLemma DEF Linked
    <2>2. CASE fRecursive = FALSE
      BY <2>2 DEF ToRemove
    <2>. QED  BY <2>1, <2>2
  <1> HIDE DEF G
  <1>2. p.txs \ gone \in SUBSET Tx /\ next \in [Outpoint -> Tx \cup {NoTx}]
    BY DEF Linked, PoolSet
  <1>3. q = Pool(p.txs \ gone, next)
    BY DEF remove, G
  <1>4. q \in PoolSet /\ q.txs = p.txs \ gone /\ q.next = next
    BY <1>2, <1>3, PoolIs
  <1> HIDE DEF q
  <1>5. Shrunk(p, q)
    BY <1>4 DEF Shrunk
  <1>6. ASSUME NEW o \in Outpoint, q.next[o] # NoTx PROVE q.next[o] \in q.txs /\ o \in InputSet(q.next[o])
    <2>1. q.next[o] = p.next[o] /\ ~ \E g \in gone : o \in InputSet(g)
      BY <1>4, <1>6
    <2>. QED  BY <1>4, <1>6, <2>1 DEF Linked
  <1>7. ASSUME NEW u \in q.txs, NEW o \in InputSet(u) PROVE q.next[o] = u
    <2>1. u \in p.txs /\ u \notin gone /\ u \in Tx
      BY <1>4, <1>7 DEF Linked, PoolSet
    <2>2. o \in Outpoint /\ p.next[o] = u
      BY <1>7, <2>1, InputSetLemma DEF Linked
    <2>3. ~ \E g \in gone : o \in InputSet(g)
      BY <2>1, <2>2 DEF Linked
    <2>. QED  BY <1>4, <2>2, <2>3
  <1>8. \A u \in q.txs : Kind[u] = "normal"
    BY <1>4 DEF Linked
  <1>9. Linked(q)
    BY <1>4, <1>6, <1>7, <1>8 DEF Linked
  <1>. QED  BY <1>1, <1>4, <1>5, <1>9 DEF q, G

\* remove with descendants.
LEMMA RemoveLemma ==
    ASSUME NEW p, Linked(p), NEW t \in Tx
    PROVE  LET q == remove(p, t, TRUE)
           IN  /\ Linked(q) /\ KeepsParents(p, q) /\ t \notin q.txs
               /\ \A u \in q.txs : \A o \in InputSet(u) : o[1] # t
  <1> DEFINE q == remove(p, t, TRUE)
             G == ToRemove(p, t, TRUE)
  <1>1. Linked(q) /\ Shrunk(p, q) /\ q.txs = p.txs \ G /\ t \in G
    BY RemoveGone
  <1>2. Spenders(p, G) \subseteq G
    BY ToRemoveLemma DEF Linked
  <1> HIDE DEF q, G
  <1>3. ASSUME NEW u \in q.txs, NEW o \in InputSet(u) PROVE o[1] \notin G
    <2> SUFFICES ASSUME o[1] \in G PROVE FALSE
      OBVIOUS
    <2>1. u \in p.txs /\ u \notin G /\ u \in Tx /\ u # NoTx
      BY <1>1, <1>3, PoolAssumption DEF Linked, PoolSet
    <2>2. o \in Outpoint /\ p.next[o] = u
      BY <1>3, <2>1, InputSetLemma DEF Linked
    <2>3. u \in Spenders(p, G)
      BY <2>1, <2>2 DEF Spenders
    <2>. QED  BY <1>2, <2>1, <2>3
  <1>4. \A u \in q.txs : \A o \in InputSet(u) : o[1] # t
    BY <1>1, <1>3
  <1>5. KeepsParents(p, q)
    BY <1>1, <1>3 DEF KeepsParents
  <1>6. t \notin q.txs
    BY <1>1
  <1>. QED  BY <1>1, <1>4, <1>5, <1>6 DEF q

\* remove without descendants.
LEMMA RemoveOneLemma ==
    ASSUME NEW p, Linked(p), NEW t \in Tx
    PROVE  LET q == remove(p, t, FALSE)
           IN  Linked(q) /\ Shrunk(p, q) /\ q.txs = p.txs \ {t}
  <1>1. ToRemove(p, t, FALSE) = {t}
    BY DEF ToRemove
  <1>. QED  BY <1>1, RemoveGone

LEMMA ShrunkTrans ==
    ASSUME NEW p, NEW q, NEW r, Shrunk(p, q), Shrunk(q, r)
    PROVE  Shrunk(p, r)
  BY DEF Shrunk

LEMMA KeepsParentsTrans ==
    ASSUME NEW p, NEW q, NEW r, KeepsParents(p, q), KeepsParents(q, r)
    PROVE  KeepsParents(p, r)
  BY ShrunkTrans DEF KeepsParents, Shrunk

LEMMA KeepsParentsRefl ==
    ASSUME NEW p
    PROVE  KeepsParents(p, p)
  BY DEF KeepsParents, Shrunk

\* removeConflicts: nothing that spends an input of t is left, but t.
LEMMA ConflictsLemma ==
    ASSUME NEW p, Linked(p), NEW t \in Tx
    PROVE  LET q == removeConflicts(p, t)
           IN  /\ Linked(q) /\ KeepsParents(p, q)
               /\ \A o \in InputSet(t) : q.next[o] \in {NoTx, t}
  <1> DEFINE N == NIn(t)
             In == Inputs[t]
  <1>1. N \in Nat /\ DOMAIN In = 1 .. N /\ \A j \in 1 .. N : In[j] \in Outpoint
    BY InputsLemma
  <1>2. PICK st : ConflictFold!LeftSteps(t, p, N, In, st)
    <2> HIDE DEF In, N
    <2>. QED  BY <1>1, ConflictFold!FoldLeftSteps, Zenon
  <1>3. /\ st[0] = p
        /\ \A i \in 1 .. N : st[i] = ConflictOp(t, st[i - 1], In[i])
        /\ ConflictFold!LeftFold(t, p, In) = st[N]
    BY <1>2, Zenon DEF ConflictFold!LeftSteps
  <1>4. removeConflicts(p, t) = st[N]
    <2>1. removeConflicts(p, t) = ConflictFold!LeftFold(t, p, In)
      BY DEF removeConflicts, FoldLeft, MapThenFoldSet, Max, ConflictFold!MapThenFoldSet, ConflictFold!Greatest, ConflictFold!LeftFold, ConflictOp
    <2>. QED  BY <1>3, <2>1
  <1> HIDE DEF In, N
  <1> DEFINE Is(i) == /\ Linked(st[i]) /\ KeepsParents(p, st[i])
                      /\ \A j \in 1 .. i : st[i].next[In[j]] \in {NoTx, t}
             S == {i \in 0 .. N : Is(i)}
  <1>5. 0 \in S
    BY <1>1, <1>3, KeepsParentsRefl
  <1>6. ASSUME NEW i \in 0 .. N - 1, i \in S PROVE i + 1 \in S
    <2> DEFINE q == st[i]
               o == In[i + 1]
               r == st[i + 1]
    <2>1. i + 1 \in 1 .. N /\ i + 1 \in 0 .. N /\ (i + 1) - 1 = i /\ 1 .. i + 1 = (1 .. i) \cup {i + 1}
      BY <1>1
    <2>2. r = ConflictOp(t, q, o) /\ o \in Outpoint
      BY <1>1, <1>3, <2>1
    <2>3. Is(i)
      BY <1>6
    <2>4. \A j \in 1 .. i : In[j] \in Outpoint
      BY <1>1
    <2> HIDE DEF q, o, r
    <2>5. Linked(q) /\ KeepsParents(p, q) /\ \A j \in 1 .. i : q.next[In[j]] \in {NoTx, t}
      BY <2>3 DEF q
    <2>6. Linked(r) /\ KeepsParents(q, r) /\ r.next[o] \in {NoTx, t}
      <3>1. CASE q.next[o] \in {NoTx, t}
        BY <2>2, <2>5, <3>1, KeepsParentsRefl DEF ConflictOp
      <3>2. CASE q.next[o] \notin {NoTx, t}
        <4> DEFINE u == q.next[o]
        <4>1. u \in Tx
          BY <2>2, <2>5, <3>2 DEF Linked, PoolSet
        <4>2. r = remove(q, u, TRUE)
          BY <2>2, <3>2 DEF ConflictOp
        <4>3. Linked(r) /\ KeepsParents(q, r) /\ u \notin r.txs
          BY <2>5, <4>1, <4>2, RemoveLemma
        <4>4. r.next[o] \in {u, NoTx}
          BY <2>2, <4>3 DEF KeepsParents, Shrunk
        <4>5. r.next[o] = NoTx
          BY <2>2, <4>3, <4>4 DEF Linked
        <4>. QED  BY <4>3, <4>5
      <3>. QED  BY <3>1, <3>2
    <2>7. KeepsParents(p, r)
      BY <2>5, <2>6, KeepsParentsTrans
    <2>8. \A j \in 1 .. i : r.next[In[j]] \in {NoTx, t}
      BY <2>4, <2>5, <2>6 DEF KeepsParents, Shrunk
    <2>9. \A j \in 1 .. i + 1 : r.next[In[j]] \in {NoTx, t}
      BY <2>1, <2>6, <2>8 DEF o
    <2>10. Is(i + 1)
      BY <2>6, <2>7, <2>9 DEF r
    <2>. QED  BY <2>1, <2>10
  <1>7. \A i \in 0 .. N : i \in S
    <2> HIDE DEF S
    <2>. QED  BY <1>1, <1>5, <1>6, ConflictFold!Induction, Zenon
  <1>8. Is(N)
    BY <1>1, <1>7
  <1>9. \A o \in InputSet(t) : \E j \in 1 .. N : o = In[j]
    BY <1>1 DEF InputSet, Range, In
  <1>. QED  BY <1>4, <1>8, <1>9

\* removeForBlock: the transactions of the block are gone, and what spends an
\* input of one of them with everything that depends on it.
LEMMA ForBlockLemma ==
    ASSUME NEW p, Linked(p), NEW n \in Nat, NEW b \in [1 .. n -> Tx]
    PROVE  LET q == removeForBlock(p, b)
           IN  /\ Linked(q) /\ Shrunk(p, q)
               /\ \A t \in Range(b) : t \notin q.txs
               /\ \A u \in q.txs : \A o \in InputSet(u) :
                     o \notin SpentBy(b) /\ (o[1] \in p.txs => o[1] \in q.txs \/ o[1] \in Range(b))
  <1>1. DOMAIN b = 1 .. n /\ \A j \in 1 .. n : b[j] \in Tx
    OBVIOUS
  <1>2. PICK st : ForBlockFold!LeftSteps(1, p, n, b, st)
    BY <1>1, ForBlockFold!FoldLeftSteps, Zenon
  <1>3. /\ st[0] = p
        /\ \A i \in 1 .. n : st[i] = removeConflicts(remove(st[i - 1], b[i], FALSE), b[i])
        /\ ForBlockFold!LeftFold(1, p, b) = st[n]
    BY <1>2, Zenon DEF ForBlockFold!LeftSteps, ForBlockOp
  <1>4. removeForBlock(p, b) = st[n]
    <2>1. removeForBlock(p, b) = ForBlockFold!LeftFold(1, p, b)
      BY DEF removeForBlock, FoldLeft, MapThenFoldSet, Max, ForBlockFold!MapThenFoldSet, ForBlockFold!Greatest, ForBlockFold!LeftFold, ForBlockOp
    <2>. QED  BY <1>3, <2>1
  <1> DEFINE Done1(q, j) == b[j] \notin q.txs /\ \A o \in InputSet(b[j]) : q.next[o] \in {NoTx, b[j]}
             Kept(q, i) == \A u \in q.txs : \A o \in InputSet(u) :
                              o[1] \in p.txs => o[1] \in q.txs \/ \E j \in 1 .. i : o[1] = b[j]
             Is(i) == /\ Linked(st[i]) /\ Shrunk(p, st[i]) /\ Kept(st[i], i)
                      /\ \A j \in 1 .. i : Done1(st[i], j)
             S == {i \in 0 .. n : Is(i)}
  <1>5. 0 \in S
    BY <1>3 DEF Shrunk
  <1>6. ASSUME NEW i \in 0 .. n - 1, i \in S PROVE i + 1 \in S
    <2> DEFINE p0 == st[i]
               t == b[i + 1]
               q == remove(p0, t, FALSE)
               r == st[i + 1]
    <2>1. i + 1 \in 1 .. n /\ i + 1 \in 0 .. n /\ (i + 1) - 1 = i /\ 1 .. i + 1 = (1 .. i) \cup {i + 1}
      OBVIOUS
    <2>2. r = removeConflicts(q, t) /\ t \in Tx
      BY <1>1, <1>3, <2>1
    <2>3. Linked(p0) /\ Shrunk(p, p0) /\ Kept(p0, i) /\ \A j \in 1 .. i : Done1(p0, j)
      BY <1>6
    <2>4. Linked(q) /\ Shrunk(p0, q) /\ q.txs = p0.txs \ {t}
      <3> HIDE DEF p0, t
      <3>. QED  BY <2>2, <2>3, RemoveOneLemma
    <2>5. /\ Linked(r) /\ KeepsParents(q, r)
          /\ \A o \in InputSet(t) : r.next[o] \in {NoTx, t}
      <3> HIDE DEF t, q, r
      <3>. QED  BY <2>2, <2>4, ConflictsLemma
    <2>6. Shrunk(p0, r) /\ Shrunk(p, r)
      <3> HIDE DEF p0, q, r
      <3>. QED  BY <2>3, <2>4, <2>5, ShrunkTrans DEF KeepsParents
    <2>7. Done1(r, i + 1)
      <3>1. t \notin r.txs
        <4> HIDE DEF p0, q, r, t
        <4>. QED  BY <2>4, <2>5 DEF KeepsParents, Shrunk
      <3>. QED  BY <2>5, <3>1
    <2>8. ASSUME NEW j \in 1 .. i PROVE Done1(r, j)
      <3>1. b[j] \in Tx
        BY <1>1, <2>1
      <3>2. InputSet(b[j]) \subseteq Outpoint
        BY <3>1, InputSetLemma
      <3> HIDE DEF p0, q, r, t
      <3>. QED  BY <2>3, <2>6, <3>2 DEF Shrunk
    <2>9. Kept(r, i + 1)
      <3> SUFFICES ASSUME NEW u \in r.txs, NEW o \in InputSet(u), o[1] \in p.txs,
                          ~ \E j \in 1 .. i + 1 : o[1] = b[j]
                   PROVE  o[1] \in r.txs
        OBVIOUS
      <3>1. ~ (\E j \in 1 .. i : o[1] = b[j]) /\ o[1] # t
        BY <2>1
      <3> HIDE DEF p0, q, r, t
      <3>2. u \in p0.txs /\ u \in q.txs
        BY <2>4, <2>5, <2>6 DEF KeepsParents, Shrunk
      <3>3. o[1] \in p0.txs
        BY <2>3, <3>1, <3>2
      <3>4. o[1] \in q.txs
        BY <2>4, <3>1, <3>3
      <3>. QED  BY <2>5, <3>4 DEF KeepsParents
    <2>10. \A j \in 1 .. i + 1 : Done1(r, j)
      <3>1. ASSUME NEW j \in 1 .. i + 1 PROVE Done1(r, j)
        <4>1. CASE j \in 1 .. i
          BY <2>8, <4>1
        <4>2. CASE j = i + 1
          BY <2>7, <4>2
        <4>. QED  BY <2>1, <4>1, <4>2
      <3>. QED  BY <3>1
    <2>11. Is(i + 1)
      BY <2>5, <2>6, <2>9, <2>10
    <2>. QED  BY <2>1, <2>11
  <1>7. \A i \in 0 .. n : i \in S
    <2> HIDE DEF S
    <2>. QED  BY <1>5, <1>6, ForBlockFold!Induction, Zenon
  <1> DEFINE q == st[n]
  <1>8. Linked(q) /\ Shrunk(p, q) /\ Kept(q, n) /\ \A j \in 1 .. n : Done1(q, j)
    BY <1>7
  <1> HIDE DEF q
  <1>9. \A t \in Range(b) : \E j \in 1 .. n : t = b[j]
    BY <1>1 DEF Range
  <1>10. \A j \in 1 .. n : b[j] \in Range(b)
    BY <1>1 DEF Range
  <1>11. ASSUME NEW u \in q.txs, NEW o \in InputSet(u) PROVE o \notin SpentBy(b)
    <2> SUFFICES ASSUME o \in SpentBy(b) PROVE FALSE
      OBVIOUS
    <2>1. PICK j \in 1 .. n : o \in InputSet(b[j])
      BY <1>1 DEF SpentBy, InputSet
    <2>2. u \in Tx /\ u # NoTx /\ q.next[o] = u
      BY <1>8, PoolAssumption DEF Linked, PoolSet
    <2>3. u = b[j]
      BY <1>8, <2>1, <2>2
    <2>. QED  BY <1>8, <2>3
  <1>12. ASSUME NEW u \in q.txs, NEW o \in InputSet(u), o[1] \in p.txs
         PROVE  o[1] \in q.txs \/ o[1] \in Range(b)
    BY <1>8, <1>10, <1>12
  <1>13. \A t \in Range(b) : t \notin q.txs
    BY <1>8, <1>9
  <1>. QED  BY <1>4, <1>8, <1>11, <1>12, <1>13 DEF q

\* Removing every member of a set with its descendants.
LEMMA StaleLemma ==
    ASSUME NEW p, Linked(p), NEW T \in SUBSET Tx
    PROVE  LET q == FoldLeft(LAMBDA q1, t : remove(q1, t, TRUE), p, SetToSeq(T))
           IN  Linked(q) /\ KeepsParents(p, q) /\ \A t \in T : t \notin q.txs
  <1> DEFINE n == Cardinality(T)
             b == SetToSeq(T)
  <1>1. IsFiniteSet(T)
    BY PoolAssumption, FS_Subset, Zenon
  <1>2. /\ n \in Nat /\ DOMAIN b = 1 .. n
        /\ \A i \in 1 .. n : b[i] \in T
        /\ \A x \in T : \E i \in 1 .. n : b[i] = x
    BY <1>1, SetToSeqLemma
  <1> HIDE DEF n, b
  <1>3. PICK st : StaleFold!LeftSteps(1, p, n, b, st)
    BY <1>2, StaleFold!FoldLeftSteps, Zenon
  <1>4. /\ st[0] = p
        /\ \A i \in 1 .. n : st[i] = remove(st[i - 1], b[i], TRUE)
        /\ StaleFold!LeftFold(1, p, b) = st[n]
    BY <1>3, Zenon DEF StaleFold!LeftSteps, StaleOp
  <1>5. FoldLeft(LAMBDA q1, t : remove(q1, t, TRUE), p, b) = st[n]
    <2>1. FoldLeft(LAMBDA q1, t : remove(q1, t, TRUE), p, b) = StaleFold!LeftFold(1, p, b)
      BY DEF FoldLeft, MapThenFoldSet, Max, StaleFold!MapThenFoldSet, StaleFold!Greatest, StaleFold!LeftFold, StaleOp
    <2>. QED  BY <1>4, <2>1
  <1> DEFINE Is(i) == /\ Linked(st[i]) /\ KeepsParents(p, st[i])
                      /\ \A j \in 1 .. i : b[j] \notin st[i].txs
             S == {i \in 0 .. n : Is(i)}
  <1>6. 0 \in S
    BY <1>2, <1>4, KeepsParentsRefl
  <1>7. ASSUME NEW i \in 0 .. n - 1, i \in S PROVE i + 1 \in S
    <2> DEFINE q == st[i]
               r == st[i + 1]
    <2>1. i + 1 \in 1 .. n /\ i + 1 \in 0 .. n /\ (i + 1) - 1 = i /\ 1 .. i + 1 = (1 .. i) \cup {i + 1}
      BY <1>2
    <2>2. r = remove(q, b[i + 1], TRUE) /\ b[i + 1] \in Tx
      BY <1>2, <1>4, <2>1
    <2>3. Linked(q) /\ KeepsParents(p, q) /\ \A j \in 1 .. i : b[j] \notin q.txs
      BY <1>7
    <2> HIDE DEF q, r
    <2>4. Linked(r) /\ KeepsParents(q, r) /\ b[i + 1] \notin r.txs
      BY <2>2, <2>3, RemoveLemma
    <2>5. KeepsParents(p, r)
      BY <2>3, <2>4, KeepsParentsTrans
    <2>6. \A j \in 1 .. i + 1 : b[j] \notin r.txs
      BY <2>1, <2>3, <2>4 DEF KeepsParents, Shrunk
    <2>7. Is(i + 1)
      BY <2>4, <2>5, <2>6 DEF r
    <2>. QED  BY <2>1, <2>7
  <1>8. \A i \in 0 .. n : i \in S
    <2> HIDE DEF S
    <2>. QED  BY <1>2, <1>6, <1>7, StaleFold!Induction, Zenon
  <1>9. Is(n)
    BY <1>2, <1>8
  <1>. QED  BY <1>2, <1>5, <1>9 DEF b

-----------------------------------------------------------------------------
(* The pool over the chain *)

\* The transactions of the first g blocks.
Confirmed(ch, g) == UNION {Range(ch[k]) : k \in 1 .. g}

\* A block at height h may spend the coin o.
Ripe(cs, h, o) ==
    cs[o[1]].fCoinBase \/ cs[o[1]].fCoinStake => h - cs[o[1]].nHeight >= COINBASE_MATURITY
Avail(cs, h, o) == o[2] \in cs[o[1]].vout /\ Ripe(cs, h, o)

\* Every input of u is an output of the pool q or a coin to be had.
Supplied(q, cs, h, u) == \A o \in InputSet(u) : o[1] \in q.txs \/ Avail(cs, h, o)

\* The pool q is sound over the first g blocks of ch: the inductive invariant.
Over(q, ch, g) ==
    /\ Linked(q)
    /\ \A u \in q.txs : u \notin Confirmed(ch, g)
    /\ \A u \in q.txs : Supplied(q, RefAt(ch, g), g + 1, u)

\* What AcceptToMemoryPool has checked.
LEMMA AcceptLemma ==
    ASSUME NEW p, NEW cs, NEW h, NEW t \in Tx, AcceptToMemoryPool(p, cs, h, t) = "ok"
    PROVE  /\ Kind[t] = "normal" /\ t \notin p.txs /\ t \notin BadTx
           /\ \A o \in InputSet(t) : p.next[o] = NoTx
           /\ cs[t].vout = {}
           /\ PoolHaveInputs(p, cs, t) /\ PoolMature(p, cs, t, h)
  BY DEF AcceptToMemoryPool, HaveCoins

LEMMA AcceptSupplied ==
    ASSUME NEW p, NEW cs, NEW h, NEW t \in Tx, AcceptToMemoryPool(p, cs, h, t) = "ok"
    PROVE  Supplied(p, cs, h, t)
  BY AcceptLemma DEF PoolHaveInputs, PoolMature, Supplied, Avail, Ripe

\* What a block spends is spent, and created no later.
LEMMA SpentOut ==
    ASSUME MarkerUnspent, ChainInv, NEW g \in 0 .. Len(chain), NEW t \in Confirmed(chain, g),
           NEW o \in InputSet(t)
    PROVE  o[1] \in Confirmed(chain, g) /\ o[2] \notin RefAt(chain, g)[o[1]].vout
  <1>1. Len(chain) \in Nat /\ DOMAIN chain = 1 .. Len(chain)
    BY ChainFacts
  <1>2. PICK k \in 1 .. g : t \in Range(chain[k])
    BY DEF Confirmed
  <1>3. k \in 1 .. Len(chain) /\ g \in Nat
    BY <1>1
  <1>4. PICK i \in DOMAIN chain[k] : chain[k][i] = t
    BY <1>2 DEF Range
  <1>5. o \in SpentBy(chain[k])
    BY <1>4 DEF SpentBy, InputSet
  <1>6. PICK j \in 1 .. k : o[1] \in Range(chain[j])
    BY <1>3, <1>5, SpendsKnown
  <1>7. j \in 1 .. g
    BY <1>3
  <1>8. o[1] \in Confirmed(chain, g)
    BY <1>6, <1>7 DEF Confirmed
  <1>9. chain[k] \in Block /\ t \in Tx
    <2>1. chain[k] \in Block
      BY <1>1, <1>3 DEF ChainInv, Shape
    <2>. QED  BY <1>4, <2>1 DEF Block
  <1>10. o \in Outpoint
    BY <1>9, InputSetLemma
  <1>11. o[1] \in Tx /\ o = <<o[1], o[2]>>
    BY <1>10, OutpointLemma
  <1>12. o \in SpentTo(chain, g)
    BY <1>5 DEF SpentTo
  <1>13. o[2] \notin CoinAt(chain, g, o[1]).vout
    BY <1>3, <1>11, <1>12, CoinAtLemma
  <1>. QED  BY <1>8, <1>11, <1>13, RefAtAt

\* A transaction of the chain is never accepted again: its inputs are spent.
LEMMA AcceptNew ==
    ASSUME MarkerUnspent, ChainInv, NEW g \in 0 .. Len(chain), NEW p, NEW h, NEW t \in Tx,
           \A u \in p.txs : u \notin Confirmed(chain, g),
           AcceptToMemoryPool(p, RefAt(chain, g), h, t) = "ok"
    PROVE  t \notin Confirmed(chain, g)
  <1> SUFFICES ASSUME t \in Confirmed(chain, g) PROVE FALSE
    OBVIOUS
  <1>1. Supplied(p, RefAt(chain, g), h, t) /\ Kind[t] = "normal"
    BY AcceptLemma, AcceptSupplied
  <1>2. Inputs[t] # <<>>
    BY <1>1, UndoAssumption
  <1>3. PICK o : o \in InputSet(t)
    <2>1. NIn(t) \in Nat /\ DOMAIN Inputs[t] = 1 .. NIn(t)
      BY InputsLemma
    <2>2. NIn(t) # 0
      BY <1>2, UndoAssumption DEF NIn
    <2>3. 1 \in DOMAIN Inputs[t]
      BY <2>1, <2>2
    <2>. QED  BY <2>3 DEF InputSet, Range
  <1>. QED  BY <1>1, <1>3, SpentOut DEF Supplied, Avail

LEMMA AcceptOver ==
    ASSUME MarkerUnspent, ChainInv, NEW g \in 0 .. Len(chain), NEW q, Over(q, chain, g), NEW t \in Tx,
           AcceptToMemoryPool(q, RefAt(chain, g), g + 1, t) = "ok"
    PROVE  Over(addUnchecked(q, t), chain, g)
  <1> DEFINE r == addUnchecked(q, t)
  <1>1. Linked(r) /\ r.txs = q.txs \cup {t}
    BY AcceptLemma, AddLemma DEF Over
  <1>2. t \notin Confirmed(chain, g)
    BY AcceptNew DEF Over
  <1>3. Supplied(q, RefAt(chain, g), g + 1, t)
    BY AcceptSupplied
  <1> HIDE DEF r
  <1>. QED  BY <1>1, <1>2, <1>3 DEF Over, Supplied, r

\* ConnectTip: what removeForBlock leaves is sound over the longer chain.
LEMMA ConnectOver ==
    ASSUME MarkerUnspent, ChainInv, NEW q, Over(q, chain, Len(chain)),
           NEW b \in BlockAt(Len(chain) + 1), ApplyBlock(coins, b, Len(chain) + 1).ok,
           NEW ch, \A k \in 1 .. Len(chain) : ch[k] = chain[k], ch[Len(chain) + 1] = b
    PROVE  Over(removeForBlock(q, b), ch, Len(chain) + 1)
  <1> DEFINE h == Len(chain) + 1
             r == removeForBlock(q, b)
             cs == ApplyBlock(coins, b, h).coins
  <1>1. Len(chain) \in Nat /\ Sound(coins) /\ coins = RefAt(chain, Len(chain)) /\ h \in Nat /\ h # 0
    BY ChainFacts DEF ChainInv
  <1>2. cs = RefAt(ch, h)
    BY RefAtNext
  <1>3. PICK n \in Nat : b \in [1 .. n -> Tx] /\ \A i, j \in 1 .. n : i # j => b[i] # b[j]
    BY BlockLemma
  <1>4. /\ Linked(r) /\ Shrunk(q, r)
        /\ \A t \in Range(b) : t \notin r.txs
        /\ \A u \in r.txs : \A o \in InputSet(u) :
              o \notin SpentBy(b) /\ (o[1] \in q.txs => o[1] \in r.txs \/ o[1] \in Range(b))
    BY <1>3, ForBlockLemma DEF Over
  <1>5. PICK X : BlockSteps(coins, b, n, h, X)
    BY <1>1, <1>3, ApplyBlockSteps
  <1>6. \A t \in Range(b) : coins[t].vout = {}
    <2>1. 0 \in 0 .. n /\ X[0] = coins
      BY <1>5 DEF BlockSteps
    <2>2. \A j \in 1 .. n : X[0][b[j]] = Cleared
      BY <1>5, <2>1 DEF BlockSteps
    <2>. QED  BY <1>3, <2>1, <2>2 DEF Range, Cleared
  <1>7. cs = [t \in Tx |-> Take(IF t \in Range(b) THEN FromTx(t, h) ELSE coins[t], t, SpentBy(b))]
    <2>1. BlockFacts(coins, b, h)
      BY <1>1, BlockFactsHold
    <2>. QED  BY <2>1, Zenon DEF BlockFacts
  <1> HIDE DEF r, cs, h
  <1>8. ASSUME NEW u \in r.txs PROVE u \notin Confirmed(ch, h)
    <2>1. 1 .. h = (1 .. Len(chain)) \cup {h}
      BY <1>1 DEF h
    <2>2. u \in q.txs
      BY <1>4 DEF Shrunk
    <2>3. u \notin Range(b)
      BY <1>4
    <2>. QED  BY <2>1, <2>2, <2>3 DEF Over, Confirmed, h
  <1>9. ASSUME NEW u \in r.txs, NEW o \in InputSet(u), o[1] \notin r.txs PROVE Avail(cs, h + 1, o)
    <2> DEFINE t == o[1]
               c == IF t \in Range(b) THEN FromTx(t, h) ELSE coins[t]
    <2>1. u \in q.txs /\ u \in Tx
      BY <1>4 DEF Shrunk, Linked, PoolSet
    <2>2. o \in Outpoint
      BY <2>1, InputSetLemma
    <2>3. t \in Tx /\ o[2] \in Outs[t] /\ o = <<t, o[2]>>
      BY <2>2, OutpointLemma
    <2>4. o \notin SpentBy(b) /\ (t \in q.txs => t \in Range(b))
      BY <1>4, <1>9
    <2>5. c \in CCoins
      BY <1>1, <2>3, FromTxLemma DEF Sound
    <2>6. cs[t] = Take(c, t, SpentBy(b))
      BY <1>7, <2>3
    <2>7. o[2] \in c.vout /\ (c.fCoinBase \/ c.fCoinStake => h + 1 - c.nHeight >= COINBASE_MATURITY)
      <3>1. CASE t \in Range(b)
        <4>1. t \in q.txs
          <5>1. o[2] \notin coins[t].vout
            BY <1>6, <3>1
          <5>. QED  BY <1>1, <1>9, <2>1, <5>1 DEF Over, Supplied, Avail
        <4>2. Kind[t] = "normal"
          BY <4>1 DEF Over, Linked
        <4>3. c = FromTx(t, h) /\ o[2] \in FromTx(t, h).vout
          BY <1>1, <2>3, <3>1, FromTxLemma
        <4>4. ~FromTx(t, h).fCoinBase /\ ~FromTx(t, h).fCoinStake
          BY <4>2 DEF FromTx, Prune, Cleared
        <4>. QED  BY <4>3, <4>4
      <3>2. CASE t \notin Range(b)
        <4>1. c = coins[t] /\ t \notin q.txs
          BY <2>4, <3>2
        <4>2. Avail(coins, h, o)
          BY <1>1, <2>1, <4>1 DEF Over, Supplied, h
        <4>3. coins[t].nHeight \in Nat
          BY <1>1, <2>3 DEF Sound, CCoins
        <4>. QED  BY <1>1, <4>1, <4>2, <4>3, UndoAssumption DEF Avail, Ripe
      <3>. QED  BY <3>1, <3>2
    <2>8. IsTaken(cs[t], c, t, SpentBy(b))
      <3> HIDE DEF c, t
      <3>. QED  BY <2>5, <2>6, TakeLemma
    <2>9. o[2] \in cs[t].vout /\ cs[t].vout # {}
      <3> HIDE DEF c
      <3>. QED  BY <2>3, <2>4, <2>7, <2>8 DEF IsTaken
    <2>10. /\ cs[t].nHeight = c.nHeight /\ cs[t].fCoinBase = c.fCoinBase
           /\ cs[t].fCoinStake = c.fCoinStake
      <3> HIDE DEF c, t
      <3>. QED  BY <2>8, <2>9 DEF IsTaken
    <2>11. Ripe(cs, h + 1, o)
      <3>1. c.nHeight \in Nat
        BY <2>5 DEF CCoins
      <3> HIDE DEF c
      <3>. QED  BY <1>1, <2>7, <2>10, <3>1, UndoAssumption DEF Ripe
    <2>. QED  BY <2>9, <2>11 DEF Avail
  <1>10. \A u \in r.txs : Supplied(r, cs, h + 1, u)
    BY <1>9 DEF Supplied
  <1>11. Over(r, ch, h)
    BY <1>2, <1>4, <1>8, <1>10 DEF Over
  <1>. QED  BY <1>11 DEF r, h

-----------------------------------------------------------------------------
(* Disconnecting a block *)

\* D has whatever spends an output of one of its own.
Closed(D) == D \subseteq Tx /\ \A t \in Tx : \A o \in InputSet(t) : o[1] \in D => t \in D

\* remove takes out only what depends on its transaction.
LEMMA RemoveDrops ==
    ASSUME NEW p, Linked(p), NEW t \in Tx, NEW D, Closed(D), t \in D
    PROVE  \A u \in p.txs : u \in remove(p, t, TRUE).txs \/ u \in D
  <1> DEFINE N == Cardinality(Tx)
             seq == [i \in 1 .. N |-> i]
             I == SUBSET D
  <1>1. N \in Nat
    BY PoolAssumption, FS_CardinalityType
  <1>2. {t} \in I
    OBVIOUS
  <1>3. ASSUME NEW S \in I, NEW i \in 1 .. N PROVE GatherOp(p, S, seq[i]) \in I
    <2>1. ASSUME NEW u \in Spenders(p, S) PROVE u \in D
      <3>1. PICK o \in Outpoint : o[1] \in S /\ u = p.next[o] /\ u # NoTx
        BY <2>1 DEF Spenders
      <3>2. u \in Tx /\ o \in InputSet(u)
        BY <3>1 DEF Linked, PoolSet
      <3>. QED  BY <3>1, <3>2 DEF Closed
    <2>. QED  BY <2>1 DEF GatherOp
  <1>4. DOMAIN seq = 1 .. N
    OBVIOUS
  <1>5. GatherFold!LeftFold(p, {t}, seq) \in I
    <2> HIDE DEF I, seq, N
    <2>. QED  BY <1>1, <1>2, <1>3, <1>4, GatherFold!FoldLeftKeeps, Zenon
  <1>6. ToRemove(p, t, TRUE) \in I
    <2>1. FoldLeft(LAMBDA S, i : S \cup Spenders(p, S), {t}, seq) = GatherFold!LeftFold(p, {t}, seq)
      BY DEF FoldLeft, MapThenFoldSet, Max, GatherFold!MapThenFoldSet,
             GatherFold!Greatest, GatherFold!LeftFold, GatherOp
    <2>2. ToRemove(p, t, TRUE) = FoldLeft(LAMBDA S, i : S \cup Spenders(p, S), {t}, seq)
      BY DEF ToRemove
    <2>. QED  BY <1>5, <2>1, <2>2
  <1>7. remove(p, t, TRUE).txs = p.txs \ ToRemove(p, t, TRUE)
    BY RemoveGone
  <1>. QED  BY <1>6, <1>7

\* What ConnectBlock has checked of a block it applied to cs: none of its
\* transactions has coins, no two spend the same output, and every input is a
\* coin that may be spent or an output of an earlier one.
Checked(cs, b, n, h) ==
    /\ b \in [1 .. n -> Tx] /\ \A i, j \in 1 .. n : i # j => b[i] # b[j]
    /\ \A i \in 1 .. n : cs[b[i]].vout = {}
    /\ \A i \in 1 .. n : \A k \in 1 .. i - 1 : \A o \in InputSet(b[i]) : o \notin InputSet(b[k])
    /\ \A i \in 1 .. n : \A o \in InputSet(b[i]) : Avail(cs, h, o) \/ \E k \in 1 .. i - 1 : b[k] = o[1]

LEMMA BlockChecked ==
    ASSUME MarkerUnspent, NEW cs, Sound(cs), NEW h \in Nat, h # 0, NEW b \in BlockAt(h),
           ApplyBlock(cs, b, h).ok
    PROVE  \E n \in Nat : Checked(cs, b, n, h)
  <1>1. PICK n \in Nat : b \in [1 .. n -> Tx] /\ \A i, j \in 1 .. n : i # j => b[i] # b[j]
    BY BlockLemma
  <1>2. PICK X : BlockSteps(cs, b, n, h, X)
    BY <1>1, ApplyBlockSteps
  <1>3. \A i \in 0 .. n : X[i] = CoinsAfter(cs, b, i, h)
    BY <1>1, <1>2, BlockCoins
  <1>4. \A i \in 1 .. n : cs[b[i]].vout = {}
    <2>1. 0 \in 0 .. n /\ X[0] = cs
      BY <1>2 DEF BlockSteps
    <2>. QED  BY <1>2, <2>1 DEF BlockSteps, Cleared
  <1>5. ASSUME NEW i \in 1 .. n, NEW o \in InputSet(b[i])
        PROVE  /\ o \notin SpentIn(b, i - 1)
               /\ Avail(cs, h, o) \/ \E k \in 1 .. i - 1 : b[k] = o[1]
    <2> DEFINE t == o[1]
               Y == X[i - 1]
               m == Made(cs, b, i - 1, t, h)
    <2>1. b[i] \in Tx /\ i - 1 \in 0 .. n
      BY <1>1
    <2>2. o \in Outpoint
      BY <2>1, InputSetLemma
    <2>3. t \in Tx /\ o = <<t, o[2]>>
      BY <2>2, OutpointLemma
    <2>4. HaveInputs(Y, b[i]) /\ Mature(Y, b[i], h)
      BY <1>2, <2>1 DEF BlockSteps
    <2>5. PICK j \in DOMAIN Inputs[b[i]] : Inputs[b[i]][j] = o
      BY DEF InputSet, Range
    <2>6. o[2] \in Y[t].vout /\ (Y[t].fCoinBase \/ Y[t].fCoinStake => h - Y[t].nHeight >= COINBASE_MATURITY)
      BY <2>4, <2>5 DEF HaveInputs, Mature
    <2>7. Y[t] = Take(m, t, SpentIn(b, i - 1))
      BY <1>3, <2>1, <2>3 DEF CoinsAfter
    <2>8. m \in CCoins
      BY <2>3, FromTxLemma DEF Made, Sound
    <2> HIDE DEF m, Y
    <2>9. IsTaken(Y[t], m, t, SpentIn(b, i - 1))
      <3> HIDE DEF t
      <3>. QED  BY <2>7, <2>8, TakeLemma
    <2>10. o[2] \in m.vout /\ o \notin SpentIn(b, i - 1)
      BY <2>3, <2>6, <2>9 DEF IsTaken
    <2>11. Y[t].nHeight = m.nHeight /\ Y[t].fCoinBase = m.fCoinBase /\ Y[t].fCoinStake = m.fCoinStake
      <3>1. Y[t].vout # {}
        BY <2>6
      <3> HIDE DEF t
      <3>. QED  BY <2>9, <3>1 DEF IsTaken
    <2>12. ASSUME ~ \E k \in 1 .. i - 1 : b[k] = o[1] PROVE Avail(cs, h, o)
      <3>1. m = cs[t]
        BY <2>12 DEF m, Made
      <3>. QED  BY <2>6, <2>10, <2>11, <3>1 DEF Avail, Ripe
    <2>. QED  BY <2>10, <2>12
  <1>6. ASSUME NEW i \in 1 .. n, NEW k \in 1 .. i - 1, NEW o \in InputSet(b[i]), o \in InputSet(b[k]) PROVE FALSE
    <2>1. b[k] \in Tx
      BY <1>1
    <2>2. NIn(b[k]) \in Nat /\ DOMAIN Inputs[b[k]] = 1 .. NIn(b[k])
      BY <2>1, InputsLemma
    <2>3. o \in SpentUpTo(b[k], NIn(b[k]))
      BY <1>6, <2>2 DEF InputSet, Range, SpentUpTo
    <2>4. o \in SpentIn(b, i - 1)
      BY <2>3 DEF SpentIn
    <2>. QED  BY <1>5, <2>4
  <1>7. Checked(cs, b, n, h)
    BY <1>1, <1>4, <1>5, <1>6 DEF Checked
  <1>. QED  BY <1>7

\* Why AcceptToMemoryPool turns a transaction down.
LEMMA NotAccepted ==
    ASSUME NEW p, NEW cs, NEW h, NEW t \in Tx, AcceptToMemoryPool(p, cs, h, t) # "ok"
    PROVE  \/ Kind[t] # "normal" \/ t \in p.txs \/ Refused(t, "lock") \/ Refused(t, "fee") \/ t \in BadTx
           \/ cs[t].vout # {}
           \/ \E o \in InputSet(t) : p.next[o] # NoTx
           \/ \E o \in InputSet(t) : o[1] \notin p.txs /\ ~Avail(cs, h, o)
           \/ \E o \in InputSet(t) : o[2] \notin Outs[o[1]]
  <1> SUFFICES ASSUME Kind[t] = "normal", t \notin p.txs, ~Refused(t, "lock"), ~Refused(t, "fee"),
                      t \notin BadTx, cs[t].vout = {},
                      \A o \in InputSet(t) : p.next[o] = NoTx,
                      \A o \in InputSet(t) : o[1] \in p.txs \/ Avail(cs, h, o),
                      \A o \in InputSet(t) : o[2] \in Outs[o[1]]
               PROVE  FALSE
    OBVIOUS
  <1>1. ~HaveCoins(p, cs, t)
    BY DEF HaveCoins
  <1>2. \A q \in Parents(t) : HaveCoins(p, cs, q)
    BY DEF Parents, HaveCoins, Avail
  <1>3. PoolHaveInputs(p, cs, t)
    BY DEF PoolHaveInputs, Avail
  <1>4. PoolMature(p, cs, t, h)
    BY DEF PoolMature, Avail, Ripe
  <1>. QED  BY <1>1, <1>2, <1>3, <1>4 DEF AcceptToMemoryPool

\* What policy refuses at the moment.
Unwelcome(t) == Kind[t] # "normal" \/ Refused(t, "lock") \/ Refused(t, "fee") \/ t \in BadTx

\* The pool q after the first i of the n transactions of the block b went back to
\* p, over the coins cs below the block; D has what may be dropped.
Resurrected(p, b, n, cs, D, q, i) ==
    /\ Linked(q)
    /\ \A u \in q.txs : u \in p.txs \/ \E k \in 1 .. i : u = b[k]
    /\ \A u \in q.txs : u \notin Confirmed(chain, Len(chain) - 1)
    /\ \A u \in q.txs : \A o \in InputSet(u) :
          o[1] \in q.txs \/ o[2] \in cs[o[1]].vout \/ \E k \in i + 1 .. n : o[1] = b[k]
    /\ \A u \in q.txs : \A o \in InputSet(u) : u \in p.txs \/ o[1] \in q.txs \/ Ripe(cs, Len(chain), o)
    /\ \A u \in p.txs : u \in q.txs \/ u \in D
    /\ \A k \in 1 .. i : b[k] \in q.txs \/ b[k] \in D

\* The situation in which the tip is disconnected.
Tip(p, b, n, cs, D) ==
    /\ Len(chain) > 0 /\ b = chain[Len(chain)] /\ cs = RefAt(chain, Len(chain) - 1)
    /\ n \in Nat /\ Checked(cs, b, n, Len(chain))
    /\ Over(p, chain, Len(chain))
    /\ Closed(D)
    /\ \A i \in 1 .. n : Unwelcome(b[i]) => b[i] \in D

\* A transaction of the block that is not taken back is in D.
LEMMA RefusedDrops ==
    ASSUME MarkerUnspent, ChainInv, NEW p, NEW b, NEW n, NEW cs, NEW D, Tip(p, b, n, cs, D),
           NEW i \in 0 .. n - 1, NEW q, Resurrected(p, b, n, cs, D, q, i),
           AcceptToMemoryPool(q, cs, Len(chain), b[i + 1]) # "ok"
    PROVE  b[i + 1] \in D
  <1> DEFINE t == b[i + 1]
  <1> SUFFICES ASSUME t \notin D PROVE FALSE
    OBVIOUS
  <1>1. Len(chain) \in Nat /\ DOMAIN chain = 1 .. Len(chain) /\ n \in Nat
    BY ChainFacts DEF Tip
  <1>2. /\ i + 1 \in 1 .. n /\ (i + 1) - 1 = i /\ t \in Tx
        /\ \A k \in 1 .. i : k \in 1 .. n /\ k # i + 1
    BY <1>1 DEF Tip, Checked
  <1>3. \A k \in 1 .. i : b[k] # t
    BY <1>2 DEF Tip, Checked
  <1>4. t \in Confirmed(chain, Len(chain))
    <2>1. DOMAIN b = 1 .. n
      BY DEF Tip, Checked
    <2>2. t \in Range(chain[Len(chain)])
      BY <1>2, <2>1 DEF Tip, Range
    <2>3. Len(chain) \in 1 .. Len(chain)
      BY <1>1 DEF Tip
    <2>. QED  BY <2>2, <2>3 DEF Confirmed
  <1>5. t \notin p.txs
    BY <1>4 DEF Tip, Over
  <1>6. t \notin q.txs
    BY <1>3, <1>5 DEF Resurrected
  <1>7. ~Unwelcome(t)
    BY <1>2 DEF Tip
  <1>8. cs[t].vout = {}
    BY <1>2 DEF Tip, Checked
  <1>9. \A o \in InputSet(t) : o \in Outpoint /\ o[2] \in Outs[o[1]]
    BY <1>2, InputSetLemma, OutpointLemma
  <1>10. ASSUME NEW o \in InputSet(t), q.next[o] # NoTx PROVE FALSE
    <2> DEFINE u == q.next[o]
    <2>1. u \in q.txs /\ o \in InputSet(u)
      BY <1>9, <1>10 DEF Resurrected, Linked
    <2>2. CASE u \in p.txs
      <3>1. Len(chain) \in 0 .. Len(chain)
        BY <1>1
      <3>2. o[1] \in Confirmed(chain, Len(chain)) /\ o[2] \notin RefAt(chain, Len(chain))[o[1]].vout
        BY <1>4, <3>1, SpentOut
      <3>3. o[1] \in p.txs
        BY <2>1, <2>2, <3>2 DEF Tip, Over, Supplied, Avail
      <3>. QED  BY <3>2, <3>3 DEF Tip, Over
    <2>3. CASE u \notin p.txs
      <3>1. PICK k \in 1 .. i : u = b[k]
        BY <2>1, <2>3 DEF Resurrected
      <3>2. k \in 1 .. (i + 1) - 1
        BY <1>2
      <3>. QED  BY <1>2, <2>1, <3>1, <3>2 DEF Tip, Checked
    <2>. QED  BY <2>2, <2>3
  <1>11. ASSUME NEW o \in InputSet(t), o[1] \notin q.txs PROVE Avail(cs, Len(chain), o)
    <2> SUFFICES ASSUME ~Avail(cs, Len(chain), o) PROVE FALSE
      OBVIOUS
    <2>1. PICK k \in 1 .. i : b[k] = o[1]
      BY <1>2 DEF Tip, Checked
    <2>2. b[k] \in D
      BY <1>11, <2>1 DEF Resurrected
    <2>. QED  BY <1>2, <2>1, <2>2 DEF Tip, Closed
  <1> HIDE DEF t
  <1>. QED  BY <1>2, <1>6, <1>7, <1>8, <1>9, <1>10, <1>11, NotAccepted DEF Unwelcome, t

\* One transaction of the block.
LEMMA ResurrectStep ==
    ASSUME MarkerUnspent, ChainInv, NEW p, NEW b, NEW n, NEW cs, NEW D, Tip(p, b, n, cs, D),
           NEW i \in 0 .. n - 1, NEW q, Resurrected(p, b, n, cs, D, q, i)
    PROVE  Resurrected(p, b, n, cs, D, ResurrectOp(<<cs, Len(chain)>>, q, b[i + 1]), i + 1)
  <1> DEFINE t == b[i + 1]
             h == Len(chain)
             r == ResurrectOp(<<cs, h>>, q, t)
  <1>1. h \in Nat /\ n \in Nat /\ h - 1 \in 0 .. h
    BY ChainFacts DEF Tip
  <1>2. /\ i + 1 \in 1 .. n /\ t \in Tx /\ 1 .. i + 1 = (1 .. i) \cup {i + 1}
        /\ i + 1 .. n = (i + 1 + 1 .. n) \cup {i + 1}
    BY <1>1 DEF Tip, Checked
  <1>3. CASE AcceptToMemoryPool(q, cs, h, t) = "ok"
    <2>1. r = addUnchecked(q, t)
      BY <1>3 DEF ResurrectOp
    <2>2. Linked(r) /\ r.txs = q.txs \cup {t}
      BY <1>2, <1>3, <2>1, AcceptLemma, AddLemma DEF Resurrected
    <2>3. Supplied(q, cs, h, t)
      BY <1>2, <1>3, AcceptSupplied
    <2>4. t \notin Confirmed(chain, h - 1)
      BY <1>1, <1>2, <1>3, AcceptNew DEF Tip, Resurrected
    <2> HIDE DEF r
    <2>5. \A u \in r.txs : u \in p.txs \/ \E k \in 1 .. i + 1 : u = b[k]
      BY <1>2, <2>2 DEF Resurrected
    <2>6. \A u \in r.txs : u \notin Confirmed(chain, h - 1)
      BY <2>2, <2>4 DEF Resurrected
    <2>7. ASSUME NEW u \in r.txs, NEW o \in InputSet(u)
          PROVE  /\ o[1] \in r.txs \/ o[2] \in cs[o[1]].vout \/ \E k \in i + 1 + 1 .. n : o[1] = b[k]
                 /\ u \in p.txs \/ o[1] \in r.txs \/ Ripe(cs, h, o)
      <3>1. CASE u = t
        BY <2>2, <2>3, <2>7, <3>1 DEF Supplied, Avail
      <3>2. CASE u # t
        <4>1. u \in q.txs
          BY <2>2, <3>2
        <4>2. /\ o[1] \in q.txs \/ o[2] \in cs[o[1]].vout \/ \E k \in i + 1 .. n : o[1] = b[k]
              /\ u \in p.txs \/ o[1] \in q.txs \/ Ripe(cs, h, o)
          BY <2>7, <4>1 DEF Resurrected
        <4>. QED  BY <1>2, <2>2, <4>2
      <3>. QED  BY <3>1, <3>2
    <2>8. \A u \in p.txs : u \in r.txs \/ u \in D
      BY <2>2 DEF Resurrected
    <2>9. \A k \in 1 .. i + 1 : b[k] \in r.txs \/ b[k] \in D
      BY <1>2, <2>2 DEF Resurrected
    <2>10. Resurrected(p, b, n, cs, D, r, i + 1)
      BY <2>2, <2>5, <2>6, <2>7, <2>8, <2>9 DEF Resurrected
    <2>. QED  BY <2>10 DEF r
  <1>4. CASE AcceptToMemoryPool(q, cs, h, t) # "ok"
    <2>1. r = remove(q, t, TRUE)
      BY <1>4 DEF ResurrectOp
    <2>2. /\ Linked(r) /\ KeepsParents(q, r) /\ t \notin r.txs
          /\ \A u \in r.txs : \A o \in InputSet(u) : o[1] # t
      <3>1. Linked(q) /\ t \in Tx
        BY <1>2 DEF Resurrected
      <3> HIDE DEF r, t
      <3>. QED  BY <2>1, <3>1, RemoveLemma
    <2>3. t \in D /\ Closed(D)
      BY <1>4, RefusedDrops DEF Tip
    <2>4. \A u \in q.txs : u \in r.txs \/ u \in D
      BY <1>2, <2>1, <2>3, RemoveDrops DEF Resurrected
    <2> HIDE DEF r
    <2>5. r.txs \subseteq q.txs
      BY <2>2 DEF KeepsParents, Shrunk
    <2>6. \A u \in r.txs : u \in p.txs \/ \E k \in 1 .. i + 1 : u = b[k]
      BY <1>2, <2>5 DEF Resurrected
    <2>7. \A u \in r.txs : u \notin Confirmed(chain, h - 1)
      BY <2>5 DEF Resurrected
    <2>8. ASSUME NEW u \in r.txs, NEW o \in InputSet(u)
          PROVE  /\ o[1] \in r.txs \/ o[2] \in cs[o[1]].vout \/ \E k \in i + 1 + 1 .. n : o[1] = b[k]
                 /\ u \in p.txs \/ o[1] \in r.txs \/ Ripe(cs, h, o)
      <3>1. u \in q.txs /\ o[1] # t /\ (o[1] \in q.txs => o[1] \in r.txs)
        BY <2>2, <2>5, <2>8 DEF KeepsParents
      <3>2. /\ o[1] \in q.txs \/ o[2] \in cs[o[1]].vout \/ \E k \in i + 1 .. n : o[1] = b[k]
            /\ u \in p.txs \/ o[1] \in q.txs \/ Ripe(cs, h, o)
        BY <2>8, <3>1 DEF Resurrected
      <3>. QED  BY <1>2, <3>1, <3>2
    <2>9. \A u \in p.txs : u \in r.txs \/ u \in D
      BY <2>4 DEF Resurrected
    <2>10. \A k \in 1 .. i + 1 : b[k] \in r.txs \/ b[k] \in D
      BY <1>2, <2>3, <2>4 DEF Resurrected
    <2>11. Resurrected(p, b, n, cs, D, r, i + 1)
      BY <2>2, <2>6, <2>7, <2>8, <2>9, <2>10 DEF Resurrected
    <2>. QED  BY <2>11 DEF r
  <1>. QED  BY <1>3, <1>4

\* The coins of a normal transaction are neither a coinbase's nor a coinstake's.
LEMMA NormalCoin ==
    ASSUME MarkerUnspent, NEW ch, NEW g \in Nat, NEW t \in Tx, Kind[t] = "normal"
    PROVE  ~RefAt(ch, g)[t].fCoinBase /\ ~RefAt(ch, g)[t].fCoinStake
  <1>1. ~Cleared.fCoinBase /\ ~Cleared.fCoinStake
    BY DEF Cleared
  <1>2. CASE Created(ch, g, t) = {}
    BY <1>1, <1>2, RefAtAt DEF CoinAt
  <1>3. CASE Created(ch, g, t) # {}
    <2> DEFINE k == CHOOSE x \in Created(ch, g, t) : TRUE
               c == FromTx(t, k)
               d == Take(c, t, SpentTo(ch, g))
    <2>1. k \in Nat /\ k # 0
      BY <1>3 DEF Created
    <2> HIDE DEF k
    <2>2. c \in CCoins
      BY <2>1, FromTxLemma
    <2>3. ~c.fCoinBase /\ ~c.fCoinStake
      BY DEF FromTx, Prune, Cleared
    <2> HIDE DEF c
    <2>4. IsTaken(d, c, t, SpentTo(ch, g))
      BY <2>2, TakeLemma
    <2> HIDE DEF d
    <2>5. ~d.fCoinBase /\ ~d.fCoinStake
      BY <1>1, <2>3, <2>4 DEF IsTaken
    <2>6. RefAt(ch, g)[t] = d
      BY <1>3, RefAtAt DEF CoinAt, d, c, k
    <2>. QED  BY <2>5, <2>6
  <1>. QED  BY <1>2, <1>3

\* The pool before: an input that the block did not create was there below it.
LEMMA ResurrectStart ==
    ASSUME MarkerUnspent, ChainInv, NEW p, NEW b, NEW n, NEW cs, NEW D, Tip(p, b, n, cs, D)
    PROVE  /\ Resurrected(p, b, n, cs, D, p, 0)
           /\ \A u \in p.txs : \A o \in InputSet(u) :
                 o[2] \in cs[o[1]].vout => \/ o[1] \in p.txs
                                           \/ /\ coins[o[1]].nHeight = cs[o[1]].nHeight
                                              /\ Kind[o[1]] = "normal" => ~cs[o[1]].fCoinBase /\ ~cs[o[1]].fCoinStake
  <1> DEFINE h == Len(chain)
  <1>1. h \in Nat /\ DOMAIN chain = 1 .. h /\ h \in 1 .. h /\ h # 0
    BY ChainFacts DEF Tip
  <1>2. h - 1 \in 0 .. h /\ 1 .. h = (1 .. h - 1) \cup {h} /\ 1 .. 0 = {} /\ 0 + 1 = 1
    BY <1>1
  <1>3. BlockFacts(cs, b, h) /\ Sound(cs)
    BY <1>1, <1>2, ChainFacts DEF Tip
  <1>4. ApplyBlock(cs, b, h) = Applied(coins, undoData[h], TRUE)
    BY <1>1 DEF ChainInv, Replayed, Tip
  <1>5. coins = [t \in Tx |-> Take(IF t \in Range(b) THEN FromTx(t, h) ELSE cs[t], t, SpentBy(b))]
    <2>1. ApplyBlock(cs, b, h).coins = coins
      BY <1>4 DEF Applied
    <2>2. ApplyBlock(cs, b, h).coins
            = [t \in Tx |-> Take(IF t \in Range(b) THEN FromTx(t, h) ELSE cs[t], t, SpentBy(b))]
      BY <1>3, Zenon DEF BlockFacts
    <2>. QED  BY <2>1, <2>2
  <1>6. DOMAIN b = 1 .. n
    BY DEF Tip, Checked
  <1>7. coins = RefAt(chain, h)
    BY DEF ChainInv
  <1>8. ASSUME NEW u \in p.txs, NEW o \in InputSet(u), o[1] \notin p.txs
        PROVE  /\ o[1] \in Tx /\ o[2] \in coins[o[1]].vout
               /\ o[1] \notin Range(b) => /\ coins[o[1]].nHeight = cs[o[1]].nHeight
                                          /\ o[2] \in cs[o[1]].vout
    <2> DEFINE t == o[1]
    <2>1. u \in Tx
      BY DEF Tip, Over, Linked, PoolSet
    <2>2. o \in Outpoint
      BY <2>1, InputSetLemma
    <2>3. t \in Tx
      BY <2>2, OutpointLemma
    <2>4. o[2] \in coins[t].vout
      BY <1>7, <1>8 DEF Tip, Over, Supplied, Avail
    <2>5. ASSUME t \notin Range(b) PROVE coins[t].nHeight = cs[t].nHeight /\ o[2] \in cs[t].vout
      <3>1. coins[t] = Take(cs[t], t, SpentBy(b))
        BY <1>5, <2>3, <2>5
      <3>2. cs[t] \in CCoins
        BY <1>3, <2>3 DEF Sound
      <3> HIDE DEF t
      <3>3. IsTaken(coins[t], cs[t], t, SpentBy(b))
        BY <3>1, <3>2, TakeLemma
      <3>. QED  BY <2>4, <3>3 DEF IsTaken
    <2>. QED  BY <2>3, <2>4, <2>5
  <1>9. \A u \in p.txs : \A o \in InputSet(u) :
          o[1] \in p.txs \/ o[2] \in cs[o[1]].vout \/ \E k \in 1 .. n : o[1] = b[k]
    BY <1>6, <1>8 DEF Range
  <1>10. \A u \in p.txs : u \notin Confirmed(chain, h - 1)
    BY <1>2 DEF Tip, Over, Confirmed
  <1>11. Resurrected(p, b, n, cs, D, p, 0)
    BY <1>2, <1>9, <1>10 DEF Resurrected, Tip, Over
  <1>12. ASSUME NEW u \in p.txs, NEW o \in InputSet(u), o[2] \in cs[o[1]].vout, o[1] \notin p.txs
         PROVE  coins[o[1]].nHeight = cs[o[1]].nHeight
    <2>1. o[1] \notin Range(b)
      BY <1>6, <1>12 DEF Tip, Checked, Range
    <2>. QED  BY <1>8, <1>12, <2>1
  <1>13. ASSUME NEW u \in p.txs, NEW o \in InputSet(u), o[1] \notin p.txs, Kind[o[1]] = "normal"
         PROVE  ~cs[o[1]].fCoinBase /\ ~cs[o[1]].fCoinStake
    BY <1>8, <1>13, NormalCoin DEF Tip
  <1>. QED  BY <1>11, <1>12, <1>13

\* The whole block.
LEMMA ResurrectLemma ==
    ASSUME MarkerUnspent, ChainInv, NEW p, NEW b, NEW n, NEW cs, NEW D, Tip(p, b, n, cs, D)
    PROVE  Resurrected(p, b, n, cs, D, Resurrect(p, cs, Len(chain), b), n)
  <1> DEFINE h == Len(chain)
             c == <<cs, h>>
  <1>1. n \in Nat /\ DOMAIN b = 1 .. n
    BY DEF Tip, Checked
  <1>2. PICK st : ResurrectFold!LeftSteps(c, p, n, b, st)
    <2> HIDE DEF c
    <2>. QED  BY <1>1, ResurrectFold!FoldLeftSteps, Zenon
  <1>3. /\ st[0] = p
        /\ \A i \in 1 .. n : st[i] = ResurrectOp(c, st[i - 1], b[i])
        /\ ResurrectFold!LeftFold(c, p, b) = st[n]
    <2> HIDE DEF c
    <2>. QED  BY <1>2, Zenon DEF ResurrectFold!LeftSteps
  <1>4. Resurrect(p, cs, h, b) = st[n]
    <2>1. c[1] = cs /\ c[2] = h
      OBVIOUS
    <2> HIDE DEF c, h
    <2>2. Resurrect(p, cs, h, b) = ResurrectFold!LeftFold(c, p, b)
      BY <2>1 DEF Resurrect, FoldLeft, MapThenFoldSet, Max, ResurrectFold!MapThenFoldSet, ResurrectFold!Greatest, ResurrectFold!LeftFold, ResurrectOp
    <2>. QED  BY <1>3, <2>2
  <1> DEFINE S == {i \in 0 .. n : Resurrected(p, b, n, cs, D, st[i], i)}
  <1>5. 0 \in S
    <2>1. 0 \in 0 .. n
      BY <1>1
    <2>. QED  BY <1>3, <2>1, ResurrectStart
  <1>6. ASSUME NEW i \in 0 .. n - 1, i \in S PROVE i + 1 \in S
    <2>1. i + 1 \in 1 .. n /\ i + 1 \in 0 .. n /\ (i + 1) - 1 = i
      BY <1>1
    <2>2. st[i + 1] = ResurrectOp(<<cs, Len(chain)>>, st[i], b[i + 1])
      BY <1>3, <2>1
    <2>3. Resurrected(p, b, n, cs, D, st[i + 1], i + 1)
      BY <1>6, <2>2, ResurrectStep
    <2>. QED  BY <2>1, <2>3
  <1>7. \A i \in 0 .. n : i \in S
    <2> HIDE DEF S
    <2>. QED  BY <1>1, <1>5, <1>6, ResurrectFold!Induction, Zenon
  <1>8. n \in 0 .. n
    BY <1>1
  <1>. QED  BY <1>4, <1>7, <1>8

\* Removing members of D with their descendants drops members of D only.
LEMMA StaleDrops ==
    ASSUME NEW p, Linked(p), NEW T \in SUBSET Tx, NEW D, Closed(D), \A t \in T : t \in D,
           NEW r, r = FoldLeft(LAMBDA q1, t : remove(q1, t, TRUE), p, SetToSeq(T))
    PROVE  \A u \in p.txs : u \in r.txs \/ u \in D
  <1> DEFINE n == Cardinality(T)
             b == SetToSeq(T)
             I == {q \in PoolSet : Linked(q) /\ \A u \in p.txs : u \in q.txs \/ u \in D}
  <1>1. IsFiniteSet(T)
    BY PoolAssumption, FS_Subset, Zenon
  <1>2. n \in Nat /\ DOMAIN b = 1 .. n /\ \A i \in 1 .. n : b[i] \in T
    BY <1>1, SetToSeqLemma
  <1> HIDE DEF n, b
  <1>3. p \in I
    BY DEF Linked
  <1>4. ASSUME NEW q \in I, NEW i \in 1 .. n PROVE StaleOp(1, q, b[i]) \in I
    <2> DEFINE t == b[i]
               r1 == remove(q, t, TRUE)
    <2>1. t \in Tx /\ t \in D /\ Linked(q)
      BY <1>2
    <2> HIDE DEF t
    <2>2. Linked(r1)
      BY <2>1, RemoveLemma
    <2>3. \A u \in q.txs : u \in r1.txs \/ u \in D
      BY <2>1, RemoveDrops
    <2> HIDE DEF r1
    <2>4. r1 \in I
      BY <2>2, <2>3 DEF Linked
    <2>. QED  BY <2>4 DEF StaleOp, r1, t
  <1>5. StaleFold!LeftFold(1, p, b) \in I
    <2> HIDE DEF I
    <2>. QED  BY <1>2, <1>3, <1>4, StaleFold!FoldLeftKeeps, Zenon
  <1>6. FoldLeft(LAMBDA q1, t : remove(q1, t, TRUE), p, b) = StaleFold!LeftFold(1, p, b)
    BY DEF FoldLeft, MapThenFoldSet, Max, StaleFold!MapThenFoldSet, StaleFold!Greatest, StaleFold!LeftFold, StaleOp
  <1>7. r \in I
    BY <1>5, <1>6 DEF b
  <1>. QED  BY <1>7

\* The pool transactions removeCoinbaseSpends finds, over coins cs at height h.
Stale(p, cs, h) ==
    {t \in p.txs : \E o \in InputSet(t) :
        o[1] \notin p.txs /\ (cs[o[1]].vout = {} \/ ~Ripe(cs, h, o))}

LEMMA StaleIs ==
    ASSUME NEW p, NEW cs, NEW h, h \in Nat, \A t \in Tx : cs[t].nHeight \in Nat,
           p.txs \subseteq Tx
    PROVE  removeCoinbaseSpends(p, cs, h)
             = FoldLeft(LAMBDA q, t : remove(q, t, TRUE), p, SetToSeq(Stale(p, cs, h)))
  <1> DEFINE stale == {t \in p.txs : \E o \in InputSet(t) :
                         /\ o[1] \notin p.txs
                         /\ LET c == cs[o[1]]
                            IN  \/ c.vout = {}
                                \/ (c.fCoinBase \/ c.fCoinStake) /\ h - c.nHeight < COINBASE_MATURITY}
  <1>1. ASSUME NEW t \in p.txs, NEW o \in InputSet(t)
        PROVE  ~Ripe(cs, h, o) <=> /\ cs[o[1]].fCoinBase \/ cs[o[1]].fCoinStake
                                   /\ h - cs[o[1]].nHeight < COINBASE_MATURITY
    <2>1. o[1] \in Tx
      BY InputSetLemma, OutpointLemma
    <2>2. cs[o[1]].nHeight \in Nat
      BY <2>1
    <2>. QED  BY <2>2, UndoAssumption DEF Ripe
  <1>2. stale = Stale(p, cs, h)
    BY <1>1 DEF Stale
  <1>3. removeCoinbaseSpends(p, cs, h) = FoldLeft(LAMBDA q, t : remove(q, t, TRUE), p, SetToSeq(stale))
    BY DEF removeCoinbaseSpends
  <1>. QED  BY <1>2, <1>3, Zenon

\* DisconnectTip: the pool is sound over the shorter chain.
LEMMA DisconnectOver ==
    ASSUME MarkerUnspent, ChainInv, NEW p, NEW b, NEW n, NEW cs, NEW D, Tip(p, b, n, cs, D)
    PROVE  LET r == removeCoinbaseSpends(Resurrect(p, cs, Len(chain), b), cs, Len(chain))
           IN  Over(r, chain, Len(chain) - 1)
  <1> DEFINE h == Len(chain)
             q == Resurrect(p, cs, h, b)
             T == Stale(q, cs, h)
             r == removeCoinbaseSpends(q, cs, h)
  <1>1. h \in Nat /\ h # 0 /\ h - 1 \in 0 .. h /\ (h - 1) + 1 = h /\ n \in Nat /\ n + 1 .. n = {}
    BY ChainFacts DEF Tip
  <1>2. Resurrected(p, b, n, cs, D, q, n)
    BY ResurrectLemma
  <1>3. cs = RefAt(chain, h - 1) /\ Sound(cs)
    BY <1>1, ChainFacts DEF Tip
  <1>4. \A t \in Tx : cs[t].nHeight \in Nat
    BY <1>3 DEF Sound, CCoins
  <1> HIDE DEF q
  <1>5. q.txs \subseteq Tx /\ Linked(q)
    BY <1>2 DEF Resurrected, Linked, PoolSet
  <1>6. r = FoldLeft(LAMBDA q1, t : remove(q1, t, TRUE), q, SetToSeq(T))
    BY <1>1, <1>4, <1>5, StaleIs
  <1>7. T \in SUBSET Tx
    BY <1>5 DEF Stale
  <1>8. Linked(r) /\ KeepsParents(q, r) /\ \A t \in T : t \notin r.txs
    <2> HIDE DEF T, r
    <2>. QED  BY <1>5, <1>6, <1>7, StaleLemma
  <1> HIDE DEF r
  <1>9. r.txs \subseteq q.txs
    BY <1>8 DEF KeepsParents, Shrunk
  <1>10. \A u \in r.txs : u \notin Confirmed(chain, h - 1)
    BY <1>2, <1>9 DEF Resurrected
  <1>11. ASSUME NEW u \in r.txs, NEW o \in InputSet(u), o[1] \notin r.txs PROVE Avail(cs, h, o)
    <2>1. u \in q.txs /\ o[1] \notin q.txs /\ u \notin T
      BY <1>8, <1>9, <1>11 DEF KeepsParents
    <2>2. o[2] \in cs[o[1]].vout
      BY <1>1, <1>2, <2>1, <1>11 DEF Resurrected
    <2>3. Ripe(cs, h, o)
      BY <2>1, <1>11 DEF Stale
    <2>. QED  BY <2>2, <2>3 DEF Avail
  <1>12. \A u \in r.txs : Supplied(r, RefAt(chain, h - 1), (h - 1) + 1, u)
    BY <1>1, <1>3, <1>11 DEF Supplied
  <1>13. Over(r, chain, h - 1)
    BY <1>8, <1>10, <1>12 DEF Over
  <1>. QED  BY <1>13 DEF r, q

\* What DisconnectTip drops is in D, when D has what spends an immature coin.
LEMMA DisconnectDrops ==
    ASSUME MarkerUnspent, ChainInv, NEW p, NEW b, NEW n, NEW cs, NEW D, Tip(p, b, n, cs, D),
           \A u \in p.txs : \A o \in InputSet(u) :
              Kind[o[1]] # "normal" /\ Len(chain) - coins[o[1]].nHeight < COINBASE_MATURITY => u \in D
    PROVE  LET r == removeCoinbaseSpends(Resurrect(p, cs, Len(chain), b), cs, Len(chain))
           IN  /\ \A u \in p.txs : u \in r.txs \/ u \in D
               /\ \A i \in 1 .. n : b[i] \in r.txs \/ b[i] \in D
  <1> DEFINE h == Len(chain)
             q == Resurrect(p, cs, h, b)
             T == Stale(q, cs, h)
             r == removeCoinbaseSpends(q, cs, h)
  <1>1. h \in Nat /\ h # 0 /\ h - 1 \in 0 .. h /\ n \in Nat /\ n + 1 .. n = {} /\ h \in 0 .. h
    BY ChainFacts DEF Tip
  <1>2. Resurrected(p, b, n, cs, D, q, n)
    BY ResurrectLemma
  <1>3. cs = RefAt(chain, h - 1) /\ Sound(cs)
    BY <1>1, ChainFacts DEF Tip
  <1>4. \A t \in Tx : cs[t].nHeight \in Nat
    BY <1>3 DEF Sound, CCoins
  <1> HIDE DEF q
  <1>5. q.txs \subseteq Tx /\ Linked(q)
    BY <1>2 DEF Resurrected, Linked, PoolSet
  <1>6. r = FoldLeft(LAMBDA q1, t : remove(q1, t, TRUE), q, SetToSeq(T))
    BY <1>1, <1>4, <1>5, StaleIs
  <1>7. ASSUME NEW u \in T PROVE u \in D
    <2>1. PICK o \in InputSet(u) : o[1] \notin q.txs /\ (cs[o[1]].vout = {} \/ ~Ripe(cs, h, o))
      BY DEF Stale
    <2>2. u \in q.txs
      BY DEF Stale
    <2>3. o[2] \in cs[o[1]].vout
      BY <1>1, <1>2, <2>1, <2>2 DEF Resurrected
    <2>4. ~Ripe(cs, h, o)
      BY <2>1, <2>3
    <2>5. u \in p.txs
      BY <1>2, <2>1, <2>2, <2>4 DEF Resurrected
    <2>6. u \in Tx /\ o[1] \in Tx
      BY <1>5, <2>2, InputSetLemma, OutpointLemma
    <2>7. CASE o[1] \in p.txs
      <3>1. o[1] \in D
        BY <1>2, <2>1, <2>7 DEF Resurrected
      <3>. QED  BY <2>6, <3>1 DEF Tip, Closed
    <2>8. CASE o[1] \notin p.txs
      <3>1. /\ coins[o[1]].nHeight = cs[o[1]].nHeight
            /\ Kind[o[1]] = "normal" => ~cs[o[1]].fCoinBase /\ ~cs[o[1]].fCoinStake
        BY <2>3, <2>5, <2>8, ResurrectStart
      <3>2. cs[o[1]].nHeight \in Nat
        BY <1>4, <2>6
      <3>3. Kind[o[1]] # "normal" /\ h - coins[o[1]].nHeight < COINBASE_MATURITY
        BY <1>1, <2>4, <3>1, <3>2, UndoAssumption DEF Ripe
      <3>. QED  BY <2>5, <3>3
    <2>. QED  BY <2>7, <2>8
  <1>8. T \in SUBSET Tx
    BY <1>5 DEF Stale
  <1>9. Closed(D)
    BY DEF Tip
  <1>10. \A u \in q.txs : u \in r.txs \/ u \in D
    <2> HIDE DEF T, r
    <2>. QED  BY <1>5, <1>6, <1>7, <1>8, <1>9, StaleDrops
  <1> HIDE DEF r
  <1>. QED  BY <1>2, <1>10 DEF Resurrected, r, q

-----------------------------------------------------------------------------
(* The orphans *)

\* A transaction that is refused with a score.
Wrong(t) == t \in BadTx \/ Kind[t] # "normal"

\* The maps of orphans agree; every orphan is from a peer of ns, which is one of
\* sb when the orphan is not valid.
OrphansOk(m, ns, sb) ==
    /\ m.from \in [Tx -> Peer \cup {NoPeer}] /\ m.prev \in [Tx -> SUBSET Tx]
    /\ \A q, t \in Tx : t \in m.prev[q] <=> m.from[t] # NoPeer /\ q \in Parents(t)
    /\ \A t \in Tx : m.from[t] # NoPeer => m.from[t] \in ns /\ (Wrong(t) => m.from[t] \in sb)

LEMMA EraseLemma ==
    ASSUME NEW m, NEW ns, NEW sb, OrphansOk(m, ns, sb), NEW E \in SUBSET Tx
    PROVE  /\ OrphansOk(EraseOrphanTxs(m, E), ns, sb)
           /\ Stored(EraseOrphanTxs(m, E)) = Stored(m) \ E
           /\ \A t \in Tx : EraseOrphanTxs(m, E).from[t] = IF t \in E THEN NoPeer ELSE m.from[t]
  <1> DEFINE r == EraseOrphanTxs(m, E)
             from == [t \in Tx |-> IF t \in E THEN NoPeer ELSE m.from[t]]
             prev == [q \in Tx |-> m.prev[q] \ {t \in E \cap Stored(m) : q \in Parents(t)}]
  <1>1. r.from = from /\ r.prev = prev
    BY DEF EraseOrphanTxs
  <1>2. from \in [Tx -> Peer \cup {NoPeer}] /\ prev \in [Tx -> SUBSET Tx]
    BY DEF OrphansOk
  <1> HIDE DEF r
  <1>3. ASSUME NEW q \in Tx, NEW t \in Tx PROVE t \in prev[q] <=> from[t] # NoPeer /\ q \in Parents(t)
    BY DEF OrphansOk, Stored
  <1>4. \A t \in Tx : from[t] # NoPeer => from[t] \in ns /\ (Wrong(t) => from[t] \in sb)
    BY DEF OrphansOk
  <1>5. OrphansOk(r, ns, sb)
    <2> HIDE DEF from, prev
    <2>. QED  BY <1>1, <1>2, <1>3, <1>4 DEF OrphansOk
  <1>6. Stored(r) = Stored(m) \ E
    BY <1>1 DEF Stored
  <1>. QED  BY <1>1, <1>5, <1>6 DEF r

LEMMA AddOrphanLemma ==
    ASSUME NEW m, NEW ns, NEW sb, OrphansOk(m, ns, sb), NEW t \in Tx, NEW p \in Peer,
           p \in ns, Wrong(t) => p \in sb
    PROVE  OrphansOk(AddOrphanTx(m, t, p), ns, sb)
  <1> DEFINE r == AddOrphanTx(m, t, p)
             from == [m.from EXCEPT ![t] = p]
             prev == [q \in Tx |-> IF q \in Parents(t) THEN m.prev[q] \cup {t} ELSE m.prev[q]]
  <1>1. CASE t \in Stored(m) \cup LargeTx
    BY <1>1 DEF AddOrphanTx
  <1>2. CASE ~(t \in Stored(m) \cup LargeTx)
    <2>1. r = [from |-> from, prev |-> prev] /\ m.from[t] = NoPeer
      BY <1>2 DEF AddOrphanTx, Stored
    <2>2. r.from = from /\ r.prev = prev
      BY <2>1
    <2> HIDE DEF r
    <2>3. from \in [Tx -> Peer \cup {NoPeer}] /\ prev \in [Tx -> SUBSET Tx]
      BY DEF OrphansOk
    <2>4. p # NoPeer
      BY PoolAssumption
    <2>5. from[t] = p /\ \A u \in Tx : u # t => from[u] = m.from[u]
      BY DEF OrphansOk
    <2>6. ASSUME NEW q \in Tx, NEW u \in Tx PROVE u \in prev[q] <=> from[u] # NoPeer /\ q \in Parents(u)
      <3> HIDE DEF from
      <3>1. CASE u = t
        BY <2>1, <2>4, <2>5, <3>1 DEF OrphansOk
      <3>2. CASE u # t
        BY <2>5, <3>2 DEF OrphansOk
      <3>. QED  BY <3>1, <3>2
    <2>7. ASSUME NEW u \in Tx, from[u] # NoPeer PROVE from[u] \in ns /\ (Wrong(u) => from[u] \in sb)
      <3> HIDE DEF from
      <3>1. CASE u = t
        BY <2>5, <3>1
      <3>2. CASE u # t
        BY <2>5, <2>7, <3>2 DEF OrphansOk
      <3>. QED  BY <3>1, <3>2
    <2>8. OrphansOk(r, ns, sb)
      <3> HIDE DEF from, prev
      <3>. QED  BY <2>2, <2>3, <2>6, <2>7 DEF OrphansOk
    <2>. QED  BY <2>8 DEF r
  <1>. QED  BY <1>1, <1>2

\* The stored orphans are finitely many.
LEMMA StoredFinite ==
    ASSUME NEW m
    PROVE  IsFiniteSet(Stored(m)) /\ Cardinality(Stored(m)) \in Nat
  <1>1. Stored(m) \subseteq Tx
    BY DEF Stored
  <1>2. IsFiniteSet(Stored(m))
    BY <1>1, PoolAssumption, FS_Subset, Zenon
  <1>. QED  BY <1>2, FS_CardinalityType, Zenon

LEMMA LimitLemma ==
    ASSUME NEW m, NEW ns, NEW sb, OrphansOk(m, ns, sb), NEW r \in LimitOrphanTxSize(m)
    PROVE  OrphansOk(r, ns, sb) /\ Cardinality(Stored(r)) <= MaxOrphanTx
  <1> DEFINE S == Stored(m)
             c == Cardinality(S)
  <1>1. IsFiniteSet(S) /\ c \in Nat
    BY StoredFinite
  <1>2. PICK E \in SUBSET S : /\ r = EraseOrphanTxs(m, E)
                              /\ Cardinality(E) = IF c > MaxOrphanTx THEN c - MaxOrphanTx ELSE 0
    BY DEF LimitOrphanTxSize
  <1>3. E \in SUBSET Tx
    BY DEF Stored
  <1>4. OrphansOk(r, ns, sb) /\ Stored(r) = S \ E
    BY <1>2, <1>3, EraseLemma
  <1> HIDE DEF S
  <1>5. IsFiniteSet(E)
    BY <1>1, FS_Subset, Zenon
  <1>6. S \cap E = E
    OBVIOUS
  <1>7. Cardinality(S \ E) = Cardinality(S) - Cardinality(S \cap E)
    BY <1>1, FS_Difference, Zenon
  <1>8. Cardinality(Stored(r)) = c - Cardinality(E)
    BY <1>4, <1>6, <1>7
  <1> HIDE DEF c
  <1>9. c - Cardinality(E) <= MaxOrphanTx
    BY <1>1, <1>2, PoolAssumption
  <1>. QED  BY <1>4, <1>8, <1>9

\* Erasing orphans keeps their number within the limit.
LEMMA EraseKeepsLimit ==
    ASSUME NEW m, NEW r, Stored(r) \subseteq Stored(m), Cardinality(Stored(m)) <= MaxOrphanTx
    PROVE  Cardinality(Stored(r)) <= MaxOrphanTx
  <1>1. /\ IsFiniteSet(Stored(m)) /\ Cardinality(Stored(m)) \in Nat
        /\ Cardinality(Stored(r)) \in Nat
    BY StoredFinite
  <1>2. Cardinality(Stored(r)) <= Cardinality(Stored(m))
    BY <1>1, FS_Subset, Zenon
  <1>. QED  BY <1>1, <1>2, PoolAssumption

-----------------------------------------------------------------------------
(* Orphans whose parent was accepted *)

\* What AcceptToMemoryPool answers.
LEMMA VerdictLemma ==
    ASSUME NEW p, NEW cs, NEW h, NEW t
    PROVE  /\ AcceptToMemoryPool(p, cs, h, t) \in {"ok", "missing", "dos", "no"}
           /\ AcceptToMemoryPool(p, cs, h, t) = "dos" => Wrong(t)
  <1>1. AcceptToMemoryPool(p, cs, h, t) \in {"ok", "missing", "dos", "no"}
    BY DEF AcceptToMemoryPool
  <1>2. AcceptToMemoryPool(p, cs, h, t) = "dos" => Wrong(t)
    BY DEF AcceptToMemoryPool, Wrong
  <1>. QED  BY <1>1, <1>2

\* What the breadth-first search keeps: a sound pool, and blame only for peers
\* that sent something wrong.
Searching ==
    {s \in [pool : PoolSet, queue : Seq(Tx), erase : SUBSET Tx, bad : SUBSET Peer] :
        Over(s.pool, chain, Len(chain)) /\ s.bad \subseteq sentBad}

Found(p, q, e, d) == [pool |-> p, queue |-> q, erase |-> e, bad |-> d]

LEMMA FoundLemma ==
    ASSUME NEW p, Over(p, chain, Len(chain)), NEW q \in Seq(Tx), NEW e \in SUBSET Tx,
           NEW d \in SUBSET Peer, d \subseteq sentBad
    PROVE  Found(p, q, e, d) \in Searching
  <1>1. p \in PoolSet
    BY DEF Over, Linked
  <1>. QED  BY <1>1 DEF Found, Searching

LEMMA ResolveOrphanKeeps ==
    ASSUME MarkerUnspent, ChainInv, OrphansOk(orphanMaps, nodes, sentBad),
           NEW s \in Searching, NEW o \in Tx, orphans[o] # NoPeer
    PROVE  ResolveOrphan(s, o) \in Searching
  <1> DEFINE v == AcceptToMemoryPool(s.pool, coins, Len(chain) + 1, o)
             r == ResolveOrphan(s, o)
  <1>1. Len(chain) \in 0 .. Len(chain) /\ coins = RefAt(chain, Len(chain))
    BY ChainFacts DEF ChainInv
  <1>2. /\ Over(s.pool, chain, Len(chain)) /\ s.queue \in Seq(Tx) /\ s.erase \in SUBSET Tx
        /\ s.bad \in SUBSET Peer /\ s.bad \subseteq sentBad
        /\ s = Found(s.pool, s.queue, s.erase, s.bad)
    BY DEF Searching, Found
  <1>3. orphans[o] \in Peer /\ (Wrong(o) => orphans[o] \in sentBad)
    BY DEF OrphansOk, orphanMaps
  <1>4. v \in {"ok", "missing", "dos", "no"} /\ (v = "dos" => Wrong(o))
    BY VerdictLemma
  <1>5. CASE orphans[o] \in s.bad \/ v = "missing"
    <2>1. r = s
      BY <1>5 DEF ResolveOrphan
    <2>. QED  BY <2>1
  <1>6. CASE ~(orphans[o] \in s.bad \/ v = "missing") /\ v = "ok"
    <2>1. r = [s EXCEPT !.pool = addUnchecked(@, o), !.queue = Append(@, o), !.erase = @ \cup {o}]
      BY <1>6 DEF ResolveOrphan
    <2>2. r = Found(addUnchecked(s.pool, o), Append(s.queue, o), s.erase \cup {o}, s.bad)
      BY <1>2, <2>1 DEF Found
    <2>3. Over(addUnchecked(s.pool, o), chain, Len(chain))
      BY <1>1, <1>2, <1>6, AcceptOver
    <2>4. Append(s.queue, o) \in Seq(Tx) /\ s.erase \cup {o} \in SUBSET Tx
      BY <1>2
    <2>. QED  BY <1>2, <2>2, <2>3, <2>4, FoundLemma
  <1>7. CASE ~(orphans[o] \in s.bad \/ v = "missing") /\ v # "ok"
    <2> DEFINE d == IF v = "dos" THEN s.bad \cup {orphans[o]} ELSE s.bad
    <2>1. r = [s EXCEPT !.erase = @ \cup {o}, !.bad = IF v = "dos" THEN @ \cup {orphans[o]} ELSE @]
      BY <1>7 DEF ResolveOrphan
    <2>2. r = Found(s.pool, s.queue, s.erase \cup {o}, d)
      <3> HIDE DEF r, v
      <3>. QED  BY <1>2, <2>1 DEF Found
    <2>3. d \in SUBSET Peer /\ d \subseteq sentBad /\ s.erase \cup {o} \in SUBSET Tx
      <3> HIDE DEF v
      <3>. QED  BY <1>2, <1>3, <1>4
    <2> HIDE DEF d, r
    <2>4. r \in Searching
      BY <1>2, <2>2, <2>3, FoundLemma
    <2>. QED  BY <2>4 DEF r
  <1>. QED  BY <1>5, <1>6, <1>7

LEMMA LevelKeeps ==
    ASSUME MarkerUnspent, ChainInv, OrphansOk(orphanMaps, nodes, sentBad),
           NEW s \in Searching, NEW i \in Nat, i > 0
    PROVE  LevelOp(1, s, i) \in Searching
  <1>1. CASE i > Len(s.queue)
    BY <1>1 DEF LevelOp
  <1>2. CASE ~(i > Len(s.queue))
    <2> DEFINE T == byPrev[s.queue[i]]
               n == Cardinality(T)
               b == SetToSeq(T)
    <2>1. s.queue \in Seq(Tx)
      BY DEF Searching
    <2>2. s.queue[i] \in Tx
      BY <1>2, <2>1
    <2>3. T \subseteq Tx /\ \A o \in T : orphans[o] # NoPeer
      BY <2>2 DEF OrphansOk, orphanMaps
    <2>4. IsFiniteSet(T)
      <3> HIDE DEF T
      <3>. QED  BY <2>3, PoolAssumption, FS_Subset, Zenon
    <2>5. n \in Nat /\ DOMAIN b = 1 .. n /\ \A k \in 1 .. n : b[k] \in T
      <3> HIDE DEF T
      <3>. QED  BY <2>4, SetToSeqLemma
    <2>6. ASSUME NEW q \in Searching, NEW k \in 1 .. n PROVE OrphanOp(1, q, b[k]) \in Searching
      <3>1. b[k] \in Tx /\ orphans[b[k]] # NoPeer
        <4> HIDE DEF T, b, n
        <4>. QED  BY <2>3, <2>5
      <3> HIDE DEF b
      <3>2. ResolveOrphan(q, b[k]) \in Searching
        BY <3>1, ResolveOrphanKeeps
      <3>. QED  BY <3>2 DEF OrphanOp
    <2> HIDE DEF b, n
    <2>7. OrphanFold!LeftFold(1, s, b) \in Searching
      BY <2>5, <2>6, OrphanFold!FoldLeftKeeps, Zenon
    <2>8. FoldLeft(ResolveOrphan, s, b) = OrphanFold!LeftFold(1, s, b)
      BY DEF FoldLeft, MapThenFoldSet, Max, OrphanFold!MapThenFoldSet, OrphanFold!Greatest, OrphanFold!LeftFold, OrphanOp
    <2>. QED  BY <1>2, <2>7, <2>8 DEF LevelOp, b
  <1>. QED  BY <1>1, <1>2

LEMMA ResolveOrphansKeeps ==
    ASSUME MarkerUnspent, ChainInv, OrphansOk(orphanMaps, nodes, sentBad),
           Over(pool, chain, Len(chain)), NEW t \in Tx, Verdict(t) = "ok"
    PROVE  ResolveOrphans(t) \in Searching
  <1> DEFINE n == Cardinality(Tx)
             seq == [i \in 1 .. n |-> i]
             base == Found(addUnchecked(pool, t), <<t>>, {}, {})
  <1>1. n \in Nat /\ DOMAIN seq = 1 .. n
    BY PoolAssumption, FS_CardinalityType
  <1>2. base \in Searching
    <2>1. Len(chain) \in 0 .. Len(chain) /\ coins = RefAt(chain, Len(chain))
      BY ChainFacts DEF ChainInv
    <2>2. Over(addUnchecked(pool, t), chain, Len(chain))
      BY <2>1, AcceptOver DEF Verdict
    <2>3. <<t>> \in Seq(Tx)
      OBVIOUS
    <2>4. {} \in SUBSET Tx /\ {} \in SUBSET Peer /\ {} \subseteq sentBad
      OBVIOUS
    <2>. QED  BY <2>2, <2>3, <2>4, FoundLemma, Zenon
  <1>3. ASSUME NEW s \in Searching, NEW i \in 1 .. n PROVE LevelOp(1, s, seq[i]) \in Searching
    BY <1>1, LevelKeeps
  <1>4. LevelFold!LeftFold(1, base, seq) \in Searching
    <2> HIDE DEF base, seq, n
    <2>. QED  BY <1>1, <1>2, <1>3, LevelFold!FoldLeftKeeps, Zenon
  <1>5. ResolveOrphans(t) = LevelFold!LeftFold(1, base, seq)
    <2>1. ResolveOrphans(t) =
            FoldLeft(LAMBDA s, i : IF i > Len(s.queue) THEN s
                                   ELSE FoldLeft(ResolveOrphan, s, SetToSeq(byPrev[s.queue[i]])),
                     base, seq)
      BY DEF ResolveOrphans, Found
    <2> HIDE DEF base, seq
    <2>2. FoldLeft(LAMBDA s, i : IF i > Len(s.queue) THEN s
                                 ELSE FoldLeft(ResolveOrphan, s, SetToSeq(byPrev[s.queue[i]])),
                   base, seq) = FoldLeft(LAMBDA s, i : LevelOp(1, s, i), base, seq)
      BY DEF LevelOp
    <2>3. FoldLeft(LAMBDA s, i : LevelOp(1, s, i), base, seq) = LevelFold!LeftFold(1, base, seq)
      BY DEF FoldLeft, MapThenFoldSet, Max, LevelFold!MapThenFoldSet, LevelFold!Greatest, LevelFold!LeftFold
    <2>. QED  BY <2>1, <2>2, <2>3
  <1>. QED  BY <1>4, <1>5

-----------------------------------------------------------------------------
(* The inductive invariant *)

\* No block of the chain has an invalid transaction.
GoodChain == \A g \in DOMAIN chain : Range(chain[g]) \cap BadTx = {}

PeersOk ==
    /\ nodes \subseteq Peer /\ sentBad \subseteq nodes /\ shouldBan \subseteq sentBad
    /\ refusal \in [Refusable -> {"none", "lock", "fee"}]

OrphanInv == OrphansOk(orphanMaps, nodes, sentBad) /\ Cardinality(Stored(orphanMaps)) <= MaxOrphanTx

PoolInv == ChainInv /\ GoodChain /\ Over(pool, chain, Len(chain)) /\ OrphanInv /\ PeersOk

LEMMA PoolEta ==
    ASSUME NEW p \in PoolSet
    PROVE  Pool(p.txs, p.next) = p
  BY DEF PoolSet, Pool

\* An empty pool is sound.
LEMMA EmptyPool ==
    ASSUME NEW ch, NEW g
    PROVE  Over(Pool({}, [o \in Outpoint |-> NoTx]), ch, g)
  <1> DEFINE p == Pool({}, [o \in Outpoint |-> NoTx])
  <1>1. p \in PoolSet /\ p.txs = {} /\ p.next = [o \in Outpoint |-> NoTx]
    BY PoolIs
  <1> HIDE DEF p
  <1>2. Over(p, ch, g)
    BY <1>1 DEF Over, Linked
  <1>. QED  BY <1>2 DEF p

\* The pool and the orphans that an action sets.
LEMMA SetPoolOver ==
    ASSUME NEW p, NEW ch, NEW g, Over(p, ch, g), SetPool(p)
    PROVE  Over(pool', ch, g)
  <1>1. p \in PoolSet
    BY DEF Over, Linked
  <1>2. pool' = Pool(p.txs, p.next)
    BY DEF pool, SetPool
  <1>. QED  BY <1>1, <1>2, PoolEta

LEMMA SetOrphansOk ==
    ASSUME NEW m, NEW ns, NEW sb, OrphansOk(m, ns, sb), Cardinality(Stored(m)) <= MaxOrphanTx,
           SetOrphans(m)
    PROVE  OrphansOk(orphanMaps', ns, sb) /\ Cardinality(Stored(orphanMaps')) <= MaxOrphanTx
  <1>1. orphanMaps'.from = m.from /\ orphanMaps'.prev = m.prev
    BY DEF orphanMaps, SetOrphans
  <1>2. Stored(orphanMaps') = Stored(m)
    BY <1>1 DEF Stored
  <1>. QED  BY <1>1, <1>2 DEF OrphansOk

\* More peers that sent something wrong.
LEMMA OrphansOkMore ==
    ASSUME NEW m, NEW ns, NEW sb, OrphansOk(m, ns, sb), NEW sb2, sb \subseteq sb2
    PROVE  OrphansOk(m, ns, sb2)
  BY DEF OrphansOk

LEMMA SameChain ==
    ASSUME MarkerUnspent, ChainInv, GoodChain, UNCHANGED chainVars
    PROVE  ChainInv' /\ GoodChain'
  <1>1. UNCHANGED vars
    BY DEF chainVars, vars
  <1>2. ChainInv'
    BY <1>1, ChainInvNext
  <1>. QED  BY <1>2 DEF GoodChain, chainVars

LEMMA PoolInvInit == PoolInit => PoolInv
  <1> SUFFICES ASSUME PoolInit PROVE PoolInv
    OBVIOUS
  <1>1. ChainInv
    BY ChainInvInit DEF PoolInit
  <1>2. GoodChain
    BY DEF PoolInit, Init, GoodChain
  <1>3. Over(pool, chain, Len(chain))
    BY EmptyPool DEF PoolInit, pool
  <1>4. OrphanInv
    <2>1. Stored(orphanMaps) = {}
      BY DEF PoolInit, orphanMaps, Stored
    <2>2. Cardinality({}) = 0
      BY FS_EmptySet
    <2>3. Cardinality(Stored(orphanMaps)) <= MaxOrphanTx
      BY <2>1, <2>2, PoolAssumption
    <2>4. OrphansOk(orphanMaps, nodes, sentBad)
      BY DEF PoolInit, OrphansOk, orphanMaps
    <2>. QED  BY <2>3, <2>4 DEF OrphanInv
  <1>5. PeersOk
    BY DEF PoolInit, PeersOk
  <1>. QED  BY <1>1, <1>2, <1>3, <1>4, <1>5 DEF PoolInv

LEMMA PoolInvConnect ==
    ASSUME MarkerUnspent, PoolInv, Len(chain) < MaxHeight,
           NEW b \in BlockAt(Len(chain) + 1), PoolConnectTip(b)
    PROVE  PoolInv'
  <1> DEFINE L == Len(chain)
             h == L + 1
             r == ApplyBlock(coins, b, h)
  <1>1. ChainInv' /\ ChainInv
    BY ChainInvConnect DEF PoolInv, PoolConnectTip
  <1>2. L \in Nat /\ DOMAIN chain = 1 .. L /\ chain \in Seq(Block) /\ b \in Block
    BY ChainFacts, BlockLemma DEF PoolInv, ChainInv, Shape
  <1>3. r.ok /\ chain' = Append(chain, b)
    BY DEF PoolConnectTip, ConnectTip
  <1>4. /\ Len(chain') = h /\ DOMAIN chain' = 1 .. h /\ 1 .. h = (1 .. L) \cup {h}
        /\ \A k \in 1 .. L : chain'[k] = chain[k]
        /\ chain'[h] = b
    BY <1>2, <1>3
  <1>5. Over(removeForBlock(pool, b), chain', h)
    <2> HIDE DEF r
    <2>. QED  BY <1>3, <1>4, ConnectOver DEF PoolInv, r
  <1>6. Over(pool', chain', h)
    BY <1>5, SetPoolOver DEF PoolConnectTip
  <1>7. GoodChain'
    <2>1. Range(b) \cap BadTx = {}
      BY DEF PoolConnectTip
    <2>. QED  BY <1>2, <1>4, <2>1 DEF GoodChain, PoolInv
  <1>8. OrphanInv' /\ PeersOk'
    BY DEF PoolInv, PoolConnectTip, OrphanInv, PeersOk, orphanVars, peerVars, orphanMaps
  <1>. QED  BY <1>1, <1>4, <1>6, <1>7, <1>8 DEF PoolInv

\* DisconnectTip always takes the tip off.
LEMMA DisconnectIs ==
    ASSUME MarkerUnspent, ChainInv, PoolDisconnectTip
    PROVE  LET h == Len(chain)
               cs == RefAt(chain, h - 1)
           IN  /\ h \in Nat /\ h > 0 /\ DOMAIN chain = 1 .. h
               /\ Len(chain') = h - 1 /\ DOMAIN chain' = 1 .. h - 1
               /\ \A k \in 1 .. h - 1 : chain'[k] = chain[k]
               /\ SetPool(removeCoinbaseSpends(Resurrect(pool, cs, h, chain[h]), cs, h))
  <1> DEFINE h == Len(chain)
             L == h - 1
             r == UndoBlock(coins, chain[h], undoData[h], h)
  <1>1. h > 0 /\ h \in Nat /\ DOMAIN chain = 1 .. h
    BY ChainFacts DEF PoolDisconnectTip, DisconnectTip
  <1>2. r = Undone(RefAt(chain, L), TRUE)
    BY <1>1, TipUndo
  <1>3. r.clean /\ r.coins = RefAt(chain, L)
    BY <1>2 DEF Undone
  <1>4. coins' = RefAt(chain, L) /\ chain' = Front(chain)
    BY <1>3 DEF PoolDisconnectTip, DisconnectTip
  <1> HIDE DEF r
  <1>5. /\ Len(chain') = L /\ DOMAIN chain' = 1 .. L
        /\ \A k \in 1 .. L : chain'[k] = chain[k]
    BY <1>1, <1>4 DEF ChainInv, Shape, Front
  <1>6. Len(chain') < h
    BY <1>1, <1>5
  <1>7. SetPool(removeCoinbaseSpends(Resurrect(pool, coins', h, chain[h]), coins', h))
    BY <1>6, Zenon DEF PoolDisconnectTip
  <1>. QED  BY <1>1, <1>4, <1>5, <1>7

\* The tip that is disconnected, and a set D that may be dropped.
LEMMA TipLemma ==
    ASSUME MarkerUnspent, ChainInv, Len(chain) > 0, Over(pool, chain, Len(chain)),
           NEW D, Closed(D), \A t \in Range(chain[Len(chain)]) : Unwelcome(t) => t \in D
    PROVE  \E n \in Nat : Tip(pool, chain[Len(chain)], n, RefAt(chain, Len(chain) - 1), D)
  <1> DEFINE h == Len(chain)
             b == chain[h]
             cs == RefAt(chain, h - 1)
  <1>1. h \in Nat /\ h # 0 /\ DOMAIN chain = 1 .. h
    BY ChainFacts
  <1>2. h \in 1 .. h /\ h - 1 \in 0 .. h
    BY <1>1
  <1>3. Sound(cs) /\ b \in BlockAt(h)
    BY <1>1, <1>2, ChainFacts DEF ChainInv, Shape
  <1>4. ApplyBlock(cs, b, h) = Applied(RefAt(chain, h), undoData[h], TRUE)
    BY <1>1, <1>2 DEF ChainInv, Replayed
  <1>5. ApplyBlock(cs, b, h).ok
    BY <1>4 DEF Applied
  <1>6. PICK n \in Nat : Checked(cs, b, n, h)
    <2> HIDE DEF cs, b, h
    <2>. QED  BY <1>1, <1>3, <1>5, BlockChecked
  <1>7. \A i \in 1 .. n : b[i] \in Range(b)
    BY <1>6 DEF Checked, Range
  <1>8. Tip(pool, b, n, cs, D)
    BY <1>6, <1>7 DEF Tip
  <1>. QED  BY <1>8

LEMMA PoolInvDisconnect ==
    ASSUME MarkerUnspent, PoolInv, PoolDisconnectTip
    PROVE  PoolInv'
  <1> DEFINE h == Len(chain)
             L == h - 1
             b == chain[h]
             cs == RefAt(chain, L)
             r == removeCoinbaseSpends(Resurrect(pool, cs, h, b), cs, h)
  <1>1. ChainInv /\ ChainInv'
    BY ChainInvDisconnect DEF PoolInv, PoolDisconnectTip
  <1>2. /\ h \in Nat /\ h > 0 /\ DOMAIN chain = 1 .. h
        /\ Len(chain') = L /\ DOMAIN chain' = 1 .. L
        /\ \A k \in 1 .. L : chain'[k] = chain[k]
        /\ SetPool(r)
    BY <1>1, DisconnectIs
  <1>3. Closed(Tx)
    BY DEF Closed
  <1>4. \A t \in Range(b) : t \in Tx
    <2>1. b \in Block
      BY <1>1, <1>2 DEF ChainInv, Shape
    <2>. QED  BY <2>1 DEF Block, Range
  <1>5. PICK n \in Nat : Tip(pool, b, n, cs, Tx)
    BY <1>1, <1>2, <1>3, <1>4, TipLemma DEF PoolInv
  <1>6. Over(r, chain, L)
    <2> HIDE DEF cs, b
    <2>. QED  BY <1>1, <1>5, DisconnectOver
  <1>7. Over(pool', chain, L)
    <2> HIDE DEF r
    <2>. QED  BY <1>2, <1>6, SetPoolOver
  <1>8. RefAt(chain', L) = RefAt(chain, L)
    BY <1>2, RefAtPrefix
  <1>9. Confirmed(chain', L) = Confirmed(chain, L)
    BY <1>2 DEF Confirmed
  <1>10. Over(pool', chain', L)
    BY <1>7, <1>8, <1>9 DEF Over
  <1>11. GoodChain'
    <2>1. \A k \in 1 .. L : k \in 1 .. h
      BY <1>2
    <2>. QED  BY <1>2, <2>1 DEF GoodChain, PoolInv
  <1>12. OrphanInv' /\ PeersOk'
    BY DEF PoolInv, PoolDisconnectTip, OrphanInv, PeersOk, orphanVars, peerVars, orphanMaps
  <1>. QED  BY <1>1, <1>2, <1>10, <1>11, <1>12 DEF PoolInv

LEMMA PoolInvProcessTx ==
    ASSUME MarkerUnspent, PoolInv, NEW p \in Peer, NEW t \in Tx, ProcessTx(p, t)
    PROVE  PoolInv'
  <1>1. /\ ChainInv /\ GoodChain /\ Over(pool, chain, Len(chain))
        /\ OrphansOk(orphanMaps, nodes, sentBad) /\ Cardinality(Stored(orphanMaps)) <= MaxOrphanTx
        /\ PeersOk
    BY DEF PoolInv, OrphanInv
  <1>2. /\ p \in nodes /\ UNCHANGED chainVars /\ nodes' = nodes /\ refusal' = refusal
        /\ sentBad' = IF Wrong(t) THEN sentBad \cup {p} ELSE sentBad
    BY DEF ProcessTx, Wrong
  <1>3. ChainInv' /\ GoodChain' /\ chain' = chain
    BY <1>1, <1>2, SameChain DEF chainVars
  <1>4. sentBad \subseteq sentBad' /\ sentBad' \subseteq nodes' /\ (Wrong(t) => p \in sentBad')
    BY <1>1, <1>2 DEF PeersOk
  <1>5. OrphansOk(orphanMaps, nodes, sentBad')
    BY <1>1, <1>4, OrphansOkMore
  <1>6. ASSUME Over(pool', chain, Len(chain)), OrphansOk(orphanMaps', nodes, sentBad'),
               Cardinality(Stored(orphanMaps')) <= MaxOrphanTx, shouldBan' \subseteq sentBad'
        PROVE  PoolInv'
    <2>1. OrphanInv'
      BY <1>2, <1>6 DEF OrphanInv
    <2>2. PeersOk'
      BY <1>1, <1>2, <1>4, <1>6 DEF PeersOk
    <2>. QED  BY <1>3, <1>6, <2>1, <2>2 DEF PoolInv
  <1>7. CASE TxAccepted(p, t)
    <2> DEFINE r == ResolveOrphans(t)
               m == EraseOrphanTxs(orphanMaps, r.erase)
    <2>1. Verdict(t) = "ok" /\ SetPool(r.pool) /\ SetOrphans(m) /\ Misbehaving(r.bad)
      BY <1>7, Zenon DEF TxAccepted
    <2>2. r \in Searching
      BY <1>1, <2>1, ResolveOrphansKeeps
    <2> HIDE DEF r
    <2>3. Over(r.pool, chain, Len(chain)) /\ r.erase \in SUBSET Tx /\ r.bad \subseteq sentBad
      BY <2>2 DEF Searching
    <2>4. Over(pool', chain, Len(chain))
      BY <2>1, <2>3, SetPoolOver
    <2>5. OrphansOk(m, nodes, sentBad') /\ Stored(m) = Stored(orphanMaps) \ r.erase
      BY <1>5, <2>3, EraseLemma
    <2> HIDE DEF m
    <2>6. Stored(m) \subseteq Stored(orphanMaps)
      BY <2>5
    <2>7. Cardinality(Stored(m)) <= MaxOrphanTx
      BY <1>1, <2>6, EraseKeepsLimit
    <2>8. OrphansOk(orphanMaps', nodes, sentBad') /\ Cardinality(Stored(orphanMaps')) <= MaxOrphanTx
      BY <2>1, <2>5, <2>7, SetOrphansOk
    <2>9. shouldBan' \subseteq sentBad'
      BY <1>1, <1>4, <2>1, <2>3 DEF Misbehaving, PeersOk
    <2>. QED  BY <1>6, <2>4, <2>8, <2>9
  <1>8. CASE TxMissingInputs(p, t)
    <2>1. PICK m \in LimitOrphanTxSize(AddOrphanTx(orphanMaps, t, p)) : SetOrphans(m)
      BY <1>8 DEF TxMissingInputs
    <2>2. pool' = pool /\ shouldBan' = shouldBan
      BY <1>8 DEF TxMissingInputs, poolVars, pool
    <2>3. OrphansOk(AddOrphanTx(orphanMaps, t, p), nodes, sentBad')
      BY <1>2, <1>4, <1>5, AddOrphanLemma
    <2>4. OrphansOk(m, nodes, sentBad') /\ Cardinality(Stored(m)) <= MaxOrphanTx
      BY <2>3, LimitLemma
    <2>5. OrphansOk(orphanMaps', nodes, sentBad') /\ Cardinality(Stored(orphanMaps')) <= MaxOrphanTx
      BY <2>1, <2>4, SetOrphansOk
    <2>6. shouldBan' \subseteq sentBad'
      BY <1>1, <1>4, <2>2 DEF PeersOk
    <2>. QED  BY <1>1, <1>6, <2>2, <2>5, <2>6
  <1>9. CASE TxRefused(p, t)
    <2>1. /\ pool' = pool /\ orphanMaps' = orphanMaps
          /\ Misbehaving(IF Verdict(t) = "dos" THEN {p} ELSE {})
      BY <1>9 DEF TxRefused, poolVars, orphanVars, pool, orphanMaps
    <2>2. Verdict(t) = "dos" => Wrong(t)
      BY VerdictLemma DEF Verdict
    <2>3. shouldBan' \subseteq sentBad'
      BY <1>1, <1>4, <2>1, <2>2 DEF Misbehaving, PeersOk
    <2>. QED  BY <1>1, <1>5, <1>6, <2>1, <2>3
  <1>. QED  BY <1>7, <1>8, <1>9 DEF ProcessTx

LEMMA PoolInvFinalizeNode ==
    ASSUME MarkerUnspent, PoolInv, NEW p \in Peer, FinalizeNode(p)
    PROVE  PoolInv'
  <1> DEFINE E == {t \in Tx : orphanMaps.from[t] = p}
             m == EraseOrphanTxs(orphanMaps, E)
             ns == nodes \ {p}
             sb == sentBad \ {p}
  <1>1. /\ nodes' = ns /\ shouldBan' = shouldBan \ {p} /\ sentBad' = sb
        /\ SetOrphans(m) /\ UNCHANGED <<chainVars, poolVars, refusal>>
    BY DEF FinalizeNode, EraseOrphansFor
  <1>2. OrphansOk(orphanMaps, nodes, sentBad) /\ Cardinality(Stored(orphanMaps)) <= MaxOrphanTx
    BY DEF PoolInv, OrphanInv
  <1>3. /\ OrphansOk(m, nodes, sentBad) /\ Stored(m) = Stored(orphanMaps) \ E
        /\ \A t \in Tx : m.from[t] = IF t \in E THEN NoPeer ELSE orphanMaps.from[t]
    BY <1>2, EraseLemma
  <1>4. \A t \in Tx : m.from[t] # p
    BY <1>3, PoolAssumption
  <1> HIDE DEF m
  <1>5. OrphansOk(m, ns, sb)
    BY <1>3, <1>4 DEF OrphansOk
  <1>6. Stored(m) \subseteq Stored(orphanMaps)
    BY <1>3
  <1>7. Cardinality(Stored(m)) <= MaxOrphanTx
    BY <1>2, <1>6, EraseKeepsLimit
  <1>8. OrphanInv'
    <2> HIDE DEF ns, sb
    <2>1. OrphansOk(orphanMaps', ns, sb) /\ Cardinality(Stored(orphanMaps')) <= MaxOrphanTx
      BY <1>1, <1>5, <1>7, SetOrphansOk
    <2>. QED  BY <1>1, <2>1 DEF OrphanInv
  <1>9. PeersOk'
    BY <1>1 DEF PoolInv, PeersOk
  <1>10. ChainInv' /\ GoodChain' /\ chain' = chain /\ pool' = pool
    BY <1>1, SameChain DEF PoolInv, chainVars, poolVars, pool
  <1>. QED  BY <1>8, <1>9, <1>10 DEF PoolInv

\* The actions that only touch the pool, the peers or the policy.
LEMMA PoolInvOther ==
    ASSUME MarkerUnspent, PoolInv,
           \/ \E p \in Peer : InitializeNode(p) \/ SendMessagesBan(p)
           \/ \E t \in Tx : LocalTx(t)
           \/ ClearPool
           \/ ChangePolicy
           \/ UNCHANGED allVars
    PROVE  PoolInv'
  <1>1. UNCHANGED chainVars /\ UNCHANGED orphanVars
    BY DEF InitializeNode, SendMessagesBan, LocalTx, ClearPool, ChangePolicy, allVars
  <1>2. ChainInv' /\ GoodChain' /\ chain' = chain
    BY <1>1, SameChain DEF PoolInv, chainVars
  <1>3. orphanMaps' = orphanMaps
    BY <1>1 DEF orphanVars, orphanMaps
  <1>4. Over(pool', chain, Len(chain))
    <2>1. CASE \E t \in Tx : LocalTx(t)
      <3>1. PICK t \in Tx : LocalTx(t)
        BY <2>1
      <3>2. Len(chain) \in 0 .. Len(chain) /\ coins = RefAt(chain, Len(chain))
        BY ChainFacts DEF PoolInv, ChainInv
      <3>3. Over(addUnchecked(pool, t), chain, Len(chain))
        BY <3>1, <3>2, AcceptOver DEF PoolInv, LocalTx, Verdict
      <3>. QED  BY <3>1, <3>3, SetPoolOver DEF LocalTx
    <2>2. CASE ClearPool
      BY <2>2, EmptyPool, SetPoolOver DEF ClearPool
    <2>3. CASE UNCHANGED poolVars
      BY <2>3 DEF poolVars, pool, PoolInv
    <2>. QED  BY <2>1, <2>2, <2>3 DEF InitializeNode, SendMessagesBan, ChangePolicy, allVars
  <1>5. nodes \subseteq nodes' /\ sentBad' = sentBad /\ PeersOk'
    BY DEF InitializeNode, SendMessagesBan, LocalTx, ClearPool, ChangePolicy, allVars, peerVars,
           PoolInv, PeersOk
  <1>6. OrphanInv'
    BY <1>3, <1>5 DEF PoolInv, OrphanInv, OrphansOk
  <1>. QED  BY <1>2, <1>4, <1>5, <1>6 DEF PoolInv

LEMMA PoolInvNext ==
    ASSUME MarkerUnspent, PoolInv, [PoolNext]_allVars
    PROVE  PoolInv'
  <1>1. ASSUME Len(chain) < MaxHeight, NEW b \in BlockAt(Len(chain) + 1), PoolConnectTip(b)
        PROVE  PoolInv'
    BY <1>1, PoolInvConnect
  <1>2. ASSUME PoolDisconnectTip PROVE PoolInv'
    BY <1>2, PoolInvDisconnect
  <1>3. ASSUME NEW p \in Peer, FinalizeNode(p) PROVE PoolInv'
    BY <1>3, PoolInvFinalizeNode
  <1>4. ASSUME NEW p \in Peer, NEW t \in Tx, ProcessTx(p, t) PROVE PoolInv'
    BY <1>4, PoolInvProcessTx
  <1>. QED  BY <1>1, <1>2, <1>3, <1>4, PoolInvOther DEF PoolNext

\* The inductive invariant holds of every behaviour.
THEOREM PoolInvAlways ==
    ASSUME MarkerUnspent
    PROVE  PoolSpec => []PoolInv
  <1>1. PoolInit => PoolInv
    BY PoolInvInit
  <1>2. PoolInv /\ [PoolNext]_allVars => PoolInv'
    BY PoolInvNext
  <1>. QED  BY <1>1, <1>2, PTL DEF PoolSpec

\* The assertions of CTxMemPool::check follow.
LEMMA PoolInvCheck ==
    ASSUME MarkerUnspent, PoolInv
    PROVE  MempoolCheck
  <1>1. Len(chain) \in Nat /\ coins = RefAt(chain, Len(chain))
    BY ChainFacts DEF PoolInv, ChainInv
  <1>2. pool.txs = mapTx /\ pool.next = mapNextTx /\ Over(pool, chain, Len(chain))
    BY DEF pool, Pool, PoolInv
  <1>3. PoolTypeOK
    BY <1>2 DEF PoolTypeOK, PoolInv, OrphanInv, OrphansOk, orphanMaps, PeersOk, Over, Linked, PoolSet
  <1>4. \A o \in Outpoint : mapNextTx[o] # NoTx => mapNextTx[o] \in mapTx /\ o \in InputSet(mapNextTx[o])
    BY <1>2 DEF Over, Linked
  <1>5. \A t \in mapTx : \A o \in InputSet(t) : mapNextTx[o] = t
    BY <1>2 DEF Over, Linked
  <1>6. ASSUME NEW t \in mapTx PROVE PoolHaveInputs(pool, coins, t) /\ PoolMature(pool, coins, t, Len(chain) + 1)
    <2>1. t \in Tx
      BY <1>3 DEF PoolTypeOK
    <2>2. \A o \in InputSet(t) : o[2] \in Outs[o[1]]
      BY <2>1, InputSetLemma, OutpointLemma
    <2>3. \A o \in InputSet(t) : o[1] \in pool.txs \/ Avail(coins, Len(chain) + 1, o)
      BY <1>1, <1>2 DEF Over, Supplied
    <2>. QED  BY <2>2, <2>3 DEF PoolHaveInputs, PoolMature, Avail, Ripe
  <1>7. ASSUME NEW t \in mapTx PROVE coins[t].vout = {}
    <2>1. t \in Tx /\ t \notin Confirmed(chain, Len(chain))
      BY <1>2, <1>3 DEF PoolTypeOK, Over
    <2>2. Created(chain, Len(chain), t) = {}
      BY <2>1 DEF Created, Confirmed
    <2>3. coins[t] = Cleared
      BY <1>1, <2>1, <2>2, RefAtAt DEF CoinAt
    <2>. QED  BY <2>3 DEF Cleared
  <1>. QED  BY <1>3, <1>4, <1>5, <1>6, <1>7 DEF MempoolCheck

\* The pool passes CTxMemPool::check after every block, conflict, reorganisation,
\* orphan and policy change: mapNextTx and mapTx agree, and every pool
\* transaction could go into the next block after its pool parents.
THEOREM MempoolCheckAlways ==
    ASSUME MarkerUnspent
    PROVE  PoolSpec => []MempoolCheck
  <1>1. PoolInv => MempoolCheck
    BY PoolInvCheck
  <1>. QED  BY <1>1, PoolInvAlways, PTL

\* AddOrphanTx, EraseOrphanTx, EraseOrphansFor and LimitOrphanTxSize keep the two
\* maps of orphans consistent and bounded, and no orphan outlives the state of
\* the peer that sent it.
THEOREM OrphanMapsSoundAlways ==
    ASSUME MarkerUnspent
    PROVE  PoolSpec => []OrphanMapsSound
  <1>1. PoolInv => OrphanMapsSound
    BY DEF PoolInv, OrphanInv, OrphansOk, orphanMaps, OrphanMapsSound, Stored
  <1>. QED  BY <1>1, PoolInvAlways, PTL

\* The tx message punishes only peers that sent an invalid transaction, whatever
\* parent makes an orphan of theirs come up.
THEOREM PunishedPeersSentBadAlways ==
    ASSUME MarkerUnspent
    PROVE  PoolSpec => []PunishedPeersSentBad
  <1>1. PoolInv => PunishedPeersSentBad
    BY DEF PoolInv, PeersOk, PunishedPeersSentBad
  <1>. QED  BY <1>1, PoolInvAlways, PTL

-----------------------------------------------------------------------------
(* Nothing is lost when the tip is disconnected *)

\* What MayDrop starts from.
DropRoots(b) ==
    {t \in Range(b) : Kind[t] # "normal" \/ (t \in Refusable /\ refusal[t] # "none")}
      \cup {t \in mapTx : \E o \in InputSet(t) :
              Kind[o[1]] # "normal" /\ Len(chain) - coins[o[1]].nHeight < COINBASE_MATURITY}

LEMMA MayDropLemma ==
    ASSUME NEW b, DropRoots(b) \subseteq Tx
    PROVE  DropRoots(b) \subseteq MayDrop(b) /\ Closed(MayDrop(b))
  <1> DEFINE R == DropRoots(b)
             N == Cardinality(Tx)
             seq == [i \in 1 .. N |-> i]
             F == [T \in SUBSET Tx |-> DropOp(1, T, 1)]
             D == MayDrop(b)
  <1>1. IsFiniteSet(Tx) /\ N \in Nat
    BY PoolAssumption, FS_CardinalityType
  <1>2. F \in [SUBSET Tx -> SUBSET Tx] /\ \A T \in SUBSET Tx : T \subseteq F[T]
    BY DEF DropOp
  <1> HIDE DEF R
  <1>3. PICK st : DropFold!LeftSteps(1, R, N, seq, st)
    <2>1. DOMAIN seq = 1 .. N
      OBVIOUS
    <2> HIDE DEF seq, N
    <2>. QED  BY <1>1, <2>1, DropFold!FoldLeftSteps, Zenon
  <1>4. D = st[N]
    <2>1. D = FoldLeft(LAMBDA S, i : S \cup {t \in Tx : Parents(t) \cap S # {}}, R, seq)
      BY DEF MayDrop, DropRoots, R
    <2> HIDE DEF seq, D
    <2>2. FoldLeft(LAMBDA S, i : S \cup {t \in Tx : Parents(t) \cap S # {}}, R, seq)
            = DropFold!LeftFold(1, R, seq)
      BY DEF FoldLeft, MapThenFoldSet, Max, DropFold!MapThenFoldSet,
             DropFold!Greatest, DropFold!LeftFold, DropOp
    <2>. QED  BY <1>3, <2>1, <2>2 DEF DropFold!LeftSteps
  <1> HIDE DEF D
  <1>5. R \subseteq D /\ D \in SUBSET Tx /\ F[D] = D
    <2> HIDE DEF F
    <2>1. st[0] = R /\ \A i \in 1 .. N : st[i] = DropOp(1, st[i - 1], i)
      BY <1>3 DEF DropFold!LeftSteps
    <2>2. st[0] \in SUBSET Tx
      BY <2>1 DEF R
    <2>3. \A i \in 0 .. N : st[i] \in SUBSET Tx
      <3> DEFINE S == {i \in 0 .. N : st[i] \in SUBSET Tx}
      <3>1. 0 \in S
        BY <1>1, <2>2
      <3>2. ASSUME NEW i \in 0 .. N - 1, i \in S PROVE i + 1 \in S
        <4>1. i + 1 \in 1 .. N /\ i + 1 \in 0 .. N /\ (i + 1) - 1 = i
          BY <1>1
        <4>2. st[i + 1] = DropOp(1, st[i], i + 1) /\ st[i] \in SUBSET Tx
          BY <2>1, <3>2, <4>1
        <4>. QED  BY <4>1, <4>2 DEF DropOp
      <3> HIDE DEF S
      <3>3. \A i \in 0 .. N : i \in S
        BY <1>1, <3>1, <3>2, DropFold!Induction, Zenon
      <3>. QED  BY <3>3 DEF S
    <2>4. ASSUME NEW i \in 1 .. N PROVE st[i] = F[st[i - 1]]
      <3>1. st[i - 1] \in SUBSET Tx
        BY <1>1, <2>3
      <3>. QED  BY <2>1, <3>1 DEF F, DropOp
    <2> HIDE DEF N
    <2>5. st[0] \subseteq st[N] /\ st[N] \in SUBSET Tx /\ F[st[N]] = st[N]
      BY <1>1, <1>2, <2>2, <2>4, StepsClose DEF N
    <2>. QED  BY <1>4, <2>1, <2>5
  <1>6. ASSUME NEW t \in Tx, NEW o \in InputSet(t), o[1] \in D PROVE t \in D
    <2>1. o[1] \in Parents(t)
      BY DEF Parents
    <2>2. t \in DropOp(1, D, 1)
      BY <1>6, <2>1 DEF DropOp
    <2>. QED  BY <1>5, <2>2 DEF F
  <1>7. Closed(D)
    BY <1>5, <1>6 DEF Closed
  <1>. QED  BY <1>5, <1>7 DEF R, D

LEMMA ReorgStep ==
    ASSUME MarkerUnspent, PoolInv, [PoolNext]_allVars, Len(chain') < Len(chain)
    PROVE  (mapTx \cup Range(Last(chain))) \ mapTx' \subseteq MayDrop(Last(chain))
  <1> DEFINE h == Len(chain)
             b == chain[h]
             cs == RefAt(chain, h - 1)
             D == MayDrop(b)
             r == removeCoinbaseSpends(Resurrect(pool, cs, h, b), cs, h)
  <1>1. h \in Nat /\ DOMAIN chain = 1 .. h /\ chain \in Seq(Block)
    BY ChainFacts DEF PoolInv, ChainInv, Shape
  <1>2. PoolDisconnectTip
    <2>1. ASSUME NEW b2 \in BlockAt(Len(chain) + 1), PoolConnectTip(b2) PROVE FALSE
      <3>1. chain' = Append(chain, b2)
        BY <2>1 DEF PoolConnectTip, ConnectTip
      <3>2. b2 \in Block
        BY BlockLemma
      <3>3. Len(chain') = h + 1
        BY <1>1, <3>1, <3>2
      <3>. QED  BY <1>1, <3>3
    <2>2. chain' # chain
      BY <1>1
    <2>. QED  BY <2>1, <2>2 DEF PoolNext, InitializeNode, FinalizeNode, SendMessagesBan, ProcessTx,
                  LocalTx, ClearPool, ChangePolicy, chainVars, allVars
  <1>3. h > 0 /\ SetPool(r)
    BY <1>2, DisconnectIs DEF PoolInv
  <1>4. Last(chain) = b
    BY DEF Last
  <1>5. h \in 1 .. h /\ b \in Block
    BY <1>1, <1>3
  <1>6. Range(b) \subseteq Tx /\ Range(b) \cap BadTx = {}
    <2>1. Range(b) \subseteq Tx
      BY <1>5 DEF Block, Range
    <2>. QED  BY <1>1, <1>5, <2>1 DEF PoolInv, GoodChain
  <1>7. mapTx \subseteq Tx /\ pool.txs = mapTx /\ Over(pool, chain, h)
    BY DEF PoolInv, Over, Linked, PoolSet, pool, Pool
  <1>8. DropRoots(b) \subseteq D /\ Closed(D)
    <2>1. DropRoots(b) \subseteq Tx
      BY <1>6, <1>7 DEF DropRoots
    <2>. QED  BY <2>1, MayDropLemma
  <1> HIDE DEF D
  <1>9. \A t \in Range(b) : Unwelcome(t) => t \in D
    <2>1. ASSUME NEW t \in Range(b), Unwelcome(t) PROVE t \in DropRoots(b)
      BY <1>6, <2>1 DEF Unwelcome, Refused, DropRoots
    <2>. QED  BY <1>8, <2>1
  <1>10. \A u \in pool.txs : \A o \in InputSet(u) :
           Kind[o[1]] # "normal" /\ h - coins[o[1]].nHeight < COINBASE_MATURITY => u \in D
    <2>1. ASSUME NEW u \in mapTx, NEW o \in InputSet(u), Kind[o[1]] # "normal",
                 h - coins[o[1]].nHeight < COINBASE_MATURITY
          PROVE  u \in DropRoots(b)
      BY <2>1 DEF DropRoots
    <2>. QED  BY <1>7, <1>8, <2>1
  <1>11. PICK n \in Nat : Tip(pool, b, n, cs, D)
    BY <1>3, <1>7, <1>8, <1>9, TipLemma DEF PoolInv
  <1>12. /\ \A u \in pool.txs : u \in r.txs \/ u \in D
         /\ \A i \in 1 .. n : b[i] \in r.txs \/ b[i] \in D
    <2> HIDE DEF b, cs
    <2>. QED  BY <1>10, <1>11, DisconnectDrops DEF PoolInv
  <1>13. DOMAIN b = 1 .. n
    BY <1>11 DEF Tip, Checked
  <1>14. mapTx' = r.txs
    <2> HIDE DEF r
    <2>. QED  BY <1>3 DEF SetPool
  <1> HIDE DEF r
  <1>15. \A u \in Range(b) : u \in r.txs \/ u \in D
    <2> HIDE DEF b
    <2>. QED  BY <1>12, <1>13 DEF Range
  <1>. QED  BY <1>4, <1>7, <1>12, <1>14, <1>15 DEF D

\* DisconnectTip loses no transaction of the block or of the pool, except what
\* MayDrop lists: what policy refuses, what spends an immature coinbase or
\* coinstake, and their descendants.
THEOREM ReorgKeepsTransactionsAlways ==
    ASSUME MarkerUnspent
    PROVE  PoolSpec => ReorgKeepsTransactions
  <1> DEFINE A == Len(chain') < Len(chain) =>
                    (mapTx \cup Range(Last(chain))) \ mapTx' \subseteq MayDrop(Last(chain))
  <1>1. PoolInv /\ [PoolNext]_allVars => A
    BY ReorgStep
  <1>2. ReorgKeepsTransactions <=> [][A]_allVars
    BY DEF ReorgKeepsTransactions
  <1> HIDE DEF A
  <1>3. PoolInv /\ [PoolNext]_allVars => [A]_allVars
    BY <1>1
  <1>. QED  BY <1>2, <1>3, PoolInvAlways, PTL DEF PoolSpec
=============================================================================
