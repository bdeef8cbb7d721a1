--------------------------- MODULE AddrManProofs ---------------------------
(***************************************************************************)
(* Proofs about AddrMan: what Check_ tests holds after every operation and *)
(* every restart, no address that answered is lost, and peers.dat keeps    *)
(* every address in its place.                                             *)
(***************************************************************************)
EXTENDS AddrMan, FiniteSetTheorems, TLAPS

Ids(m) == DOMAIN m.mapInfo

Info ==
    [addr : Addr, source : Source, nRefCount : Nat, fInTried : BOOLEAN, success : BOOLEAN,
     nRandomPos : Nat]

InfoMaps == UNION {[S -> Info] : S \in SUBSET Nat}

AddrMans ==
    [mapInfo : InfoMaps, mapAddr : [Addr -> Int], vRandom : Seq(Nat),
     vvNew : [NewSlot -> Int], vvTried : [KSlot -> Int], nNew : Int, nTried : Int, nIdCount : Nat]

\* The parts of the inductive invariant.  X has the entries that an operation
\* has taken out of the tables and not put back yet; c counts those that nNew
\* does not count.
Types(m) ==
    /\ m \in AddrMans
    /\ Ids(m) \subseteq 0 .. m.nIdCount - 1 /\ m.nIdCount <= MaxId

\* vRandom is a permutation of the entries, and each entry knows its place.
Random(m) ==
    /\ Len(m.vRandom) = Cardinality(Ids(m))
    /\ \A id \in Ids(m) : /\ m.mapInfo[id].nRandomPos \in 1 .. Len(m.vRandom)
                          /\ m.vRandom[m.mapInfo[id].nRandomPos] = id
    /\ \A i \in 1 .. Len(m.vRandom) : /\ m.vRandom[i] \in Ids(m)
                                      /\ m.mapInfo[m.vRandom[i]].nRandomPos = i

\* mapAddr finds every entry and no other.
AddrOk(m) ==
    /\ \A a \in Addr : m.mapAddr[a] # -1 => m.mapAddr[a] \in Ids(m) /\ m.mapInfo[m.mapAddr[a]].addr = a
    /\ \A id \in Ids(m) : m.mapAddr[m.mapInfo[id].addr] = id

\* A tried entry answered once and lies in its one slot.
TriedOk(m) ==
    /\ \A id \in TriedIds(m) : /\ m.mapInfo[id].success /\ m.mapInfo[id].nRefCount = 0
                               /\ m.vvTried[TriedSlot[m.mapInfo[id].addr]] = id
    /\ \A k \in KSlot : m.vvTried[k] # -1 =>
          m.vvTried[k] \in TriedIds(m) /\ TriedSlot[m.mapInfo[m.vvTried[k]].addr] = k

\* Any other entry lies in as many slots as it counts, each of them its own; at
\* least one, but for those of X.
NewOk(m, X) ==
    /\ X \subseteq Ids(m) \ TriedIds(m)
    /\ \A id \in Ids(m) \ TriedIds(m) :
          /\ IsFiniteSet(SlotsOf(m, id))
          /\ m.mapInfo[id].nRefCount = Cardinality(SlotsOf(m, id))
          /\ m.mapInfo[id].nRefCount \in 0 .. ADDRMAN_NEW_BUCKETS_PER_ADDRESS
          /\ m.mapInfo[id].nRefCount = 0 <=> id \in X
    /\ \A s \in NewSlot : m.vvNew[s] # -1 =>
          m.vvNew[s] \in Ids(m) \ TriedIds(m) /\ Position(m, s) = s

Counts(m, c) ==
    m.nTried = Cardinality(TriedIds(m)) /\ m.nNew = Cardinality(Ids(m) \ TriedIds(m)) - c

Inv(m, X, c) == Types(m) /\ Random(m) /\ AddrOk(m) /\ TriedOk(m) /\ NewOk(m, X) /\ Counts(m, c)

-----------------------------------------------------------------------------
(* Finite sets of entries *)

LEMMA IdsFinite ==
    ASSUME NEW m, Types(m)
    PROVE  /\ IsFiniteSet(Ids(m)) /\ IsFiniteSet(TriedIds(m)) /\ IsFiniteSet(Ids(m) \ TriedIds(m))
           /\ Cardinality(Ids(m)) \in Nat /\ Cardinality(TriedIds(m)) \in Nat
           /\ Cardinality(Ids(m) \ TriedIds(m)) \in Nat
           /\ TriedIds(m) \subseteq Ids(m) /\ Ids(m) \subseteq Nat
  <1>1. m.nIdCount \in Nat
    BY DEF Types, AddrMans
  <1>2. IsFiniteSet(0 .. m.nIdCount - 1)
    BY <1>1, FS_Interval
  <1>3. TriedIds(m) \subseteq Ids(m)
    BY DEF TriedIds, Ids
  <1>4. IsFiniteSet(Ids(m))
    BY <1>2, FS_Subset, Zenon DEF Types
  <1>5. IsFiniteSet(TriedIds(m)) /\ IsFiniteSet(Ids(m) \ TriedIds(m))
    <2>1. Ids(m) \ TriedIds(m) \subseteq Ids(m)
      OBVIOUS
    <2>. QED  BY <1>3, <1>4, <2>1, FS_Subset, Zenon
  <1>6. Ids(m) \subseteq Nat
    BY <1>1 DEF Types
  <1>. QED  BY <1>3, <1>4, <1>5, <1>6, FS_CardinalityType, Zenon

\* An entry more and an entry less.
LEMMA OneMore ==
    ASSUME NEW S, IsFiniteSet(S), NEW x, x \notin S
    PROVE  IsFiniteSet(S \cup {x}) /\ Cardinality(S \cup {x}) = Cardinality(S) + 1
  BY FS_AddElement

LEMMA OneLess ==
    ASSUME NEW S, IsFiniteSet(S), NEW x \in S
    PROVE  IsFiniteSet(S \ {x}) /\ Cardinality(S \ {x}) = Cardinality(S) - 1
  BY FS_RemoveElement

LEMMA NoSlots ==
    ASSUME NEW m, NEW X, NewOk(m, X), NEW id \in X
    PROVE  SlotsOf(m, id) = {} /\ \A s \in NewSlot : m.vvNew[s] # id
  <1>1. /\ id \in Ids(m) \ TriedIds(m) /\ IsFiniteSet(SlotsOf(m, id))
        /\ Cardinality(SlotsOf(m, id)) = 0
    BY DEF NewOk
  <1>2. SlotsOf(m, id) = {}
    BY <1>1, FS_EmptySet
  <1>. QED  BY <1>2 DEF SlotsOf

-----------------------------------------------------------------------------
(* Writing one field of one entry *)

LEMMA SetPos ==
    ASSUME NEW S, NEW f \in [S -> Info], NEW x \in S, NEW v \in Nat
    PROVE  LET g == [f EXCEPT ![x].nRandomPos = v]
           IN  /\ g \in [S -> Info] /\ g[x].nRandomPos = v
               /\ \A y \in S : y # x => g[y] = f[y]
               /\ \A y \in S : /\ g[y].addr = f[y].addr /\ g[y].source = f[y].source /\ g[y].nRefCount = f[y].nRefCount
                              /\ g[y].fInTried = f[y].fInTried /\ g[y].success = f[y].success
  <1> DEFINE e == [f[x] EXCEPT !.nRandomPos = v]
             g == [f EXCEPT ![x].nRandomPos = v]
  <1>1. f[x] \in Info
    OBVIOUS
  <1>2. /\ e \in Info /\ e.nRandomPos = v
        /\ e.addr = f[x].addr /\ e.source = f[x].source /\ e.nRefCount = f[x].nRefCount /\ e.fInTried = f[x].fInTried /\ e.success = f[x].success
    BY <1>1 DEF Info
  <1>3. g = [f EXCEPT ![x] = e]
    OBVIOUS
  <1> HIDE DEF e, g
  <1>4. g \in [S -> Info] /\ g[x] = e /\ \A y \in S : y # x => g[y] = f[y]
    BY <1>2, <1>3
  <1>5. \A y \in S : g[y].addr = f[y].addr /\ g[y].source = f[y].source /\ g[y].nRefCount = f[y].nRefCount /\ g[y].fInTried = f[y].fInTried /\ g[y].success = f[y].success
    BY <1>2, <1>4
  <1>. QED  BY <1>2, <1>4, <1>5 DEF g

LEMMA SetRef ==
    ASSUME NEW S, NEW f \in [S -> Info], NEW x \in S, NEW v \in Nat
    PROVE  LET g == [f EXCEPT ![x].nRefCount = v]
           IN  /\ g \in [S -> Info] /\ g[x].nRefCount = v
               /\ \A y \in S : y # x => g[y] = f[y]
               /\ \A y \in S : /\ g[y].addr = f[y].addr /\ g[y].source = f[y].source /\ g[y].fInTried = f[y].fInTried
                              /\ g[y].success = f[y].success /\ g[y].nRandomPos = f[y].nRandomPos
  <1> DEFINE e == [f[x] EXCEPT !.nRefCount = v]
             g == [f EXCEPT ![x].nRefCount = v]
  <1>1. f[x] \in Info
    OBVIOUS
  <1>2. /\ e \in Info /\ e.nRefCount = v
        /\ e.addr = f[x].addr /\ e.source = f[x].source /\ e.fInTried = f[x].fInTried /\ e.success = f[x].success /\ e.nRandomPos = f[x].nRandomPos
    BY <1>1 DEF Info
  <1>3. g = [f EXCEPT ![x] = e]
    OBVIOUS
  <1> HIDE DEF e, g
  <1>4. g \in [S -> Info] /\ g[x] = e /\ \A y \in S : y # x => g[y] = f[y]
    BY <1>2, <1>3
  <1>5. \A y \in S : g[y].addr = f[y].addr /\ g[y].source = f[y].source /\ g[y].fInTried = f[y].fInTried /\ g[y].success = f[y].success /\ g[y].nRandomPos = f[y].nRandomPos
    BY <1>2, <1>4
  <1>. QED  BY <1>2, <1>4, <1>5 DEF g

LEMMA SetTried ==
    ASSUME NEW S, NEW f \in [S -> Info], NEW x \in S, NEW v \in BOOLEAN
    PROVE  LET g == [f EXCEPT ![x].fInTried = v]
           IN  /\ g \in [S -> Info] /\ g[x].fInTried = v
               /\ \A y \in S : y # x => g[y] = f[y]
               /\ \A y \in S : /\ g[y].addr = f[y].addr /\ g[y].source = f[y].source /\ g[y].nRefCount = f[y].nRefCount
                              /\ g[y].success = f[y].success /\ g[y].nRandomPos = f[y].nRandomPos
  <1> DEFINE e == [f[x] EXCEPT !.fInTried = v]
             g == [f EXCEPT ![x].fInTried = v]
  <1>1. f[x] \in Info
    OBVIOUS
  <1>2. /\ e \in Info /\ e.fInTried = v
        /\ e.addr = f[x].addr /\ e.source = f[x].source /\ e.nRefCount = f[x].nRefCount /\ e.success = f[x].success /\ e.nRandomPos = f[x].nRandomPos
    BY <1>1 DEF Info
  <1>3. g = [f EXCEPT ![x] = e]
    OBVIOUS
  <1> HIDE DEF e, g
  <1>4. g \in [S -> Info] /\ g[x] = e /\ \A y \in S : y # x => g[y] = f[y]
    BY <1>2, <1>3
  <1>5. \A y \in S : g[y].addr = f[y].addr /\ g[y].source = f[y].source /\ g[y].nRefCount = f[y].nRefCount /\ g[y].success = f[y].success /\ g[y].nRandomPos = f[y].nRandomPos
    BY <1>2, <1>4
  <1>. QED  BY <1>2, <1>4, <1>5 DEF g

LEMMA SetSuccess ==
    ASSUME NEW S, NEW f \in [S -> Info], NEW x \in S, NEW v \in BOOLEAN
    PROVE  LET g == [f EXCEPT ![x].success = v]
           IN  /\ g \in [S -> Info] /\ g[x].success = v
               /\ \A y \in S : y # x => g[y] = f[y]
               /\ \A y \in S : /\ g[y].addr = f[y].addr /\ g[y].source = f[y].source /\ g[y].nRefCount = f[y].nRefCount
                              /\ g[y].fInTried = f[y].fInTried /\ g[y].nRandomPos = f[y].nRandomPos
  <1> DEFINE e == [f[x] EXCEPT !.success = v]
             g == [f EXCEPT ![x].success = v]
  <1>1. f[x] \in Info
    OBVIOUS
  <1>2. /\ e \in Info /\ e.success = v
        /\ e.addr = f[x].addr /\ e.source = f[x].source /\ e.nRefCount = f[x].nRefCount /\ e.fInTried = f[x].fInTried /\ e.nRandomPos = f[x].nRandomPos
    BY <1>1 DEF Info
  <1>3. g = [f EXCEPT ![x] = e]
    OBVIOUS
  <1> HIDE DEF e, g
  <1>4. g \in [S -> Info] /\ g[x] = e /\ \A y \in S : y # x => g[y] = f[y]
    BY <1>2, <1>3
  <1>5. \A y \in S : g[y].addr = f[y].addr /\ g[y].source = f[y].source /\ g[y].nRefCount = f[y].nRefCount /\ g[y].fInTried = f[y].fInTried /\ g[y].nRandomPos = f[y].nRandomPos
    BY <1>2, <1>4
  <1>. QED  BY <1>2, <1>4, <1>5 DEF g

-----------------------------------------------------------------------------
(* The random order *)

\* r is m but for the random order.
Reordered(m, r) ==
    /\ r \in AddrMans /\ Ids(r) = Ids(m)
    /\ \A id \in Ids(m) : /\ r.mapInfo[id].addr = m.mapInfo[id].addr
                          /\ r.mapInfo[id].source = m.mapInfo[id].source
                          /\ r.mapInfo[id].nRefCount = m.mapInfo[id].nRefCount
                          /\ r.mapInfo[id].fInTried = m.mapInfo[id].fInTried
                          /\ r.mapInfo[id].success = m.mapInfo[id].success
    /\ r.mapAddr = m.mapAddr /\ r.vvNew = m.vvNew /\ r.vvTried = m.vvTried
    /\ r.nNew = m.nNew /\ r.nTried = m.nTried /\ r.nIdCount = m.nIdCount

LEMMA ReorderedKeeps ==
    ASSUME NEW m, NEW X, NEW c, Inv(m, X, c), NEW r, Reordered(m, r), Random(r)
    PROVE  Inv(r, X, c)
  <1>1. TriedIds(r) = TriedIds(m)
    BY DEF Reordered, TriedIds, Ids
  <1>2. Types(r)
    BY DEF Inv, Types, Reordered
  <1>3. AddrOk(r)
    BY DEF Inv, AddrOk, Reordered
  <1>4. TriedOk(r)
    BY <1>1 DEF Inv, TriedOk, Reordered, TriedIds, Ids
  <1>5. NewOk(r, X)
    <2>1. \A id : SlotsOf(r, id) = SlotsOf(m, id)
      BY DEF SlotsOf, Reordered
    <2>2. \A s \in NewSlot : m.vvNew[s] \in Ids(m) => Position(r, s) = Position(m, s)
      BY DEF Position, Reordered
    <2>3. \A id \in Ids(m) \ TriedIds(m) : r.mapInfo[id].nRefCount = m.mapInfo[id].nRefCount
      BY DEF Reordered
    <2>4. r.vvNew = m.vvNew /\ Ids(r) = Ids(m)
      BY DEF Reordered
    <2>. QED  BY <1>1, <2>1, <2>2, <2>3, <2>4 DEF Inv, NewOk
  <1>6. Counts(r, c)
    BY <1>1 DEF Inv, Counts, Reordered
  <1>. QED  BY <1>2, <1>3, <1>4, <1>5, <1>6 DEF Inv

\* SwapRandom.
LEMMA SwapLemma ==
    ASSUME NEW m, NEW X, NEW c, Inv(m, X, c), NEW i \in 1 .. Len(m.vRandom), NEW j \in 1 .. Len(m.vRandom)
    PROVE  LET r == SwapRandom(m, i, j)
           IN  /\ Inv(r, X, c) /\ Reordered(m, r) /\ Len(r.vRandom) = Len(m.vRandom)
               /\ r.mapInfo[m.vRandom[i]].nRandomPos = j
  <1>1. m \in AddrMans /\ Random(m)
    BY DEF Inv, Types
  <1>2. CASE i = j
    <2>1. SwapRandom(m, i, j) = m
      BY <1>2 DEF SwapRandom
    <2>2. Reordered(m, m)
      BY <1>1 DEF Reordered
    <2>. QED  BY <1>1, <1>2, <2>1, <2>2 DEF Random
  <1>3. CASE i # j
    <2> DEFINE r == SwapRandom(m, i, j)
               x == m.vRandom[i]
               y == m.vRandom[j]
               info == [[m.mapInfo EXCEPT ![x].nRandomPos = j] EXCEPT ![y].nRandomPos = i]
               ran == [[m.vRandom EXCEPT ![i] = y] EXCEPT ![j] = x]
    <2>1. x \in Ids(m) /\ y \in Ids(m) /\ x # y
      BY <1>1, <1>3 DEF Random
    <2>2. r = [m EXCEPT !.mapInfo = info, !.vRandom = ran]
      BY <1>3 DEF SwapRandom
    <2>3. PICK S \in SUBSET Nat : m.mapInfo \in [S -> Info]
      BY <1>1 DEF AddrMans, InfoMaps
    <2>4. S = Ids(m)
      BY <2>3 DEF Ids
    <2> HIDE DEF r, x, y
    <2> DEFINE half == [m.mapInfo EXCEPT ![x].nRandomPos = j]
    <2>5. /\ info \in [S -> Info] /\ DOMAIN info = S
          /\ info[x].nRandomPos = j /\ info[y].nRandomPos = i
          /\ \A id \in S : id # x /\ id # y => info[id] = m.mapInfo[id]
          /\ \A id \in S : /\ info[id].addr = m.mapInfo[id].addr
                           /\ info[id].source = m.mapInfo[id].source
                           /\ info[id].nRefCount = m.mapInfo[id].nRefCount
                           /\ info[id].fInTried = m.mapInfo[id].fInTried
                           /\ info[id].success = m.mapInfo[id].success
      <3>1. i \in Nat /\ j \in Nat
        OBVIOUS
      <3>2. /\ half \in [S -> Info] /\ half[x].nRandomPos = j
            /\ \A id \in S : id # x => half[id] = m.mapInfo[id]
            /\ \A id \in S : /\ half[id].addr = m.mapInfo[id].addr
                             /\ half[id].source = m.mapInfo[id].source
                             /\ half[id].nRefCount = m.mapInfo[id].nRefCount
                             /\ half[id].fInTried = m.mapInfo[id].fInTried
                             /\ half[id].success = m.mapInfo[id].success
        BY <2>1, <2>3, <2>4, <3>1, SetPos
      <3>3. info = [half EXCEPT ![y].nRandomPos = i]
        OBVIOUS
      <3> HIDE DEF half, info
      <3>4. /\ info \in [S -> Info] /\ info[y].nRandomPos = i
            /\ \A id \in S : id # y => info[id] = half[id]
            /\ \A id \in S : /\ info[id].addr = half[id].addr
                             /\ info[id].source = half[id].source
                             /\ info[id].nRefCount = half[id].nRefCount
                             /\ info[id].fInTried = half[id].fInTried
                             /\ info[id].success = half[id].success
        BY <2>1, <2>4, <3>1, <3>2, <3>3, SetPos
      <3>. QED  BY <2>1, <2>4, <3>2, <3>4
    <2>6. m.vRandom \in Seq(Nat)
      BY <1>1 DEF AddrMans
    <2>7. x \in Nat /\ y \in Nat
      BY <2>1, <2>4
    <2>8. /\ ran \in Seq(Nat) /\ Len(ran) = Len(m.vRandom)
          /\ ran[i] = y /\ ran[j] = x
          /\ \A k \in 1 .. Len(m.vRandom) : k # i /\ k # j => ran[k] = m.vRandom[k]
      BY <1>3, <2>6, <2>7
    <2>9. /\ r.mapInfo = info /\ r.vRandom = ran /\ r \in AddrMans
          /\ r.mapAddr = m.mapAddr /\ r.vvNew = m.vvNew /\ r.vvTried = m.vvTried
          /\ r.nNew = m.nNew /\ r.nTried = m.nTried /\ r.nIdCount = m.nIdCount
      <3> HIDE DEF info, ran
      <3>1. info \in InfoMaps
        BY <2>5 DEF InfoMaps
      <3>. QED  BY <1>1, <2>2, <2>8, <3>1 DEF AddrMans
    <2> HIDE DEF info, ran
    <2>11. Reordered(m, r)
      BY <2>4, <2>5, <2>9 DEF Reordered, Ids
    <2>12. Random(r)
      <3>1. Len(r.vRandom) = Cardinality(Ids(r))
        BY <1>1, <2>8, <2>9, <2>11 DEF Random, Reordered
      <3>2. ASSUME NEW id \in Ids(r)
            PROVE  r.mapInfo[id].nRandomPos \in 1 .. Len(r.vRandom) /\ r.vRandom[r.mapInfo[id].nRandomPos] = id
        <4>1. id \in S
          BY <2>4, <2>11 DEF Reordered
        <4>2. CASE id = x
          BY <2>8, <2>5, <2>9, <4>2
        <4>3. CASE id = y
          BY <2>8, <2>5, <2>9, <4>3
        <4>4. CASE id # x /\ id # y
          <5>1. m.mapInfo[id].nRandomPos \in 1 .. Len(m.vRandom) /\ m.vRandom[m.mapInfo[id].nRandomPos] = id
            BY <1>1, <2>4, <4>1 DEF Random
          <5>2. m.mapInfo[id].nRandomPos # i /\ m.mapInfo[id].nRandomPos # j
            BY <4>4, <5>1 DEF x, y
          <5>. QED  BY <2>8, <2>5, <2>9, <4>1, <4>4, <5>1, <5>2
        <4>. QED  BY <4>2, <4>3, <4>4
      <3>3. ASSUME NEW k \in 1 .. Len(r.vRandom)
            PROVE  r.vRandom[k] \in Ids(r) /\ r.mapInfo[r.vRandom[k]].nRandomPos = k
        <4>1. CASE k = i
          BY <2>1, <2>5, <2>8, <2>9, <2>11, <4>1 DEF Reordered
        <4>2. CASE k = j
          BY <2>1, <2>5, <2>8, <2>9, <2>11, <4>2 DEF Reordered
        <4>3. CASE k # i /\ k # j
          <5>1. m.vRandom[k] \in Ids(m) /\ m.mapInfo[m.vRandom[k]].nRandomPos = k
            BY <1>1, <2>8, <2>9 DEF Random
          <5>2. m.mapInfo[x].nRandomPos = i /\ m.mapInfo[y].nRandomPos = j
            BY <1>1 DEF Random, x, y
          <5>3. m.vRandom[k] # x /\ m.vRandom[k] # y
            BY <4>3, <5>1, <5>2
          <5>. QED  BY <2>4, <2>5, <2>8, <2>9, <2>11, <4>3, <5>1, <5>3 DEF Reordered
        <4>. QED  BY <4>1, <4>2, <4>3
      <3>. QED  BY <3>1, <3>2, <3>3 DEF Random
    <2>13. Inv(r, X, c)
      BY <2>11, <2>12, ReorderedKeeps
    <2>. QED  BY <2>5, <2>8, <2>9, <2>11, <2>13 DEF r, x
  <1>. QED  BY <1>2, <1>3


-----------------------------------------------------------------------------
(* Delete *)

\* Delete of an entry that is last in the random order.
Dropped(w, id) ==
    [w EXCEPT !.vRandom = SubSeq(@, 1, Len(@) - 1), !.mapAddr[w.mapInfo[id].addr] = -1,
              !.mapInfo = Without(@, id), !.nNew = @ - 1]

LEMMA DropLemma ==
    ASSUME NEW w, NEW X, NEW c \in Int, Inv(w, X, c), NEW id \in X,
           w.mapInfo[id].nRandomPos = Len(w.vRandom)
    PROVE  LET r == Dropped(w, id)
           IN  /\ Inv(r, X \ {id}, c) /\ Ids(r) = Ids(w) \ {id}
               /\ \A j \in Ids(r) : r.mapInfo[j] = w.mapInfo[j]
               /\ r.vvNew = w.vvNew /\ r.vvTried = w.vvTried /\ r.nIdCount = w.nIdCount
  <1> DEFINE r == Dropped(w, id)
             n == Len(w.vRandom)
             a == w.mapInfo[id].addr
             ran == SubSeq(w.vRandom, 1, n - 1)
             info == Without(w.mapInfo, id)
             maddr == [w.mapAddr EXCEPT ![a] = -1]
  <1>1. w \in AddrMans /\ Random(w) /\ AddrOk(w) /\ TriedOk(w) /\ NewOk(w, X) /\ Counts(w, c) /\ Types(w)
    BY DEF Inv, Types
  <1>2. id \in Ids(w) /\ id \notin TriedIds(w) /\ \A s \in NewSlot : w.vvNew[s] # id
    BY <1>1, NoSlots DEF NewOk
  <1>3. PICK S \in SUBSET Nat : w.mapInfo \in [S -> Info]
    BY <1>1 DEF AddrMans, InfoMaps
  <1>4. S = Ids(w)
    BY <1>3 DEF Ids
  <1>5. a \in Addr
    BY <1>2, <1>3, <1>4 DEF Info
  <1>6. w.vRandom \in Seq(Nat) /\ n \in Nat /\ n >= 1
    BY <1>1, <1>2 DEF AddrMans, Random
  <1>7. /\ ran \in Seq(Nat) /\ Len(ran) = n - 1 /\ \A i \in 1 .. n - 1 : ran[i] = w.vRandom[i]
    BY <1>6
  <1>8. /\ info \in [S \ {id} -> Info] /\ \A j \in S \ {id} : info[j] = w.mapInfo[j]
    BY <1>3 DEF Without
  <1>9. /\ maddr \in [Addr -> Int] /\ maddr[a] = -1 /\ \A b \in Addr : b # a => maddr[b] = w.mapAddr[b]
    BY <1>1, <1>5 DEF AddrMans
  <1>10. r = [w EXCEPT !.vRandom = ran, !.mapAddr = maddr, !.mapInfo = info, !.nNew = @ - 1]
    BY DEF Dropped
  <1> HIDE DEF r, n, a, ran, info, maddr
  <1>11. /\ r \in AddrMans /\ r.vRandom = ran /\ r.mapAddr = maddr /\ r.mapInfo = info
         /\ r.nNew = w.nNew - 1 /\ r.nTried = w.nTried /\ r.nIdCount = w.nIdCount
         /\ r.vvNew = w.vvNew /\ r.vvTried = w.vvTried
    <2>1. S \ {id} \in SUBSET Nat
      OBVIOUS
    <2>2. info \in InfoMaps
      BY <1>8, <2>1 DEF InfoMaps
    <2>3. /\ r.vRandom = ran /\ r.mapAddr = maddr /\ r.mapInfo = info
          /\ r.nNew = w.nNew - 1 /\ r.nTried = w.nTried /\ r.nIdCount = w.nIdCount
          /\ r.vvNew = w.vvNew /\ r.vvTried = w.vvTried
      BY <1>1, <1>10 DEF AddrMans
    <2>4. w.nNew - 1 \in Int
      BY <1>1 DEF AddrMans
    <2>5. r \in AddrMans
      BY <1>1, <1>7, <1>9, <1>10, <2>2, <2>4 DEF AddrMans
    <2>. QED  BY <2>3, <2>5
  <1>12. Ids(r) = Ids(w) \ {id} /\ \A j \in Ids(r) : r.mapInfo[j] = w.mapInfo[j]
    BY <1>4, <1>8, <1>11 DEF Ids
  <1>13. TriedIds(r) = TriedIds(w)
    BY <1>2, <1>12 DEF TriedIds, Ids
  <1>14. /\ IsFiniteSet(Ids(w)) /\ IsFiniteSet(Ids(w) \ TriedIds(w)) /\ TriedIds(w) \subseteq Ids(w)
         /\ Cardinality(Ids(w) \ {id}) = Cardinality(Ids(w)) - 1
         /\ Cardinality((Ids(w) \ TriedIds(w)) \ {id}) = Cardinality(Ids(w) \ TriedIds(w)) - 1
    BY <1>1, <1>2, IdsFinite, OneLess
  <1>15. Types(r)
    BY <1>1, <1>11, <1>12 DEF Types
  <1>16. Random(r)
    <2>1. Len(r.vRandom) = Cardinality(Ids(r))
      BY <1>1, <1>7, <1>11, <1>12, <1>14 DEF Random, n
    <2>2. w.vRandom[n] = id
      BY <1>1, <1>2 DEF Random, n
    <2>3. ASSUME NEW j \in Ids(r)
          PROVE  r.mapInfo[j].nRandomPos \in 1 .. Len(r.vRandom) /\ r.vRandom[r.mapInfo[j].nRandomPos] = j
      <3>1. j \in Ids(w) /\ j # id /\ r.mapInfo[j] = w.mapInfo[j]
        BY <1>12
      <3>2. w.mapInfo[j].nRandomPos \in 1 .. n /\ w.vRandom[w.mapInfo[j].nRandomPos] = j
        BY <1>1, <3>1 DEF Random, n
      <3>3. w.mapInfo[j].nRandomPos # n
        BY <2>2, <3>1, <3>2
      <3>4. w.mapInfo[j].nRandomPos \in 1 .. n - 1
        BY <1>6, <3>2, <3>3
      <3>. QED  BY <1>7, <1>11, <3>1, <3>2, <3>4
    <2>4. ASSUME NEW i \in 1 .. Len(r.vRandom)
          PROVE  r.vRandom[i] \in Ids(r) /\ r.mapInfo[r.vRandom[i]].nRandomPos = i
      <3>1. i \in 1 .. n /\ i # n /\ r.vRandom[i] = w.vRandom[i]
        BY <1>6, <1>7, <1>11
      <3>2. w.vRandom[i] \in Ids(w) /\ w.mapInfo[w.vRandom[i]].nRandomPos = i
        BY <1>1, <3>1 DEF Random, n
      <3>3. w.vRandom[i] # id
        BY <3>1, <3>2 DEF n
      <3>. QED  BY <1>12, <3>1, <3>2, <3>3
    <2>. QED  BY <2>1, <2>3, <2>4 DEF Random
  <1>17. AddrOk(r)
    <2>1. ASSUME NEW b \in Addr, r.mapAddr[b] # -1
          PROVE  r.mapAddr[b] \in Ids(r) /\ r.mapInfo[r.mapAddr[b]].addr = b
      <3>1. b # a /\ r.mapAddr[b] = w.mapAddr[b]
        BY <1>9, <1>11, <2>1
      <3>2. w.mapAddr[b] \in Ids(w) /\ w.mapInfo[w.mapAddr[b]].addr = b
        BY <1>1, <2>1, <3>1 DEF AddrOk
      <3>3. w.mapAddr[b] # id
        BY <3>1, <3>2 DEF a
      <3>. QED  BY <1>12, <3>1, <3>2, <3>3
    <2>2. ASSUME NEW j \in Ids(r)
          PROVE  r.mapAddr[r.mapInfo[j].addr] = j
      <3>1. j \in Ids(w) /\ j # id /\ r.mapInfo[j] = w.mapInfo[j]
        BY <1>12
      <3>2. w.mapAddr[w.mapInfo[j].addr] = j /\ w.mapAddr[a] = id
        BY <1>1, <1>2, <3>1 DEF AddrOk, a
      <3>3. w.mapInfo[j].addr # a
        BY <3>1, <3>2
      <3>4. w.mapInfo[j].addr \in Addr
        BY <1>3, <1>4, <3>1 DEF Info
      <3>. QED  BY <1>9, <1>11, <3>1, <3>2, <3>3, <3>4
    <2>. QED  BY <2>1, <2>2 DEF AddrOk
  <1>18. TriedOk(r)
    <2>1. \A j \in TriedIds(w) : r.mapInfo[j] = w.mapInfo[j]
      BY <1>2, <1>12, <1>14
    <2>. QED  BY <1>1, <1>11, <1>13, <2>1 DEF TriedOk
  <1>19. NewOk(r, X \ {id})
    <2>1. \A j : SlotsOf(r, j) = SlotsOf(w, j)
      BY <1>11 DEF SlotsOf
    <2>2. X \ {id} \subseteq Ids(r) \ TriedIds(r)
      BY <1>1, <1>12, <1>13 DEF NewOk
    <2>3. ASSUME NEW j \in Ids(r) \ TriedIds(r)
          PROVE  /\ IsFiniteSet(SlotsOf(r, j))
                 /\ r.mapInfo[j].nRefCount = Cardinality(SlotsOf(r, j))
                 /\ r.mapInfo[j].nRefCount \in 0 .. ADDRMAN_NEW_BUCKETS_PER_ADDRESS
                 /\ r.mapInfo[j].nRefCount = 0 <=> j \in X \ {id}
      <3>1. j \in Ids(w) \ TriedIds(w) /\ j # id /\ r.mapInfo[j] = w.mapInfo[j]
        BY <1>12, <1>13
      <3>. QED  BY <1>1, <2>1, <3>1 DEF NewOk
    <2>4. ASSUME NEW s \in NewSlot, r.vvNew[s] # -1
          PROVE  r.vvNew[s] \in Ids(r) \ TriedIds(r) /\ Position(r, s) = s
      <3>1. w.vvNew[s] \in Ids(w) \ TriedIds(w) /\ Position(w, s) = s
        BY <1>1, <1>11, <2>4 DEF NewOk
      <3>2. w.vvNew[s] \in Ids(r) /\ r.mapInfo[w.vvNew[s]] = w.mapInfo[w.vvNew[s]]
        BY <1>2, <1>12, <3>1
      <3>. QED  BY <1>11, <1>13, <3>1, <3>2 DEF Position
    <2>. QED  BY <2>2, <2>3, <2>4 DEF NewOk
  <1>20. Counts(r, c)
    <2>1. Ids(r) \ TriedIds(r) = (Ids(w) \ TriedIds(w)) \ {id}
      BY <1>12, <1>13
    <2>2. Cardinality(Ids(w) \ TriedIds(w)) \in Nat
      BY <1>1, IdsFinite
    <2>3. r.nNew = Cardinality(Ids(w) \ TriedIds(w)) - c - 1
      BY <1>1, <1>11 DEF Counts
    <2>4. r.nTried = Cardinality(TriedIds(r))
      BY <1>1, <1>11, <1>13 DEF Counts
    <2>5. Cardinality(Ids(r) \ TriedIds(r)) = Cardinality(Ids(w) \ TriedIds(w)) - 1
      BY <1>14, <2>1, Zenon
    <2>. QED  BY <2>2, <2>3, <2>4, <2>5 DEF Counts
  <1>21. Inv(r, X \ {id}, c)
    BY <1>15, <1>16, <1>17, <1>18, <1>19, <1>20 DEF Inv
  <1>. QED  BY <1>11, <1>12, <1>21 DEF r

\* The fields of an entry but for its place in the random order.
SameEntry(e, f) ==
    /\ e.addr = f.addr /\ e.source = f.source /\ e.nRefCount = f.nRefCount
    /\ e.fInTried = f.fInTried /\ e.success = f.success

LEMMA DeleteLemma ==
    ASSUME NEW m, NEW X, NEW c \in Int, Inv(m, X, c), NEW id \in X
    PROVE  LET r == Delete(m, id)
           IN  /\ Inv(r, X \ {id}, c) /\ Ids(r) = Ids(m) \ {id}
               /\ \A j \in Ids(r) : SameEntry(r.mapInfo[j], m.mapInfo[j])
               /\ r.vvNew = m.vvNew /\ r.vvTried = m.vvTried /\ r.nIdCount = m.nIdCount
  <1> DEFINE n == Len(m.vRandom)
             i == m.mapInfo[id].nRandomPos
             w == SwapRandom(m, i, n)
  <1>1. Random(m) /\ id \in Ids(m) /\ m.vRandom \in Seq(Nat)
    BY DEF Inv, NewOk, Types, AddrMans
  <1>2. i \in 1 .. n /\ n \in 1 .. n /\ m.vRandom[i] = id
    BY <1>1 DEF Random
  <1> HIDE DEF i
  <1>3. /\ Inv(w, X, c) /\ Reordered(m, w) /\ Len(w.vRandom) = n /\ w.mapInfo[id].nRandomPos = n
    BY <1>2, SwapLemma
  <1>4. w.mapInfo[id].addr = m.mapInfo[id].addr
    BY <1>1, <1>3 DEF Reordered
  <1>5. Delete(m, id) = Dropped(w, id)
    BY <1>4 DEF Delete, Dropped, i
  <1> HIDE DEF n, w
  <1>6. LET r == Dropped(w, id)
        IN  /\ Inv(r, X \ {id}, c) /\ Ids(r) = Ids(w) \ {id}
            /\ \A j \in Ids(r) : r.mapInfo[j] = w.mapInfo[j]
            /\ r.vvNew = w.vvNew /\ r.vvTried = w.vvTried /\ r.nIdCount = w.nIdCount
    BY <1>3, DropLemma
  <1>. QED  BY <1>3, <1>5, <1>6 DEF Reordered, SameEntry


-----------------------------------------------------------------------------
(* The steps that write entries and slots *)

\* r is m with slots, flags and counts written: the same entries, addresses and
\* random order.
Written(m, r) ==
    /\ r \in AddrMans /\ Ids(r) = Ids(m)
    /\ \A id \in Ids(m) : /\ r.mapInfo[id].addr = m.mapInfo[id].addr
                          /\ r.mapInfo[id].source = m.mapInfo[id].source
                          /\ r.mapInfo[id].nRandomPos = m.mapInfo[id].nRandomPos
    /\ r.mapAddr = m.mapAddr /\ r.vRandom = m.vRandom /\ r.nIdCount = m.nIdCount

LEMMA WrittenKeeps ==
    ASSUME NEW m, NEW X, NEW c, Inv(m, X, c), NEW r, Written(m, r)
    PROVE  Types(r) /\ Random(r) /\ AddrOk(r)
  <1>1. Types(r)
    BY DEF Inv, Types, Written
  <1>2. Random(r)
    BY DEF Inv, Random, Written
  <1>3. AddrOk(r)
    BY DEF Inv, AddrOk, Written
  <1>. QED  BY <1>1, <1>2, <1>3

\* What the parts of the invariant say of entries.
LEMMA EntryTypes ==
    ASSUME NEW m, m \in AddrMans
    PROVE  /\ m.mapInfo \in [Ids(m) -> Info] /\ Ids(m) \in SUBSET Nat
           /\ \A id \in Ids(m) : m.mapInfo[id].addr \in Addr /\ m.mapInfo[id].source \in Source
                                 /\ m.mapInfo[id].nRefCount \in Nat /\ m.mapInfo[id].fInTried \in BOOLEAN
                                 /\ m.mapInfo[id].success \in BOOLEAN
           /\ m.vvNew \in [NewSlot -> Int] /\ m.vvTried \in [KSlot -> Int]
           /\ m.mapAddr \in [Addr -> Int] /\ m.vRandom \in Seq(Nat)
           /\ m.nNew \in Int /\ m.nTried \in Int /\ m.nIdCount \in Nat
           /\ m = [mapInfo |-> m.mapInfo, mapAddr |-> m.mapAddr, vRandom |-> m.vRandom, vvNew |-> m.vvNew,
                   vvTried |-> m.vvTried, nNew |-> m.nNew, nTried |-> m.nTried, nIdCount |-> m.nIdCount]
  <1>1. PICK S \in SUBSET Nat : m.mapInfo \in [S -> Info]
    BY DEF AddrMans, InfoMaps
  <1>2. S = Ids(m)
    BY <1>1 DEF Ids
  <1>3. \A id \in Ids(m) : m.mapInfo[id].addr \in Addr /\ m.mapInfo[id].source \in Source
                           /\ m.mapInfo[id].nRefCount \in Nat /\ m.mapInfo[id].fInTried \in BOOLEAN
                           /\ m.mapInfo[id].success \in BOOLEAN
    BY <1>1, <1>2 DEF Info
  <1>4. /\ m.vvNew \in [NewSlot -> Int] /\ m.vvTried \in [KSlot -> Int]
        /\ m.mapAddr \in [Addr -> Int] /\ m.vRandom \in Seq(Nat)
        /\ m.nNew \in Int /\ m.nTried \in Int /\ m.nIdCount \in Nat
    BY DEF AddrMans
  <1>5. m = [mapInfo |-> m.mapInfo, mapAddr |-> m.mapAddr, vRandom |-> m.vRandom, vvNew |-> m.vvNew,
             vvTried |-> m.vvTried, nNew |-> m.nNew, nTried |-> m.nTried, nIdCount |-> m.nIdCount]
    BY DEF AddrMans
  <1>. QED  BY <1>1, <1>2, <1>3, <1>4, <1>5

\* A map of entries, slots and counts written over those of m.
Write(m, info, nw, tr, x, y) ==
    [mapInfo |-> info, mapAddr |-> m.mapAddr, vRandom |-> m.vRandom, vvNew |-> nw,
     vvTried |-> tr, nNew |-> x, nTried |-> y, nIdCount |-> m.nIdCount]

LEMMA WriteLemma ==
    ASSUME NEW m, m \in AddrMans, NEW info \in [Ids(m) -> Info], NEW nw \in [NewSlot -> Int],
           NEW tr \in [KSlot -> Int], NEW x \in Int, NEW y \in Int,
           \A id \in Ids(m) : /\ info[id].addr = m.mapInfo[id].addr
                              /\ info[id].source = m.mapInfo[id].source
                              /\ info[id].nRandomPos = m.mapInfo[id].nRandomPos
    PROVE  LET r == Write(m, info, nw, tr, x, y)
           IN  /\ Written(m, r) /\ r.mapInfo = info /\ r.vvNew = nw /\ r.vvTried = tr
               /\ r.nNew = x /\ r.nTried = y
  <1> DEFINE r == Write(m, info, nw, tr, x, y)
  <1>1. info \in InfoMaps
    BY EntryTypes DEF InfoMaps
  <1>2. r \in AddrMans
    BY <1>1 DEF Write, AddrMans
  <1>3. /\ r.mapInfo = info /\ r.vvNew = nw /\ r.vvTried = tr /\ r.nNew = x /\ r.nTried = y
        /\ r.mapAddr = m.mapAddr /\ r.vRandom = m.vRandom /\ r.nIdCount = m.nIdCount
    BY DEF Write
  <1> HIDE DEF r
  <1>4. Ids(r) = Ids(m)
    BY <1>3 DEF Ids
  <1>5. Written(m, r)
    BY <1>2, <1>3, <1>4 DEF Written
  <1>. QED  BY <1>3, <1>5 DEF r

\* ClearNew, before the entry is deleted if it has no slot left.
Unslotted(m, s) ==
    [m EXCEPT !.vvNew[s] = -1, !.mapInfo[m.vvNew[s]].nRefCount = @ - 1]

LEMMA UnslotLemma ==
    ASSUME NEW m, NEW X, NEW c \in Int, Inv(m, X, c), NEW s \in NewSlot, m.vvNew[s] # -1
    PROVE  LET r == Unslotted(m, s)
               id == m.vvNew[s]
           IN  /\ id \in Ids(m) \ (TriedIds(m) \cup X)
               /\ Inv(r, IF r.mapInfo[id].nRefCount = 0 THEN X \cup {id} ELSE X, c)
               /\ Written(m, r)
               /\ \A j \in Ids(m) : j # id => r.mapInfo[j] = m.mapInfo[j]
               /\ r.vvNew = [m.vvNew EXCEPT ![s] = -1] /\ r.vvTried = m.vvTried
  <1> DEFINE r == Unslotted(m, s)
             id == m.vvNew[s]
             v == m.mapInfo[id].nRefCount - 1
             info == [m.mapInfo EXCEPT ![id].nRefCount = v]
             nw == [m.vvNew EXCEPT ![s] = -1]
             Y == IF v = 0 THEN X \cup {id} ELSE X
  <1>1. m \in AddrMans /\ TriedOk(m) /\ NewOk(m, X) /\ Counts(m, c) /\ Types(m)
    BY DEF Inv, Types
  <1>2. /\ id \in Ids(m) /\ id \notin TriedIds(m) /\ Position(m, s) = s
        /\ IsFiniteSet(SlotsOf(m, id)) /\ m.mapInfo[id].nRefCount = Cardinality(SlotsOf(m, id))
        /\ m.mapInfo[id].nRefCount \in 0 .. ADDRMAN_NEW_BUCKETS_PER_ADDRESS
        /\ m.mapInfo[id].nRefCount = 0 <=> id \in X
    BY <1>1 DEF NewOk
  <1>3. s \in SlotsOf(m, id)
    BY DEF SlotsOf
  <1>4. /\ IsFiniteSet(SlotsOf(m, id) \ {s})
        /\ Cardinality(SlotsOf(m, id) \ {s}) = Cardinality(SlotsOf(m, id)) - 1
        /\ Cardinality(SlotsOf(m, id) \ {s}) \in Nat
    BY <1>2, <1>3, OneLess, FS_CardinalityType
  <1>5. v \in Nat /\ v = Cardinality(SlotsOf(m, id) \ {s})
        /\ v \in 0 .. ADDRMAN_NEW_BUCKETS_PER_ADDRESS /\ id \notin X
    BY <1>2, <1>4, AddrManAssumption
  <1>6. /\ m.mapInfo \in [Ids(m) -> Info] /\ m.vvNew \in [NewSlot -> Int] /\ m.vvTried \in [KSlot -> Int]
        /\ m.nNew \in Int /\ m.nTried \in Int /\ Ids(m) \subseteq Nat
    BY <1>1, EntryTypes
  <1> HIDE DEF v, id
  <1>7. /\ info \in [Ids(m) -> Info] /\ info[id].nRefCount = v
        /\ \A j \in Ids(m) : j # id => info[j] = m.mapInfo[j]
        /\ \A j \in Ids(m) : /\ info[j].addr = m.mapInfo[j].addr /\ info[j].source = m.mapInfo[j].source
                             /\ info[j].fInTried = m.mapInfo[j].fInTried
                             /\ info[j].success = m.mapInfo[j].success
                             /\ info[j].nRandomPos = m.mapInfo[j].nRandomPos
    BY <1>2, <1>5, <1>6, SetRef
  <1>8. nw \in [NewSlot -> Int] /\ nw[s] = -1 /\ \A t \in NewSlot : t # s => nw[t] = m.vvNew[t]
    BY <1>6
  <1>9. r = Write(m, info, nw, m.vvTried, m.nNew, m.nTried)
    <2>1. m = [mapInfo |-> m.mapInfo, mapAddr |-> m.mapAddr, vRandom |-> m.vRandom, vvNew |-> m.vvNew,
               vvTried |-> m.vvTried, nNew |-> m.nNew, nTried |-> m.nTried, nIdCount |-> m.nIdCount]
      BY <1>1, EntryTypes
    <2>2. r = [m EXCEPT !.vvNew = nw, !.mapInfo = info]
      BY DEF Unslotted, id, v
    <2> HIDE DEF r, info, nw
    <2>. QED  BY <2>1, <2>2 DEF Write
  <1> HIDE DEF r, info, nw
  <1>10. /\ Written(m, r) /\ r.mapInfo = info /\ r.vvNew = nw /\ r.vvTried = m.vvTried
         /\ r.nNew = m.nNew /\ r.nTried = m.nTried
    BY <1>1, <1>6, <1>7, <1>8, <1>9, WriteLemma
  <1>11. Types(r) /\ Random(r) /\ AddrOk(r)
    BY <1>10, WrittenKeeps
  <1>12. Ids(r) = Ids(m)
    BY <1>10 DEF Written
  <1>13. TriedIds(r) = TriedIds(m)
    BY <1>7, <1>10, <1>12 DEF TriedIds, Ids
  <1>14. TriedOk(r)
    <2>1. \A j \in TriedIds(m) : j \in Ids(m) /\ r.mapInfo[j] = m.mapInfo[j]
      BY <1>2, <1>7, <1>10 DEF TriedIds, Ids
    <2>. QED  BY <1>1, <1>10, <1>13, <2>1 DEF TriedOk
  <1>15. NewOk(r, Y)
    <2>1. Y \subseteq Ids(r) \ TriedIds(r)
      BY <1>1, <1>2, <1>12, <1>13 DEF NewOk
    <2>2. SlotsOf(r, id) = SlotsOf(m, id) \ {s}
      <3>1. id # -1
        BY <1>2, <1>6
      <3>. QED  BY <1>8, <1>10, <3>1 DEF SlotsOf
    <2>3. ASSUME NEW j \in Ids(r) \ TriedIds(r)
          PROVE  /\ IsFiniteSet(SlotsOf(r, j))
                 /\ r.mapInfo[j].nRefCount = Cardinality(SlotsOf(r, j))
                 /\ r.mapInfo[j].nRefCount \in 0 .. ADDRMAN_NEW_BUCKETS_PER_ADDRESS
                 /\ r.mapInfo[j].nRefCount = 0 <=> j \in Y
      <3>1. CASE j = id
        BY <1>4, <1>5, <1>7, <1>10, <2>2, <3>1
      <3>2. CASE j # id
        <4>1. j # -1 /\ j \in Ids(m) \ TriedIds(m) /\ r.mapInfo[j] = m.mapInfo[j]
          BY <1>6, <1>7, <1>10, <1>12, <1>13, <3>2
        <4>2. SlotsOf(r, j) = SlotsOf(m, j)
          <5>1. m.vvNew[s] # j
            BY <3>2 DEF id
          <5>. QED  BY <1>8, <1>10, <4>1, <5>1 DEF SlotsOf
        <4>. QED  BY <1>1, <3>2, <4>1, <4>2 DEF NewOk
      <3>. QED  BY <3>1, <3>2
    <2>4. ASSUME NEW t \in NewSlot, r.vvNew[t] # -1
          PROVE  r.vvNew[t] \in Ids(r) \ TriedIds(r) /\ Position(r, t) = t
      <3>1. r.vvNew[t] = m.vvNew[t]
        BY <1>8, <1>10, <2>4
      <3>2. m.vvNew[t] \in Ids(m) \ TriedIds(m) /\ Position(m, t) = t
        BY <1>1, <2>4, <3>1 DEF NewOk
      <3>3. r.mapInfo[m.vvNew[t]].addr = m.mapInfo[m.vvNew[t]].addr
        BY <1>7, <1>10, <3>2
      <3>. QED  BY <1>12, <1>13, <3>1, <3>2, <3>3 DEF Position
    <2> HIDE DEF Y
    <2>. QED  BY <2>1, <2>3, <2>4 DEF NewOk
  <1>16. Counts(r, c)
    BY <1>1, <1>10, <1>12, <1>13 DEF Counts
  <1>17. Inv(r, Y, c)
    BY <1>11, <1>14, <1>15, <1>16 DEF Inv
  <1>18. Y = IF r.mapInfo[id].nRefCount = 0 THEN X \cup {id} ELSE X
    BY <1>7, <1>10
  <1>. QED  BY <1>2, <1>5, <1>7, <1>10, <1>17, <1>18 DEF r, id, nw


\* ClearNew: the slot is empty, and no entry is gone but the one it held.
LEMMA ClearNewLemma ==
    ASSUME NEW m, NEW X, NEW c \in Int, Inv(m, X, c), NEW s \in NewSlot
    PROVE  LET r == ClearNew(m, s)
           IN  /\ Inv(r, X, c) /\ r.vvNew[s] = -1 /\ r.vvTried = m.vvTried
               /\ \A j \in Ids(m) : j # m.vvNew[s] => j \in Ids(r) /\ SameEntry(r.mapInfo[j], m.mapInfo[j])
               /\ m.vvNew[s] \notin TriedIds(m) \cup X
  <1> DEFINE id == m.vvNew[s]
             w == Unslotted(m, s)
  <1>1. CASE m.vvNew[s] = -1
    <2>1. ClearNew(m, s) = m
      BY <1>1 DEF ClearNew
    <2>2. \A j \in Ids(m) : j # -1 /\ SameEntry(m.mapInfo[j], m.mapInfo[j])
      BY EntryTypes DEF SameEntry, Inv, Types
    <2>3. TriedIds(m) \cup X \subseteq Ids(m)
      BY DEF Inv, NewOk, TriedIds, Ids
    <2>. QED  BY <1>1, <2>1, <2>2, <2>3
  <1>2. CASE m.vvNew[s] # -1
    <2>1. /\ id \in Ids(m) \ (TriedIds(m) \cup X)
          /\ Inv(w, IF w.mapInfo[id].nRefCount = 0 THEN X \cup {id} ELSE X, c)
          /\ Written(m, w)
          /\ \A j \in Ids(m) : j # id => w.mapInfo[j] = m.mapInfo[j]
          /\ w.vvNew = [m.vvNew EXCEPT ![s] = -1] /\ w.vvTried = m.vvTried
      BY <1>2, UnslotLemma
    <2>2. ClearNew(m, s) = IF w.mapInfo[id].nRefCount = 0 THEN Delete(w, id) ELSE w
      BY <1>2 DEF ClearNew, Unslotted
    <2>3. m.vvNew \in [NewSlot -> Int]
      BY EntryTypes DEF Inv, Types
    <2>4. w.vvNew[s] = -1 /\ Ids(w) = Ids(m)
      BY <2>1, <2>3 DEF Written
    <2> HIDE DEF w, id
    <2>5. CASE w.mapInfo[id].nRefCount = 0
      <3> DEFINE r == Delete(w, id)
      <3>1. Inv(w, X \cup {id}, c)
        BY <2>1, <2>5
      <3>2. /\ Inv(r, (X \cup {id}) \ {id}, c) /\ Ids(r) = Ids(w) \ {id}
            /\ \A j \in Ids(r) : SameEntry(r.mapInfo[j], w.mapInfo[j])
            /\ r.vvNew = w.vvNew /\ r.vvTried = w.vvTried
        BY <3>1, DeleteLemma
      <3>3. (X \cup {id}) \ {id} = X
        BY <2>1
      <3>4. ClearNew(m, s) = r
        BY <2>2, <2>5
      <3> HIDE DEF r
      <3>5. \A j \in Ids(m) : j # id => j \in Ids(r) /\ SameEntry(r.mapInfo[j], m.mapInfo[j])
        BY <2>1, <2>4, <3>2
      <3>. QED  BY <2>1, <2>4, <3>2, <3>3, <3>4, <3>5 DEF id
    <2>6. CASE w.mapInfo[id].nRefCount # 0
      <3>1. \A j \in Ids(m) : j # id => SameEntry(w.mapInfo[j], m.mapInfo[j])
        BY <2>1 DEF SameEntry
      <3>. QED  BY <2>1, <2>2, <2>4, <2>6, <3>1 DEF id
    <2>. QED  BY <2>5, <2>6
  <1>. QED  BY <1>1, <1>2

\* An entry takes an empty slot that is its own.
Taken(m, id, slot) ==
    [m EXCEPT !.mapInfo[id].nRefCount = @ + 1, !.vvNew[slot] = id]

Own(a, slot) == <<slot[1], NewPos[a][slot[1]]>> = slot

LEMMA TakeLemma ==
    ASSUME NEW m, NEW X, NEW c \in Int, Inv(m, X, c), NEW id \in Ids(m) \ TriedIds(m), NEW s \in NewSlot,
           m.vvNew[s] = -1, Own(m.mapInfo[id].addr, s),
           m.mapInfo[id].nRefCount # ADDRMAN_NEW_BUCKETS_PER_ADDRESS
    PROVE  LET r == Taken(m, id, s)
           IN  /\ Inv(r, X \ {id}, c) /\ Written(m, r) /\ TriedIds(r) = TriedIds(m)
               /\ \A j \in Ids(m) : r.mapInfo[j].success = m.mapInfo[j].success
               /\ r.vvTried = m.vvTried /\ r.nNew = m.nNew
  <1> DEFINE r == Taken(m, id, s)
             v == m.mapInfo[id].nRefCount + 1
             info == [m.mapInfo EXCEPT ![id].nRefCount = v]
             nw == [m.vvNew EXCEPT ![s] = id]
  <1>1. m \in AddrMans /\ TriedOk(m) /\ NewOk(m, X) /\ Counts(m, c) /\ Types(m)
    BY DEF Inv, Types
  <1>2. /\ IsFiniteSet(SlotsOf(m, id)) /\ m.mapInfo[id].nRefCount = Cardinality(SlotsOf(m, id))
        /\ m.mapInfo[id].nRefCount \in 0 .. ADDRMAN_NEW_BUCKETS_PER_ADDRESS
    BY <1>1 DEF NewOk
  <1>3. /\ m.mapInfo \in [Ids(m) -> Info] /\ m.vvNew \in [NewSlot -> Int] /\ m.vvTried \in [KSlot -> Int]
        /\ m.nNew \in Int /\ m.nTried \in Int /\ Ids(m) \subseteq Nat
    BY <1>1, EntryTypes
  <1>4. s \notin SlotsOf(m, id)
    BY <1>3 DEF SlotsOf
  <1>5. /\ IsFiniteSet(SlotsOf(m, id) \cup {s})
        /\ Cardinality(SlotsOf(m, id) \cup {s}) = Cardinality(SlotsOf(m, id)) + 1
    BY <1>2, <1>4, OneMore
  <1>6. v \in Nat /\ v = Cardinality(SlotsOf(m, id) \cup {s}) /\ v # 0
        /\ v \in 0 .. ADDRMAN_NEW_BUCKETS_PER_ADDRESS
    BY <1>2, <1>5, AddrManAssumption
  <1> HIDE DEF v
  <1>7. /\ info \in [Ids(m) -> Info] /\ info[id].nRefCount = v
        /\ \A j \in Ids(m) : j # id => info[j] = m.mapInfo[j]
        /\ \A j \in Ids(m) : /\ info[j].addr = m.mapInfo[j].addr /\ info[j].source = m.mapInfo[j].source
                             /\ info[j].fInTried = m.mapInfo[j].fInTried
                             /\ info[j].success = m.mapInfo[j].success
                             /\ info[j].nRandomPos = m.mapInfo[j].nRandomPos
    BY <1>3, <1>6, SetRef
  <1>8. nw \in [NewSlot -> Int] /\ nw[s] = id /\ \A t \in NewSlot : t # s => nw[t] = m.vvNew[t]
    BY <1>3
  <1>9. r = Write(m, info, nw, m.vvTried, m.nNew, m.nTried)
    <2>1. m = [mapInfo |-> m.mapInfo, mapAddr |-> m.mapAddr, vRandom |-> m.vRandom, vvNew |-> m.vvNew,
               vvTried |-> m.vvTried, nNew |-> m.nNew, nTried |-> m.nTried, nIdCount |-> m.nIdCount]
      BY <1>1, EntryTypes
    <2>2. r = [m EXCEPT !.vvNew = nw, !.mapInfo = info]
      <3>1. r = [m EXCEPT !.mapInfo = info, !.vvNew = nw]
        BY DEF Taken, v
      <3> HIDE DEF r, info, nw
      <3>. QED  BY <2>1, <3>1
    <2> HIDE DEF r, info, nw
    <2>. QED  BY <2>1, <2>2 DEF Write
  <1> HIDE DEF r, info, nw
  <1>10. /\ Written(m, r) /\ r.mapInfo = info /\ r.vvNew = nw /\ r.vvTried = m.vvTried
         /\ r.nNew = m.nNew /\ r.nTried = m.nTried
    BY <1>1, <1>3, <1>7, <1>8, <1>9, WriteLemma
  <1>11. Types(r) /\ Random(r) /\ AddrOk(r)
    BY <1>10, WrittenKeeps
  <1>12. Ids(r) = Ids(m)
    BY <1>10 DEF Written
  <1>13. TriedIds(r) = TriedIds(m)
    BY <1>7, <1>10, <1>12 DEF TriedIds, Ids
  <1>14. TriedOk(r)
    <2>1. \A j \in TriedIds(m) : j \in Ids(m) /\ r.mapInfo[j] = m.mapInfo[j]
      BY <1>7, <1>10 DEF TriedIds, Ids
    <2>. QED  BY <1>1, <1>10, <1>13, <2>1 DEF TriedOk
  <1>15. NewOk(r, X \ {id})
    <2>1. X \ {id} \subseteq Ids(r) \ TriedIds(r)
      BY <1>1, <1>12, <1>13 DEF NewOk
    <2>2. SlotsOf(r, id) = SlotsOf(m, id) \cup {s}
      BY <1>8, <1>10 DEF SlotsOf
    <2>3. ASSUME NEW j \in Ids(r) \ TriedIds(r)
          PROVE  /\ IsFiniteSet(SlotsOf(r, j))
                 /\ r.mapInfo[j].nRefCount = Cardinality(SlotsOf(r, j))
                 /\ r.mapInfo[j].nRefCount \in 0 .. ADDRMAN_NEW_BUCKETS_PER_ADDRESS
                 /\ r.mapInfo[j].nRefCount = 0 <=> j \in X \ {id}
      <3>1. CASE j = id
        BY <1>5, <1>6, <1>7, <1>10, <2>2, <3>1
      <3>2. CASE j # id
        <4>1. j # -1 /\ j \in Ids(m) \ TriedIds(m) /\ r.mapInfo[j] = m.mapInfo[j]
          BY <1>3, <1>7, <1>10, <1>12, <1>13, <3>2
        <4>2. SlotsOf(r, j) = SlotsOf(m, j)
          BY <1>8, <1>10, <3>2, <4>1 DEF SlotsOf
        <4>. QED  BY <1>1, <3>2, <4>1, <4>2 DEF NewOk
      <3>. QED  BY <3>1, <3>2
    <2>4. ASSUME NEW t \in NewSlot, r.vvNew[t] # -1
          PROVE  r.vvNew[t] \in Ids(r) \ TriedIds(r) /\ Position(r, t) = t
      <3>1. CASE t = s
        <4>1. r.vvNew[t] = id /\ r.mapInfo[id].addr = m.mapInfo[id].addr
          BY <1>7, <1>8, <1>10, <3>1
        <4>. QED  BY <1>12, <1>13, <3>1, <4>1 DEF Position, Own
      <3>2. CASE t # s
        <4>1. r.vvNew[t] = m.vvNew[t]
          BY <1>8, <1>10, <3>2
        <4>2. m.vvNew[t] \in Ids(m) \ TriedIds(m) /\ Position(m, t) = t
          BY <1>1, <2>4, <4>1 DEF NewOk
        <4>3. r.mapInfo[m.vvNew[t]].addr = m.mapInfo[m.vvNew[t]].addr
          BY <1>7, <1>10, <4>2
        <4>. QED  BY <1>12, <1>13, <4>1, <4>2, <4>3 DEF Position
      <3>. QED  BY <3>1, <3>2
    <2>. QED  BY <2>1, <2>3, <2>4 DEF NewOk
  <1>16. Counts(r, c)
    BY <1>1, <1>10, <1>12, <1>13 DEF Counts
  <1>17. Inv(r, X \ {id}, c)
    BY <1>11, <1>14, <1>15, <1>16 DEF Inv
  <1>. QED  BY <1>7, <1>10, <1>13, <1>17 DEF r


\* MakeTried, first part.
LEMMA LeaveNewLemma ==
    ASSUME NEW m, NEW X, NEW c \in Int, Inv(m, X, c), NEW id \in Ids(m) \ TriedIds(m), id \notin X
    PROVE  LET r == LeaveNew(m, id)
           IN  /\ Inv(r, X \cup {id}, c + 1) /\ Written(m, r) /\ TriedIds(r) = TriedIds(m)
               /\ \A j \in Ids(m) : r.mapInfo[j].success = m.mapInfo[j].success
               /\ r.vvTried = m.vvTried
  <1> DEFINE r == LeaveNew(m, id)
             v == m.mapInfo[id].nRefCount - Cardinality(SlotsOf(m, id))
             info == [m.mapInfo EXCEPT ![id].nRefCount = v]
             nw == [s \in NewSlot |-> IF m.vvNew[s] = id THEN -1 ELSE m.vvNew[s]]
             x == m.nNew - 1
  <1>1. m \in AddrMans /\ TriedOk(m) /\ NewOk(m, X) /\ Counts(m, c) /\ Types(m)
    BY DEF Inv, Types
  <1>2. m.mapInfo[id].nRefCount = Cardinality(SlotsOf(m, id)) /\ m.mapInfo[id].nRefCount \in Nat
    BY <1>1, EntryTypes DEF NewOk
  <1>3. v = 0
    BY <1>2
  <1>4. /\ m.mapInfo \in [Ids(m) -> Info] /\ m.vvNew \in [NewSlot -> Int] /\ m.vvTried \in [KSlot -> Int]
        /\ m.nNew \in Int /\ m.nTried \in Int /\ Ids(m) \subseteq Nat
    BY <1>1, EntryTypes
  <1>5. x \in Int
    BY <1>4
  <1> HIDE DEF v, x
  <1>6. /\ info \in [Ids(m) -> Info] /\ info[id].nRefCount = 0
        /\ \A j \in Ids(m) : j # id => info[j] = m.mapInfo[j]
        /\ \A j \in Ids(m) : /\ info[j].addr = m.mapInfo[j].addr /\ info[j].source = m.mapInfo[j].source
                             /\ info[j].fInTried = m.mapInfo[j].fInTried
                             /\ info[j].success = m.mapInfo[j].success
                             /\ info[j].nRandomPos = m.mapInfo[j].nRandomPos
    <2>1. v \in Nat
      BY <1>3
    <2>2. m.mapInfo \in [Ids(m) -> Info] /\ id \in Ids(m)
      BY <1>4
    <2>3. v = 0
      BY <1>3
    <2> HIDE DEF info
    <2>4. /\ info \in [Ids(m) -> Info] /\ info[id].nRefCount = v
          /\ \A j \in Ids(m) : j # id => info[j] = m.mapInfo[j]
          /\ \A j \in Ids(m) : /\ info[j].addr = m.mapInfo[j].addr /\ info[j].source = m.mapInfo[j].source
                               /\ info[j].fInTried = m.mapInfo[j].fInTried
                               /\ info[j].success = m.mapInfo[j].success
                               /\ info[j].nRandomPos = m.mapInfo[j].nRandomPos
      BY <2>1, <2>2, SetRef DEF info
    <2>. QED  BY <2>3, <2>4
  <1>7. /\ nw \in [NewSlot -> Int] /\ \A t \in NewSlot : m.vvNew[t] # id => nw[t] = m.vvNew[t]
        /\ \A t \in NewSlot : m.vvNew[t] = id => nw[t] = -1
    <2>1. \A t \in NewSlot : (IF m.vvNew[t] = id THEN -1 ELSE m.vvNew[t]) \in Int
      BY <1>4
    <2>2. nw \in [NewSlot -> Int]
      BY <2>1
    <2>3. \A t \in NewSlot : nw[t] = IF m.vvNew[t] = id THEN -1 ELSE m.vvNew[t]
      OBVIOUS
    <2> HIDE DEF nw
    <2>. QED  BY <2>2, <2>3
  <1>8. r = Write(m, info, nw, m.vvTried, x, m.nTried)
    <2>1. m = [mapInfo |-> m.mapInfo, mapAddr |-> m.mapAddr, vRandom |-> m.vRandom, vvNew |-> m.vvNew,
               vvTried |-> m.vvTried, nNew |-> m.nNew, nTried |-> m.nTried, nIdCount |-> m.nIdCount]
      BY <1>1, EntryTypes
    <2>2. r = [m EXCEPT !.vvNew = nw, !.mapInfo = info, !.nNew = x]
      BY DEF LeaveNew, v, x
    <2> HIDE DEF r, info, nw
    <2>. QED  BY <2>1, <2>2 DEF Write
  <1> HIDE DEF r, info, nw
  <1>9. /\ Written(m, r) /\ r.mapInfo = info /\ r.vvNew = nw /\ r.vvTried = m.vvTried
        /\ r.nNew = x /\ r.nTried = m.nTried
    BY <1>1, <1>4, <1>5, <1>6, <1>7, <1>8, WriteLemma
  <1>10. Types(r) /\ Random(r) /\ AddrOk(r)
    BY <1>9, WrittenKeeps
  <1>11. Ids(r) = Ids(m)
    BY <1>9 DEF Written
  <1>12. TriedIds(r) = TriedIds(m)
    BY <1>6, <1>9, <1>11 DEF TriedIds, Ids
  <1>13. TriedOk(r)
    <2>1. \A j \in TriedIds(m) : j \in Ids(m) /\ r.mapInfo[j] = m.mapInfo[j]
      BY <1>6, <1>9 DEF TriedIds, Ids
    <2>. QED  BY <1>1, <1>9, <1>12, <2>1 DEF TriedOk
  <1>14. NewOk(r, X \cup {id})
    <2>1. X \cup {id} \subseteq Ids(r) \ TriedIds(r)
      BY <1>1, <1>11, <1>12 DEF NewOk
    <2>2. SlotsOf(r, id) = {}
      <3>1. id # -1
        BY <1>4
      <3>. QED  BY <1>7, <1>9, <3>1 DEF SlotsOf
    <2>3. ASSUME NEW j \in Ids(r) \ TriedIds(r)
          PROVE  /\ IsFiniteSet(SlotsOf(r, j))
                 /\ r.mapInfo[j].nRefCount = Cardinality(SlotsOf(r, j))
                 /\ r.mapInfo[j].nRefCount \in 0 .. ADDRMAN_NEW_BUCKETS_PER_ADDRESS
                 /\ r.mapInfo[j].nRefCount = 0 <=> j \in X \cup {id}
      <3>1. CASE j = id
        <4>1. IsFiniteSet({}) /\ Cardinality({}) = 0
          BY FS_EmptySet
        <4>2. 0 \in 0 .. ADDRMAN_NEW_BUCKETS_PER_ADDRESS
          BY AddrManAssumption
        <4>. QED  BY <1>6, <1>9, <2>2, <3>1, <4>1, <4>2
      <3>2. CASE j # id
        <4>1. j # -1 /\ j \in Ids(m) \ TriedIds(m) /\ r.mapInfo[j] = m.mapInfo[j]
          BY <1>4, <1>6, <1>9, <1>11, <1>12, <3>2
        <4>2. SlotsOf(r, j) = SlotsOf(m, j)
          BY <1>7, <1>9, <3>2, <4>1 DEF SlotsOf
        <4>. QED  BY <1>1, <3>2, <4>1, <4>2 DEF NewOk
      <3>. QED  BY <3>1, <3>2
    <2>4. ASSUME NEW t \in NewSlot, r.vvNew[t] # -1
          PROVE  r.vvNew[t] \in Ids(r) \ TriedIds(r) /\ Position(r, t) = t
      <3>1. r.vvNew[t] = m.vvNew[t]
        BY <1>7, <1>9, <2>4
      <3>2. m.vvNew[t] \in Ids(m) \ TriedIds(m) /\ Position(m, t) = t
        BY <1>1, <2>4, <3>1 DEF NewOk
      <3>3. r.mapInfo[m.vvNew[t]].addr = m.mapInfo[m.vvNew[t]].addr
        BY <1>6, <1>9, <3>2
      <3>. QED  BY <1>11, <1>12, <3>1, <3>2, <3>3 DEF Position
    <2>. QED  BY <2>1, <2>3, <2>4 DEF NewOk
  <1>15. Counts(r, c + 1)
    <2>1. Cardinality(Ids(m) \ TriedIds(m)) \in Nat
      BY <1>1, IdsFinite
    <2>2. r.nNew = Cardinality(Ids(m) \ TriedIds(m)) - c - 1
      BY <1>1, <1>9 DEF Counts, x
    <2>3. r.nTried = Cardinality(TriedIds(m))
      BY <1>1, <1>9 DEF Counts
    <2>. QED  BY <1>11, <1>12, <2>1, <2>2, <2>3 DEF Counts
  <1>16. Inv(r, X \cup {id}, c + 1)
    BY <1>10, <1>13, <1>14, <1>15 DEF Inv
  <1>. QED  BY <1>6, <1>9, <1>12, <1>16 DEF r

\* The count of the new table, written alone.
LEMMA CountLemma ==
    ASSUME NEW m, NEW X, NEW c \in Int, Inv(m, X, c)
    PROVE  LET r == [m EXCEPT !.nNew = @ + 1]
           IN  /\ Inv(r, X, c - 1) /\ r.mapInfo = m.mapInfo /\ r.vvTried = m.vvTried /\ r.mapAddr = m.mapAddr
               /\ r.nIdCount = m.nIdCount /\ r.vvNew = m.vvNew
  <1> DEFINE r == [m EXCEPT !.nNew = @ + 1]
  <1>1. m \in AddrMans
    BY DEF Inv, Types
  <1>2. /\ r.mapInfo = m.mapInfo /\ r.mapAddr = m.mapAddr /\ r.vRandom = m.vRandom /\ r.vvNew = m.vvNew
        /\ r.vvTried = m.vvTried /\ r.nNew = m.nNew + 1 /\ r.nTried = m.nTried /\ r.nIdCount = m.nIdCount
    BY <1>1 DEF AddrMans
  <1>3. r \in AddrMans
    <2>1. m.nNew + 1 \in Int
      BY <1>1 DEF AddrMans
    <2>. QED  BY <1>1, <2>1 DEF AddrMans
  <1> HIDE DEF r
  <1>4. Ids(r) = Ids(m) /\ TriedIds(r) = TriedIds(m)
    BY <1>2 DEF Ids, TriedIds
  <1>5. Types(r) /\ Random(r) /\ AddrOk(r)
    <2>1. Written(m, r)
      BY <1>2, <1>3, <1>4 DEF Written
    <2>. QED  BY <2>1, WrittenKeeps
  <1>6. TriedOk(r)
    BY <1>2, <1>4 DEF Inv, TriedOk
  <1>7. NewOk(r, X)
    <2>1. \A j : SlotsOf(r, j) = SlotsOf(m, j)
      BY <1>2 DEF SlotsOf
    <2>2. \A t \in NewSlot : Position(r, t) = Position(m, t)
      BY <1>2 DEF Position
    <2>. QED  BY <1>2, <1>4, <2>1, <2>2 DEF Inv, NewOk
  <1>8. Counts(r, c - 1)
    <2>1. Cardinality(Ids(m) \ TriedIds(m)) \in Nat
      BY IdsFinite DEF Inv
    <2>2. r.nNew = Cardinality(Ids(m) \ TriedIds(m)) - c + 1
      BY <1>2 DEF Inv, Counts
    <2>3. r.nTried = Cardinality(TriedIds(m))
      BY <1>2 DEF Inv, Counts
    <2>. QED  BY <1>4, <2>1, <2>2, <2>3 DEF Counts
  <1>9. Inv(r, X, c - 1)
    BY <1>5, <1>6, <1>7, <1>8 DEF Inv
  <1>. QED  BY <1>2, <1>9 DEF r


\* MakeTried: the entry in the way leaves the tried table.
Out(m, k) ==
    [m EXCEPT !.mapInfo[m.vvTried[k]].fInTried = FALSE, !.vvTried[k] = -1, !.nTried = @ - 1]

LEMMA OutLemma ==
    ASSUME NEW m, NEW X, NEW c \in Int, Inv(m, X, c), NEW k \in KSlot, m.vvTried[k] # -1
    PROVE  LET r == Out(m, k)
               old == m.vvTried[k]
           IN  /\ old \in TriedIds(m) /\ Inv(r, X \cup {old}, c + 1) /\ Written(m, r)
               /\ TriedIds(r) = TriedIds(m) \ {old}
               /\ \A j \in Ids(m) : r.mapInfo[j].success = m.mapInfo[j].success
               /\ r.mapInfo[old].nRefCount = 0
               /\ r.vvTried[k] = -1
  <1> DEFINE r == Out(m, k)
             id == m.vvTried[k]
             info == [m.mapInfo EXCEPT ![id].fInTried = FALSE]
             tr == [m.vvTried EXCEPT ![k] = -1]
             y == m.nTried - 1
  <1>1. m \in AddrMans /\ TriedOk(m) /\ NewOk(m, X) /\ Counts(m, c) /\ Types(m)
    BY DEF Inv, Types
  <1>2. id \in TriedIds(m) /\ id \in Ids(m) /\ TriedIds(m) \subseteq Ids(m)
    BY <1>1 DEF TriedOk, TriedIds, Ids
  <1>3. /\ m.mapInfo \in [Ids(m) -> Info] /\ m.vvNew \in [NewSlot -> Int] /\ m.vvTried \in [KSlot -> Int]
        /\ m.nNew \in Int /\ m.nTried \in Int /\ Ids(m) \subseteq Nat
    BY <1>1, EntryTypes
  <1>4. y \in Int
    BY <1>3
  <1> HIDE DEF y
  <1>5. /\ info \in [Ids(m) -> Info] /\ info[id].fInTried = FALSE
        /\ \A j \in Ids(m) : j # id => info[j] = m.mapInfo[j]
        /\ \A j \in Ids(m) : /\ info[j].addr = m.mapInfo[j].addr /\ info[j].source = m.mapInfo[j].source
                             /\ info[j].nRefCount = m.mapInfo[j].nRefCount
                             /\ info[j].success = m.mapInfo[j].success
                             /\ info[j].nRandomPos = m.mapInfo[j].nRandomPos
    <2> DEFINE v == FALSE
    <2>1. v \in BOOLEAN /\ id \in Ids(m) /\ m.mapInfo \in [Ids(m) -> Info]
      BY <1>2, <1>3
    <2>2. info = [m.mapInfo EXCEPT ![id].fInTried = v]
      OBVIOUS
    <2> HIDE DEF id, v, info
    <2>3. /\ info \in [Ids(m) -> Info] /\ info[id].fInTried = v
          /\ \A j \in Ids(m) : j # id => info[j] = m.mapInfo[j]
          /\ \A j \in Ids(m) : /\ info[j].addr = m.mapInfo[j].addr /\ info[j].source = m.mapInfo[j].source
                               /\ info[j].nRefCount = m.mapInfo[j].nRefCount
                               /\ info[j].success = m.mapInfo[j].success
                               /\ info[j].nRandomPos = m.mapInfo[j].nRandomPos
      BY <2>1, <2>2, SetTried
    <2>. QED  BY <2>3 DEF v
  <1>6. tr \in [KSlot -> Int] /\ tr[k] = -1 /\ \A q \in KSlot : q # k => tr[q] = m.vvTried[q]
    BY <1>3
  <1>7. r = Write(m, info, m.vvNew, tr, m.nNew, y)
    <2>1. m = [mapInfo |-> m.mapInfo, mapAddr |-> m.mapAddr, vRandom |-> m.vRandom, vvNew |-> m.vvNew,
               vvTried |-> m.vvTried, nNew |-> m.nNew, nTried |-> m.nTried, nIdCount |-> m.nIdCount]
      BY <1>1, EntryTypes
    <2>2. r = [m EXCEPT !.mapInfo = info, !.vvTried = tr, !.nTried = y]
      BY DEF Out, y
    <2> HIDE DEF r, info, tr
    <2>. QED  BY <2>1, <2>2 DEF Write
  <1> HIDE DEF r, info, tr
  <1>8. /\ Written(m, r) /\ r.mapInfo = info /\ r.vvNew = m.vvNew /\ r.vvTried = tr
        /\ r.nNew = m.nNew /\ r.nTried = y
    BY <1>1, <1>3, <1>4, <1>5, <1>6, <1>7, WriteLemma
  <1>9. Types(r) /\ Random(r) /\ AddrOk(r)
    BY <1>8, WrittenKeeps
  <1>10. Ids(r) = Ids(m)
    BY <1>8 DEF Written
  <1>11. TriedIds(r) = TriedIds(m) \ {id}
    <2> HIDE DEF id
    <2>. QED  BY <1>2, <1>5, <1>8, <1>10 DEF TriedIds, Ids
  <1>12. TriedOk(r)
    <2>1. ASSUME NEW j \in TriedIds(r)
          PROVE  /\ r.mapInfo[j].success /\ r.mapInfo[j].nRefCount = 0
                 /\ r.vvTried[TriedSlot[r.mapInfo[j].addr]] = j
      <3>1. j \in TriedIds(m) /\ j \in Ids(m) /\ j # id /\ r.mapInfo[j] = m.mapInfo[j]
        BY <1>2, <1>5, <1>8, <1>11
      <3>2. m.mapInfo[j].addr \in Addr
        BY <1>1, <3>1, EntryTypes
      <3>3. TriedSlot[m.mapInfo[j].addr] \in KSlot
        BY <3>2 DEF KSlot
      <3>4. /\ m.mapInfo[j].success /\ m.mapInfo[j].nRefCount = 0
            /\ m.vvTried[TriedSlot[m.mapInfo[j].addr]] = j
        BY <1>1, <3>1 DEF TriedOk
      <3>5. TriedSlot[m.mapInfo[j].addr] # k
        BY <3>1, <3>4
      <3>. QED  BY <1>6, <1>8, <3>1, <3>3, <3>4, <3>5
    <2>2. ASSUME NEW q \in KSlot, r.vvTried[q] # -1
          PROVE  r.vvTried[q] \in TriedIds(r) /\ TriedSlot[r.mapInfo[r.vvTried[q]].addr] = q
      <3>1. q # k /\ r.vvTried[q] = m.vvTried[q]
        BY <1>6, <1>8, <2>2
      <3>2. m.vvTried[q] \in TriedIds(m) /\ TriedSlot[m.mapInfo[m.vvTried[q]].addr] = q
        BY <1>1, <2>2, <3>1 DEF TriedOk
      <3>3. TriedSlot[m.mapInfo[id].addr] = k
        BY <1>1 DEF TriedOk
      <3>4. m.vvTried[q] # id
        BY <3>1, <3>2, <3>3
      <3>5. r.mapInfo[m.vvTried[q]] = m.mapInfo[m.vvTried[q]]
        BY <1>2, <1>5, <1>8, <3>2, <3>4
      <3>. QED  BY <1>11, <3>1, <3>2, <3>4, <3>5
    <2>. QED  BY <2>1, <2>2 DEF TriedOk
  <1>13. m.mapInfo[id].nRefCount = 0 /\ SlotsOf(m, id) = {} /\ id \notin X
    <2>1. m.mapInfo[id].nRefCount = 0 /\ id \notin X
      BY <1>1, <1>2 DEF TriedOk, NewOk
    <2>2. ASSUME NEW s \in NewSlot, m.vvNew[s] = id PROVE FALSE
      <3>1. id # -1
        OBVIOUS
      <3>. QED  BY <1>1, <1>2, <2>2, <3>1 DEF NewOk
    <2>. QED  BY <2>1, <2>2 DEF SlotsOf
  <1> HIDE DEF id
  <1>14. NewOk(r, X \cup {id})
    <2>1. X \cup {id} \subseteq Ids(r) \ TriedIds(r)
      BY <1>1, <1>2, <1>10, <1>11 DEF NewOk
    <2>2. \A j : SlotsOf(r, j) = SlotsOf(m, j)
      BY <1>8 DEF SlotsOf
    <2>3. ASSUME NEW j \in Ids(r) \ TriedIds(r)
          PROVE  /\ IsFiniteSet(SlotsOf(r, j))
                 /\ r.mapInfo[j].nRefCount = Cardinality(SlotsOf(r, j))
                 /\ r.mapInfo[j].nRefCount \in 0 .. ADDRMAN_NEW_BUCKETS_PER_ADDRESS
                 /\ r.mapInfo[j].nRefCount = 0 <=> j \in X \cup {id}
      <3>1. CASE j = id
        <4>1. IsFiniteSet({}) /\ Cardinality({}) = 0
          BY FS_EmptySet
        <4>2. 0 \in 0 .. ADDRMAN_NEW_BUCKETS_PER_ADDRESS
          BY AddrManAssumption
        <4>3. r.mapInfo[id].nRefCount = 0 /\ SlotsOf(r, id) = {}
          BY <1>2, <1>5, <1>8, <1>13, <2>2
        <4>. QED  BY <3>1, <4>1, <4>2, <4>3
      <3>2. CASE j # id
        <4>1. j \in Ids(m) \ TriedIds(m) /\ r.mapInfo[j] = m.mapInfo[j]
          BY <1>5, <1>8, <1>10, <1>11, <3>2
        <4>. QED  BY <1>1, <2>2, <3>2, <4>1 DEF NewOk
      <3>. QED  BY <3>1, <3>2
    <2>4. ASSUME NEW t \in NewSlot, r.vvNew[t] # -1
          PROVE  r.vvNew[t] \in Ids(r) \ TriedIds(r) /\ Position(r, t) = t
      <3>1. r.vvNew[t] = m.vvNew[t]
        BY <1>8
      <3>2. m.vvNew[t] \in Ids(m) \ TriedIds(m) /\ Position(m, t) = t
        BY <1>1, <2>4, <3>1 DEF NewOk
      <3>3. r.mapInfo[m.vvNew[t]].addr = m.mapInfo[m.vvNew[t]].addr
        BY <1>5, <1>8, <3>2
      <3>. QED  BY <1>10, <1>11, <3>1, <3>2, <3>3 DEF Position
    <2>. QED  BY <2>1, <2>3, <2>4 DEF NewOk
  <1>15. Counts(r, c + 1)
    <2>1. /\ IsFiniteSet(Ids(m) \ TriedIds(m)) /\ IsFiniteSet(TriedIds(m))
          /\ Cardinality(Ids(m) \ TriedIds(m)) \in Nat /\ Cardinality(TriedIds(m)) \in Nat
      BY <1>1, IdsFinite
    <2>2. Ids(r) \ TriedIds(r) = (Ids(m) \ TriedIds(m)) \cup {id}
      BY <1>2, <1>10, <1>11
    <2>3. id \notin Ids(m) \ TriedIds(m)
      BY <1>2
    <2>4. Cardinality(Ids(r) \ TriedIds(r)) = Cardinality(Ids(m) \ TriedIds(m)) + 1
      BY <2>1, <2>2, <2>3, OneMore
    <2>5. Cardinality(TriedIds(r)) = Cardinality(TriedIds(m)) - 1
      BY <1>2, <1>11, <2>1, OneLess
    <2>6. r.nNew = Cardinality(Ids(m) \ TriedIds(m)) - c /\ r.nTried = Cardinality(TriedIds(m)) - 1
      BY <1>1, <1>8 DEF Counts, y
    <2>. QED  BY <2>1, <2>4, <2>5, <2>6 DEF Counts
  <1>16. Inv(r, X \cup {id}, c + 1)
    BY <1>9, <1>12, <1>14, <1>15 DEF Inv
  <1>17. r.mapInfo[id].nRefCount = 0
    BY <1>2, <1>5, <1>8, <1>13
  <1>. QED  BY <1>2, <1>5, <1>6, <1>8, <1>11, <1>16, <1>17 DEF r, id


\* MakeTried, last part.
Entered(m, id, k) ==
    [m EXCEPT !.vvTried[k] = id, !.nTried = @ + 1, !.mapInfo[id].fInTried = TRUE]

LEMMA EnterLemma ==
    ASSUME NEW m, NEW X, NEW c \in Int, Inv(m, X, c), NEW id \in X, NEW k \in KSlot,
           k = TriedSlot[m.mapInfo[id].addr], m.vvTried[k] = -1, m.mapInfo[id].success
    PROVE  LET r == Entered(m, id, k)
           IN  /\ Inv(r, X \ {id}, c - 1) /\ Written(m, r)
               /\ TriedIds(r) = TriedIds(m) \cup {id}
  <1> DEFINE r == Entered(m, id, k)
             v == TRUE
             info == [m.mapInfo EXCEPT ![id].fInTried = v]
             tr == [m.vvTried EXCEPT ![k] = id]
             y == m.nTried + 1
  <1>1. m \in AddrMans /\ TriedOk(m) /\ NewOk(m, X) /\ Counts(m, c) /\ Types(m)
    BY DEF Inv, Types
  <1>2. /\ id \notin TriedIds(m) /\ id \in Ids(m) /\ TriedIds(m) \subseteq Ids(m)
        /\ m.mapInfo[id].nRefCount = 0 /\ \A s \in NewSlot : m.vvNew[s] # id
    BY <1>1, NoSlots DEF NewOk, TriedIds, Ids
  <1>3. /\ m.mapInfo \in [Ids(m) -> Info] /\ m.vvNew \in [NewSlot -> Int] /\ m.vvTried \in [KSlot -> Int]
        /\ m.nNew \in Int /\ m.nTried \in Int /\ Ids(m) \subseteq Nat
    BY <1>1, EntryTypes
  <1>4. y \in Int
    BY <1>3
  <1> HIDE DEF y
  <1>5. /\ info \in [Ids(m) -> Info] /\ info[id].fInTried = TRUE
        /\ \A j \in Ids(m) : j # id => info[j] = m.mapInfo[j]
        /\ \A j \in Ids(m) : /\ info[j].addr = m.mapInfo[j].addr /\ info[j].source = m.mapInfo[j].source
                             /\ info[j].nRefCount = m.mapInfo[j].nRefCount
                             /\ info[j].success = m.mapInfo[j].success
                             /\ info[j].nRandomPos = m.mapInfo[j].nRandomPos
    <2>1. v \in BOOLEAN /\ id \in Ids(m) /\ m.mapInfo \in [Ids(m) -> Info]
      BY <1>2, <1>3
    <2>2. info = [m.mapInfo EXCEPT ![id].fInTried = v]
      OBVIOUS
    <2> HIDE DEF v, info
    <2>3. /\ info \in [Ids(m) -> Info] /\ info[id].fInTried = v
          /\ \A j \in Ids(m) : j # id => info[j] = m.mapInfo[j]
          /\ \A j \in Ids(m) : /\ info[j].addr = m.mapInfo[j].addr /\ info[j].source = m.mapInfo[j].source
                               /\ info[j].nRefCount = m.mapInfo[j].nRefCount
                               /\ info[j].success = m.mapInfo[j].success
                               /\ info[j].nRandomPos = m.mapInfo[j].nRandomPos
      BY <2>1, <2>2, SetTried
    <2>. QED  BY <2>3 DEF v
  <1>6. tr \in [KSlot -> Int] /\ tr[k] = id /\ \A q \in KSlot : q # k => tr[q] = m.vvTried[q]
    BY <1>2, <1>3
  <1>7. r = Write(m, info, m.vvNew, tr, m.nNew, y)
    <2>1. m = [mapInfo |-> m.mapInfo, mapAddr |-> m.mapAddr, vRandom |-> m.vRandom, vvNew |-> m.vvNew,
               vvTried |-> m.vvTried, nNew |-> m.nNew, nTried |-> m.nTried, nIdCount |-> m.nIdCount]
      BY <1>1, EntryTypes
    <2>2. r = [m EXCEPT !.vvTried = tr, !.nTried = y, !.mapInfo = info]
      BY DEF Entered, y
    <2> HIDE DEF r, info, tr
    <2>. QED  BY <2>1, <2>2 DEF Write
  <1> HIDE DEF r, info, tr
  <1>8. /\ Written(m, r) /\ r.mapInfo = info /\ r.vvNew = m.vvNew /\ r.vvTried = tr
        /\ r.nNew = m.nNew /\ r.nTried = y
    BY <1>1, <1>3, <1>4, <1>5, <1>6, <1>7, WriteLemma
  <1>9. Types(r) /\ Random(r) /\ AddrOk(r)
    BY <1>8, WrittenKeeps
  <1>10. Ids(r) = Ids(m)
    BY <1>8 DEF Written
  <1>11. TriedIds(r) = TriedIds(m) \cup {id}
    BY <1>2, <1>5, <1>8, <1>10 DEF TriedIds, Ids
  <1>12. TriedOk(r)
    <2>1. ASSUME NEW j \in TriedIds(r)
          PROVE  /\ r.mapInfo[j].success /\ r.mapInfo[j].nRefCount = 0
                 /\ r.vvTried[TriedSlot[r.mapInfo[j].addr]] = j
      <3>1. CASE j = id
        BY <1>2, <1>5, <1>6, <1>8, <3>1
      <3>2. CASE j # id
        <4>1. j \in TriedIds(m) /\ j \in Ids(m) /\ r.mapInfo[j] = m.mapInfo[j]
          BY <1>2, <1>5, <1>8, <1>11, <3>2
        <4>2. m.mapInfo[j].addr \in Addr
          BY <1>1, <4>1, EntryTypes
        <4>3. TriedSlot[m.mapInfo[j].addr] \in KSlot
          BY <4>2 DEF KSlot
        <4>4. /\ m.mapInfo[j].success /\ m.mapInfo[j].nRefCount = 0
              /\ m.vvTried[TriedSlot[m.mapInfo[j].addr]] = j
          BY <1>1, <4>1 DEF TriedOk
        <4>5. TriedSlot[m.mapInfo[j].addr] # k
          BY <1>3, <4>1, <4>4
        <4>. QED  BY <1>6, <1>8, <4>1, <4>3, <4>4, <4>5
      <3>. QED  BY <3>1, <3>2
    <2>2. ASSUME NEW q \in KSlot, r.vvTried[q] # -1
          PROVE  r.vvTried[q] \in TriedIds(r) /\ TriedSlot[r.mapInfo[r.vvTried[q]].addr] = q
      <3>1. CASE q = k
        BY <1>2, <1>5, <1>6, <1>8, <1>11, <3>1
      <3>2. CASE q # k
        <4>1. r.vvTried[q] = m.vvTried[q]
          BY <1>6, <1>8, <3>2
        <4>2. m.vvTried[q] \in TriedIds(m) /\ TriedSlot[m.mapInfo[m.vvTried[q]].addr] = q
          BY <1>1, <2>2, <4>1 DEF TriedOk
        <4>3. r.mapInfo[m.vvTried[q]].addr = m.mapInfo[m.vvTried[q]].addr
          BY <1>2, <1>5, <1>8, <4>2
        <4>. QED  BY <1>11, <4>1, <4>2, <4>3
      <3>. QED  BY <3>1, <3>2
    <2>. QED  BY <2>1, <2>2 DEF TriedOk
  <1>13. NewOk(r, X \ {id})
    <2>1. X \ {id} \subseteq Ids(r) \ TriedIds(r)
      BY <1>1, <1>10, <1>11 DEF NewOk
    <2>2. \A j : SlotsOf(r, j) = SlotsOf(m, j)
      BY <1>8 DEF SlotsOf
    <2>3. ASSUME NEW j \in Ids(r) \ TriedIds(r)
          PROVE  /\ IsFiniteSet(SlotsOf(r, j))
                 /\ r.mapInfo[j].nRefCount = Cardinality(SlotsOf(r, j))
                 /\ r.mapInfo[j].nRefCount \in 0 .. ADDRMAN_NEW_BUCKETS_PER_ADDRESS
                 /\ r.mapInfo[j].nRefCount = 0 <=> j \in X \ {id}
      <3>1. j # id /\ j \in Ids(m) \ TriedIds(m) /\ r.mapInfo[j] = m.mapInfo[j]
        BY <1>5, <1>8, <1>10, <1>11
      <3>. QED  BY <1>1, <2>2, <3>1 DEF NewOk
    <2>4. ASSUME NEW t \in NewSlot, r.vvNew[t] # -1
          PROVE  r.vvNew[t] \in Ids(r) \ TriedIds(r) /\ Position(r, t) = t
      <3>1. r.vvNew[t] = m.vvNew[t] /\ m.vvNew[t] # id
        BY <1>2, <1>8
      <3>2. m.vvNew[t] \in Ids(m) \ TriedIds(m) /\ Position(m, t) = t
        BY <1>1, <2>4, <3>1 DEF NewOk
      <3>3. r.mapInfo[m.vvNew[t]].addr = m.mapInfo[m.vvNew[t]].addr
        BY <1>5, <1>8, <3>2
      <3>. QED  BY <1>10, <1>11, <3>1, <3>2, <3>3 DEF Position
    <2>. QED  BY <2>1, <2>3, <2>4 DEF NewOk
  <1>14. Counts(r, c - 1)
    <2>1. /\ IsFiniteSet(Ids(m) \ TriedIds(m)) /\ IsFiniteSet(TriedIds(m))
          /\ Cardinality(Ids(m) \ TriedIds(m)) \in Nat /\ Cardinality(TriedIds(m)) \in Nat
      BY <1>1, IdsFinite
    <2>2. Ids(r) \ TriedIds(r) = (Ids(m) \ TriedIds(m)) \ {id}
      BY <1>10, <1>11
    <2>3. id \in Ids(m) \ TriedIds(m)
      BY <1>2
    <2>4. Cardinality(Ids(r) \ TriedIds(r)) = Cardinality(Ids(m) \ TriedIds(m)) - 1
      BY <2>1, <2>2, <2>3, OneLess
    <2>5. Cardinality(TriedIds(r)) = Cardinality(TriedIds(m)) + 1
      BY <1>2, <1>11, <2>1, OneMore
    <2>6. r.nNew = Cardinality(Ids(m) \ TriedIds(m)) - c /\ r.nTried = Cardinality(TriedIds(m)) + 1
      BY <1>1, <1>8 DEF Counts, y
    <2>. QED  BY <2>1, <2>4, <2>5, <2>6 DEF Counts
  <1>15. Inv(r, X \ {id}, c - 1)
    BY <1>9, <1>12, <1>13, <1>14 DEF Inv
  <1>. QED  BY <1>8, <1>11, <1>15 DEF r

\* Good_ notes the answer.
LEMMA SuccessLemma ==
    ASSUME NEW m, NEW X, NEW c \in Int, Inv(m, X, c), NEW id \in Ids(m)
    PROVE  LET r == [m EXCEPT !.mapInfo[id].success = TRUE]
           IN  /\ Inv(r, X, c) /\ Written(m, r) /\ TriedIds(r) = TriedIds(m) /\ r.mapInfo[id].success
               /\ r.vvNew = m.vvNew
  <1> DEFINE r == [m EXCEPT !.mapInfo[id].success = TRUE]
             v == TRUE
             info == [m.mapInfo EXCEPT ![id].success = v]
  <1>1. m \in AddrMans /\ TriedOk(m) /\ NewOk(m, X) /\ Counts(m, c) /\ Types(m)
    BY DEF Inv, Types
  <1>2. /\ m.mapInfo \in [Ids(m) -> Info] /\ m.vvNew \in [NewSlot -> Int] /\ m.vvTried \in [KSlot -> Int]
        /\ m.nNew \in Int /\ m.nTried \in Int
    BY <1>1, EntryTypes
  <1>3. /\ info \in [Ids(m) -> Info] /\ info[id].success = TRUE
        /\ \A j \in Ids(m) : j # id => info[j] = m.mapInfo[j]
        /\ \A j \in Ids(m) : /\ info[j].addr = m.mapInfo[j].addr /\ info[j].source = m.mapInfo[j].source
                             /\ info[j].nRefCount = m.mapInfo[j].nRefCount
                             /\ info[j].fInTried = m.mapInfo[j].fInTried
                             /\ info[j].nRandomPos = m.mapInfo[j].nRandomPos
    <2>1. v \in BOOLEAN
      OBVIOUS
    <2>2. info = [m.mapInfo EXCEPT ![id].success = v]
      OBVIOUS
    <2> HIDE DEF v, info
    <2>3. /\ info \in [Ids(m) -> Info] /\ info[id].success = v
          /\ \A j \in Ids(m) : j # id => info[j] = m.mapInfo[j]
          /\ \A j \in Ids(m) : /\ info[j].addr = m.mapInfo[j].addr /\ info[j].source = m.mapInfo[j].source
                               /\ info[j].nRefCount = m.mapInfo[j].nRefCount
                               /\ info[j].fInTried = m.mapInfo[j].fInTried
                               /\ info[j].nRandomPos = m.mapInfo[j].nRandomPos
      BY <1>2, <2>1, <2>2, SetSuccess
    <2>. QED  BY <2>3 DEF v
  <1>4. r = Write(m, info, m.vvNew, m.vvTried, m.nNew, m.nTried)
    <2>1. m = [mapInfo |-> m.mapInfo, mapAddr |-> m.mapAddr, vRandom |-> m.vRandom, vvNew |-> m.vvNew,
               vvTried |-> m.vvTried, nNew |-> m.nNew, nTried |-> m.nTried, nIdCount |-> m.nIdCount]
      BY <1>1, EntryTypes
    <2>2. r = [m EXCEPT !.mapInfo = info]
      OBVIOUS
    <2> HIDE DEF r, info
    <2>. QED  BY <2>1, <2>2 DEF Write
  <1> HIDE DEF r, info
  <1>5. /\ Written(m, r) /\ r.mapInfo = info /\ r.vvNew = m.vvNew /\ r.vvTried = m.vvTried
        /\ r.nNew = m.nNew /\ r.nTried = m.nTried
    BY <1>1, <1>2, <1>3, <1>4, WriteLemma
  <1>6. Types(r) /\ Random(r) /\ AddrOk(r)
    BY <1>5, WrittenKeeps
  <1>7. Ids(r) = Ids(m)
    BY <1>5 DEF Written
  <1>8. TriedIds(r) = TriedIds(m)
    BY <1>3, <1>5, <1>7 DEF TriedIds, Ids
  <1>9. TriedOk(r)
    <2>1. ASSUME NEW j \in TriedIds(m)
          PROVE  r.mapInfo[j].success /\ r.mapInfo[j].nRefCount = m.mapInfo[j].nRefCount
                 /\ r.mapInfo[j].addr = m.mapInfo[j].addr
      <3>1. j \in Ids(m) /\ m.mapInfo[j].success
        BY <1>1 DEF TriedOk, TriedIds, Ids
      <3>. QED  BY <1>3, <1>5, <3>1
    <2>. QED  BY <1>1, <1>5, <1>8, <2>1 DEF TriedOk
  <1>10. NewOk(r, X)
    <2>1. \A j : SlotsOf(r, j) = SlotsOf(m, j)
      BY <1>5 DEF SlotsOf
    <2>2. \A t \in NewSlot : m.vvNew[t] \in Ids(m) => Position(r, t) = Position(m, t)
      BY <1>3, <1>5 DEF Position
    <2>3. \A j \in Ids(m) : r.mapInfo[j].nRefCount = m.mapInfo[j].nRefCount
      BY <1>3, <1>5
    <2>. QED  BY <1>1, <1>5, <1>7, <1>8, <2>1, <2>2, <2>3 DEF NewOk
  <1>11. Counts(r, c)
    BY <1>1, <1>5, <1>7, <1>8 DEF Counts
  <1>12. Inv(r, X, c)
    BY <1>6, <1>9, <1>10, <1>11 DEF Inv
  <1>. QED  BY <1>3, <1>5, <1>8, <1>12 DEF r


-----------------------------------------------------------------------------
(* MakeTried *)

LEMMA SlotForLemma ==
    ASSUME NEW a \in Addr, NEW src \in Source
    PROVE  SlotFor(a, src) \in NewSlot /\ Own(a, SlotFor(a, src))
  <1>1. NewBucket[a][src] \in Bucket
    BY DEF Bucket
  <1>2. SlotFor(a, src) \in NewSlot
    BY <1>1 DEF SlotFor, NewSlot
  <1>3. Own(a, SlotFor(a, src))
    BY DEF SlotFor, Own
  <1>. QED  BY <1>2, <1>3

\* The entries of S are still there, with their addresses.
Keeps(m, r, S) ==
    \A j \in S : j \in Ids(r) /\ r.mapInfo[j].addr = m.mapInfo[j].addr
                 /\ r.mapInfo[j].success = m.mapInfo[j].success

LEMMA EvictLemma ==
    ASSUME NEW m, NEW X, NEW c \in Int, Inv(m, X, c), NEW k \in KSlot, m.vvTried[k] # -1
    PROVE  LET r == Evict(m, k)
           IN  Inv(r, X, c) /\ r.vvTried[k] = -1 /\ Keeps(m, r, TriedIds(m) \cup X)
  <1> DEFINE old == m.vvTried[k]
             out == Out(m, k)
             slot == SlotFor(m.mapInfo[old].addr, m.mapInfo[old].source)
             cl == ClearNew(out, slot)
             tk == Taken(cl, old, slot)
             fin == [tk EXCEPT !.nNew = @ + 1]
             Y == X \cup {old}
  <1>1. /\ old \in TriedIds(m) /\ Inv(out, Y, c + 1) /\ Written(m, out)
        /\ TriedIds(out) = TriedIds(m) \ {old}
        /\ \A j \in Ids(m) : out.mapInfo[j].success = m.mapInfo[j].success
        /\ out.mapInfo[old].nRefCount = 0 /\ out.vvTried[k] = -1
    BY OutLemma
  <1>2. TriedIds(m) \subseteq Ids(m) /\ X \subseteq Ids(m) /\ old \notin X
    BY <1>1 DEF Inv, NewOk, TriedIds, Ids
  <1>3. m.mapInfo[old].addr \in Addr /\ m.mapInfo[old].source \in Source
    BY <1>1, <1>2, EntryTypes DEF Inv, Types
  <1>4. slot \in NewSlot /\ Own(m.mapInfo[old].addr, slot)
    BY <1>3, SlotForLemma
  <1> HIDE DEF out, slot, old
  <1>5. c + 1 \in Int
    OBVIOUS
  <1>6. /\ Inv(cl, Y, c + 1) /\ cl.vvNew[slot] = -1 /\ cl.vvTried = out.vvTried
        /\ \A j \in Ids(out) : j # out.vvNew[slot] => j \in Ids(cl) /\ SameEntry(cl.mapInfo[j], out.mapInfo[j])
        /\ out.vvNew[slot] \notin TriedIds(out) \cup Y
    BY <1>1, <1>4, <1>5, ClearNewLemma
  <1> HIDE DEF cl
  <1>7. Ids(out) = Ids(m) /\ \A j \in Ids(m) : out.mapInfo[j].addr = m.mapInfo[j].addr
    BY <1>1 DEF Written
  <1>8. ASSUME NEW j \in TriedIds(m) \cup X
        PROVE  j \in Ids(cl) /\ SameEntry(cl.mapInfo[j], out.mapInfo[j])
    <2>1. j \in Ids(out) /\ j \in TriedIds(out) \cup Y
      BY <1>1, <1>2, <1>7
    <2>. QED  BY <1>6, <2>1
  <1>9. /\ old \in Ids(cl) \ TriedIds(cl) /\ cl.mapInfo[old].nRefCount = 0
        /\ cl.mapInfo[old].addr = m.mapInfo[old].addr
    <2>1. old \in Ids(cl) \ TriedIds(cl)
      BY <1>6 DEF Inv, NewOk
    <2>. QED  BY <1>1, <1>2, <1>7, <1>8, <2>1 DEF SameEntry
  <1>10. cl.mapInfo[old].nRefCount # ADDRMAN_NEW_BUCKETS_PER_ADDRESS
    BY <1>9, AddrManAssumption
  <1>11. /\ Inv(tk, Y \ {old}, c + 1) /\ Written(cl, tk) /\ TriedIds(tk) = TriedIds(cl)
         /\ \A j \in Ids(cl) : tk.mapInfo[j].success = cl.mapInfo[j].success
         /\ tk.vvTried = cl.vvTried /\ tk.nNew = cl.nNew
    BY <1>4, <1>5, <1>6, <1>9, <1>10, TakeLemma
  <1>12. Evict(m, k) = fin
    <2> DEFINE info == [cl.mapInfo EXCEPT ![old].nRefCount = 1]
               nw == [cl.vvNew EXCEPT ![slot] = old]
    <2>1. Evict(m, k) = [cl EXCEPT !.mapInfo = info, !.vvNew = nw, !.nNew = cl.nNew + 1]
      BY DEF Evict, Out, out, old, slot, cl
    <2>2. tk = [cl EXCEPT !.mapInfo = info, !.vvNew = nw]
      <3>1. cl.mapInfo[old].nRefCount + 1 = 1
        BY <1>9
      <3>. QED  BY <3>1 DEF Taken
    <2>3. cl = [mapInfo |-> cl.mapInfo, mapAddr |-> cl.mapAddr, vRandom |-> cl.vRandom, vvNew |-> cl.vvNew,
               vvTried |-> cl.vvTried, nNew |-> cl.nNew, nTried |-> cl.nTried, nIdCount |-> cl.nIdCount]
      BY <1>6, EntryTypes DEF Inv, Types
    <2> HIDE DEF info, nw, tk
    <2>. QED  BY <2>1, <2>2, <2>3
  <1> HIDE DEF tk
  <1>13. Y \ {old} = X
    BY <1>2
  <1>14. /\ Inv(fin, X, (c + 1) - 1) /\ fin.mapInfo = tk.mapInfo /\ fin.vvTried = tk.vvTried
    BY <1>5, <1>11, <1>13, CountLemma
  <1>15. (c + 1) - 1 = c
    OBVIOUS
  <1> HIDE DEF fin
  <1>16. Inv(fin, X, c)
    BY <1>14, <1>15
  <1>17. Keeps(m, fin, TriedIds(m) \cup X)
    <2>1. Ids(fin) = Ids(cl)
      BY <1>11, <1>14 DEF Written, Ids
    <2>2. ASSUME NEW j \in TriedIds(m) \cup X
          PROVE  j \in Ids(fin) /\ fin.mapInfo[j].addr = m.mapInfo[j].addr
                 /\ fin.mapInfo[j].success = m.mapInfo[j].success
      <3>1. j \in Ids(m) /\ j \in Ids(cl) /\ SameEntry(cl.mapInfo[j], out.mapInfo[j])
        BY <1>2, <1>8
      <3>2. fin.mapInfo[j].addr = cl.mapInfo[j].addr /\ fin.mapInfo[j].success = cl.mapInfo[j].success
        BY <1>11, <1>14, <3>1 DEF Written
      <3>. QED  BY <1>1, <1>7, <2>1, <3>1, <3>2 DEF SameEntry
    <2>. QED  BY <2>2 DEF Keeps
  <1>18. fin.vvTried[k] = -1
    BY <1>1, <1>6, <1>11, <1>14
  <1>. QED  BY <1>12, <1>16, <1>17, <1>18

LEMMA MakeTriedLemma ==
    ASSUME NEW m, Inv(m, {}, 0), NEW id \in Ids(m) \ TriedIds(m), m.mapInfo[id].success
    PROVE  LET r == MakeTried(m, id)
           IN  /\ Inv(r, {}, 0)
               /\ \A j \in TriedIds(m) : j \in Ids(r) /\ r.mapInfo[j].addr = m.mapInfo[j].addr
  <1> DEFINE k == TriedSlot[m.mapInfo[id].addr]
             left == LeaveNew(m, id)
             free == IF left.vvTried[k] = -1 THEN left ELSE Evict(left, k)
             r == Entered(free, id, k)
             X == {id}
  <1>1. k \in KSlot
    <2>1. m.mapInfo[id].addr \in Addr
      BY EntryTypes DEF Inv, Types
    <2>. QED  BY <2>1 DEF KSlot
  <1>2. /\ Inv(left, X, 1) /\ Written(m, left) /\ TriedIds(left) = TriedIds(m)
        /\ \A j \in Ids(m) : left.mapInfo[j].success = m.mapInfo[j].success
    <2>1. 0 \in Int /\ id \notin {} /\ {} \cup {id} = X /\ 0 + 1 = 1
      OBVIOUS
    <2> DEFINE E == {}
               z == 0
    <2>2. Inv(m, E, z) /\ z \in Int /\ E \cup {id} = X /\ z + 1 = 1 /\ id \notin E
      BY <2>1
    <2> HIDE DEF E, z, X
    <2>3. /\ Inv(left, E \cup {id}, z + 1) /\ Written(m, left) /\ TriedIds(left) = TriedIds(m)
          /\ \A j \in Ids(m) : left.mapInfo[j].success = m.mapInfo[j].success
      BY <2>2, LeaveNewLemma
    <2>. QED  BY <2>2, <2>3
  <1> HIDE DEF left
  <1>3. Keeps(m, left, Ids(m)) /\ TriedIds(m) \subseteq Ids(m)
    BY <1>2 DEF Keeps, Written, TriedIds, Ids
  <1> HIDE DEF k, X
  <1>4. /\ Inv(free, X, 1) /\ free.vvTried[k] = -1 /\ Keeps(left, free, TriedIds(left) \cup X)
    <2>1. CASE left.vvTried[k] = -1
      <3>1. TriedIds(left) \cup X \subseteq Ids(left)
        BY <1>2 DEF Inv, NewOk, TriedIds, Ids
      <3>. QED  BY <1>2, <2>1, <3>1 DEF Keeps
    <2>2. CASE left.vvTried[k] # -1
      BY <1>1, <1>2, <2>2, EvictLemma
    <2>. QED  BY <2>1, <2>2
  <1> HIDE DEF free
  <1>5. Keeps(m, free, TriedIds(m) \cup X) /\ id \in X
    <2>1. TriedIds(m) \cup X \subseteq Ids(m) /\ id \in X
      BY <1>3 DEF X
    <2>. QED  BY <1>2, <1>3, <1>4, <2>1 DEF Keeps
  <1>6. k = TriedSlot[free.mapInfo[id].addr] /\ free.mapInfo[id].success
    BY <1>5 DEF Keeps, k
  <1>7. /\ Inv(r, X \ {id}, 1 - 1) /\ Written(free, r)
    <2>1. 1 \in Int
      OBVIOUS
    <2>. QED  BY <1>1, <1>4, <1>5, <1>6, <2>1, EnterLemma
  <1>8. MakeTried(m, id) = r
    BY DEF MakeTried, Entered, free, left, k
  <1> HIDE DEF r
  <1>9. \A j \in TriedIds(m) : j \in Ids(r) /\ r.mapInfo[j].addr = m.mapInfo[j].addr
    BY <1>5, <1>7 DEF Keeps, Written
  <1>10. X \ {id} = {} /\ 1 - 1 = 0
    BY DEF X
  <1>. QED  BY <1>7, <1>8, <1>9, <1>10


-----------------------------------------------------------------------------
(* Add_ *)

LEMMA CreateLemma ==
    ASSUME NEW m, Inv(m, {}, 0), NEW a \in Addr, NEW src \in Source, m.mapAddr[a] = -1,
           m.nIdCount < MaxId
    PROVE  LET r == [Create(m, a, src) EXCEPT !.nNew = @ + 1]
               n == m.nIdCount
           IN  /\ Inv(r, {n}, 0) /\ n \notin Ids(m) /\ Ids(r) = Ids(m) \cup {n}
               /\ r.mapInfo[n].nRefCount = 0
               /\ \A j \in Ids(m) : r.mapInfo[j] = m.mapInfo[j]
  <1> DEFINE n == m.nIdCount
             len == Len(m.vRandom)
             e == [addr |-> a, source |-> src, nRefCount |-> 0, fInTried |-> FALSE,
                   success |-> FALSE, nRandomPos |-> len + 1]
             info == With(m.mapInfo, n, e)
             maddr == [m.mapAddr EXCEPT ![a] = n]
             ran == Append(m.vRandom, n)
             r == [Create(m, a, src) EXCEPT !.nNew = @ + 1]
  <1>1. /\ m \in AddrMans /\ Random(m) /\ AddrOk(m) /\ TriedOk(m) /\ NewOk(m, {}) /\ Counts(m, 0)
        /\ Types(m)
    BY DEF Inv, Types
  <1>2. /\ m.mapInfo \in [Ids(m) -> Info] /\ Ids(m) \in SUBSET Nat /\ m.vRandom \in Seq(Nat)
        /\ m.mapAddr \in [Addr -> Int] /\ n \in Nat /\ m.nNew \in Int
        /\ m.vvNew \in [NewSlot -> Int] /\ m.vvTried \in [KSlot -> Int] /\ m.nTried \in Int
    BY <1>1, EntryTypes
  <1>3. len \in Nat
    BY <1>2
  <1>4. n \notin Ids(m)
    BY <1>1, <1>2 DEF Types
  <1>5. e \in Info
    BY <1>3 DEF Info
  <1>6. e.addr = a /\ e.nRefCount = 0 /\ e.fInTried = FALSE /\ e.nRandomPos = len + 1
    OBVIOUS
  <1> HIDE DEF e, len
  <1>7. /\ info \in [Ids(m) \cup {n} -> Info] /\ info[n] = e
        /\ \A j \in Ids(m) : info[j] = m.mapInfo[j]
    <2>1. info = [x \in Ids(m) \cup {n} |-> IF x = n THEN e ELSE m.mapInfo[x]]
      BY DEF With, Ids
    <2> HIDE DEF info
    <2>. QED  BY <1>2, <1>4, <1>5, <2>1
  <1>8. /\ maddr \in [Addr -> Int] /\ maddr[a] = n /\ \A b \in Addr : b # a => maddr[b] = m.mapAddr[b]
    BY <1>2
  <1>9. /\ ran \in Seq(Nat) /\ Len(ran) = len + 1 /\ ran[len + 1] = n
        /\ \A i \in 1 .. len : ran[i] = m.vRandom[i]
    BY <1>2 DEF len
  <1>10. r = [mapInfo |-> info, mapAddr |-> maddr, vRandom |-> ran, vvNew |-> m.vvNew,
              vvTried |-> m.vvTried, nNew |-> m.nNew + 1, nTried |-> m.nTried, nIdCount |-> n + 1]
    <2>1. m = [mapInfo |-> m.mapInfo, mapAddr |-> m.mapAddr, vRandom |-> m.vRandom, vvNew |-> m.vvNew,
               vvTried |-> m.vvTried, nNew |-> m.nNew, nTried |-> m.nTried, nIdCount |-> n]
      BY <1>1, EntryTypes
    <2>2. Create(m, a, src) = [m EXCEPT !.mapInfo = info, !.mapAddr = maddr, !.vRandom = ran,
                                       !.nIdCount = n + 1]
      BY DEF Create, e, len
    <2> HIDE DEF info, maddr, ran, n
    <2>3. Create(m, a, src) = [mapInfo |-> info, mapAddr |-> maddr, vRandom |-> ran, vvNew |-> m.vvNew,
                               vvTried |-> m.vvTried, nNew |-> m.nNew, nTried |-> m.nTried,
                               nIdCount |-> n + 1]
      BY <2>1, <2>2
    <2>. QED  BY <2>3
  <1> HIDE DEF info, maddr, ran, n, r
  <1>11. /\ r.mapInfo = info /\ r.mapAddr = maddr /\ r.vRandom = ran /\ r.vvNew = m.vvNew
         /\ r.vvTried = m.vvTried /\ r.nNew = m.nNew + 1 /\ r.nTried = m.nTried /\ r.nIdCount = n + 1
    BY <1>10
  <1>12. r \in AddrMans
    <2>1. Ids(m) \cup {n} \in SUBSET Nat
      BY <1>2
    <2>2. info \in InfoMaps
      BY <1>7, <2>1 DEF InfoMaps
    <2>3. m.nNew + 1 \in Int /\ n + 1 \in Nat
      BY <1>2
    <2> DEFINE x == m.nNew + 1
               y == n + 1
    <2> HIDE DEF x, y
    <2>4. r = [mapInfo |-> info, mapAddr |-> maddr, vRandom |-> ran, vvNew |-> m.vvNew,
               vvTried |-> m.vvTried, nNew |-> x, nTried |-> m.nTried, nIdCount |-> y]
      BY <1>10 DEF x, y
    <2>5. x \in Int /\ y \in Nat
      BY <2>3 DEF x, y
    <2>. QED  BY <1>2, <1>8, <1>9, <2>2, <2>4, <2>5 DEF AddrMans
  <1>13. Ids(r) = Ids(m) \cup {n} /\ r.mapInfo[n] = e /\ \A j \in Ids(m) : r.mapInfo[j] = m.mapInfo[j]
    BY <1>7, <1>11 DEF Ids
  <1>14. TriedIds(r) = TriedIds(m) /\ TriedIds(m) \subseteq Ids(m)
    BY <1>4, <1>6, <1>13 DEF TriedIds, Ids
  <1>15. Types(r)
    <2>1. n + 1 <= MaxId /\ n + 1 \in Nat
      BY <1>2, AddrManAssumption DEF n
    <2>2. Ids(r) \subseteq 0 .. r.nIdCount - 1
      BY <1>1, <1>2, <1>11, <1>13 DEF Types, n
    <2>. QED  BY <1>11, <1>12, <2>1, <2>2 DEF Types
  <1>16. Random(r)
    <2>1. Len(r.vRandom) = Cardinality(Ids(r))
      <3>1. len = Cardinality(Ids(m)) /\ IsFiniteSet(Ids(m))
        BY <1>1, IdsFinite DEF Random, len
      <3>2. Cardinality(Ids(r)) = Cardinality(Ids(m)) + 1
        BY <1>4, <1>13, <3>1, OneMore
      <3>. QED  BY <1>9, <1>11, <3>1, <3>2
    <2>2. ASSUME NEW j \in Ids(r)
          PROVE  r.mapInfo[j].nRandomPos \in 1 .. Len(r.vRandom) /\ r.vRandom[r.mapInfo[j].nRandomPos] = j
      <3>1. CASE j = n
        BY <1>3, <1>6, <1>9, <1>11, <1>13, <3>1
      <3>2. CASE j # n
        <4>1. j \in Ids(m) /\ r.mapInfo[j] = m.mapInfo[j]
          BY <1>13, <3>2
        <4>2. m.mapInfo[j].nRandomPos \in 1 .. len /\ m.vRandom[m.mapInfo[j].nRandomPos] = j
          BY <1>1, <4>1 DEF Random, len
        <4>. QED  BY <1>3, <1>9, <1>11, <4>1, <4>2
      <3>. QED  BY <3>1, <3>2
    <2>3. ASSUME NEW i \in 1 .. Len(r.vRandom)
          PROVE  r.vRandom[i] \in Ids(r) /\ r.mapInfo[r.vRandom[i]].nRandomPos = i
      <3>1. CASE i = len + 1
        BY <1>6, <1>9, <1>11, <1>13, <3>1
      <3>2. CASE i # len + 1
        <4>1. i \in 1 .. len /\ r.vRandom[i] = m.vRandom[i]
          BY <1>3, <1>9, <1>11, <3>2
        <4>2. m.vRandom[i] \in Ids(m) /\ m.mapInfo[m.vRandom[i]].nRandomPos = i
          BY <1>1, <4>1 DEF Random, len
        <4>. QED  BY <1>13, <4>1, <4>2
      <3>. QED  BY <3>1, <3>2
    <2>. QED  BY <2>1, <2>2, <2>3 DEF Random
  <1>17. AddrOk(r)
    <2>1. ASSUME NEW b \in Addr, r.mapAddr[b] # -1
          PROVE  r.mapAddr[b] \in Ids(r) /\ r.mapInfo[r.mapAddr[b]].addr = b
      <3>1. CASE b = a
        BY <1>6, <1>8, <1>11, <1>13, <3>1
      <3>2. CASE b # a
        <4>1. r.mapAddr[b] = m.mapAddr[b]
          BY <1>8, <1>11, <3>2
        <4>2. m.mapAddr[b] \in Ids(m) /\ m.mapInfo[m.mapAddr[b]].addr = b
          BY <1>1, <2>1, <4>1 DEF AddrOk
        <4>. QED  BY <1>13, <4>1, <4>2
      <3>. QED  BY <3>1, <3>2
    <2>2. ASSUME NEW j \in Ids(r)
          PROVE  r.mapAddr[r.mapInfo[j].addr] = j
      <3>1. CASE j = n
        BY <1>6, <1>8, <1>11, <1>13, <3>1
      <3>2. CASE j # n
        <4>1. j \in Ids(m) /\ r.mapInfo[j] = m.mapInfo[j]
          BY <1>13, <3>2
        <4>2. m.mapAddr[m.mapInfo[j].addr] = j /\ m.mapInfo[j].addr \in Addr
          BY <1>1, <4>1, EntryTypes DEF AddrOk
        <4>3. m.mapInfo[j].addr # a
          <5>1. j # -1
            BY <1>2, <4>1
          <5>. QED  BY <4>2, <5>1
        <4>. QED  BY <1>8, <1>11, <4>1, <4>2, <4>3
      <3>. QED  BY <3>1, <3>2
    <2>. QED  BY <2>1, <2>2 DEF AddrOk
  <1>18. TriedOk(r)
    <2>1. \A j \in TriedIds(m) : r.mapInfo[j] = m.mapInfo[j]
      BY <1>13, <1>14
    <2>. QED  BY <1>1, <1>11, <1>14, <2>1 DEF TriedOk
  <1>19. NewOk(r, {n})
    <2>1. {n} \subseteq Ids(r) \ TriedIds(r)
      BY <1>4, <1>13, <1>14
    <2>2. \A j : SlotsOf(r, j) = SlotsOf(m, j)
      BY <1>11 DEF SlotsOf
    <2>3. SlotsOf(m, n) = {}
      <3>1. n # -1
        BY <1>2
      <3>2. \A s \in NewSlot : m.vvNew[s] # n
        BY <1>1, <1>4, <3>1 DEF NewOk
      <3>. QED  BY <3>2 DEF SlotsOf
    <2>4. ASSUME NEW j \in Ids(r) \ TriedIds(r)
          PROVE  /\ IsFiniteSet(SlotsOf(r, j))
                 /\ r.mapInfo[j].nRefCount = Cardinality(SlotsOf(r, j))
                 /\ r.mapInfo[j].nRefCount \in 0 .. ADDRMAN_NEW_BUCKETS_PER_ADDRESS
                 /\ r.mapInfo[j].nRefCount = 0 <=> j \in {n}
      <3>1. CASE j = n
        <4>1. IsFiniteSet({}) /\ Cardinality({}) = 0
          BY FS_EmptySet
        <4>2. 0 \in 0 .. ADDRMAN_NEW_BUCKETS_PER_ADDRESS
          BY AddrManAssumption
        <4>. QED  BY <1>6, <1>13, <2>2, <2>3, <3>1, <4>1, <4>2
      <3>2. CASE j # n
        <4>1. j \in Ids(m) \ TriedIds(m) /\ r.mapInfo[j] = m.mapInfo[j]
          BY <1>13, <1>14, <3>2
        <4>. QED  BY <1>1, <2>2, <3>2, <4>1 DEF NewOk
      <3>. QED  BY <3>1, <3>2
    <2>5. ASSUME NEW t \in NewSlot, r.vvNew[t] # -1
          PROVE  r.vvNew[t] \in Ids(r) \ TriedIds(r) /\ Position(r, t) = t
      <3>1. r.vvNew[t] = m.vvNew[t]
        BY <1>11
      <3>2. m.vvNew[t] \in Ids(m) \ TriedIds(m) /\ Position(m, t) = t
        BY <1>1, <2>5, <3>1 DEF NewOk
      <3>. QED  BY <1>13, <1>14, <3>1, <3>2 DEF Position
    <2>. QED  BY <2>1, <2>4, <2>5 DEF NewOk
  <1>20. Counts(r, 0)
    <2>1. /\ IsFiniteSet(Ids(m) \ TriedIds(m)) /\ Cardinality(Ids(m) \ TriedIds(m)) \in Nat
      BY <1>1, IdsFinite
    <2>2. Ids(r) \ TriedIds(r) = (Ids(m) \ TriedIds(m)) \cup {n} /\ n \notin Ids(m) \ TriedIds(m)
      BY <1>4, <1>13, <1>14
    <2>3. Cardinality(Ids(r) \ TriedIds(r)) = Cardinality(Ids(m) \ TriedIds(m)) + 1
      BY <2>1, <2>2, OneMore
    <2>4. m.nNew = Cardinality(Ids(m) \ TriedIds(m)) /\ r.nTried = Cardinality(TriedIds(r))
      BY <1>1, <1>11, <1>14, <2>1 DEF Counts
    <2>. QED  BY <1>11, <2>1, <2>3, <2>4 DEF Counts
  <1>21. Inv(r, {n}, 0)
    BY <1>15, <1>16, <1>17, <1>18, <1>19, <1>20 DEF Inv
  <1>. QED  BY <1>4, <1>6, <1>13, <1>21 DEF n, r

\* The end of Add_, for an entry with room for another slot.
LEMMA PlaceLemma ==
    ASSUME NEW m, NEW X, Inv(m, X, 0), NEW id \in Ids(m) \ TriedIds(m), X \subseteq {id},
           m.mapInfo[id].nRefCount # ADDRMAN_NEW_BUCKETS_PER_ADDRESS,
           NEW src \in Source, NEW terrible \in BOOLEAN, id \in X => m.mapInfo[id].nRefCount = 0
    PROVE  LET r == Place(m, id, src, terrible)
           IN  /\ Inv(r, {}, 0)
               /\ \A j \in TriedIds(m) : j \in Ids(r) /\ r.mapInfo[j].addr = m.mapInfo[j].addr
  <1> DEFINE r == Place(m, id, src, terrible)
             slot == SlotFor(m.mapInfo[id].addr, src)
             held == m.vvNew[slot]
             cl == ClearNew(m, slot)
             tk == Taken(cl, id, slot)
             z == 0
  <1>1. m \in AddrMans /\ NewOk(m, X) /\ TriedIds(m) \subseteq Ids(m)
    BY DEF Inv, Types, TriedIds, Ids
  <1>2. slot \in NewSlot /\ Own(m.mapInfo[id].addr, slot)
    BY <1>1, EntryTypes, SlotForLemma
  <1>3. z \in Int /\ Inv(m, X, z)
    OBVIOUS
  <1>4. /\ m.mapInfo[id].nRefCount = 0 <=> id \in X
    BY <1>1 DEF NewOk
  <1> HIDE DEF slot, z
  <1>5. CASE held = id
    <2>1. r = m
      BY <1>5 DEF Place, slot
    <2>2. id \notin X
      BY <1>1, <1>2, <1>5, NoSlots
    <2>3. X = {}
      BY <2>2
    <2>. QED  BY <1>1, <2>1, <2>3
  <1>6. CASE held # id /\ (held = -1 \/ terrible \/ (m.mapInfo[held].nRefCount > 1 /\ m.mapInfo[id].nRefCount = 0))
    <2>1. r = tk
      BY <1>6 DEF Place, slot, Taken
    <2>2. /\ Inv(cl, X, z) /\ cl.vvNew[slot] = -1
          /\ \A j \in Ids(m) : j # m.vvNew[slot] => j \in Ids(cl) /\ SameEntry(cl.mapInfo[j], m.mapInfo[j])
          /\ m.vvNew[slot] \notin TriedIds(m) \cup X
      BY <1>2, <1>3, ClearNewLemma
    <2> HIDE DEF cl
    <2>3. id \in Ids(cl) /\ SameEntry(cl.mapInfo[id], m.mapInfo[id])
      BY <1>6, <2>2
    <2>4. id \in Ids(cl) \ TriedIds(cl)
      BY <2>3 DEF SameEntry, TriedIds, Ids
    <2>5. /\ cl.mapInfo[id].nRefCount # ADDRMAN_NEW_BUCKETS_PER_ADDRESS
          /\ Own(cl.mapInfo[id].addr, slot)
      BY <1>2, <2>3 DEF SameEntry
    <2>6. Inv(tk, X \ {id}, z) /\ Written(cl, tk)
      BY <1>2, <1>3, <2>2, <2>4, <2>5, TakeLemma
    <2> HIDE DEF tk, r
    <2>7. X \ {id} = {}
      OBVIOUS
    <2>8. ASSUME NEW j \in TriedIds(m) PROVE j \in Ids(tk) /\ tk.mapInfo[j].addr = m.mapInfo[j].addr
      <3>1. j \in Ids(m) /\ j # m.vvNew[slot]
        BY <1>1, <2>2
      <3>. QED  BY <2>2, <2>6, <3>1 DEF SameEntry, Written
    <2>. QED  BY <2>1, <2>6, <2>7, <2>8 DEF z, r
  <1>7. CASE held # id /\ ~(held = -1 \/ terrible \/ (m.mapInfo[held].nRefCount > 1 /\ m.mapInfo[id].nRefCount = 0))
    <2>1. r = IF m.mapInfo[id].nRefCount = 0 THEN Delete(m, id) ELSE m
      BY <1>7 DEF Place, slot
    <2>2. CASE id \in X
      <3> DEFINE d == Delete(m, id)
      <3>1. r = d
        BY <1>4, <2>1, <2>2
      <3>2. /\ Inv(d, X \ {id}, z) /\ Ids(d) = Ids(m) \ {id}
            /\ \A j \in Ids(d) : SameEntry(d.mapInfo[j], m.mapInfo[j])
        BY <1>3, <2>2, DeleteLemma
      <3> HIDE DEF d, r
      <3>3. X \ {id} = {}
        OBVIOUS
      <3>4. \A j \in TriedIds(m) : j \in Ids(d) /\ d.mapInfo[j].addr = m.mapInfo[j].addr
        BY <1>1, <3>2 DEF SameEntry
      <3>. QED  BY <3>1, <3>2, <3>3, <3>4 DEF z, r
    <2>3. CASE id \notin X
      <3>1. r = m /\ X = {}
        BY <1>4, <2>1, <2>3
      <3>. QED  BY <1>1, <3>1
    <2>. QED  BY <2>2, <2>3
  <1>. QED  BY <1>5, <1>6, <1>7


-----------------------------------------------------------------------------
(* Serialize and Unserialize *)

LEMMA SameCardinality ==
    ASSUME NEW S, IsFiniteSet(S), NEW T, NEW f \in [S -> T],
           \A x, y \in S : f[x] = f[y] => x = y, \A t \in T : \E x \in S : f[x] = t
    PROVE  IsFiniteSet(T) /\ Cardinality(T) = Cardinality(S)
  <1>1. f \in Bijection(S, T)
    BY DEF Bijection, Injection, Surjection, IsInjective
  <1>2. ExistsBijection(S, T)
    BY <1>1 DEF ExistsBijection
  <1>. QED  BY <1>2, FS_Bijection, Zenon

\* Counting the smaller ones numbers the elements of a set without gaps.
LEMMA RankLemma ==
    ASSUME NEW S \in SUBSET Nat, IsFiniteSet(S), NEW x \in S
    PROVE  /\ Before(S, x) \in 0 .. Cardinality(S) - 1
           /\ \A y \in S : x < y => Before(S, x) < Before(S, y)
  <1> DEFINE B(y) == {j \in S : j < y}
  <1>1. \A y : Before(S, y) = Cardinality(B(y))
    BY DEF Before
  <1>2. ASSUME NEW y, NEW Q \in SUBSET S, NEW z \in Q, B(y) \subseteq Q, z \notin B(y)
        PROVE  Cardinality(B(y)) \in Nat /\ Cardinality(Q) \in Nat /\ Cardinality(B(y)) < Cardinality(Q)
    <2> DEFINE P == B(y)
    <2>1. P \in SUBSET Q /\ P # Q
      BY <1>2
    <2> HIDE DEF P
    <2>2. IsFiniteSet(Q)
      BY FS_Subset, Zenon
    <2>3. IsFiniteSet(P) /\ Cardinality(P) <= Cardinality(Q) /\ (Cardinality(Q) = Cardinality(P) => Q = P)
      BY <2>1, <2>2, FS_Subset, Zenon
    <2>4. Cardinality(P) \in Nat /\ Cardinality(Q) \in Nat
      BY <2>2, <2>3, FS_CardinalityType, Zenon
    <2>5. Cardinality(P) < Cardinality(Q)
      BY <2>1, <2>3, <2>4
    <2>. QED  BY <2>4, <2>5 DEF P
  <1>3. Before(S, x) \in 0 .. Cardinality(S) - 1
    <2>1. S \in SUBSET S /\ x \in S /\ B(x) \subseteq S /\ x \notin B(x)
      OBVIOUS
    <2> HIDE DEF B
    <2>2. Cardinality(B(x)) \in Nat /\ Cardinality(S) \in Nat /\ Cardinality(B(x)) < Cardinality(S)
      BY <1>2, <2>1
    <2>. QED  BY <1>1, <2>2
  <1>4. ASSUME NEW y \in S, x < y PROVE Before(S, x) < Before(S, y)
    <2>1. B(y) \in SUBSET S /\ x \in B(y) /\ x \notin B(x)
      BY <1>4
    <2>3. B(x) \subseteq B(y)
      <3>1. \A j \in S : j < x => j < y
        BY <1>4
      <3>. QED  BY <3>1
    <2> HIDE DEF B
    <2>2. Cardinality(B(x)) < Cardinality(B(y))
      BY <1>2, <2>1, <2>3
    <2>. QED  BY <1>1, <2>2
  <1>. QED  BY <1>3, <1>4

\* I numbers the n entries of m from 0.
Numbers(m, I, n) ==
    /\ n \in Nat /\ n = Cardinality(Ids(m))
    /\ I \in [Ids(m) -> 0 .. n - 1]
    /\ \A x, y \in Ids(m) : I[x] = I[y] => x = y
    /\ \A i \in 0 .. n - 1 : \E x \in Ids(m) : I[x] = i

LEMMA IndexLemma ==
    ASSUME NEW m, Inv(m, {}, 0)
    PROVE  /\ NewIds(m) = Ids(m) \ TriedIds(m) /\ Loadable(m) = Ids(m)
           /\ Numbers(m, [id \in Ids(m) |-> Index(m, id)], Cardinality(Ids(m)))
           /\ Cardinality(Ids(m)) <= m.nIdCount
  <1> DEFINE N == NewIds(m)
             T == TriedIds(m)
             n == Cardinality(Ids(m))
             a == Cardinality(N)
             b == Cardinality(T)
             I == [id \in Ids(m) |-> Index(m, id)]
  <1>1. m \in AddrMans /\ TriedOk(m) /\ NewOk(m, {}) /\ Types(m)
    BY DEF Inv, Types
  <1>2. /\ IsFiniteSet(Ids(m)) /\ IsFiniteSet(T) /\ IsFiniteSet(Ids(m) \ T) /\ n \in Nat /\ b \in Nat
        /\ T \subseteq Ids(m) /\ Ids(m) \subseteq Nat
    BY <1>1, IdsFinite
  <1>3. N = Ids(m) \ T
    <2>1. \A id \in Ids(m) : m.mapInfo[id].nRefCount > 0 <=> id \notin T
      <3>1. \A id \in Ids(m) : m.mapInfo[id].nRefCount \in Nat
        BY <1>1, EntryTypes
      <3>2. \A id \in T : m.mapInfo[id].nRefCount = 0
        BY <1>1 DEF TriedOk
      <3>3. \A id \in Ids(m) \ T : m.mapInfo[id].nRefCount # 0
        BY <1>1 DEF NewOk
      <3>. QED  BY <3>1, <3>2, <3>3
    <2>. QED  BY <2>1 DEF NewIds, Ids
  <1>4. Loadable(m) = Ids(m)
    <2>1. ASSUME NEW id \in T, NEW j \in T, j < id
          PROVE  TriedSlot[m.mapInfo[j].addr] # TriedSlot[m.mapInfo[id].addr]
      <3>1. m.vvTried[TriedSlot[m.mapInfo[j].addr]] = j /\ m.vvTried[TriedSlot[m.mapInfo[id].addr]] = id
        BY <1>1 DEF TriedOk
      <3>2. j # id
        BY <1>2, <2>1
      <3>. QED  BY <3>1, <3>2
    <2>2. Loadable(m) = N \cup T
      BY <2>1 DEF Loadable
    <2>. QED  BY <1>2, <1>3, <2>2
  <1>5. a \in Nat /\ IsFiniteSet(N) /\ n = a + b
    <2>1. IsFiniteSet(N)
      BY <1>2, <1>3
    <2>2. a \in Nat
      BY <2>1, FS_CardinalityType
    <2>3. N \cap T = {} /\ N \cup T = Ids(m)
      BY <1>2, <1>3
    <2>4. n = a + b
      <3>1. Cardinality(N \cup T) = Cardinality(N) + Cardinality(T) - Cardinality(N \cap T)
        BY <1>2, <2>1, FS_Union
      <3>2. Cardinality({}) = 0
        BY FS_EmptySet
      <3>3. n = a + b - 0
        BY <2>3, <3>1, <3>2, Zenon
      <3>. QED  BY <1>2, <2>2, <3>3
    <2>. QED  BY <2>1, <2>2, <2>4
  <1>6. N \in SUBSET Nat /\ T \in SUBSET Nat
    BY <1>2, <1>3
  <1> HIDE DEF N, T, n, a, b
  <1>7. \A id \in N : /\ Index(m, id) = Before(N, id) /\ Index(m, id) \in 0 .. a - 1
    <2>1. \A id \in N : Before(N, id) \in 0 .. a - 1
      BY <1>5, <1>6, RankLemma DEF a
    <2>. QED  BY <2>1 DEF Index, N
  <1>8. \A id \in T : /\ Index(m, id) = a + Before(T, id) /\ Index(m, id) \in a .. n - 1
    <2>1. \A id \in T : Before(T, id) \in 0 .. b - 1
      BY <1>2, <1>6, RankLemma DEF b
    <2>2. \A id \in T : id \notin N
      BY <1>3
    <2>3. \A id \in T : Index(m, id) = a + Before(T, id)
      BY <2>2 DEF Index, N, T, a
    <2>. QED  BY <1>2, <1>5, <2>1, <2>3
  <1>9. \A id \in Ids(m) : id \in N \/ id \in T
    BY <1>3
  <1>10. I \in [Ids(m) -> 0 .. n - 1]
    <2>1. ASSUME NEW id \in Ids(m) PROVE Index(m, id) \in 0 .. n - 1
      BY <1>2, <1>5, <1>7, <1>8, <1>9
    <2>. QED  BY <2>1
  <1>11. ASSUME NEW x \in Ids(m), NEW y \in Ids(m), x < y PROVE Index(m, x) # Index(m, y)
    <2>1. CASE x \in N /\ y \in N
      <3>1. Before(N, x) < Before(N, y) /\ Before(N, x) \in 0 .. a - 1 /\ Before(N, y) \in 0 .. a - 1
        BY <1>5, <1>6, <1>11, <2>1, RankLemma DEF a
      <3>. QED  BY <1>7, <2>1, <3>1
    <2>2. CASE x \in T /\ y \in T
      <3>1. Before(T, x) < Before(T, y) /\ Before(T, x) \in 0 .. b - 1 /\ Before(T, y) \in 0 .. b - 1
        BY <1>2, <1>6, <1>11, <2>2, RankLemma DEF b
      <3>. QED  BY <1>2, <1>5, <1>8, <2>2, <3>1
    <2>3. CASE (x \in N /\ y \in T) \/ (x \in T /\ y \in N)
      BY <1>2, <1>5, <1>7, <1>8, <2>3
    <2>. QED  BY <1>9, <2>1, <2>2, <2>3
  <1>12. \A x, y \in Ids(m) : I[x] = I[y] => x = y
    <2>1. \A x, y \in Ids(m) : x = y \/ x < y \/ y < x
      BY <1>2
    <2>. QED  BY <1>11, <2>1
  <1> HIDE DEF I
  <1>13. \A i \in 0 .. n - 1 : \E x \in Ids(m) : I[x] = i
    <2> DEFINE D == 0 .. n - 1
    <2>1. IsFiniteSet(D) /\ Cardinality(D) = n
      <3>1. IsFiniteSet(0 .. n - 1) /\ Cardinality(0 .. n - 1) = IF 0 > n - 1 THEN 0 ELSE (n - 1) - 0 + 1
        BY <1>2, FS_Interval
      <3>. QED  BY <1>2, <3>1
    <2>2. I \in Injection(Ids(m), D)
      BY <1>10, <1>12 DEF Injection, IsInjective
    <2> HIDE DEF D
    <2>3. I \in Surjection(Ids(m), D)
      BY <2>1, <2>2, FS_Injection, Zenon DEF n
    <2>. QED  BY <2>3 DEF Surjection, D
  <1>14. n <= m.nIdCount
    <2> DEFINE D == 0 .. m.nIdCount - 1
    <2>1. m.nIdCount \in Nat /\ Ids(m) \in SUBSET D
      BY <1>1, EntryTypes DEF Types
    <2>2. IsFiniteSet(D) /\ Cardinality(D) = m.nIdCount
      <3>1. /\ IsFiniteSet(0 .. m.nIdCount - 1)
            /\ Cardinality(0 .. m.nIdCount - 1) = IF 0 > m.nIdCount - 1 THEN 0 ELSE (m.nIdCount - 1) - 0 + 1
        <4> DEFINE z == m.nIdCount - 1
        <4>1. z \in Int /\ 0 \in Int
          BY <2>1
        <4> HIDE DEF z
        <4>2. IsFiniteSet(0 .. z) /\ Cardinality(0 .. z) = IF 0 > z THEN 0 ELSE z - 0 + 1
          BY <4>1, FS_Interval
        <4>. QED  BY <4>2 DEF z
      <3>. QED  BY <2>1, <3>1
    <2> HIDE DEF D
    <2>3. Cardinality(Ids(m)) <= Cardinality(D)
      BY <2>1, <2>2, FS_Subset, Zenon
    <2>. QED  BY <2>2, <2>3 DEF n
  <1>15. Numbers(m, I, n)
    BY <1>2, <1>10, <1>12, <1>13 DEF Numbers, n
  <1>. QED  BY <1>3, <1>4, <1>14, <1>15 DEF N, T, n, I

Renum(e, c, p) == [e EXCEPT !.nRefCount = c, !.nRandomPos = p]

\* The id that v, an id or -1, is loaded as.
NewId(I, v) == IF v = -1 THEN -1 ELSE I[v]

\* r has the entries of m under the ids of I and in their order.
Renumbered(m, I, n, r) ==
    /\ Ids(r) = 0 .. n - 1 /\ r.mapInfo = [i \in Ids(r) |-> r.mapInfo[i]]
    /\ \A id \in Ids(m) : r.mapInfo[I[id]] = Renum(m.mapInfo[id], Cardinality(SlotsOf(r, I[id])), I[id] + 1)
    /\ r.vRandom = [i \in 1 .. n |-> i - 1]
    /\ r.vvNew = [s \in NewSlot |-> NewId(I, m.vvNew[s])]
    /\ r.vvTried = [k \in KSlot |-> NewId(I, m.vvTried[k])]
    /\ r.mapAddr = [a \in Addr |-> NewId(I, m.mapAddr[a])]
    /\ r.nNew = m.nNew /\ r.nTried = m.nTried /\ r.nIdCount = n
    /\ r = [mapInfo |-> r.mapInfo, mapAddr |-> r.mapAddr, vRandom |-> r.vRandom, vvNew |-> r.vvNew,
            vvTried |-> r.vvTried, nNew |-> r.nNew, nTried |-> r.nTried, nIdCount |-> r.nIdCount]

\* Unserialize puts every entry where Serialize found it.
LEMMA LoadedLemma ==
    ASSUME NEW m, Inv(m, {}, 0), NEW I, I = [id \in Ids(m) |-> Index(m, id)],
           NEW n, n = Cardinality(Ids(m))
    PROVE  Renumbered(m, I, n, Loaded(m))
  <1> DEFINE kept == Loadable(m)
             oldId(i) == CHOOSE id \in kept : Index(m, id) = i
             ids == {Index(m, id) : id \in kept}
             inSlot(s) == {q \in NewSlot : m.vvNew[q] # -1 /\ Position(m, q) = s}
             vvNew == [s \in NewSlot |->
                         IF inSlot(s) = {} THEN -1 ELSE Index(m, m.vvNew[CHOOSE q \in inSlot(s) : TRUE])]
             refs(i) == Cardinality({s \in NewSlot : vvNew[s] = i})
             info == [i \in ids |-> [m.mapInfo[oldId(i)] EXCEPT !.nRefCount = refs(i), !.nRandomPos = i + 1]]
             addrs == [a \in Addr |-> IF \E id \in kept : m.mapInfo[id].addr = a
                                      THEN Index(m, CHOOSE id \in kept : m.mapInfo[id].addr = a)
                                      ELSE -1]
             rnd == [j \in 1 .. Cardinality(ids) |-> j - 1]
             here(k) == {id \in kept \cap TriedIds(m) : TriedSlot[m.mapInfo[id].addr] = k}
             vvTried == [k \in KSlot |-> IF here(k) = {} THEN -1 ELSE Index(m, CHOOSE id \in here(k) : TRUE)]
             nTr == m.nTried - Cardinality(TriedIds(m) \ kept)
             r == Loaded(m)
  <1>1. r = [mapInfo |-> info, mapAddr |-> addrs, vRandom |-> rnd, vvNew |-> vvNew, vvTried |-> vvTried,
             nNew |-> m.nNew, nTried |-> nTr, nIdCount |-> Cardinality(ids)]
    BY Zenon DEF Loaded
  <1>2. /\ NewIds(m) = Ids(m) \ TriedIds(m) /\ kept = Ids(m) /\ Numbers(m, I, n)
    BY IndexLemma
  <1>3. m \in AddrMans /\ AddrOk(m) /\ TriedOk(m) /\ NewOk(m, {}) /\ Counts(m, 0)
    BY DEF Inv, Types
  <1>4. \A id \in Ids(m) : Index(m, id) = I[id]
    OBVIOUS
  <1>5. /\ n \in Nat /\ I \in [Ids(m) -> 0 .. n - 1] /\ \A x, y \in Ids(m) : I[x] = I[y] => x = y
        /\ \A i \in 0 .. n - 1 : \E x \in Ids(m) : I[x] = i
    BY <1>2 DEF Numbers
  <1>6. ids = 0 .. n - 1
    BY <1>2, <1>4, <1>5
  <1>7. \A id \in Ids(m) : oldId(I[id]) = id
    <2>1. ASSUME NEW id \in Ids(m) PROVE oldId(I[id]) = id
      <3> DEFINE x == oldId(I[id])
      <3>1. \E y \in kept : Index(m, y) = I[id]
        BY <1>2, <1>4
      <3>2. x \in kept /\ Index(m, x) = I[id]
        BY <3>1, Zenon
      <3> HIDE DEF x, kept
      <3>3. x \in Ids(m) /\ I[x] = I[id]
        BY <1>2, <1>4, <3>2
      <3>. QED  BY <1>5, <3>3 DEF x
    <2>. QED  BY <2>1
  <1>8. vvNew = [s \in NewSlot |-> NewId(I, m.vvNew[s])]
    <2>1. ASSUME NEW s \in NewSlot
          PROVE  (IF inSlot(s) = {} THEN -1 ELSE Index(m, m.vvNew[CHOOSE q \in inSlot(s) : TRUE])) = NewId(I, m.vvNew[s])
      <3>1. \A q \in NewSlot : m.vvNew[q] # -1 => Position(m, q) = q /\ m.vvNew[q] \in Ids(m)
        BY <1>3 DEF NewOk
      <3>2. inSlot(s) = IF m.vvNew[s] = -1 THEN {} ELSE {s}
        BY <3>1
      <3>3. CASE m.vvNew[s] = -1
        BY <3>2, <3>3 DEF NewId
      <3>4. CASE m.vvNew[s] # -1
        <4>1. (CHOOSE q \in {s} : TRUE) = s
          OBVIOUS
        <4>2. inSlot(s) = {s}
          BY <3>2, <3>4
        <4> HIDE DEF inSlot
        <4>3. (IF inSlot(s) = {} THEN -1 ELSE Index(m, m.vvNew[CHOOSE q \in inSlot(s) : TRUE])) = Index(m, m.vvNew[s])
          BY <4>1, <4>2
        <4>. QED  BY <1>4, <3>1, <3>4, <4>3 DEF NewId
      <3>. QED  BY <3>3, <3>4
    <2> HIDE DEF inSlot
    <2>. QED  BY <2>1
  <1>9. vvTried = [k \in KSlot |-> NewId(I, m.vvTried[k])]
    <2>1. ASSUME NEW k \in KSlot
          PROVE  (IF here(k) = {} THEN -1 ELSE Index(m, CHOOSE id \in here(k) : TRUE)) = NewId(I, m.vvTried[k])
      <3> DEFINE v == m.vvTried[k]
      <3>1. \A id \in TriedIds(m) : id \in Ids(m) /\ m.vvTried[TriedSlot[m.mapInfo[id].addr]] = id
        BY <1>3 DEF TriedOk, TriedIds, Ids
      <3>2. v # -1 => v \in TriedIds(m) /\ TriedSlot[m.mapInfo[v].addr] = k
        BY <1>3 DEF TriedOk
      <3>3. -1 \notin Ids(m)
        BY <1>3, EntryTypes
      <3> HIDE DEF kept, v
      <3>4. here(k) = IF v = -1 THEN {} ELSE {v}
        <4>1. \A id \in here(k) : id = v
          BY <3>1 DEF v
        <4>2. v # -1 => v \in here(k)
          BY <1>2, <3>1, <3>2
        <4>3. v = -1 => here(k) = {}
          BY <3>1, <3>3, <4>1
        <4>. QED  BY <4>1, <4>2, <4>3
      <3> HIDE DEF here
      <3>5. CASE v = -1
        BY <3>4, <3>5 DEF NewId, v
      <3>6. CASE v # -1
        <4>1. (CHOOSE q \in {v} : TRUE) = v
          OBVIOUS
        <4>2. here(k) = {v}
          BY <3>4, <3>6
        <4>3. (IF here(k) = {} THEN -1 ELSE Index(m, CHOOSE q \in here(k) : TRUE)) = Index(m, v)
          BY <4>1, <4>2
        <4>. QED  BY <1>4, <3>1, <3>2, <3>6, <4>3 DEF NewId, v
      <3>. QED  BY <3>5, <3>6
    <2> HIDE DEF here
    <2>. QED  BY <2>1
  <1>10. addrs = [a \in Addr |-> NewId(I, m.mapAddr[a])]
    <2>1. ASSUME NEW a \in Addr
          PROVE  (IF \E id \in kept : m.mapInfo[id].addr = a
                  THEN Index(m, CHOOSE id \in kept : m.mapInfo[id].addr = a) ELSE -1) = NewId(I, m.mapAddr[a])
      <3> DEFINE c == CHOOSE id \in kept : m.mapInfo[id].addr = a
      <3>1. \A id \in Ids(m) : m.mapAddr[m.mapInfo[id].addr] = id
        BY <1>3 DEF AddrOk
      <3>2. m.mapAddr[a] # -1 => m.mapAddr[a] \in Ids(m) /\ m.mapInfo[m.mapAddr[a]].addr = a
        BY <1>3 DEF AddrOk
      <3>3. -1 \notin Ids(m)
        BY <1>3, EntryTypes
      <3> HIDE DEF kept
      <3>4. CASE m.mapAddr[a] = -1
        <4>1. ~ \E id \in kept : m.mapInfo[id].addr = a
          BY <1>2, <3>1, <3>3, <3>4
        <4>. QED  BY <3>4, <4>1 DEF NewId
      <3>5. CASE m.mapAddr[a] # -1
        <4>1. \E id \in kept : m.mapInfo[id].addr = a
          BY <1>2, <3>2, <3>5
        <4>2. c \in kept /\ m.mapInfo[c].addr = a
          BY <4>1, Zenon
        <4> HIDE DEF c
        <4>3. c = m.mapAddr[a]
          BY <1>2, <3>1, <4>2
        <4>4. (IF \E id \in kept : m.mapInfo[id].addr = a THEN Index(m, c) ELSE -1) = NewId(I, m.mapAddr[a])
          BY <1>4, <3>2, <3>5, <4>1, <4>3 DEF NewId
        <4>. QED  BY <4>4, Zenon DEF c
      <3>. QED  BY <3>4, <3>5
    <2>. QED  BY <2>1, Zenon
  <1>11. Cardinality(ids) = n
    <2> DEFINE z == n - 1
    <2>1. z \in Int /\ 0 \in Int
      BY <1>5
    <2> HIDE DEF z
    <2>2. Cardinality(0 .. z) = IF 0 > z THEN 0 ELSE z - 0 + 1
      BY <2>1, FS_Interval
    <2>3. (IF 0 > z THEN 0 ELSE z - 0 + 1) = n
      BY <1>5 DEF z
    <2>. QED  BY <1>6, <2>2, <2>3, Zenon DEF z
  <1>12. nTr = m.nTried
    <2>1. TriedIds(m) \ kept = {}
      BY <1>2 DEF TriedIds, Ids
    <2>2. Cardinality({}) = 0
      BY FS_EmptySet
    <2>3. nTr = m.nTried - 0
      BY <2>1, <2>2, Zenon
    <2>4. m.nTried \in Int
      BY <1>3, EntryTypes
    <2>. QED  BY <2>3, <2>4
  <1> HIDE DEF kept, ids, vvNew, vvTried, addrs, nTr
  <1>13. rnd = [j \in 1 .. n |-> j - 1]
    BY <1>11
  <1>14. \A i \in 0 .. n - 1 : info[i] = Renum(m.mapInfo[oldId(i)], refs(i), i + 1)
    BY <1>6, Zenon DEF Renum
  <1>15. DOMAIN info = 0 .. n - 1 /\ info = [i \in DOMAIN info |-> info[i]]
    BY <1>6
  <1> HIDE DEF info, oldId, rnd
  <1>16. \A i : refs(i) = Cardinality(SlotsOf(r, i))
    <2>1. r.vvNew = vvNew
      BY <1>1
    <2> HIDE DEF r
    <2>. QED  BY <2>1, Zenon DEF SlotsOf
  <1> HIDE DEF refs
  <1>17. ASSUME NEW id \in Ids(m)
         PROVE  info[I[id]] = Renum(m.mapInfo[id], Cardinality(SlotsOf(r, I[id])), I[id] + 1)
    <2> DEFINE i == I[id]
    <2>1. i \in 0 .. n - 1 /\ oldId(i) = id
      BY <1>5, <1>7
    <2> HIDE DEF i
    <2>2. info[i] = Renum(m.mapInfo[oldId(i)], refs(i), i + 1)
      BY <1>14, <2>1, Zenon
    <2>. QED  BY <1>16, <2>1, <2>2, Zenon DEF i
  <1>18. /\ r.mapInfo = info /\ r.mapAddr = addrs /\ r.vRandom = rnd /\ r.vvNew = vvNew
         /\ r.vvTried = vvTried /\ r.nNew = m.nNew /\ r.nTried = nTr /\ r.nIdCount = Cardinality(ids)
    BY <1>1
  <1>19. r = [mapInfo |-> r.mapInfo, mapAddr |-> r.mapAddr, vRandom |-> r.vRandom, vvNew |-> r.vvNew,
              vvTried |-> r.vvTried, nNew |-> r.nNew, nTried |-> r.nTried, nIdCount |-> r.nIdCount]
    BY <1>1, <1>18, Zenon
  <1> HIDE DEF r
  <1>20. Ids(r) = 0 .. n - 1 /\ r.mapInfo = [i \in Ids(r) |-> r.mapInfo[i]]
    BY <1>15, <1>18, Zenon DEF Ids
  <1>21. \A id \in Ids(m) : r.mapInfo[I[id]] = Renum(m.mapInfo[id], Cardinality(SlotsOf(r, I[id])), I[id] + 1)
    BY <1>17, <1>18, Zenon
  <1>22. Renumbered(m, I, n, r)
    BY <1>8, <1>9, <1>10, <1>11, <1>12, <1>13, <1>18, <1>19, <1>20, <1>21, Zenon DEF Renumbered
  <1>. QED  BY <1>22 DEF r

\* Renumbering keeps the invariant and the tables.
LEMMA RenumberedLemma ==
    ASSUME NEW m, Inv(m, {}, 0), NEW I, NEW n, Numbers(m, I, n), n <= m.nIdCount, NEW r,
           Renumbered(m, I, n, r)
    PROVE  /\ Inv(r, {}, 0) /\ Tables(r) = Tables(m)
           /\ \A a \in Addr : m.mapAddr[a] # -1 => r.mapAddr[a] # -1
  <1>1. m \in AddrMans /\ Types(m) /\ AddrOk(m) /\ TriedOk(m) /\ NewOk(m, {}) /\ Counts(m, 0)
    BY DEF Inv, Types
  <1>2. /\ n \in Nat /\ n = Cardinality(Ids(m)) /\ I \in [Ids(m) -> 0 .. n - 1]
        /\ \A x, y \in Ids(m) : I[x] = I[y] => x = y
        /\ \A i \in 0 .. n - 1 : \E x \in Ids(m) : I[x] = i
    BY DEF Numbers
  <1>3. /\ Ids(r) = 0 .. n - 1 /\ r.mapInfo = [i \in Ids(r) |-> r.mapInfo[i]]
        /\ \A id \in Ids(m) : r.mapInfo[I[id]] = Renum(m.mapInfo[id], Cardinality(SlotsOf(r, I[id])), I[id] + 1)
        /\ r.vRandom = [i \in 1 .. n |-> i - 1]
        /\ r.nNew = m.nNew /\ r.nTried = m.nTried /\ r.nIdCount = n
    BY DEF Renumbered
  <1>4. /\ m.mapInfo \in [Ids(m) -> Info] /\ -1 \notin Ids(m)
        /\ \A id \in Ids(m) : m.mapInfo[id] \in Info /\ m.mapInfo[id].addr \in Addr
    BY <1>1, EntryTypes
  <1>5. \A s \in NewSlot : r.vvNew[s] = NewId(I, m.vvNew[s])
    BY DEF Renumbered
  <1>6. \A k \in KSlot : r.vvTried[k] = NewId(I, m.vvTried[k])
    BY DEF Renumbered
  <1>7. \A a \in Addr : r.mapAddr[a] = NewId(I, m.mapAddr[a])
    BY DEF Renumbered
  <1>8. /\ \A s \in NewSlot : m.vvNew[s] # -1 => m.vvNew[s] \in Ids(m)
        /\ \A k \in KSlot : m.vvTried[k] # -1 => m.vvTried[k] \in Ids(m)
        /\ \A a \in Addr : m.mapAddr[a] # -1 => m.mapAddr[a] \in Ids(m)
    BY <1>1 DEF NewOk, TriedOk, TriedIds, Ids, AddrOk
  <1>9. /\ \A v : (v # -1 => v \in Ids(m)) => /\ NewId(I, v) \in Int /\ (NewId(I, v) = -1 <=> v = -1)
                                              /\ \A id \in Ids(m) : NewId(I, v) = I[id] <=> v = id
    BY <1>2, <1>4 DEF NewId
  <1>10. ASSUME NEW id \in Ids(m) PROVE SlotsOf(r, I[id]) = SlotsOf(m, id)
    BY <1>5, <1>8, <1>9 DEF SlotsOf
  <1>11. ASSUME NEW id \in Ids(m)
         PROVE  /\ Cardinality(SlotsOf(m, id)) \in Nat
                /\ m.mapInfo[id].nRefCount = Cardinality(SlotsOf(m, id))
    <2>1. CASE id \in TriedIds(m)
      <3>1. SlotsOf(m, id) = {}
        <4>1. \A s \in NewSlot : m.vvNew[s] # id
          BY <1>1, <1>4, <2>1 DEF NewOk
        <4>. QED  BY <4>1 DEF SlotsOf
      <3>2. Cardinality({}) = 0
        BY FS_EmptySet
      <3>3. m.mapInfo[id].nRefCount = 0
        BY <1>1, <2>1 DEF TriedOk
      <3>4. Cardinality(SlotsOf(m, id)) = 0
        BY <3>1, <3>2, Zenon
      <3>. QED  BY <3>3, <3>4
    <2>2. CASE id \notin TriedIds(m)
      <3>1. IsFiniteSet(SlotsOf(m, id)) /\ m.mapInfo[id].nRefCount = Cardinality(SlotsOf(m, id))
        BY <1>1, <2>2 DEF NewOk
      <3>2. Cardinality(SlotsOf(m, id)) \in Nat
        BY <3>1, FS_CardinalityType, Zenon
      <3>. QED  BY <3>1, <3>2
    <2>. QED  BY <2>1, <2>2
  <1>12. ASSUME NEW id \in Ids(m)
         PROVE  /\ I[id] \in Ids(r) /\ r.mapInfo[I[id]] \in Info
                /\ r.mapInfo[I[id]].addr = m.mapInfo[id].addr
                /\ r.mapInfo[I[id]].fInTried = m.mapInfo[id].fInTried
                /\ r.mapInfo[I[id]].success = m.mapInfo[id].success
                /\ r.mapInfo[I[id]].nRefCount = m.mapInfo[id].nRefCount
                /\ r.mapInfo[I[id]].nRandomPos = I[id] + 1
    <2> DEFINE e == m.mapInfo[id]
               c == Cardinality(SlotsOf(m, id))
               p == I[id] + 1
    <2>1. p \in Nat /\ I[id] \in Ids(r)
      BY <1>2, <1>3
    <2>2. c \in Nat /\ e \in Info /\ c = m.mapInfo[id].nRefCount
      BY <1>4, <1>11
    <2>3. r.mapInfo[I[id]] = Renum(e, c, p)
      <3>1. r.mapInfo[I[id]] = Renum(m.mapInfo[id], Cardinality(SlotsOf(r, I[id])), I[id] + 1)
        BY <1>3, Zenon
      <3>2. SlotsOf(r, I[id]) = SlotsOf(m, id)
        BY <1>10
      <3>. QED  BY <3>1, <3>2, Zenon
    <2> HIDE DEF e, c, p
    <2>4. /\ Renum(e, c, p) \in Info /\ Renum(e, c, p).addr = e.addr
          /\ Renum(e, c, p).fInTried = e.fInTried /\ Renum(e, c, p).success = e.success
          /\ Renum(e, c, p).nRefCount = c /\ Renum(e, c, p).nRandomPos = p
      BY <2>1, <2>2 DEF Renum, Info
    <2>. QED  BY <2>1, <2>2, <2>3, <2>4, Zenon DEF e, p
  <1>13. \A j \in Ids(r) : \E id \in Ids(m) : j = I[id]
    BY <1>2, <1>3
  <1>14. \A id \in Ids(m) : I[id] \in TriedIds(r) <=> id \in TriedIds(m)
    BY <1>12 DEF TriedIds, Ids
  <1>15. TriedIds(r) \subseteq Ids(r) /\ TriedIds(m) \subseteq Ids(m)
    BY DEF TriedIds, Ids
  <1>16. Types(r)
    <2>1. r.mapInfo \in [Ids(r) -> Info]
      <3>1. \A j \in Ids(r) : r.mapInfo[j] \in Info
        BY <1>12, <1>13
      <3>2. r.mapInfo = [i \in Ids(r) |-> r.mapInfo[i]]
        BY <1>3
      <3> DEFINE M == r.mapInfo
                 D == Ids(r)
                 f == [i \in D |-> M[i]]
      <3>3. f \in [D -> Info]
        BY <3>1
      <3>. QED  BY <3>2, <3>3, Zenon
    <2>2. r.mapInfo \in InfoMaps
      <3>1. Ids(r) \in SUBSET Nat
        BY <1>2, <1>3
      <3>. QED  BY <2>1, <3>1 DEF InfoMaps
    <2>3. r.vRandom \in Seq(Nat)
      BY <1>2, <1>3
    <2>4. /\ r.vvNew \in [NewSlot -> Int] /\ r.vvTried \in [KSlot -> Int]
          /\ r.mapAddr \in [Addr -> Int]
      <3>1. \A s \in NewSlot : NewId(I, m.vvNew[s]) \in Int
        BY <1>8, <1>9
      <3>2. \A k \in KSlot : NewId(I, m.vvTried[k]) \in Int
        BY <1>8, <1>9
      <3>3. \A a \in Addr : NewId(I, m.mapAddr[a]) \in Int
        BY <1>8, <1>9
      <3>. QED  BY <3>1, <3>2, <3>3 DEF Renumbered
    <2>5. r.nNew \in Int /\ r.nTried \in Int /\ r.nIdCount \in Nat
      BY <1>1, <1>2, <1>3, EntryTypes
    <2>6. r \in AddrMans
      <3>1. r = [mapInfo |-> r.mapInfo, mapAddr |-> r.mapAddr, vRandom |-> r.vRandom, vvNew |-> r.vvNew,
                 vvTried |-> r.vvTried, nNew |-> r.nNew, nTried |-> r.nTried, nIdCount |-> r.nIdCount]
        BY DEF Renumbered
      <3>. QED  BY <2>2, <2>3, <2>4, <2>5, <3>1 DEF AddrMans
    <2>7. n <= MaxId
      <3>1. m.nIdCount \in Nat /\ m.nIdCount <= MaxId
        BY <1>1, EntryTypes DEF Types
      <3>. QED  BY <1>2, <3>1, AddrManAssumption
    <2>. QED  BY <1>3, <2>6, <2>7 DEF Types
  <1>17. Random(r)
    <2>1. Cardinality(Ids(r)) = n
      <3>1. IsFiniteSet(Ids(m))
        BY <1>1, IdsFinite
      <3>2. I \in [Ids(m) -> Ids(r)] /\ \A t \in Ids(r) : \E x \in Ids(m) : I[x] = t
        BY <1>2, <1>3
      <3>3. Cardinality(Ids(r)) = Cardinality(Ids(m))
        BY <1>2, <3>1, <3>2, SameCardinality
      <3>. QED  BY <1>2, <3>3
    <2>2. Len(r.vRandom) = n /\ \A i \in 1 .. n : r.vRandom[i] = i - 1
      BY <1>2, <1>3
    <2>3. \A j \in Ids(r) : r.mapInfo[j].nRandomPos = j + 1
      BY <1>12, <1>13
    <2>4. \A j \in Ids(r) : r.mapInfo[j].nRandomPos \in 1 .. n /\ r.vRandom[r.mapInfo[j].nRandomPos] = j
      BY <1>2, <1>3, <2>2, <2>3
    <2>5. \A i \in 1 .. n : r.vRandom[i] \in Ids(r) /\ r.mapInfo[r.vRandom[i]].nRandomPos = i
      BY <1>2, <1>3, <2>2, <2>3
    <2>. QED  BY <2>1, <2>2, <2>4, <2>5 DEF Random
  <1>18. AddrOk(r)
    <2>1. ASSUME NEW a \in Addr, r.mapAddr[a] # -1
          PROVE  r.mapAddr[a] \in Ids(r) /\ r.mapInfo[r.mapAddr[a]].addr = a
      <3>1. m.mapAddr[a] # -1 /\ r.mapAddr[a] = I[m.mapAddr[a]]
        BY <1>7, <2>1 DEF NewId
      <3>2. m.mapAddr[a] \in Ids(m) /\ m.mapInfo[m.mapAddr[a]].addr = a
        BY <1>1, <3>1 DEF AddrOk
      <3>. QED  BY <1>12, <3>1, <3>2
    <2>2. ASSUME NEW j \in Ids(r) PROVE r.mapAddr[r.mapInfo[j].addr] = j
      <3>1. PICK id \in Ids(m) : j = I[id]
        BY <1>13
      <3>2. m.mapAddr[m.mapInfo[id].addr] = id /\ m.mapInfo[id].addr \in Addr
        BY <1>1, <1>4 DEF AddrOk
      <3>3. NewId(I, id) = I[id]
        BY <1>4 DEF NewId
      <3>. QED  BY <1>7, <1>12, <3>1, <3>2, <3>3
    <2>. QED  BY <2>1, <2>2 DEF AddrOk
  <1>19. TriedOk(r)
    <2>1. ASSUME NEW j \in TriedIds(r)
          PROVE  /\ r.mapInfo[j].success /\ r.mapInfo[j].nRefCount = 0
                 /\ r.vvTried[TriedSlot[r.mapInfo[j].addr]] = j
      <3>1. PICK id \in Ids(m) : j = I[id]
        BY <1>13, <1>15
      <3>2. id \in TriedIds(m)
        BY <1>14, <3>1
      <3>3. /\ m.mapInfo[id].success /\ m.mapInfo[id].nRefCount = 0
            /\ m.vvTried[TriedSlot[m.mapInfo[id].addr]] = id
        BY <1>1, <3>2 DEF TriedOk
      <3>4. TriedSlot[m.mapInfo[id].addr] \in KSlot
        BY <1>4 DEF KSlot
      <3>5. NewId(I, id) = I[id]
        BY <1>4 DEF NewId
      <3>. QED  BY <1>6, <1>12, <3>1, <3>3, <3>4, <3>5
    <2>2. ASSUME NEW k \in KSlot, r.vvTried[k] # -1
          PROVE  r.vvTried[k] \in TriedIds(r) /\ TriedSlot[r.mapInfo[r.vvTried[k]].addr] = k
      <3>1. m.vvTried[k] # -1 /\ r.vvTried[k] = I[m.vvTried[k]]
        BY <1>6, <2>2 DEF NewId
      <3>2. m.vvTried[k] \in TriedIds(m) /\ TriedSlot[m.mapInfo[m.vvTried[k]].addr] = k
        BY <1>1, <3>1 DEF TriedOk
      <3>. QED  BY <1>12, <1>14, <1>15, <3>1, <3>2
    <2>. QED  BY <2>1, <2>2 DEF TriedOk
  <1>20. NewOk(r, {})
    <2>1. ASSUME NEW j \in Ids(r) \ TriedIds(r)
          PROVE  /\ IsFiniteSet(SlotsOf(r, j))
                 /\ r.mapInfo[j].nRefCount = Cardinality(SlotsOf(r, j))
                 /\ r.mapInfo[j].nRefCount \in 0 .. ADDRMAN_NEW_BUCKETS_PER_ADDRESS
                 /\ r.mapInfo[j].nRefCount # 0
      <3>1. PICK id \in Ids(m) : j = I[id]
        BY <1>13
      <3>2. id \notin TriedIds(m)
        BY <1>14, <3>1
      <3>3. /\ IsFiniteSet(SlotsOf(m, id))
            /\ m.mapInfo[id].nRefCount = Cardinality(SlotsOf(m, id))
            /\ m.mapInfo[id].nRefCount \in 0 .. ADDRMAN_NEW_BUCKETS_PER_ADDRESS
            /\ m.mapInfo[id].nRefCount # 0
        BY <1>1, <3>2 DEF NewOk
      <3>4. SlotsOf(r, j) = SlotsOf(m, id) /\ r.mapInfo[j].nRefCount = m.mapInfo[id].nRefCount
        BY <1>10, <1>12, <3>1
      <3>. QED  BY <3>3, <3>4, Zenon
    <2>2. ASSUME NEW s \in NewSlot, r.vvNew[s] # -1
          PROVE  r.vvNew[s] \in Ids(r) \ TriedIds(r) /\ Position(r, s) = s
      <3>1. m.vvNew[s] # -1 /\ r.vvNew[s] = I[m.vvNew[s]]
        BY <1>5, <2>2 DEF NewId
      <3>2. m.vvNew[s] \in Ids(m) \ TriedIds(m) /\ Position(m, s) = s
        BY <1>1, <3>1 DEF NewOk
      <3>3. r.mapInfo[r.vvNew[s]].addr = m.mapInfo[m.vvNew[s]].addr
        BY <1>12, <3>1, <3>2
      <3>4. Position(r, s) = Position(m, s)
        BY <3>3 DEF Position
      <3>. QED  BY <1>12, <1>14, <3>1, <3>2, <3>4
    <2>. QED  BY <2>1, <2>2 DEF NewOk
  <1>21. Counts(r, 0)
    <2> DEFINE T == TriedIds(m)
               N == Ids(m) \ TriedIds(m)
               T2 == TriedIds(r)
               N2 == Ids(r) \ TriedIds(r)
               f == [id \in T |-> I[id]]
               g == [id \in N |-> I[id]]
    <2>1. IsFiniteSet(T) /\ IsFiniteSet(N)
      BY <1>1, IdsFinite
    <2>2. f \in [T -> T2] /\ g \in [N -> N2]
      BY <1>12, <1>14, <1>15
    <2>3. (\A x, y \in T : f[x] = f[y] => x = y) /\ (\A x, y \in N : g[x] = g[y] => x = y)
      BY <1>2, <1>15
    <2>4. (\A t \in T2 : \E x \in T : f[x] = t) /\ (\A t \in N2 : \E x \in N : g[x] = t)
      BY <1>13, <1>14, <1>15
    <2> HIDE DEF T, N, T2, N2, f, g
    <2>5. Cardinality(T2) = Cardinality(T)
      BY <2>1, <2>2, <2>3, <2>4, SameCardinality
    <2>6. Cardinality(N2) = Cardinality(N)
      BY <2>1, <2>2, <2>3, <2>4, SameCardinality
    <2>7. r.nTried = Cardinality(T) /\ r.nNew = Cardinality(N) - 0
      BY <1>1, <1>3 DEF Counts, T, N
    <2>. QED  BY <2>5, <2>6, <2>7, Zenon DEF Counts, T, N, T2, N2
  <1>22. Tables(r) = Tables(m)
    <2>1. ASSUME NEW s \in NewSlot
          PROVE  (IF r.vvNew[s] = -1 THEN -1 ELSE r.mapInfo[r.vvNew[s]].addr)
                 = IF m.vvNew[s] = -1 THEN -1 ELSE m.mapInfo[m.vvNew[s]].addr
      <3>1. CASE m.vvNew[s] = -1
        BY <1>5, <3>1 DEF NewId
      <3>2. CASE m.vvNew[s] # -1
        BY <1>5, <1>8, <1>9, <1>12, <3>2 DEF NewId
      <3>. QED  BY <3>1, <3>2
    <2>2. ASSUME NEW k \in KSlot
          PROVE  (IF r.vvTried[k] = -1 THEN -1 ELSE r.mapInfo[r.vvTried[k]].addr)
                 = IF m.vvTried[k] = -1 THEN -1 ELSE m.mapInfo[m.vvTried[k]].addr
      <3>1. CASE m.vvTried[k] = -1
        BY <1>6, <3>1 DEF NewId
      <3>2. CASE m.vvTried[k] # -1
        BY <1>6, <1>8, <1>9, <1>12, <3>2 DEF NewId
      <3>. QED  BY <3>1, <3>2
    <2>3. [s \in NewSlot |-> IF r.vvNew[s] = -1 THEN -1 ELSE r.mapInfo[r.vvNew[s]].addr]
          = [s \in NewSlot |-> IF m.vvNew[s] = -1 THEN -1 ELSE m.mapInfo[m.vvNew[s]].addr]
      BY <2>1, Zenon
    <2>4. [k \in KSlot |-> IF r.vvTried[k] = -1 THEN -1 ELSE r.mapInfo[r.vvTried[k]].addr]
          = [k \in KSlot |-> IF m.vvTried[k] = -1 THEN -1 ELSE m.mapInfo[m.vvTried[k]].addr]
      BY <2>2, Zenon
    <2>. QED  BY <2>3, <2>4, Zenon DEF Tables
  <1>23. \A a \in Addr : m.mapAddr[a] # -1 => r.mapAddr[a] # -1
    BY <1>7, <1>8, <1>9
  <1>. QED  BY <1>16, <1>17, <1>18, <1>19, <1>20, <1>21, <1>22, <1>23 DEF Inv

-----------------------------------------------------------------------------
(* Every step *)

\* No address of the tried table is lost.
TriedStay(m, r) ==
    \A a \in Addr : m.mapAddr[a] # -1 /\ m.mapInfo[m.mapAddr[a]].fInTried => r.mapAddr[a] # -1

LEMMA TriedStayLemma ==
    ASSUME NEW m, Inv(m, {}, 0), NEW r, Inv(r, {}, 0),
           \A j \in TriedIds(m) : j \in Ids(r) /\ r.mapInfo[j].addr = m.mapInfo[j].addr
    PROVE  TriedStay(m, r)
  <1>1. AddrOk(m) /\ AddrOk(r) /\ r \in AddrMans
    BY DEF Inv, Types
  <1>2. -1 \notin Ids(r)
    BY <1>1, EntryTypes
  <1>3. ASSUME NEW a \in Addr, m.mapAddr[a] # -1, m.mapInfo[m.mapAddr[a]].fInTried
        PROVE  r.mapAddr[a] # -1
    <2> DEFINE j == m.mapAddr[a]
    <2>1. j \in TriedIds(m) /\ m.mapInfo[j].addr = a
      BY <1>1, <1>3 DEF AddrOk, TriedIds, Ids
    <2>2. r.mapAddr[r.mapInfo[j].addr] = j /\ j \in Ids(r) /\ r.mapInfo[j].addr = a
      BY <1>1, <2>1 DEF AddrOk
    <2>. QED  BY <1>2, <2>2
  <1>. QED  BY <1>3 DEF TriedStay

LEMMA EmptyLemma == Inv(Empty, {}, 0)
  <1> DEFINE m == Empty
  <1>1. /\ m.mapInfo = <<>> /\ m.mapAddr = [a \in Addr |-> -1] /\ m.vRandom = <<>>
        /\ m.vvNew = [s \in NewSlot |-> -1] /\ m.vvTried = [k \in KSlot |-> -1]
        /\ m.nNew = 0 /\ m.nTried = 0 /\ m.nIdCount = 0
    BY DEF Empty
  <1>2. m = [mapInfo |-> m.mapInfo, mapAddr |-> m.mapAddr, vRandom |-> m.vRandom, vvNew |-> m.vvNew,
             vvTried |-> m.vvTried, nNew |-> m.nNew, nTried |-> m.nTried, nIdCount |-> m.nIdCount]
    BY DEF Empty
  <1> HIDE DEF m
  <1>3. Ids(m) = {} /\ TriedIds(m) = {} /\ Ids(m) \ TriedIds(m) = {}
    BY <1>1 DEF Ids, TriedIds
  <1>4. Cardinality({}) = 0
    BY FS_EmptySet
  <1>5. Cardinality(Ids(m)) = 0 /\ Cardinality(TriedIds(m)) = 0 /\ Cardinality(Ids(m) \ TriedIds(m)) = 0
    BY <1>3, <1>4, Zenon
  <1>6. Types(m)
    <2>1. m.mapInfo \in [{} -> Info] /\ {} \in SUBSET Nat
      BY <1>1
    <2>2. m.mapInfo \in InfoMaps
      BY <2>1 DEF InfoMaps
    <2>3. /\ m.mapAddr \in [Addr -> Int] /\ m.vRandom \in Seq(Nat) /\ m.vvNew \in [NewSlot -> Int]
          /\ m.vvTried \in [KSlot -> Int] /\ m.nNew \in Int /\ m.nTried \in Int /\ m.nIdCount \in Nat
      BY <1>1
    <2>4. m \in AddrMans
      BY <1>2, <2>2, <2>3 DEF AddrMans
    <2>. QED  BY <1>1, <1>3, <2>4, AddrManAssumption DEF Types
  <1>7. Random(m)
    BY <1>1, <1>3, <1>5 DEF Random
  <1>8. AddrOk(m)
    BY <1>1, <1>3 DEF AddrOk
  <1>9. TriedOk(m)
    BY <1>1, <1>3 DEF TriedOk
  <1>10. NewOk(m, {})
    BY <1>1, <1>3 DEF NewOk
  <1>11. Counts(m, 0)
    BY <1>1, <1>5 DEF Counts
  <1>. QED  BY <1>6, <1>7, <1>8, <1>9, <1>10, <1>11 DEF Inv, m

LEMMA StepLemma ==
    ASSUME Inv(addrman, {}, 0), Next
    PROVE  /\ Inv(addrman', {}, 0) /\ TriedStay(addrman, addrman')
           /\ Restart => Tables(addrman') = Tables(addrman)
  <1> DEFINE m == addrman
             z == 0
  <1>1. m \in AddrMans /\ AddrOk(m) /\ NewOk(m, {}) /\ TriedOk(m)
    BY DEF Inv, Types
  <1>2. Restart => /\ Inv(addrman', {}, 0) /\ TriedStay(addrman, addrman')
                   /\ Tables(addrman') = Tables(addrman)
    <2> DEFINE r == Loaded(m)
               I == [id \in Ids(m) |-> Index(m, id)]
               n == Cardinality(Ids(m))
    <2>1. Numbers(m, I, n) /\ n <= m.nIdCount
      BY IndexLemma
    <2>2. Renumbered(m, I, n, r)
      BY LoadedLemma
    <2> HIDE DEF r, I, n, m
    <2>3. /\ Inv(r, {}, 0) /\ Tables(r) = Tables(m)
          /\ \A a \in Addr : m.mapAddr[a] # -1 => r.mapAddr[a] # -1
      BY <2>1, <2>2, RenumberedLemma DEF m
    <2>4. TriedStay(m, r)
      BY <2>3 DEF TriedStay
    <2>. QED  BY <2>3, <2>4 DEF Restart, r, m
  <1>3. ASSUME NEW a \in Addr, NEW src \in Source, NEW terrible \in BOOLEAN, AddUnknown(a, src, terrible)
        PROVE  Inv(addrman', {}, 0) /\ TriedStay(addrman, addrman')
    <2> DEFINE n == m.nIdCount
               c == [Create(m, a, src) EXCEPT !.nNew = @ + 1]
               r == Place(c, n, src, terrible)
               X == {n}
    <2>1. m.mapAddr[a] = -1 /\ m.nIdCount < MaxId /\ addrman' = r
      BY <1>3 DEF AddUnknown
    <2>2. /\ Inv(c, {n}, 0) /\ n \notin Ids(m) /\ Ids(c) = Ids(m) \cup {n}
          /\ c.mapInfo[n].nRefCount = 0 /\ \A j \in Ids(m) : c.mapInfo[j] = m.mapInfo[j]
      BY <2>1, CreateLemma
    <2> HIDE DEF c, n, X, m
    <2>3. Inv(c, X, 0) /\ X = {n}
      BY <2>2 DEF X
    <2>4. n \in Ids(c) \ TriedIds(c)
      BY <2>3 DEF Inv, NewOk
    <2>5. c.mapInfo[n].nRefCount # ADDRMAN_NEW_BUCKETS_PER_ADDRESS
      BY <2>2, AddrManAssumption
    <2>6. Inv(r, {}, 0) /\ \A j \in TriedIds(c) : j \in Ids(r) /\ r.mapInfo[j].addr = c.mapInfo[j].addr
      BY <2>2, <2>3, <2>4, <2>5, PlaceLemma
    <2> HIDE DEF r
    <2>7. \A j \in TriedIds(m) : j \in TriedIds(c) /\ c.mapInfo[j].addr = m.mapInfo[j].addr
      BY <2>2 DEF TriedIds, Ids
    <2>8. TriedStay(m, r)
      BY <2>6, <2>7, TriedStayLemma DEF m
    <2>. QED  BY <2>1, <2>6, <2>8 DEF m
  <1>4. ASSUME NEW a \in Addr, NEW src \in Source, NEW terrible \in BOOLEAN, AddKnown(a, src, terrible)
        PROVE  Inv(addrman', {}, 0) /\ TriedStay(addrman, addrman')
    <2> DEFINE id == m.mapAddr[a]
               r == Place(m, id, src, terrible)
    <2>1. /\ m.mapAddr[a] # -1 /\ ~ m.mapInfo[id].fInTried
          /\ m.mapInfo[id].nRefCount # ADDRMAN_NEW_BUCKETS_PER_ADDRESS /\ addrman' = r
      BY <1>4 DEF AddKnown
    <2>2. id \in Ids(m) \ TriedIds(m)
      BY <1>1, <2>1 DEF AddrOk, TriedIds, Ids
    <2> HIDE DEF id, m
    <2>3. Inv(m, {}, 0) /\ {} \subseteq {id} /\ (id \in {} => m.mapInfo[id].nRefCount = 0)
      BY DEF m
    <2>4. Inv(r, {}, 0) /\ \A j \in TriedIds(m) : j \in Ids(r) /\ r.mapInfo[j].addr = m.mapInfo[j].addr
      BY <2>1, <2>2, <2>3, PlaceLemma
    <2> HIDE DEF r
    <2>5. TriedStay(m, r)
      BY <2>3, <2>4, TriedStayLemma
    <2>. QED  BY <2>1, <2>4, <2>5 DEF m
  <1>5. ASSUME NEW a \in Addr, Good(a)
        PROVE  Inv(addrman', {}, 0) /\ TriedStay(addrman, addrman')
    <2> DEFINE id == m.mapAddr[a]
               seen == [m EXCEPT !.mapInfo[id].success = TRUE]
               t == MakeTried(seen, id)
    <2>1. /\ m.mapAddr[a] # -1
          /\ addrman' = IF seen.mapInfo[id].fInTried \/ SlotsOf(seen, id) = {} THEN seen ELSE t
      BY <1>5 DEF Good
    <2>2. id \in Ids(m) /\ z \in Int
      BY <1>1, <2>1 DEF AddrOk
    <2> HIDE DEF id, z
    <2>3. Inv(m, {}, z)
      BY DEF z
    <2>4. /\ Inv(seen, {}, z) /\ Written(m, seen) /\ TriedIds(seen) = TriedIds(m) /\ seen.mapInfo[id].success
      BY <2>2, <2>3, SuccessLemma
    <2> HIDE DEF seen, m
    <2>5. Ids(seen) = Ids(m) /\ \A j \in Ids(m) : seen.mapInfo[j].addr = m.mapInfo[j].addr
      BY <2>4 DEF Written
    <2>6. TriedIds(m) \subseteq Ids(m)
      BY DEF TriedIds, Ids
    <2>7. CASE seen.mapInfo[id].fInTried \/ SlotsOf(seen, id) = {}
      <3>1. TriedStay(m, seen)
        BY <2>3, <2>4, <2>5, <2>6, TriedStayLemma DEF z
      <3>. QED  BY <2>1, <2>4, <2>7, <3>1 DEF z, m
    <2>8. CASE ~ (seen.mapInfo[id].fInTried \/ SlotsOf(seen, id) = {})
      <3>1. id \in Ids(seen) \ TriedIds(seen)
        BY <2>2, <2>5, <2>8 DEF TriedIds
      <3>2. Inv(t, {}, 0) /\ \A j \in TriedIds(seen) : j \in Ids(t) /\ t.mapInfo[j].addr = seen.mapInfo[j].addr
        BY <2>4, <3>1, MakeTriedLemma DEF z
      <3> HIDE DEF t
      <3>3. \A j \in TriedIds(m) : j \in Ids(t) /\ t.mapInfo[j].addr = m.mapInfo[j].addr
        BY <2>4, <2>5, <2>6, <3>2
      <3>4. TriedStay(m, t)
        BY <2>3, <3>2, <3>3, TriedStayLemma DEF z
      <3>. QED  BY <2>1, <2>8, <3>2, <3>4 DEF m
    <2>. QED  BY <2>7, <2>8
  <1>6. ASSUME NEW n \in 1 .. Cardinality(Addr), NEW pos \in 1 .. Cardinality(Addr), GetAddr(n, pos)
        PROVE  Inv(addrman', {}, 0) /\ TriedStay(addrman, addrman')
    <2> DEFINE r == SwapRandom(m, n, pos)
    <2>1. addrman' = r /\ n \in 1 .. Len(m.vRandom) /\ pos \in 1 .. Len(m.vRandom)
      <3>1. m.vRandom \in Seq(Nat)
        BY <1>1, EntryTypes
      <3>2. DOMAIN m.vRandom = 1 .. Len(m.vRandom)
        BY <3>1
      <3>. QED  BY <1>6, <3>2 DEF GetAddr
    <2>2. Inv(r, {}, 0) /\ Reordered(m, r)
      BY <2>1, SwapLemma
    <2> HIDE DEF r, m
    <2>3. \A j \in TriedIds(m) : j \in Ids(r) /\ r.mapInfo[j].addr = m.mapInfo[j].addr
      BY <2>2 DEF Reordered, TriedIds, Ids
    <2>4. TriedStay(m, r)
      BY <2>2, <2>3, TriedStayLemma DEF m
    <2>. QED  BY <2>1, <2>2, <2>4 DEF m
  <1>7. Inv(addrman', {}, 0) /\ TriedStay(addrman, addrman')
    BY <1>2, <1>3, <1>4, <1>5, <1>6 DEF Next
  <1>. QED  BY <1>2, <1>7

LEMMA InvCheckOk ==
    ASSUME Inv(addrman, {}, 0)
    PROVE  CheckOk
  <1> DEFINE m == addrman
             T == TriedIds(m)
  <1>1. m \in AddrMans /\ Types(m) /\ Random(m) /\ AddrOk(m) /\ TriedOk(m) /\ NewOk(m, {}) /\ Counts(m, 0)
    BY DEF Inv, Types
  <1>2. /\ m.mapInfo \in [Ids(m) -> Info] /\ m.vRandom \in Seq(Nat) /\ m.nIdCount \in Nat
        /\ -1 \notin Ids(m)
    BY <1>1, EntryTypes
  <1>3. DOMAIN m.vRandom = 1 .. Len(m.vRandom)
    BY <1>2
  <1>4. T \subseteq Ids(m)
    BY DEF TriedIds, Ids
  <1>5. TypeOK
    <2>1. m.nIdCount \in 0 .. MaxId /\ Ids(m) \subseteq 0 .. m.nIdCount - 1
      BY <1>1, <1>2, AddrManAssumption DEF Types
    <2>2. ASSUME NEW id \in Ids(m)
          PROVE  m.mapInfo[id] \in [addr : Addr, source : Source, fInTried : BOOLEAN,
                                    success : BOOLEAN, nRandomPos : DOMAIN m.vRandom,
                                    nRefCount : 0..ADDRMAN_NEW_BUCKETS_PER_ADDRESS]
      <3> DEFINE e == m.mapInfo[id]
      <3>1. e \in Info
        BY <1>2
      <3>2. e.nRandomPos \in DOMAIN m.vRandom
        BY <1>1, <1>3 DEF Random
      <3>3. e.nRefCount \in 0..ADDRMAN_NEW_BUCKETS_PER_ADDRESS
        <4>1. CASE id \in T
          BY <1>1, <4>1, AddrManAssumption DEF TriedOk
        <4>2. CASE id \notin T
          BY <1>1, <4>2 DEF NewOk
        <4>. QED  BY <4>1, <4>2
      <3> HIDE DEF e
      <3>4. e \in [addr : Addr, source : Source, fInTried : BOOLEAN, success : BOOLEAN,
                   nRandomPos : DOMAIN m.vRandom, nRefCount : 0..ADDRMAN_NEW_BUCKETS_PER_ADDRESS]
        BY <3>1, <3>2, <3>3 DEF Info
      <3>. QED  BY <3>4 DEF e
    <2>3. /\ Len(m.vRandom) = Cardinality(Ids(m))
          /\ \A id \in Ids(m) : m.vRandom[m.mapInfo[id].nRandomPos] = id
      BY <1>1 DEF Random
    <2>. QED  BY <2>1, <2>2, <2>3, Zenon DEF TypeOK, Ids
  <1>6. m.nTried = Cardinality(T) /\ m.nNew = Cardinality(Ids(m) \ T)
    <2>1. Cardinality(Ids(m) \ T) \in Nat
      BY <1>1, IdsFinite
    <2>. QED  BY <1>1, <2>1 DEF Counts
  <1>7. \A a \in Addr : IF m.mapAddr[a] = -1 THEN \A id \in Ids(m) : m.mapInfo[id].addr # a
                        ELSE m.mapAddr[a] \in Ids(m) /\ m.mapInfo[m.mapAddr[a]].addr = a
    BY <1>1, <1>2 DEF AddrOk
  <1>8. \A id \in Ids(m) : m.mapAddr[m.mapInfo[id].addr] = id
    BY <1>1 DEF AddrOk
  <1>9. \A id \in Ids(m) \ T : /\ m.mapInfo[id].nRefCount = Cardinality(SlotsOf(m, id))
                               /\ m.mapInfo[id].nRefCount \in 1..ADDRMAN_NEW_BUCKETS_PER_ADDRESS
    <2>1. ASSUME NEW id \in Ids(m) \ T
          PROVE  /\ m.mapInfo[id].nRefCount = Cardinality(SlotsOf(m, id))
                 /\ m.mapInfo[id].nRefCount \in 1..ADDRMAN_NEW_BUCKETS_PER_ADDRESS
      <3>1. /\ m.mapInfo[id].nRefCount = Cardinality(SlotsOf(m, id))
            /\ m.mapInfo[id].nRefCount \in 0..ADDRMAN_NEW_BUCKETS_PER_ADDRESS
            /\ m.mapInfo[id].nRefCount # 0
        BY <1>1 DEF NewOk
      <3>2. m.mapInfo[id].nRefCount \in 1..ADDRMAN_NEW_BUCKETS_PER_ADDRESS
        BY <3>1, AddrManAssumption
      <3>. QED  BY <3>1, <3>2
    <2>. QED  BY <2>1
  <1>10. /\ \A id \in T : /\ m.mapInfo[id].success /\ m.mapInfo[id].nRefCount = 0
                          /\ m.vvTried[TriedSlot[m.mapInfo[id].addr]] = id
         /\ \A k \in KSlot : m.vvTried[k] # -1 =>
              m.vvTried[k] \in T /\ TriedSlot[m.mapInfo[m.vvTried[k]].addr] = k
    BY <1>1 DEF TriedOk
  <1>11. \A s \in NewSlot : m.vvNew[s] # -1 => m.vvNew[s] \in Ids(m) \ T /\ Position(m, s) = s
    BY <1>1 DEF NewOk
  <1> HIDE DEF T
  <1>. QED  BY <1>5, <1>6, <1>7, <1>8, <1>9, <1>10, <1>11, Zenon DEF CheckOk, Ids, T

\* What Check_ tests holds after every operation and every restart, for any
\* addresses, buckets and positions and any number of slots for an address.
THEOREM CheckOkAlways == Spec => []CheckOk
  <1> DEFINE I == Inv(addrman, {}, 0)
  <1>1. Init => I
    BY EmptyLemma DEF Init
  <1>2. I /\ [Next]_addrman => I'
    <2>1. I /\ Next => I'
      BY StepLemma
    <2>2. I /\ UNCHANGED addrman => I'
      OBVIOUS
    <2>. QED  BY <2>1, <2>2
  <1>3. I => CheckOk
    BY InvCheckOk
  <1> HIDE DEF I
  <1>. QED  BY <1>1, <1>2, <1>3, PTL DEF Spec

\* No step loses an address of the tried table: MakeTried finds the one it
\* evicts a slot in the new table.
THEOREM TriedOnlyDemotedAlways == Spec => TriedOnlyDemoted
  <1> DEFINE I == Inv(addrman, {}, 0)
             A == \A a \in Addr : (addrman.mapAddr[a] # -1 /\ addrman.mapInfo[addrman.mapAddr[a]].fInTried)
                                  => addrman'.mapAddr[a] # -1
  <1>1. Init => I
    BY EmptyLemma DEF Init
  <1>2. I /\ [Next]_addrman => I'
    <2>1. I /\ Next => I'
      BY StepLemma
    <2>2. I /\ UNCHANGED addrman => I'
      OBVIOUS
    <2>. QED  BY <2>1, <2>2
  <1>3. I /\ [Next]_addrman => [A]_addrman
    <2>1. I /\ Next => A
      BY StepLemma DEF TriedStay
    <2>. QED  BY <2>1
  <1> HIDE DEF I
  <1>. QED  BY <1>1, <1>2, <1>3, PTL DEF Spec, TriedOnlyDemoted

\* Serialize and Unserialize leave every address in the slots it had.
THEOREM LoadKeepsTablesAlways == Spec => LoadKeepsTables
  <1> DEFINE I == Inv(addrman, {}, 0)
             A == Restart => Tables(addrman)' = Tables(addrman)
  <1>1. Init => I
    BY EmptyLemma DEF Init
  <1>2. I /\ [Next]_addrman => I'
    <2>1. I /\ Next => I'
      BY StepLemma
    <2>2. I /\ UNCHANGED addrman => I'
      OBVIOUS
    <2>. QED  BY <2>1, <2>2
  <1>3. I /\ [Next]_addrman => [A]_addrman
    <2>1. I /\ Next => A
      BY StepLemma
    <2>. QED  BY <2>1
  <1> HIDE DEF I
  <1>. QED  BY <1>1, <1>2, <1>3, PTL DEF Spec, LoadKeepsTables
=============================================================================
