------------------------------ MODULE AddrMan ------------------------------
(***************************************************************************)
(* The address manager (CAddrMan, addrman.cpp and addrman.h): addresses    *)
(* heard of lie in slots of the new table, up to a number of slots each,   *)
(* addresses that answered in one slot of the tried table; a slot may be   *)
(* wanted by several addresses.  Every operation holds cs and is one step. *)
(* Times, services and attempts only decide whether an entry is terrible   *)
(* or an announcement is news, which are left open here.                   *)
(***************************************************************************)
EXTENDS Integers, Sequences, FiniteSets

CONSTANTS
    Addr, Source,
    NewBucket,    \* CAddrInfo::GetNewBucket: the bucket for an address from a source
    NewPos,       \* GetBucketPosition of an address in a new bucket
    TriedSlot,    \* GetTriedBucket and GetBucketPosition of an address
    ADDRMAN_NEW_BUCKETS_PER_ADDRESS,
    MaxId         \* bound on nIdCount

Bucket == {NewBucket[a][s] : a \in Addr, s \in Source}
NewSlot == {<<b, NewPos[a][b]>> : a \in Addr, b \in Bucket}
KSlot == {TriedSlot[a] : a \in Addr}

ASSUME AddrManAssumption ==
    /\ NewBucket \in [Addr -> [Source -> Bucket]]
    /\ \A a \in Addr : Bucket \subseteq DOMAIN NewPos[a]
    /\ ADDRMAN_NEW_BUCKETS_PER_ADDRESS \in Nat \ {0}
    /\ MaxId \in Nat

\* The fields of CAddrMan; an empty slot and an unknown address are -1.
VARIABLE addrman

\* The slots of the new table that hold an id.
SlotsOf(m, id) == {s \in NewSlot : m.vvNew[s] = id}

\* A function with the value v at x, and without x in its domain.
With(f, x, v) == [y \in DOMAIN f \cup {x} |-> IF y = x THEN v ELSE f[y]]
Without(f, x) == [y \in DOMAIN f \ {x} |-> f[y]]

-----------------------------------------------------------------------------
\* Clear, of an object just made.
Empty ==
    [mapInfo |-> <<>>, mapAddr |-> [a \in Addr |-> -1], vRandom |-> <<>>,
     vvNew |-> [s \in NewSlot |-> -1], vvTried |-> [k \in KSlot |-> -1],
     nNew |-> 0, nTried |-> 0, nIdCount |-> 0]

\* Create.
Create(m, a, src) ==
    [m EXCEPT
        !.mapInfo = With(@, m.nIdCount, [addr |-> a, source |-> src, nRefCount |-> 0, fInTried |-> FALSE,
                                         success |-> FALSE, nRandomPos |-> Len(m.vRandom) + 1]),
        !.mapAddr[a] = m.nIdCount,
        !.vRandom = Append(@, m.nIdCount),
        !.nIdCount = @ + 1]

\* SwapRandom.
SwapRandom(m, i, j) ==
    IF i = j THEN m
    ELSE [m EXCEPT !.mapInfo[m.vRandom[i]].nRandomPos = j,
                   !.mapInfo[m.vRandom[j]].nRandomPos = i,
                   !.vRandom[i] = m.vRandom[j],
                   !.vRandom[j] = m.vRandom[i]]

\* Delete.
Delete(m, id) ==
    LET swapped == SwapRandom(m, m.mapInfo[id].nRandomPos, Len(m.vRandom))
    IN  [swapped EXCEPT !.vRandom = SubSeq(@, 1, Len(@) - 1),
                        !.mapAddr[m.mapInfo[id].addr] = -1,
                        !.mapInfo = Without(@, id),
                        !.nNew = @ - 1]

\* Mutant: an entry in other slots goes too.
ClearNewAlways(m, s) ==
    IF m.vvNew[s] = -1 THEN m
    ELSE Delete([m EXCEPT !.vvNew[s] = -1], m.vvNew[s])

\* ClearNew.
ClearNew(m, s) ==
    IF m.vvNew[s] = -1 THEN m
    ELSE LET id == m.vvNew[s]
             cleared == [m EXCEPT !.vvNew[s] = -1, !.mapInfo[id].nRefCount = @ - 1]
         IN  IF cleared.mapInfo[id].nRefCount = 0 THEN Delete(cleared, id) ELSE cleared

\* The slot in the new table of an address heard of from a source.
SlotFor(a, src) == <<NewBucket[a][src], NewPos[a][NewBucket[a][src]]>>

\* MakeTried, first part: out of every new bucket.
LeaveNew(m, id) ==
    [m EXCEPT !.vvNew = [s \in NewSlot |-> IF @[s] = id THEN -1 ELSE @[s]],
              !.mapInfo[id].nRefCount = @ - Cardinality(SlotsOf(m, id)),
              !.nNew = @ - 1]

\* Mutant: the evicted entry is forgotten.
EvictForgets(m, k) ==
    LET old == m.vvTried[k]
        out == [m EXCEPT !.mapInfo[old].fInTried = FALSE, !.vvTried[k] = -1, !.nTried = @ - 1,
                         !.nNew = @ + 1]
    IN  Delete(out, old)

\* MakeTried, second part: the entry in the way goes to the new bucket of its
\* own source, and what is there is cleared.
Evict(m, k) ==
    LET old  == m.vvTried[k]
        info == m.mapInfo[old]
        slot == SlotFor(info.addr, info.source)
        out  == [m EXCEPT !.mapInfo[old].fInTried = FALSE, !.vvTried[k] = -1, !.nTried = @ - 1]
    IN  [ClearNew(out, slot) EXCEPT !.mapInfo[old].nRefCount = 1, !.vvNew[slot] = old, !.nNew = @ + 1]

\* MakeTried.
MakeTried(m, id) ==
    LET k    == TriedSlot[m.mapInfo[id].addr]
        left == LeaveNew(m, id)
        free == IF left.vvTried[k] = -1 THEN left ELSE Evict(left, k)
    IN  [free EXCEPT !.vvTried[k] = id, !.nTried = @ + 1, !.mapInfo[id].fInTried = TRUE]

\* The end of Add_: the entry takes its slot for this source if that is empty,
\* or held by a terrible entry, or by one that has others while this has none.
Place(m, id, src, terrible) ==
    LET info == m.mapInfo[id]
        slot == SlotFor(info.addr, src)
        held == m.vvNew[slot]
    IN  IF held = id THEN m
        ELSE IF held = -1 \/ terrible \/ (m.mapInfo[held].nRefCount > 1 /\ info.nRefCount = 0)
        THEN [ClearNew(m, slot) EXCEPT !.mapInfo[id].nRefCount = @ + 1, !.vvNew[slot] = id]
        ELSE IF info.nRefCount = 0 THEN Delete(m, id) ELSE m

-----------------------------------------------------------------------------
Init == addrman = Empty

\* Add_ of an address not known.
AddUnknown(a, src, terrible) ==
    /\ addrman.mapAddr[a] = -1
    /\ addrman.nIdCount < MaxId
    /\ addrman' = Place([Create(addrman, a, src) EXCEPT !.nNew = @ + 1],
                        addrman.nIdCount, src, terrible)

\* Add_ of an address known, with news, and past the random test.
AddKnown(a, src, terrible) ==
    /\ addrman.mapAddr[a] # -1
    /\ LET info == addrman.mapInfo[addrman.mapAddr[a]]
       IN  ~info.fInTried /\ info.nRefCount # ADDRMAN_NEW_BUCKETS_PER_ADDRESS
    /\ addrman' = Place(addrman, addrman.mapAddr[a], src, terrible)

\* Good_: the address answered.
Good(a) ==
    /\ addrman.mapAddr[a] # -1
    /\ LET id == addrman.mapAddr[a]
           seen == [addrman EXCEPT !.mapInfo[id].success = TRUE]
       IN  addrman' = IF seen.mapInfo[id].fInTried \/ SlotsOf(seen, id) = {} THEN seen
                      ELSE MakeTried(seen, id)

\* One swap of GetAddr_.
GetAddr(n, pos) ==
    /\ {n, pos} \subseteq DOMAIN addrman.vRandom /\ n <= pos
    /\ addrman' = SwapRandom(addrman, n, pos)

\* The entries Serialize writes: those of the new table, then the tried ones,
\* each in the order of their ids.
NewIds(m) == {id \in DOMAIN m.mapInfo : m.mapInfo[id].nRefCount > 0}
TriedIds(m) == {id \in DOMAIN m.mapInfo : m.mapInfo[id].fInTried}
Before(ids, id) == Cardinality({j \in ids : j < id})

\* Mutant: the ids of the tried entries are not counted on from the new ones.
IndexOverlaps(m, id) ==
    IF id \in NewIds(m) THEN Before(NewIds(m), id) ELSE Before(TriedIds(m), id)

\* The id an entry is loaded under.
Index(m, id) ==
    IF id \in NewIds(m) THEN Before(NewIds(m), id)
    ELSE Cardinality(NewIds(m)) + Before(TriedIds(m), id)

\* A tried entry is lost when an earlier one has its slot.
Loadable(m) ==
    NewIds(m) \cup {id \in TriedIds(m) :
        \A j \in TriedIds(m) :
            j < id => TriedSlot[m.mapInfo[j].addr] # TriedSlot[m.mapInfo[id].addr]}

\* The new slots an entry is written in; Unserialize computes the position in
\* the bucket again.
Position(m, s) == <<s[1], NewPos[m.mapInfo[m.vvNew[s]].addr][s[1]]>>

\* Serialize and Unserialize, with the key that is in the file: entries get new
\* ids, and places, counts and the random order are built again.
Loaded(m) ==
    LET kept == Loadable(m)
        oldId(i) == CHOOSE id \in kept : Index(m, id) = i
        ids == {Index(m, id) : id \in kept}
        inSlot(s) == {r \in NewSlot : m.vvNew[r] # -1 /\ Position(m, r) = s}
        vvNew == [s \in NewSlot |->
                     IF inSlot(s) = {} THEN -1 ELSE Index(m, m.vvNew[CHOOSE r \in inSlot(s) : TRUE])]
        refs(i) == Cardinality({s \in NewSlot : vvNew[s] = i})
    IN  [mapInfo |-> [i \in ids |-> [m.mapInfo[oldId(i)] EXCEPT !.nRefCount = refs(i),
                                                                !.nRandomPos = i + 1]],
         mapAddr |-> [a \in Addr |-> IF \E id \in kept : m.mapInfo[id].addr = a
                                     THEN Index(m, CHOOSE id \in kept : m.mapInfo[id].addr = a)
                                     ELSE -1],
         vRandom |-> [n \in 1..Cardinality(ids) |-> n - 1],
         vvNew |-> vvNew,
         vvTried |-> [k \in KSlot |->
                         LET here == {id \in kept \cap TriedIds(m) : TriedSlot[m.mapInfo[id].addr] = k}
                         IN  IF here = {} THEN -1 ELSE Index(m, CHOOSE id \in here : TRUE)],
         nNew |-> m.nNew,
         nTried |-> m.nTried - Cardinality(TriedIds(m) \ kept),
         nIdCount |-> Cardinality(ids)]

\* The node stops, writes peers.dat, starts and reads it.
Restart == addrman' = Loaded(addrman)

Next ==
    \/ \E a \in Addr, src \in Source, terrible \in BOOLEAN :
          AddUnknown(a, src, terrible) \/ AddKnown(a, src, terrible)
    \/ \E a \in Addr : Good(a)
    \/ \E n, pos \in 1..Cardinality(Addr) : GetAddr(n, pos)
    \/ Restart

Spec == Init /\ [][Next]_addrman

-----------------------------------------------------------------------------
\* Types: ids below nIdCount, and vRandom a permutation of them in which every
\* entry knows its place, which SwapRandom and Delete rely on.
TypeOK ==
    /\ DOMAIN addrman.mapInfo \subseteq 0..(addrman.nIdCount - 1)
    /\ addrman.nIdCount \in 0..MaxId
    /\ \A id \in DOMAIN addrman.mapInfo :
          addrman.mapInfo[id] \in [addr : Addr, source : Source, fInTried : BOOLEAN,
                                  success : BOOLEAN, nRandomPos : DOMAIN addrman.vRandom,
                                  nRefCount : 0..ADDRMAN_NEW_BUCKETS_PER_ADDRESS]
    /\ Len(addrman.vRandom) = Cardinality(DOMAIN addrman.mapInfo)
    /\ \A id \in DOMAIN addrman.mapInfo : addrman.vRandom[addrman.mapInfo[id].nRandomPos] = id

\* What Check_ tests (it is compiled in only with DEBUG_ADDRMAN) and the
\* assertions of Delete, ClearNew, MakeTried and Serialize rely on: the counts
\* are exact, mapAddr finds every entry and no other, a tried entry answered
\* once and lies in its one tried slot, any other lies in as many new slots as
\* it counts, at least one, each of them its own. The random order is a
\* permutation of the entries (TypeOK).
CheckOk ==
    LET m == addrman
        ids == DOMAIN m.mapInfo
        tried == TriedIds(m)
    IN  /\ TypeOK
        /\ m.nTried = Cardinality(tried) /\ m.nNew = Cardinality(ids \ tried)
        /\ \A a \in Addr :
              IF m.mapAddr[a] = -1 THEN \A id \in ids : m.mapInfo[id].addr # a
              ELSE m.mapAddr[a] \in ids /\ m.mapInfo[m.mapAddr[a]].addr = a
        /\ \A id \in ids : m.mapAddr[m.mapInfo[id].addr] = id
        /\ \A id \in tried :
              /\ m.mapInfo[id].success /\ m.mapInfo[id].nRefCount = 0
              /\ m.vvTried[TriedSlot[m.mapInfo[id].addr]] = id
        /\ \A k \in KSlot : m.vvTried[k] # -1 =>
              m.vvTried[k] \in tried /\ TriedSlot[m.mapInfo[m.vvTried[k]].addr] = k
        /\ \A id \in ids \ tried :
              /\ m.mapInfo[id].nRefCount = Cardinality(SlotsOf(m, id))
              /\ m.mapInfo[id].nRefCount \in 1..ADDRMAN_NEW_BUCKETS_PER_ADDRESS
        /\ \A s \in NewSlot : m.vvNew[s] # -1 =>
              m.vvNew[s] \in ids \ tried /\ Position(m, s) = s

\* Which address lies where.
Tables(m) ==
    [new |-> [s \in NewSlot |-> IF m.vvNew[s] = -1 THEN -1 ELSE m.mapInfo[m.vvNew[s]].addr],
     tried |-> [k \in KSlot |-> IF m.vvTried[k] = -1 THEN -1 ELSE m.mapInfo[m.vvTried[k]].addr]]

\* Writing and reading peers.dat, which gives every entry another id, loses no
\* address and moves none.
LoadKeepsTables == [][Restart => Tables(addrman)' = Tables(addrman)]_addrman

\* An address that answered is not lost in one step: when another takes its slot
\* in the tried table it gets one in the new table, at the cost of an address
\* that has never answered or was moved there before.
TriedOnlyDemoted ==
    [][\A a \in Addr :
          (addrman.mapAddr[a] # -1 /\ addrman.mapInfo[addrman.mapAddr[a]].fInTried) =>
              addrman'.mapAddr[a] # -1]_addrman
=============================================================================
