--------------------------- MODULE SwiftTXProofs ---------------------------
(***************************************************************************)
(* Proofs, for any transactions, karmanodes and quorums, that a complete   *)
(* SwiftTX lock rests on a quorum of different karmanodes, however         *)
(* requests, votes and expiry are ordered.                                 *)
(***************************************************************************)
EXTENDS SwiftTX, FiniteSetTheorems, TLAPS

USE SwiftAssumption

LockType == [height : {0} \cup Height, votes : Seq(Vote), left : 0..LOCK_TIME,
             exists : BOOLEAN]

\* What holds of locks L while the votes V are remembered: a vote in a lock is
\* remembered, comes from the quorum of the height it names, and is the only one
\* of its karmanode.
LocksOK(L, V) ==
    /\ L \in [Tx -> LockType]
    /\ \A t \in Tx :
        /\ L[t].height \in {0, LockHeight[t]}
        /\ \A i \in DOMAIN L[t].votes :
            /\ <<L[t].votes[i][1], t>> \in V
            /\ L[t].votes[i][1] \in Top[L[t].votes[i][2]]
        /\ \A i, j \in DOMAIN L[t].votes : L[t].votes[i][1] = L[t].votes[j][1] => i = j

\* Only a request makes the height of a lock known.
HeightByRequest ==
    \A t \in Tx : mapTxLocks[t].height # 0 =>
                    mapTxLockReq[t] # "none" \/ t \in mapTxLockReqRejected

\* The inductive invariant.
IInv == /\ TypeOK
        /\ LocksOK(mapTxLocks, mapTxLockVote)
        /\ HeightByRequest
        /\ EmptyRequestWasRejected

----------------------------------------------------------------------------
(* Counting votes *)

\* The votes that count in a lock.
Counted(lock) == {i \in DOMAIN lock.votes : lock.votes[i][2] = lock.height}

\* The votes counted for a transaction are finitely many.
LEMMA CountedFinite ==
    ASSUME NEW lock \in LockType
    PROVE  /\ IsFiniteSet(Counted(lock)) /\ Cardinality(Counted(lock)) \in Nat
           /\ CountSignatures(lock) =
                IF lock.height = 0 THEN -1 ELSE Cardinality(Counted(lock))
  <1>1. DOMAIN lock.votes = 1..Len(lock.votes) /\ Len(lock.votes) \in Nat
    BY DEF LockType
  <1>2. IsFiniteSet(DOMAIN lock.votes)
    BY <1>1, FS_Interval
  <1>3. IsFiniteSet(Counted(lock))
    BY <1>2, FS_Subset DEF Counted
  <1>. QED  BY <1>3, FS_CardinalityType DEF CountSignatures, Counted

\* A complete lock has a height, and its votes come from that many different
\* members of the quorum.
LEMMA QuorumLemma ==
    ASSUME TypeOK, LocksOK(mapTxLocks, mapTxLockVote), NEW t \in Tx, Complete(t)
    PROVE  Cardinality(Voters(t) \cap Top[LockHeight[t]]) >= SIGNATURES_REQUIRED
  <1> DEFINE lock == mapTxLocks[t]
             h == LockHeight[t]
             T == Voters(t) \cap Top[h]
  <1>1. lock \in LockType /\ lock.height \in {0, h} /\ h # 0
    BY DEF LocksOK
  <1>2. CountSignatures(lock) >= SIGNATURES_REQUIRED
    <2>1. CASE lock.exists
      BY <2>1 DEF Complete, LockSignatures
    <2>2. CASE ~lock.exists
      BY <2>2 DEF Complete, LockSignatures
    <2>. QED  BY <2>1, <2>2
  <1>3. lock.height = h /\ Cardinality(Counted(lock)) >= SIGNATURES_REQUIRED
    BY <1>1, <1>2, CountedFinite
  <1>4. lock.votes \in Seq(Vote)
    BY <1>1 DEF LockType
  <1>5. \A i \in DOMAIN lock.votes : lock.votes[i] \in Karmanode \X Height
    BY <1>4 DEF Vote
  <1> DEFINE f == [i \in Counted(lock) |-> lock.votes[i][1]]
  <1>6. \A i \in Counted(lock) : /\ i \in DOMAIN lock.votes /\ lock.votes[i][2] = h
                                 /\ lock.votes[i] = <<lock.votes[i][1], h>>
                                 /\ lock.votes[i][1] \in Karmanode
    BY <1>3, <1>5 DEF Counted
  <1>7. \A i \in Counted(lock) : f[i] \in T
    BY <1>6 DEF Voters, LocksOK
  <1>8. \A i, j \in Counted(lock) : f[i] = f[j] => i = j
    BY <1>6 DEF LocksOK
  <1>9. \A m \in T : \E i \in Counted(lock) : f[i] = m
    <2> SUFFICES ASSUME NEW m \in T PROVE \E i \in Counted(lock) : f[i] = m
      OBVIOUS
    <2>1. PICK i \in DOMAIN lock.votes : lock.votes[i] = <<m, h>>
      BY DEF Voters
    <2>. QED  BY <1>3, <2>1 DEF Counted
  <1> HIDE DEF T
  <1>10. f \in Bijection(Counted(lock), T)
    BY <1>7, <1>8, <1>9 DEF Bijection, Injection, Surjection, IsInjective
  <1> HIDE DEF lock, f
  <1>11. ExistsBijection(Counted(lock), T)
    BY <1>10 DEF ExistsBijection
  <1>12. IsFiniteSet(Counted(lock))
    BY <1>1, CountedFinite
  <1>13. Cardinality(T) = Cardinality(Counted(lock))
    BY <1>11, <1>12, FS_Bijection
  <1>. QED  BY <1>3, <1>13 DEF T

----------------------------------------------------------------------------
(* Changes of the locks *)

\* A lock keeps its type when its height or its time changes.
LEMMA LockTypeLemma ==
    /\ NoLock \in LockType
    /\ \A h \in {0} \cup Height : NewLock(h) \in LockType
    /\ \A lock \in LockType :
        /\ \A h \in {0} \cup Height : [lock EXCEPT !.height = h] \in LockType
        /\ \A n \in 0..LOCK_TIME : [lock EXCEPT !.left = n] \in LockType
        /\ \A v \in Seq(Vote) : [lock EXCEPT !.votes = v] \in LockType
  <1>1. <<>> \in Seq(Vote) /\ 0 \in 0..LOCK_TIME /\ LOCK_TIME \in 0..LOCK_TIME
    OBVIOUS
  <1>2. TRUE \in BOOLEAN /\ FALSE \in BOOLEAN
    OBVIOUS
  <1>3. NoLock \in LockType /\ \A h \in {0} \cup Height : NewLock(h) \in LockType
    BY <1>1, <1>2 DEF NoLock, NewLock, LockType
  <1>4. ASSUME NEW lock \in LockType
        PROVE  /\ \A h \in {0} \cup Height : [lock EXCEPT !.height = h] \in LockType
               /\ \A n \in 0..LOCK_TIME : [lock EXCEPT !.left = n] \in LockType
               /\ \A v \in Seq(Vote) : [lock EXCEPT !.votes = v] \in LockType
    BY DEF LockType
  <1>. QED  BY <1>3, <1>4

\* Votes may be remembered in addition.
LEMMA RememberLemma ==
    ASSUME NEW L, NEW V, NEW W, LocksOK(L, V), V \subseteq W
    PROVE  LocksOK(L, W)
  BY DEF LocksOK

\* Locks with the heights and votes of good locks are good.
LEMMA SameVotesLemma ==
    ASSUME NEW L, NEW M \in [Tx -> LockType], NEW V, LocksOK(L, V),
           \A t \in Tx : /\ M[t].height \in {0, LockHeight[t]}
                         /\ M[t].votes = L[t].votes \/ M[t].votes = <<>>
    PROVE  LocksOK(M, V)
  <1>1. ASSUME NEW t \in Tx
        PROVE  /\ \A i \in DOMAIN M[t].votes : /\ <<M[t].votes[i][1], t>> \in V
                                               /\ M[t].votes[i][1] \in Top[M[t].votes[i][2]]
               /\ \A i, j \in DOMAIN M[t].votes : M[t].votes[i][1] = M[t].votes[j][1] => i = j
    <2>1. CASE M[t].votes = L[t].votes
      BY <2>1 DEF LocksOK
    <2>2. CASE M[t].votes = <<>>
      <3>1. DOMAIN M[t].votes = {}
        BY <2>2
      <3>. QED  BY <3>1
    <2>. QED  BY <2>1, <2>2
  <1>. QED  BY <1>1 DEF LocksOK

\* CreateNewLock makes or completes the lock of t and keeps its votes.
LEMMA CreatedLemma ==
    ASSUME NEW t \in Tx, NEW V, LocksOK(mapTxLocks, V), NEW L \in CreatedLocks(t)
    PROVE  /\ LocksOK(L, V)
           /\ \A u \in Tx \ {t} : L[u] = mapTxLocks[u]
           /\ L[t].votes = mapTxLocks[t].votes \/ L[t].votes = <<>>
  <1>1. mapTxLocks \in [Tx -> LockType] /\ mapTxLocks[t] \in LockType
    BY DEF LocksOK
  <1>2. LockHeight[t] \in {0} \cup Height
    OBVIOUS
  <1>3. CASE L = mapTxLocks
    BY <1>1, <1>3
  <1>4. CASE L = CreateNewLock(t)
    <2> DEFINE new == IF mapTxLocks[t].exists THEN [mapTxLocks[t] EXCEPT !.height = LockHeight[t]]
                      ELSE NewLock(LockHeight[t])
    <2>1. new \in LockType
      BY <1>1, <1>2, LockTypeLemma
    <2>2. new.height = LockHeight[t] /\ (new.votes = mapTxLocks[t].votes \/ new.votes = <<>>)
      BY <1>1 DEF LockType, NewLock
    <2>3. L = [mapTxLocks EXCEPT ![t] = new]
      BY <1>4 DEF CreateNewLock
    <2> HIDE DEF new
    <2>4. L \in [Tx -> LockType] /\ L[t] = new /\ \A u \in Tx \ {t} : L[u] = mapTxLocks[u]
      BY <1>1, <2>1, <2>3
    <2>5. \A u \in Tx : /\ L[u].height \in {0, LockHeight[u]}
                        /\ L[u].votes = mapTxLocks[u].votes \/ L[u].votes = <<>>
      BY <2>2, <2>4 DEF LocksOK
    <2>. QED  BY <2>2, <2>4, <2>5, SameVotesLemma
  <1>. QED  BY <1>3, <1>4 DEF CreatedLocks

\* CheckForConflictingLocks changes nothing but times.
LEMMA CancelledLemma ==
    ASSUME NEW t \in Tx, NEW V, NEW L, LocksOK(L, V), NEW M \in Cancelled(L, t)
    PROVE  /\ LocksOK(M, V)
           /\ \A u \in Tx : /\ M[u].height = L[u].height /\ M[u].votes = L[u].votes
                            /\ M[u].exists = L[u].exists
  <1>1. L \in [Tx -> LockType]
    BY DEF LocksOK
  <1>2. \/ M = L
        \/ \E u : M = [v \in Tx |-> IF v \in {t, u} /\ L[v].exists
                                    THEN [L[v] EXCEPT !.left = 0] ELSE L[v]]
    BY DEF Cancelled
  <1>3. ASSUME NEW v \in Tx
        PROVE  /\ M[v] \in LockType /\ M[v].height = L[v].height /\ M[v].votes = L[v].votes
               /\ M[v].exists = L[v].exists
    <2>1. L[v] \in LockType /\ 0 \in 0..LOCK_TIME
      BY <1>1
    <2> DEFINE new == [L[v] EXCEPT !.left = 0]
    <2>2. /\ new \in LockType /\ new.height = L[v].height /\ new.votes = L[v].votes
          /\ new.exists = L[v].exists
      BY <2>1 DEF LockType
    <2>3. M[v] = L[v] \/ M[v] = new
      BY <1>2
    <2> HIDE DEF new
    <2>. QED  BY <2>1, <2>2, <2>3
  <1>4. M \in [Tx -> LockType]
    <2>1. \E g : M = [v \in Tx |-> g[v]]
      <3>1. CASE M = L
        BY <1>1, <3>1
      <3>2. CASE M # L
        BY <1>2, <3>2
      <3>. QED  BY <3>1, <3>2
    <2>. QED  BY <1>3, <2>1
  <1>5. \A v \in Tx : M[v].height \in {0, LockHeight[v]}
    BY <1>3 DEF LocksOK
  <1>. QED  BY <1>3, <1>4, <1>5, SameVotesLemma

\* A new vote of the quorum of its height, not remembered before, goes into the
\* lock of t alone; no height changes.
LEMMA AddSignatureLemma ==
    ASSUME NEW m \in Karmanode, NEW t \in Tx, NEW h \in Height, NEW V,
           LocksOK(mapTxLocks, V), <<m, t>> \notin V, m \in Top[h]
    PROVE  /\ LocksOK(AddSignature(m, t, h), V \cup {<<m, t>>})
           /\ \A u \in Tx \ {t} : AddSignature(m, t, h)[u] = mapTxLocks[u]
           /\ mapTxLocks[t].exists =>
                /\ AddSignature(m, t, h)[t].height = mapTxLocks[t].height
                /\ AddSignature(m, t, h)[t].votes = Append(mapTxLocks[t].votes, <<m, h>>)
           /\ ~mapTxLocks[t].exists => AddSignature(m, t, h)[t].height = 0
  <1> DEFINE old == IF mapTxLocks[t].exists THEN mapTxLocks[t] ELSE NewLock(0)
             new == [old EXCEPT !.votes = Append(old.votes, <<m, h>>)]
             L == AddSignature(m, t, h)
             W == V \cup {<<m, t>>}
  <1>1. mapTxLocks \in [Tx -> LockType] /\ mapTxLocks[t] \in LockType
    BY DEF LocksOK
  <1>2. old \in LockType /\ L = [mapTxLocks EXCEPT ![t] = new]
    BY <1>1, LockTypeLemma DEF AddSignature
  <1>3. old.votes = mapTxLocks[t].votes \/ old.votes = <<>>
    BY DEF NewLock
  <1>4. /\ mapTxLocks[t].exists => old = mapTxLocks[t]
        /\ ~mapTxLocks[t].exists => old.height = 0
        /\ old.exists /\ old.height \in {0, LockHeight[t]}
    BY <1>1 DEF NewLock, LocksOK
  <1> HIDE DEF old, L
  <1>5. old.votes \in Seq(Vote) /\ <<m, h>> \in Vote
    BY <1>2 DEF LockType, Vote
  <1>6. Append(old.votes, <<m, h>>) \in Seq(Vote)
    BY <1>5
  <1>7. /\ new \in LockType /\ new.height = old.height /\ new.exists = old.exists
        /\ new.votes = Append(old.votes, <<m, h>>)
    BY <1>2, <1>6 DEF LockType
  <1> HIDE DEF new
  <1>8. L \in [Tx -> LockType] /\ L[t] = new /\ \A u \in Tx \ {t} : L[u] = mapTxLocks[u]
    BY <1>1, <1>2, <1>7
  <1>9. /\ \A i \in DOMAIN old.votes : /\ <<old.votes[i][1], t>> \in V
                                       /\ old.votes[i][1] \in Top[old.votes[i][2]]
        /\ \A i, j \in DOMAIN old.votes : old.votes[i][1] = old.votes[j][1] => i = j
    <2>1. CASE old.votes = mapTxLocks[t].votes
      BY <2>1 DEF LocksOK
    <2>2. CASE old.votes = <<>>
      <3>1. DOMAIN old.votes = {}
        BY <2>2
      <3>. QED  BY <3>1
    <2>. QED  BY <1>3, <2>1, <2>2
  <1>10. /\ DOMAIN new.votes = DOMAIN old.votes \cup {Len(old.votes) + 1}
         /\ \A i \in DOMAIN old.votes : new.votes[i] = old.votes[i]
         /\ new.votes[Len(old.votes) + 1] = <<m, h>>
         /\ Len(old.votes) + 1 \notin DOMAIN old.votes
    BY <1>5, <1>7
  <1>11. \A i \in DOMAIN old.votes : old.votes[i][1] # m
    BY <1>9
  <1>12. <<m, h>>[1] = m /\ <<m, h>>[2] = h
    OBVIOUS
  <1>13. \A i \in DOMAIN new.votes : /\ <<new.votes[i][1], t>> \in W
                                     /\ new.votes[i][1] \in Top[new.votes[i][2]]
    BY <1>9, <1>10, <1>12
  <1>14. \A i, j \in DOMAIN new.votes : new.votes[i][1] = new.votes[j][1] => i = j
    BY <1>9, <1>10, <1>11, <1>12
  <1>15. LocksOK(L, W)
    <2>1. ASSUME NEW u \in Tx, u # t
          PROVE  /\ L[u].height \in {0, LockHeight[u]}
                 /\ \A i \in DOMAIN L[u].votes :
                     <<L[u].votes[i][1], u>> \in W /\ L[u].votes[i][1] \in Top[L[u].votes[i][2]]
                 /\ \A i, j \in DOMAIN L[u].votes : L[u].votes[i][1] = L[u].votes[j][1] => i = j
      <3>1. L[u] = mapTxLocks[u]
        BY <1>8, <2>1
      <3>. QED  BY <3>1 DEF LocksOK
    <2> HIDE DEF W
    <2>2. L[t].height \in {0, LockHeight[t]} /\ L[t] = new
      BY <1>4, <1>7, <1>8
    <2>. QED  BY <1>8, <1>13, <1>14, <2>1, <2>2 DEF LocksOK
  <1>. QED  BY <1>4, <1>7, <1>8, <1>15 DEF L

\* One vote adds at most one to the count.
LEMMA OneMore ==
    ASSUME NEW lock \in LockType, NEW new \in LockType, NEW v \in Vote,
           new.height = lock.height, new.votes = Append(lock.votes, v)
    PROVE  CountSignatures(new) <= CountSignatures(lock) + 1
  <1>1. lock.votes \in Seq(Vote)
    BY DEF LockType
  <1>2. /\ DOMAIN new.votes = DOMAIN lock.votes \cup {Len(lock.votes) + 1}
        /\ \A i \in DOMAIN lock.votes : new.votes[i] = lock.votes[i]
        /\ Len(lock.votes) + 1 \notin DOMAIN lock.votes
    BY <1>1
  <1>3. Counted(new) \subseteq Counted(lock) \cup {Len(lock.votes) + 1}
    BY <1>2 DEF Counted
  <1>4. Len(lock.votes) + 1 \notin Counted(lock)
    BY <1>2 DEF Counted
  <1>5. Cardinality(Counted(lock) \cup {Len(lock.votes) + 1}) = Cardinality(Counted(lock)) + 1
        /\ IsFiniteSet(Counted(lock) \cup {Len(lock.votes) + 1})
    BY <1>4, CountedFinite, FS_AddElement
  <1>6. Cardinality(Counted(new)) <= Cardinality(Counted(lock)) + 1
    BY <1>3, <1>5, FS_Subset
  <1>. QED  BY <1>6, CountedFinite

\* A lock without votes, or without a height, is not complete.
LEMMA NotComplete ==
    ASSUME NEW L \in [Tx -> LockType], NEW t \in Tx,
           L[t].votes = <<>> \/ L[t].height = 0 \/ ~L[t].exists
    PROVE  ~(LockSignatures(L, t) >= SIGNATURES_REQUIRED)
  <1>1. L[t] \in LockType
    OBVIOUS
  <1>2. ASSUME L[t].votes = <<>> PROVE Cardinality(Counted(L[t])) = 0
    <2>1. Counted(L[t]) = {}
      BY <1>2 DEF Counted
    <2>. QED  BY <2>1, FS_EmptySet
  <1>. QED  BY <1>1, <1>2, CountedFinite DEF LockSignatures

\* The lock records are typed.
LEMMA LocksTyped ==
    ASSUME NEW L, NEW V, LocksOK(L, V)
    PROVE  \A t \in Tx : /\ L[t].height \in {0, LockHeight[t]}
                         /\ L[t].votes \in Seq(Vote)
                         /\ L[t].left \in 0..LOCK_TIME
                         /\ L[t].exists \in BOOLEAN
  BY DEF LocksOK, LockType

\* The switches stay switches while they are not touched.
LEMMA SwitchesKept ==
    ASSUME SwitchesOK, UNCHANGED switches
    PROVE  SwitchesOK'
  BY DEF SwitchesOK, switches

\* Locked inputs name transactions.
LEMMA LockInputsLemma ==
    ASSUME TypeOK, NEW t \in Tx
    PROVE  LockInputs(t) \in [Outpoint -> Tx \cup {NoTx}]
  BY DEF TypeOK, LockInputs

----------------------------------------------------------------------------
(* The steps *)

\* At the start there is neither request, vote nor lock.
LEMMA InitLemma == Init => IInv
  <1> SUFFICES ASSUME Init PROVE IInv
    OBVIOUS
  <1>1. mapTxLocks \in [Tx -> LockType]
    BY LockTypeLemma DEF Init
  <1>2. \A t \in Tx : mapTxLocks[t].height = 0 /\ DOMAIN mapTxLocks[t].votes = {}
    BY DEF Init, NoLock
  <1>3. LocksOK(mapTxLocks, mapTxLockVote)
    BY <1>1, <1>2 DEF LocksOK
  <1>4. TypeOK
    <2>1. SwitchesOK
      BY Zenon DEF Init, SwitchesOK
    <2>. QED  BY <1>3, <2>1, LocksTyped DEF Init, TypeOK
  <1>5. HeightByRequest /\ EmptyRequestWasRejected
    BY <1>2 DEF Init, HeightByRequest, EmptyRequestWasRejected
  <1>. QED  BY <1>3, <1>4, <1>5 DEF IInv

\* A request that the memory pool takes.
LEMMA ProcessIxAcceptedLemma ==
    ASSUME IInv, NEW t \in Tx, ProcessIxAccepted(t)
    PROVE  IInv'
  <1>1. PICK locks \in CreatedLocks(t) :
          mapTxLocks' = locks /\ mapTxLockVote' \in OwnVotes(t, locks)
    BY DEF ProcessIxAccepted
  <1>2. mapTxLockVote \subseteq mapTxLockVote' /\ mapTxLockVote' \subseteq Karmanode \X Tx
    BY <1>1 DEF OwnVotes, IInv, TypeOK
  <1>3. /\ LocksOK(mapTxLocks', mapTxLockVote)
        /\ \A u \in Tx \ {t} : mapTxLocks'[u] = mapTxLocks[u]
    BY <1>1, CreatedLemma DEF IInv
  <1>4. LocksOK(mapTxLocks', mapTxLockVote')
    BY <1>2, <1>3, RememberLemma
  <1>5. /\ mapTxLockReq' \in [Tx -> {"none", "tx", "empty"}] /\ mapTxLockReq'[t] = "tx"
        /\ \A u \in Tx \ {t} : mapTxLockReq'[u] = mapTxLockReq[u]
        /\ UNCHANGED <<mapTxLockReqRejected, mapLockedInputs>>
        /\ notified' \subseteq Tx
    BY DEF ProcessIxAccepted, IInv, TypeOK
  <1>6. TypeOK'
    <2>1. SwitchesOK'
      BY SwitchesKept DEF ProcessIxAccepted, IInv, TypeOK
    <2>. QED  BY <2>1, <1>2, <1>4, <1>5, LocksTyped DEF TypeOK, IInv
  <1>7. HeightByRequest' /\ EmptyRequestWasRejected'
    BY <1>3, <1>5 DEF IInv, HeightByRequest, EmptyRequestWasRejected
  <1>. QED  BY <1>4, <1>6, <1>7 DEF IInv

\* A request that the memory pool refuses.
LEMMA ProcessIxRejectedLemma ==
    ASSUME IInv, NEW t \in Tx, ProcessIxRejected(t)
    PROVE  IInv'
  <1>1. PICK locks \in CreatedLocks(t) : mapTxLocks' = locks \/ mapTxLocks' \in Cancelled(locks, t)
    BY DEF ProcessIxRejected
  <1>2. LocksOK(locks, mapTxLockVote) /\ \A u \in Tx \ {t} : locks[u] = mapTxLocks[u]
    BY CreatedLemma DEF IInv
  <1>3. /\ LocksOK(mapTxLocks', mapTxLockVote)
        /\ \A u \in Tx : mapTxLocks'[u].height = locks[u].height
    BY <1>1, <1>2, CancelledLemma
  <1>4. /\ mapTxLockReq' \in [Tx -> {"none", "tx", "empty"}]
        /\ \A u \in Tx \ {t} : mapTxLockReq'[u] = mapTxLockReq[u]
        /\ mapTxLockReqRejected' = mapTxLockReqRejected \cup {t}
        /\ UNCHANGED <<mapTxLockVote, notified>>
        /\ mapLockedInputs' = LockInputs(t)
    BY DEF ProcessIxRejected, IInv, TypeOK
  <1>5. mapLockedInputs' \in [Outpoint -> Tx \cup {NoTx}]
    BY <1>4, LockInputsLemma DEF IInv
  <1>6. TypeOK'
    <2>1. SwitchesOK'
      BY SwitchesKept DEF ProcessIxRejected, IInv, TypeOK
    <2>. QED  BY <2>1, <1>3, <1>4, <1>5, LocksTyped DEF TypeOK, IInv
  <1>7. HeightByRequest' /\ EmptyRequestWasRejected'
    BY <1>2, <1>3, <1>4 DEF IInv, HeightByRequest, EmptyRequestWasRejected
  <1>. QED  BY <1>3, <1>4, <1>6, <1>7 DEF IInv

\* A request of the node's own wallet.
LEMMA LocalRequestLemma ==
    ASSUME IInv, NEW t \in Tx, LocalRequest(t)
    PROVE  IInv'
  <1>1. /\ LocksOK(mapTxLocks', mapTxLockVote)
        /\ \A u \in Tx \ {t} : mapTxLocks'[u] = mapTxLocks[u]
    BY CreatedLemma DEF IInv, LocalRequest
  <1>2. /\ mapTxLockReq' \in [Tx -> {"none", "tx", "empty"}]
        /\ mapTxLockReq'[t] = IF mapTxLockReq[t] = "none" THEN "tx" ELSE mapTxLockReq[t]
        /\ \A u \in Tx \ {t} : mapTxLockReq'[u] = mapTxLockReq[u]
        /\ UNCHANGED <<mapTxLockReqRejected, mapTxLockVote, mapLockedInputs, notified>>
    BY DEF LocalRequest, IInv, TypeOK
  <1>3. TypeOK'
    <2>1. SwitchesOK'
      BY SwitchesKept DEF LocalRequest, IInv, TypeOK
    <2>. QED  BY <2>1, <1>1, <1>2, LocksTyped DEF TypeOK, IInv
  <1>4. HeightByRequest' /\ EmptyRequestWasRejected'
    BY <1>1, <1>2 DEF IInv, HeightByRequest, EmptyRequestWasRejected
  <1>. QED  BY <1>1, <1>2, <1>3, <1>4 DEF IInv

\* operator[] makes an empty request only under a complete lock, whose height
\* a request had to make known: one that was rejected, as none is left.
LEMMA ProcessVoteLemma ==
    ASSUME IInv, NEW m \in Karmanode, NEW t \in Tx, NEW h \in Height, ProcessVote(m, t, h)
    PROVE  IInv'
  <1> DEFINE locks == AddSignature(m, t, h)
             req == RequestLookup(t, locks)
  <1>1. /\ <<m, t>> \notin mapTxLockVote /\ m \in Top[h]
        /\ mapTxLockVote' = mapTxLockVote \cup {<<m, t>>}
        /\ mapTxLockReq' = req
        /\ mapTxLocks' = locks \/ mapTxLocks' \in Cancelled(locks, t)
        /\ mapLockedInputs' = LockInputs(t) \/ mapLockedInputs' = mapLockedInputs
        /\ notified' = notified \cup {t} \/ notified' = notified
        /\ UNCHANGED mapTxLockReqRejected
    BY DEF ProcessVote, Remember
  <1>2. /\ LocksOK(locks, mapTxLockVote')
        /\ \A u \in Tx \ {t} : locks[u] = mapTxLocks[u]
        /\ locks[t].height # 0 => locks[t].height = mapTxLocks[t].height
    <2>1. LocksOK(mapTxLocks, mapTxLockVote) /\ mapTxLocks[t].exists \in BOOLEAN
      BY DEF IInv, TypeOK
    <2>2. <<m, t>> \notin mapTxLockVote /\ m \in Top[h]
      BY <1>1
    <2>3. /\ LocksOK(locks, mapTxLockVote \cup {<<m, t>>})
          /\ \A u \in Tx \ {t} : locks[u] = mapTxLocks[u]
          /\ mapTxLocks[t].exists => locks[t].height = mapTxLocks[t].height
          /\ ~mapTxLocks[t].exists => locks[t].height = 0
      BY <2>1, <2>2, AddSignatureLemma
    <2> HIDE DEF locks
    <2>. QED  BY <1>1, <2>1, <2>3
  <1>3. locks \in [Tx -> LockType]
    BY <1>2 DEF LocksOK
  <1>4. \/ mapTxLockReq' = mapTxLockReq
        \/ /\ locks[t].height # 0
           /\ mapTxLockReq' = [mapTxLockReq EXCEPT ![t] = IF @ = "none" THEN "empty" ELSE @]
    BY <1>1, <1>3, NotComplete DEF RequestLookup
  <1> HIDE DEF locks, req
  <1>5. /\ LocksOK(mapTxLocks', mapTxLockVote')
        /\ \A u \in Tx : mapTxLocks'[u].height = locks[u].height
    BY <1>1, <1>2, CancelledLemma
  <1>6. mapLockedInputs' \in [Outpoint -> Tx \cup {NoTx}]
    BY <1>1, LockInputsLemma DEF IInv, TypeOK
  <1>7. /\ mapTxLockReq' \in [Tx -> {"none", "tx", "empty"}]
        /\ \A u \in Tx \ {t} : mapTxLockReq'[u] = mapTxLockReq[u]
        /\ mapTxLockReq'[t] = mapTxLockReq[t]
           \/ (mapTxLockReq[t] = "none" /\ locks[t].height # 0)
        /\ mapTxLockReq[t] # "none" => mapTxLockReq'[t] = mapTxLockReq[t]
    BY <1>4 DEF IInv, TypeOK
  <1>8. TypeOK'
    <2>1. SwitchesOK'
      BY SwitchesKept DEF ProcessVote, IInv, TypeOK
    <2>. QED  BY <2>1, <1>1, <1>5, <1>6, <1>7, LocksTyped DEF TypeOK, IInv
  <1>9. HeightByRequest'
    BY <1>1, <1>2, <1>5, <1>7 DEF IInv, HeightByRequest
  <1>10. EmptyRequestWasRejected'
    BY <1>1, <1>2, <1>7 DEF IInv, HeightByRequest, EmptyRequestWasRejected
  <1>. QED  BY <1>5, <1>8, <1>9, <1>10 DEF IInv

\* A vote that is refused is remembered, nothing more.
LEMMA ProcessVoteRefusedLemma ==
    ASSUME IInv, NEW m \in Karmanode, NEW t \in Tx, ProcessVoteRefused(m, t)
    PROVE  IInv'
  <1>1. /\ mapTxLockVote \subseteq mapTxLockVote' /\ mapTxLockVote' \subseteq Karmanode \X Tx
        /\ notified' \subseteq Tx
        /\ UNCHANGED <<mapTxLockReq, mapTxLockReqRejected, mapTxLocks, mapLockedInputs>>
    BY DEF ProcessVoteRefused, IInv, TypeOK
  <1>2. LocksOK(mapTxLocks', mapTxLockVote')
    BY <1>1, RememberLemma DEF IInv
  <1>3. SwitchesOK'
    BY SwitchesKept DEF ProcessVoteRefused, IInv, TypeOK
  <1>4. TypeOK' /\ HeightByRequest' /\ EmptyRequestWasRejected'
    BY <1>1, <1>3 DEF IInv, TypeOK, HeightByRequest, EmptyRequestWasRejected
  <1>. QED  BY <1>2, <1>4 DEF IInv

\* The votes forgotten are those of the lock that goes with them.
LEMMA ExpireLemma ==
    ASSUME IInv, NEW t \in Tx, Expire(t)
    PROVE  IInv'
  <1>1. /\ mapTxLockReq' \in [Tx -> {"none", "tx", "empty"}]
        /\ mapLockedInputs' \in [Outpoint -> Tx \cup {NoTx}]
        /\ mapTxLockReq'[t] = "none"
        /\ \A u \in Tx \ {t} : mapTxLockReq'[u] = mapTxLockReq[u]
        /\ mapTxLockReqRejected \ {t} \subseteq mapTxLockReqRejected'
        /\ mapTxLockReqRejected' \subseteq mapTxLockReqRejected
        /\ notified' \subseteq notified
    <2>1. /\ mapTxLockReq \in [Tx -> {"none", "tx", "empty"}]
          /\ mapLockedInputs \in [Outpoint -> Tx \cup {NoTx}]
      BY DEF IInv, TypeOK
    <2>2. CASE mapTxLockReq[t] = "none"
      BY <2>1, <2>2 DEF Expire
    <2>3. CASE mapTxLockReq[t] # "none"
      <3>1. mapTxLockReq' = [mapTxLockReq EXCEPT ![t] = "none"]
        BY <2>3 DEF Expire
      <3>2. mapLockedInputs' \in [Outpoint -> Tx \cup {NoTx}]
        BY <2>1, <2>3 DEF Expire
      <3>. QED  BY <2>1, <2>3, <3>1, <3>2 DEF Expire
    <2>. QED  BY <2>2, <2>3
  <1>2. /\ mapTxLockVote' \subseteq mapTxLockVote
        /\ \A x, u : u # t /\ <<x, u>> \in mapTxLockVote => <<x, u>> \in mapTxLockVote'
    BY DEF Expire
  <1>3. /\ mapTxLocks \in [Tx -> LockType]
        /\ mapTxLocks' = [mapTxLocks EXCEPT ![t] = NoLock]
    BY DEF Expire, IInv, LocksOK
  <1>4. /\ mapTxLocks' \in [Tx -> LockType] /\ mapTxLocks'[t] = NoLock
        /\ \A u \in Tx \ {t} : mapTxLocks'[u] = mapTxLocks[u]
    BY <1>3, LockTypeLemma
  <1>5. NoLock.height = 0 /\ DOMAIN NoLock.votes = {}
    BY DEF NoLock
  <1>6. LocksOK(mapTxLocks', mapTxLockVote')
    <2>1. ASSUME NEW u \in Tx \ {t}
          PROVE  /\ mapTxLocks'[u].height \in {0, LockHeight[u]}
                 /\ \A i \in DOMAIN mapTxLocks'[u].votes :
                     /\ <<mapTxLocks'[u].votes[i][1], u>> \in mapTxLockVote'
                     /\ mapTxLocks'[u].votes[i][1] \in Top[mapTxLocks'[u].votes[i][2]]
                 /\ \A i, j \in DOMAIN mapTxLocks'[u].votes :
                     mapTxLocks'[u].votes[i][1] = mapTxLocks'[u].votes[j][1] => i = j
      BY <1>2, <1>4 DEF IInv, LocksOK
    <2>. QED  BY <1>4, <1>5, <2>1 DEF LocksOK
  <1>7. TypeOK'
    <2>1. SwitchesOK'
      BY SwitchesKept DEF Expire, IInv, TypeOK
    <2>. QED  BY <2>1, <1>1, <1>2, <1>6, LocksTyped DEF TypeOK, IInv
  <1>8. HeightByRequest' /\ EmptyRequestWasRejected'
    BY <1>1, <1>4, <1>5 DEF IInv, HeightByRequest, EmptyRequestWasRejected
  <1>. QED  BY <1>6, <1>7, <1>8 DEF IInv

\* Time passes.
LEMMA TickLemma ==
    ASSUME IInv, Tick
    PROVE  /\ IInv'
           /\ \A t \in Tx : mapTxLocks'[t].votes = mapTxLocks[t].votes
  <1>1. mapTxLocks \in [Tx -> LockType]
    BY DEF IInv, LocksOK
  <1>2. ASSUME NEW t \in Tx
        PROVE  /\ mapTxLocks'[t] \in LockType
               /\ mapTxLocks'[t].height = mapTxLocks[t].height
               /\ mapTxLocks'[t].votes = mapTxLocks[t].votes
    <2>1. mapTxLocks[t] \in LockType
      BY <1>1
    <2>2. CASE mapTxLocks'[t] = mapTxLocks[t]
      BY <2>1, <2>2
    <2>3. CASE mapTxLocks'[t] # mapTxLocks[t]
      <3>1. /\ mapTxLocks[t].left # 0
            /\ mapTxLocks'[t] = [mapTxLocks[t] EXCEPT !.left = mapTxLocks[t].left - 1]
        BY <2>3 DEF Tick
      <3>2. mapTxLocks[t].left - 1 \in 0..LOCK_TIME
        BY <2>1, <3>1 DEF LockType
      <3>. QED  BY <2>1, <3>1, <3>2 DEF LockType
    <2>. QED  BY <2>2, <2>3
  <1>3. mapTxLocks' \in [Tx -> LockType]
    <2>1. mapTxLocks' = [t \in Tx |-> mapTxLocks'[t]]
      BY DEF Tick
    <2>. QED  BY <1>2, <2>1
  <1>4. UNCHANGED <<mapTxLockReq, mapTxLockReqRejected, mapTxLockVote, mapLockedInputs, notified>>
    BY DEF Tick
  <1>5. \A t \in Tx : mapTxLocks'[t].height \in {0, LockHeight[t]}
    BY <1>2 DEF IInv, LocksOK
  <1>6. LocksOK(mapTxLocks', mapTxLockVote')
    BY <1>2, <1>3, <1>4, <1>5, SameVotesLemma DEF IInv
  <1>7. TypeOK'
    <2>1. SwitchesOK'
      BY SwitchesKept DEF Tick, IInv, TypeOK
    <2>. QED  BY <2>1, <1>4, <1>6, LocksTyped DEF TypeOK, IInv
  <1>8. HeightByRequest' /\ EmptyRequestWasRejected'
    BY <1>2, <1>4 DEF IInv, HeightByRequest, EmptyRequestWasRejected
  <1>. QED  BY <1>2, <1>6, <1>7, <1>8 DEF IInv

\* The steps that change neither requests nor locks.
LEMMA SwitchLemma ==
    ASSUME IInv, UNCHANGED <<lockVars, notified>>, SwitchesOK'
    PROVE  IInv'
  BY DEF IInv, TypeOK, HeightByRequest, EmptyRequestWasRejected, lockVars

----------------------------------------------------------------------------
(* The theorems *)

\* Every message, request, expiry and tick keeps the inductive invariant.
THEOREM Inductive == Spec => []IInv
  <1>1. IInv /\ [Next]_vars => IInv'
    <2> SUFFICES ASSUME IInv, [Next]_vars PROVE IInv'
      OBVIOUS
    <2>1. ASSUME NEW t \in Tx, ProcessIxAccepted(t) PROVE IInv'
      BY <2>1, ProcessIxAcceptedLemma
    <2>2. ASSUME NEW t \in Tx, ProcessIxRejected(t) PROVE IInv'
      BY <2>2, ProcessIxRejectedLemma
    <2>3. ASSUME NEW t \in Tx, LocalRequest(t) PROVE IInv'
      BY <2>3, LocalRequestLemma
    <2>4. ASSUME NEW m \in Karmanode, NEW t \in Tx, ProcessVoteRefused(m, t) PROVE IInv'
      BY <2>4, ProcessVoteRefusedLemma
    <2>5. ASSUME NEW m \in Karmanode, NEW t \in Tx, NEW h \in Height, ProcessVote(m, t, h)
          PROVE  IInv'
      BY <2>5, ProcessVoteLemma
    <2>6. ASSUME NEW t \in Tx, Expire(t) PROVE IInv'
      BY <2>6, ExpireLemma
    <2>7. CASE Tick
      BY <2>7, TickLemma
    <2>8. CASE UNCHANGED vars
      <3>1. SwitchesOK'
        BY <2>8, SwitchesKept DEF vars, IInv, TypeOK
      <3>. QED  BY <2>8, <3>1, SwitchLemma DEF vars, IInv, TypeOK
    <2>9. CASE SporkChanges \/ ForkWarningChanges
      <3>1. SwitchesOK'
        BY <2>9, Zenon DEF SporkChanges, ForkWarningChanges, SwitchesOK, IInv, TypeOK
      <3>. QED  BY <2>9, <3>1, SwitchLemma DEF SporkChanges, ForkWarningChanges, IInv, TypeOK
    <2>. QED
      BY <2>1, <2>2, <2>3, <2>4, <2>5, <2>6, <2>7, <2>8, <2>9 DEF Next
  <1>. QED  BY <1>1, InitLemma, PTL DEF Spec

\* A complete lock has the votes of SIGNATURES_REQUIRED different karmanodes of
\* the quorum of its height, and counts nobody twice.
THEOREM Quorums == Spec => []CompleteByQuorum
  <1>1. IInv => CompleteByQuorum
    <2> SUFFICES ASSUME IInv PROVE CompleteByQuorum
      OBVIOUS
    <2>1. VotesCountedOnce
      BY DEF IInv, LocksOK, VotesCountedOnce
    <2>. QED  BY <2>1, QuorumLemma DEF IInv, CompleteByQuorum
  <1>. QED  BY <1>1, Inductive, PTL

\* operator[] puts an empty transaction only where a request was rejected.
THEOREM EmptyRequests == Spec => []EmptyRequestWasRejected
  <1>1. IInv => EmptyRequestWasRejected
    BY DEF IInv
  <1>. QED  BY <1>1, Inductive, PTL

\* A vote that completes the lock of a known request while no fork warning stands
\* is announced in the same step: the count cannot jump over the number that is
\* compared with "=".
THEOREM Announced == Spec => CompletingVoteAnnounces
  <1> DEFINE A == \A t \in Tx :
                    mapTxLocks'[t].votes # mapTxLocks[t].votes /\ mapTxLockReq[t] # "none"
                      /\ ~largeWork /\ ~Complete(t) /\ Complete(t)' => t \in notified'
  <1>1. IInv /\ IInv' /\ [Next]_vars => [A]_vars
    <2> SUFFICES ASSUME IInv, IInv', Next, NEW u \in Tx,
                        mapTxLocks'[u].votes # mapTxLocks[u].votes,
                        mapTxLockReq[u] # "none", ~largeWork, ~Complete(u), Complete(u)'
                 PROVE  u \in notified'
      OBVIOUS
    <2>1. /\ LocksOK(mapTxLocks, mapTxLockVote)
          /\ mapTxLocks \in [Tx -> LockType] /\ mapTxLocks' \in [Tx -> LockType]
      BY DEF IInv, LocksOK
    <2>2. Complete(u)' <=> LockSignatures(mapTxLocks', u) >= SIGNATURES_REQUIRED
      BY DEF Complete
    <2>3. ASSUME NEW t \in Tx, NEW L \in CreatedLocks(t),
                 mapTxLocks' = L \/ mapTxLocks' \in Cancelled(L, t)
          PROVE  FALSE
      <3>1. /\ LocksOK(L, mapTxLockVote)
            /\ L[u].votes = mapTxLocks[u].votes \/ L[u].votes = <<>>
        BY <2>1, CreatedLemma
      <3>2. mapTxLocks'[u].votes = L[u].votes
        BY <2>3, <3>1, CancelledLemma
      <3>3. mapTxLocks'[u].votes = <<>>
        BY <3>1, <3>2
      <3>. QED  BY <2>1, <2>2, <3>3, NotComplete
    <2>4. ASSUME NEW t \in Tx, ProcessIxAccepted(t) PROVE FALSE
      BY <2>3, <2>4 DEF ProcessIxAccepted
    <2>5. ASSUME NEW t \in Tx, ProcessIxRejected(t) PROVE FALSE
      BY <2>3, <2>5 DEF ProcessIxRejected
    <2>6. ASSUME NEW t \in Tx, LocalRequest(t) PROVE FALSE
      BY <2>3, <2>6 DEF LocalRequest
    <2>7. ASSUME NEW m \in Karmanode, NEW t \in Tx, NEW h \in Height, ProcessVote(m, t, h)
          PROVE  u \in notified'
      <3> DEFINE locks == AddSignature(m, t, h)
                 req == RequestLookup(t, locks)
      <3>1. /\ <<m, t>> \notin mapTxLockVote /\ m \in Top[h]
            /\ mapTxLocks' = locks \/ mapTxLocks' \in Cancelled(locks, t)
            /\ Announce(t, locks, req) => t \in notified'
        BY <2>7 DEF ProcessVote
      <3>2. /\ LocksOK(locks, mapTxLockVote \cup {<<m, t>>})
            /\ \A v \in Tx \ {t} : locks[v] = mapTxLocks[v]
            /\ mapTxLocks[t].exists => locks[t].height = mapTxLocks[t].height
                                       /\ locks[t].votes = Append(mapTxLocks[t].votes, <<m, h>>)
            /\ ~mapTxLocks[t].exists => locks[t].height = 0
        <4>1. <<m, t>> \notin mapTxLockVote /\ m \in Top[h] /\ mapTxLocks[t].exists \in BOOLEAN
          BY <3>1 DEF IInv, TypeOK
        <4>. QED  BY <2>1, <4>1, AddSignatureLemma
      <3>3. req[t] # "none" <=> mapTxLockReq[t] # "none"
                                \/ LockSignatures(locks, t) >= SIGNATURES_REQUIRED
        BY DEF RequestLookup, IInv, TypeOK
      <3> HIDE DEF locks, req
      <3>4. /\ mapTxLocks'[u].height = locks[u].height /\ mapTxLocks'[u].votes = locks[u].votes
            /\ mapTxLocks'[u].exists = locks[u].exists
        BY <3>1, <3>2, CancelledLemma
      <3>5. u = t
        BY <3>2, <3>4
      <3>6. locks \in [Tx -> LockType] /\ locks[t] \in LockType /\ mapTxLocks[t] \in LockType
        BY <2>1, <3>2 DEF LocksOK
      <3>7. LockSignatures(mapTxLocks', u) = LockSignatures(locks, u)
        BY <3>4 DEF LockSignatures, CountSignatures
      <3>8. mapTxLocks[t].exists /\ locks[t].exists
        <4>1. locks[t].height # 0 /\ locks[t].exists
          BY <2>2, <3>5, <3>6, <3>7, NotComplete
        <4>. QED  BY <3>2, <4>1
      <3>9. CountSignatures(locks[t]) <= CountSignatures(mapTxLocks[t]) + 1
        <4>1. <<m, h>> \in Vote
          BY DEF Vote
        <4>. QED  BY <3>2, <3>6, <3>8, <4>1, OneMore
      <3>10. /\ CountSignatures(locks[t]) >= SIGNATURES_REQUIRED
             /\ ~(CountSignatures(mapTxLocks[t]) >= SIGNATURES_REQUIRED)
        BY <2>2, <3>2, <3>5, <3>7, <3>8 DEF LockSignatures, Complete
      <3>11. CountSignatures(locks[t]) \in Int /\ CountSignatures(mapTxLocks[t]) \in Int
        BY <3>6, CountedFinite
      <3>12. Signatures(locks, t) = SIGNATURES_REQUIRED
        <4>1. LockSignatures(locks, t) = SIGNATURES_REQUIRED
          BY <3>8, <3>9, <3>10, <3>11 DEF LockSignatures
        <4>2. spork2
          BY <2>7 DEF ProcessVote
        <4>. QED  BY <4>1, <4>2 DEF Signatures
      <3>. QED  BY <3>1, <3>3, <3>5, <3>12 DEF Announce
    <2>8. ASSUME NEW t \in Tx, Expire(t) PROVE FALSE
      <3>1. mapTxLocks'[t].height = 0 /\ \A v \in Tx \ {t} : mapTxLocks'[v] = mapTxLocks[v]
        BY <2>1, <2>8 DEF Expire, NoLock
      <3>2. u = t
        BY <3>1
      <3>. QED  BY <2>1, <2>2, <3>1, <3>2, NotComplete
    <2>9. ASSUME UNCHANGED mapTxLocks PROVE FALSE
      BY <2>9
    <2>10. CASE Tick
      BY <2>10, TickLemma
    <2>. QED
      BY <2>4, <2>5, <2>6, <2>7, <2>8, <2>9, <2>10
      DEF Next, ProcessVoteRefused, SporkChanges, ForkWarningChanges, lockVars
  <1>. QED  BY <1>1, Inductive, PTL DEF Spec, CompletingVoteAnnounces
=============================================================================
