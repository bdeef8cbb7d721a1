-------------------------- MODULE ChainStateProofs --------------------------
(***************************************************************************)
(* Proofs, for any block tree, any number of threads and any commands,     *)
(* that the block index stays consistent, that the active chain is valid,  *)
(* and that activation ends on the best chain.                             *)
(***************************************************************************)
EXTENDS ChainState, FiniteSetTheorems, WellFoundedInduction, TLAPS

\* The index is a tree of its own, and the data flags follow it.
IndexTree ==
    /\ \A b \in mapBlockIndex : Path[b] \subseteq mapBlockIndex
    /\ \A b \in mapBlockIndex : b \in linked <=> Path[b] \subseteq haveData
    /\ unlinked = haveData \ linked
    /\ haveData \cap badContext = {}

\* Linked blocks are numbered, each with a number of its own.
Numbered ==
    /\ \A b \in Blocks : b \in linked <=> nSequenceId[b] # 0
    /\ \A b \in linked : nSequenceId[b] <= Cardinality(linked)
    /\ \A b, c \in linked : nSequenceId[b] = nSequenceId[c] => b = c

\* What was connected once, was so with all its ancestors, and breaks no rule.
ScriptsSound ==
    /\ \A b \in validScripts : Path[b] \ {Genesis} \subseteq validScripts
    /\ (validScripts \cup {Genesis}) \cap badConnect = {}

\* No candidate sorts before the tip.
CandidatesPruned == \A c \in candidates : ~Worse(c, tip)

\* The inductive invariant of the index and the active chain.
IInv == TypeOK /\ IndexTree /\ Numbered /\ ScriptsSound /\ ActiveChainValid /\ CandidatesPruned

\* A block that is not marked is a candidate, or worse than one that was
\* connected before: such a candidate is lost to nothing but an invalidation,
\* which fills the candidates again.
Dominated ==
    \A b \in linked \ (Failed \cup candidates) :
        \E c \in candidates \cap Eligible \cap (validScripts \cup {Genesis}) : Worse(b, c)

\* Some thread is bound to look at the candidates again.
Busy == \E t \in Threads : \/ pc[t] \in {"activate", "reprocess"}
                           \/ pc[t] = "loop" /\ mostWork[t] # tip

\* Otherwise the tip is the only candidate.
Quiet == candidates = {tip} \/ unsettled \/ Busy

\* The invariant of the candidates, inductive given IInv as long as nothing is
\* reconsidered below a failed ancestor.
JInv == FailedMaskSound /\ Dominated /\ Quiet

\* A checkpointed block is not marked together with one of its ancestors, so
\* AcceptBlock never reconsiders it below a failed one.
CheckpointsShallow ==
    \A b \in Checkpointed \cap Failed : (Path[b] \ {b}) \cap Failed = {}

----------------------------------------------------------------------------
(* The block tree *)

USE DEF Places

\* A set of numbers has a least one.
LEMMA LeastNumber ==
    ASSUME NEW S \in SUBSET Nat, S # {}
    PROVE  \E m \in S : \A k \in S : m <= k
  <1> DEFINE R == OpToRel(<, Nat)
  <1>1. IsWellFoundedOn(R, Nat)
    BY NatLessThanWellFounded
  <1>2. \A m, k \in Nat : <<k, m>> \notin R => m <= k
    BY DEF OpToRel
  <1> HIDE DEF R
  <1>3. \E m \in S : \A k \in S : <<k, m>> \notin R
    BY <1>1, WFMin
  <1>. QED  BY <1>2, <1>3

\* A block and its parent.
LEMMA PathBasics ==
    ASSUME NEW b \in Blocks
    PROVE  /\ b \in Path[b] /\ Path[b] \subseteq Blocks /\ Genesis \in Path[b]
           /\ \A a \in Path[b] : a \in Blocks /\ Path[a] \subseteq Path[b]
           /\ Work[b] \in Nat
           /\ b # Genesis => /\ Parent[b] \in Blocks /\ Path[b] = {b} \cup Path[Parent[b]]
                             /\ b \notin Path[Parent[b]] /\ Work[Parent[b]] < Work[b]
                             /\ Path[Parent[b]] \subseteq Path[b]
  <1>1. CASE b = Genesis
    BY <1>1, TreeAssumption
  <1>2. CASE b # Genesis
    BY <1>2, TreeAssumption
  <1>. QED  BY <1>1, <1>2

\* A property of blocks that a block has when its parent has it holds of every
\* block: there is no counterexample of least work.
LEMMA NoLeastCounterexample ==
    ASSUME NEW S \in SUBSET Blocks, Genesis \notin S,
           \A b \in S : Parent[b] \in S
    PROVE  S = {}
  <1> SUFFICES ASSUME S # {} PROVE FALSE
    OBVIOUS
  <1> DEFINE W == {Work[b] : b \in S}
  <1>1. W \in SUBSET Nat /\ W # {}
    BY PathBasics
  <1>2. PICK w \in W : \A k \in W : w <= k
    BY <1>1, LeastNumber
  <1>3. PICK b \in S : w = Work[b]
    OBVIOUS
  <1>4. Parent[b] \in S /\ Work[Parent[b]] < Work[b] /\ Work[b] \in Nat /\ Work[Parent[b]] \in Nat
    BY PathBasics
  <1>5. Work[b] <= Work[Parent[b]]
    BY <1>2, <1>3, <1>4
  <1>. QED  BY <1>4, <1>5

\* Two ancestors of a block lie on one line.
LEMMA Comparable ==
    ASSUME NEW x \in Blocks, NEW y \in Path[x], NEW z \in Path[x]
    PROVE  y \in Path[z] \/ z \in Path[y]
  <1> DEFINE S == {b \in Blocks : \E p, q \in Path[b] : p \notin Path[q] /\ q \notin Path[p]}
  <1>1. Genesis \notin S
    BY TreeAssumption
  <1>2. ASSUME NEW b \in S PROVE Parent[b] \in S
    <2>1. PICK p \in Path[b], q \in Path[b] : p \notin Path[q] /\ q \notin Path[p]
      OBVIOUS
    <2>2. b \in Blocks \ {Genesis}
      BY <1>1
    <2>3. p # b /\ q # b
      BY <2>1
    <2>4. p \in Path[Parent[b]] /\ q \in Path[Parent[b]] /\ Parent[b] \in Blocks
      BY <2>2, <2>3, PathBasics
    <2>. QED  BY <2>1, <2>4
  <1>3. S = {}
    <2> HIDE DEF S
    <2>1. S \in SUBSET Blocks
      BY DEF S
    <2>. QED  BY <1>1, <1>2, <2>1, NoLeastCounterexample
  <1>. QED  BY <1>3

\* Work grows along a chain.
LEMMA WorkGrows ==
    ASSUME NEW x \in Blocks, NEW y \in Path[x]
    PROVE  Work[y] <= Work[x] /\ (y # x => Work[y] < Work[x] /\ x \notin Path[y])
  <1> DEFINE S == {b \in Blocks : \E p \in Path[b] : ~(Work[p] <= Work[b])}
  <1>1. Genesis \notin S
    BY TreeAssumption
  <1>2. ASSUME NEW b \in S PROVE Parent[b] \in S
    <2>1. PICK p \in Path[b] : ~(Work[p] <= Work[b])
      OBVIOUS
    <2>2. b \in Blocks \ {Genesis} /\ p \in Blocks /\ Work[b] \in Nat /\ Work[p] \in Nat
      BY <1>1, PathBasics
    <2>3. p # b
      BY <2>1, <2>2
    <2>4. p \in Path[Parent[b]] /\ Parent[b] \in Blocks /\ Work[Parent[b]] < Work[b]
          /\ Work[Parent[b]] \in Nat
      BY <2>2, <2>3, PathBasics
    <2>5. ~(Work[p] <= Work[Parent[b]])
      BY <2>1, <2>2, <2>4
    <2>. QED  BY <2>4, <2>5
  <1>3. S = {}
    <2> HIDE DEF S
    <2>1. S \in SUBSET Blocks
      BY DEF S
    <2>. QED  BY <1>1, <1>2, <2>1, NoLeastCounterexample
  <1>4. \A b \in Blocks : \A p \in Path[b] : Work[p] <= Work[b]
    BY <1>3
  <1>5. ASSUME y # x PROVE Work[y] < Work[x] /\ x \notin Path[y]
    <2>1. x # Genesis
      BY <1>5, TreeAssumption
    <2>2. y \in Path[Parent[x]] /\ Parent[x] \in Blocks /\ Work[Parent[x]] < Work[x] /\ y \in Blocks
      BY <1>5, <2>1, PathBasics
    <2>3. Work[y] <= Work[Parent[x]] /\ Work[y] \in Nat /\ Work[x] \in Nat /\ Work[Parent[x]] \in Nat
      BY <1>4, <2>2, PathBasics
    <2>4. Work[y] < Work[x]
      BY <2>2, <2>3
    <2>5. x \in Path[y] => Work[x] <= Work[y]
      BY <1>4, <2>2
    <2>. QED  BY <2>3, <2>4, <2>5
  <1>. QED  BY <1>4, <1>5

\* Heights: those of ancestors are smaller, by one for the parent.
LEMMA HeightLemma ==
    ASSUME NEW b \in Blocks
    PROVE  /\ IsFiniteSet(Path[b]) /\ Height(b) \in Nat /\ Height(b) < Cardinality(Blocks)
           /\ Height(Genesis) = 0
           /\ b # Genesis => Height(Parent[b]) = Height(b) - 1
           /\ \A a \in Path[b] : a # b => Height(a) < Height(b)
  <1>1. ASSUME NEW c \in Blocks
        PROVE  /\ IsFiniteSet(Path[c]) /\ Cardinality(Path[c]) \in Nat
               /\ Cardinality(Path[c]) <= Cardinality(Blocks) /\ Cardinality(Path[c]) # 0
               /\ Cardinality(Blocks) \in Nat
    <2>1. Path[c] \in SUBSET Blocks /\ Path[c] # {} /\ IsFiniteSet(Blocks)
      BY PathBasics, TreeAssumption
    <2>2. IsFiniteSet(Path[c]) /\ Cardinality(Path[c]) <= Cardinality(Blocks)
      BY <2>1, FS_Subset
    <2>. QED  BY <2>1, <2>2, FS_CardinalityType, FS_EmptySet
  <1>2. Height(Genesis) = 0
    <2>1. Path[Genesis] = {Genesis}
      BY TreeAssumption
    <2>2. Cardinality({Genesis}) = 1
      BY FS_Singleton
    <2>. QED  BY <2>1, <2>2 DEF Height
  <1>3. ASSUME b # Genesis PROVE Cardinality(Path[b]) = Cardinality(Path[Parent[b]]) + 1
    <2>1. /\ Path[b] = Path[Parent[b]] \cup {b} /\ b \notin Path[Parent[b]]
          /\ Parent[b] \in Blocks
      BY <1>3, PathBasics
    <2>2. IsFiniteSet(Path[Parent[b]])
      BY <1>1, <2>1
    <2>. QED  BY <2>1, <2>2, FS_AddElement
  <1>4. ASSUME NEW a \in Path[b], a # b PROVE Height(a) < Height(b)
    <2>1. b # Genesis
      BY <1>4, TreeAssumption
    <2>2. a \in Path[Parent[b]] /\ Parent[b] \in Blocks /\ a \in Blocks
      BY <1>4, <2>1, PathBasics
    <2>3. Path[a] \in SUBSET Path[Parent[b]] /\ IsFiniteSet(Path[Parent[b]])
      BY <1>1, <2>2, PathBasics
    <2>4. Cardinality(Path[a]) <= Cardinality(Path[Parent[b]])
      BY <2>3, FS_Subset
    <2>5. Cardinality(Path[a]) \in Nat /\ Cardinality(Path[Parent[b]]) \in Nat
      BY <1>1, <2>2
    <2>. QED  BY <1>3, <2>1, <2>4, <2>5 DEF Height
  <1>5. b # Genesis => Height(Parent[b]) = Height(b) - 1
    BY <1>1, <1>3, PathBasics DEF Height
  <1>. QED  BY <1>1, <1>2, <1>4, <1>5 DEF Height

\* The lowest and the highest block of a set.
LEMMA LowestLemma ==
    ASSUME NEW S \in SUBSET Blocks, S # {}
    PROVE  Lowest(S) \in S /\ \A c \in S : Height(Lowest(S)) <= Height(c)
  <1> DEFINE H == {Height(b) : b \in S}
  <1>1. H \in SUBSET Nat /\ H # {}
    BY HeightLemma
  <1>2. PICK h \in H : \A k \in H : h <= k
    BY <1>1, LeastNumber
  <1>3. PICK b \in S : h = Height(b)
    OBVIOUS
  <1>4. \A c \in S : Height(b) <= Height(c)
    BY <1>2, <1>3
  <1>5. \E x \in S : \A c \in S : Height(x) <= Height(c)
    BY <1>4
  <1>. QED  BY <1>5 DEF Lowest

\* Likewise from above.
LEMMA HighestLemma ==
    ASSUME NEW S \in SUBSET Blocks, S # {}
    PROVE  Highest(S) \in S /\ \A c \in S : Height(c) <= Height(Highest(S))
  <1> DEFINE N == Cardinality(Blocks)
             H == {N - Height(b) : b \in S}
  <1>0. N \in Nat
    BY FS_CardinalityType, TreeAssumption
  <1>1. H \in SUBSET Nat /\ H # {}
    BY <1>0, HeightLemma
  <1>2. PICK h \in H : \A k \in H : h <= k
    BY <1>1, LeastNumber
  <1>3. PICK b \in S : h = N - Height(b)
    OBVIOUS
  <1>4. ASSUME NEW c \in S PROVE Height(c) <= Height(b)
    <2>1. N - Height(b) <= N - Height(c)
      BY <1>2, <1>3
    <2>2. Height(b) \in Nat /\ Height(c) \in Nat
      BY HeightLemma
    <2>. QED  BY <1>0, <2>1, <2>2
  <1>5. \E x \in S : \A c \in S : Height(c) <= Height(x)
    BY <1>4
  <1>. QED  BY <1>5 DEF Highest

\* Every height up to that of b is on the chain of b.
LEMMA HeightOnChain ==
    ASSUME NEW b \in Blocks, NEW h \in Nat, h <= Height(b)
    PROVE  \E a \in Path[b] : Height(a) = h
  <1> DEFINE S == {a \in Path[b] : h <= Height(a)}
             l == Lowest(S)
  <1>1. S \in SUBSET Blocks /\ S # {}
    BY PathBasics
  <1>2. l \in S /\ \A c \in S : Height(l) <= Height(c)
    <2> HIDE DEF S
    <2>. QED  BY <1>1, LowestLemma
  <1> HIDE DEF l
  <1>3. l \in Blocks /\ l \in Path[b] /\ h <= Height(l) /\ Height(l) \in Nat
    BY <1>1, <1>2, HeightLemma
  <1>4. CASE Height(l) = h
    BY <1>3, <1>4
  <1>5. CASE Height(l) # h
    <2>1. l # Genesis
      BY <1>3, <1>5, HeightLemma
    <2>2. Parent[l] \in Path[b] /\ Height(Parent[l]) = Height(l) - 1
      <3>1. Parent[l] \in Path[l] /\ Path[l] \subseteq Path[b]
        BY <1>3, <2>1, PathBasics
      <3>. QED  BY <1>3, <2>1, <3>1, HeightLemma
    <2>3. Parent[l] \in S
      BY <1>3, <1>5, <2>2
    <2>. QED  BY <1>2, <1>3, <2>2, <2>3
  <1>. QED  BY <1>4, <1>5

----------------------------------------------------------------------------
(* The order of the candidates *)

\* CBlockIndexWorkComparator is a strict weak order, total where the sequence
\* ids differ.
LEMMA WorseOrder ==
    ASSUME NEW seq \in [Blocks -> Nat], NEW a \in Blocks, NEW b \in Blocks, NEW c \in Blocks
    PROVE  /\ ~WorseIn(seq, a, a)
           /\ WorseIn(seq, a, b) => ~WorseIn(seq, b, a)
           /\ WorseIn(seq, a, b) /\ WorseIn(seq, b, c) => WorseIn(seq, a, c)
           /\ WorseIn(seq, a, b) /\ ~WorseIn(seq, c, b) => WorseIn(seq, a, c)
           /\ seq[a] # seq[b] => WorseIn(seq, a, b) \/ WorseIn(seq, b, a)
           /\ Work[a] < Work[b] => WorseIn(seq, a, b)
  <1>1. /\ Work[a] \in Nat /\ Work[b] \in Nat /\ Work[c] \in Nat
        /\ seq[a] \in Nat /\ seq[b] \in Nat /\ seq[c] \in Nat
    BY PathBasics
  <1>. QED  BY <1>1 DEF WorseIn

\* A non-empty set of numbered blocks has a best one: the one with the fewest
\* blocks above it.
LEMMA BestExists ==
    ASSUME NEW seq \in [Blocks -> Nat], NEW S \in SUBSET Blocks, S # {},
           \A a, b \in S : seq[a] = seq[b] => a = b
    PROVE  \E c \in S : \A d \in S : d = c \/ WorseIn(seq, d, c)
  <1> DEFINE above == [d \in Blocks |-> {x \in Blocks : WorseIn(seq, d, x)}]
             rank == [d \in Blocks |-> Cardinality(above[d])]
             R == {rank[d] : d \in S}
  <1>1. ASSUME NEW d \in Blocks
        PROVE  IsFiniteSet(above[d]) /\ rank[d] = Cardinality(above[d]) /\ rank[d] \in Nat
    <2>1. above[d] \in SUBSET Blocks /\ IsFiniteSet(Blocks)
      BY TreeAssumption
    <2>2. rank[d] = Cardinality(above[d])
      OBVIOUS
    <2> HIDE DEF above, rank
    <2>. QED  BY <2>1, <2>2, FS_Subset, FS_CardinalityType
  <1>2. \A d, x \in Blocks : x \in above[d] <=> WorseIn(seq, d, x)
    OBVIOUS
  <1>3. \A d \in Blocks : above[d] \subseteq Blocks
    OBVIOUS
  <1> HIDE DEF above, rank
  <1>4. R \in SUBSET Nat /\ R # {}
    BY <1>1
  <1>5. PICK r \in R : \A k \in R : r <= k
    BY <1>4, LeastNumber
  <1>6. PICK c \in S : r = rank[c]
    OBVIOUS
  <1>7. ASSUME NEW d \in S, d # c PROVE WorseIn(seq, d, c)
    <2>1. c \in Blocks /\ d \in Blocks /\ seq[c] # seq[d]
      BY <1>7
    <2>2. ASSUME WorseIn(seq, c, d) PROVE FALSE
      <3>1. above[d] \subseteq above[c]
        BY <1>2, <1>3, <2>1, <2>2, WorseOrder
      <3>2. d \in above[c] /\ d \notin above[d]
        BY <1>2, <2>1, <2>2, WorseOrder
      <3>3. rank[d] <= rank[c] /\ rank[c] # rank[d]
        BY <1>1, <2>1, <3>1, <3>2, FS_Subset
      <3>4. rank[c] <= rank[d]
        BY <1>5, <1>6
      <3>. QED  BY <1>1, <2>1, <3>3, <3>4
    <2>. QED  BY <2>1, <2>2, WorseOrder
  <1>. QED  BY <1>7

\* The facts of IInv that the steps of the activation use.
LEMMA Basics ==
    ASSUME IInv
    PROVE  /\ mapBlockIndex \subseteq Blocks /\ haveData \subseteq mapBlockIndex
           /\ linked \subseteq haveData /\ linked \subseteq Blocks
           /\ candidates \subseteq linked /\ tip \in linked /\ tip \in Blocks
           /\ validScripts \subseteq linked
           /\ Failed \subseteq mapBlockIndex
           /\ nSequenceId \in [Blocks -> Nat]
           /\ \A b \in linked : Path[b] \subseteq linked
           /\ \A a, b \in linked : nSequenceId[a] = nSequenceId[b] => a = b
           /\ ChainActive \subseteq linked /\ Genesis \in ChainActive /\ tip \in ChainActive
           /\ \A b \in ChainActive : Path[b] \subseteq ChainActive
           /\ \A b \in ChainActive : b # tip => Worse(b, tip)
  <1>1. /\ mapBlockIndex \subseteq Blocks /\ haveData \subseteq mapBlockIndex
        /\ linked \subseteq haveData /\ linked \subseteq Blocks
        /\ candidates \subseteq linked /\ tip \in linked /\ tip \in Blocks
        /\ validScripts \subseteq linked
        /\ Failed \subseteq mapBlockIndex
    BY DEF IInv, TypeOK, Failed
  <1>2. nSequenceId \in [Blocks -> Nat]
    <2>1. nSequenceId \in [Blocks -> 0 .. Cardinality(Blocks)]
      BY DEF IInv, TypeOK
    <2>2. Cardinality(Blocks) \in Nat
      BY FS_CardinalityType, TreeAssumption
    <2>. QED  BY <2>1, <2>2
  <1>3. ASSUME NEW b \in linked PROVE Path[b] \subseteq linked
    <2>1. Path[b] \subseteq haveData /\ Path[b] \subseteq mapBlockIndex
      BY <1>1 DEF IInv, IndexTree
    <2>2. \A a \in Path[b] : Path[a] \subseteq haveData
      BY <1>1, <2>1, PathBasics
    <2>. QED  BY <2>1, <2>2 DEF IInv, IndexTree
  <1>4. \A a, b \in linked : nSequenceId[a] = nSequenceId[b] => a = b
    BY DEF IInv, Numbered
  <1>5. ChainActive \subseteq linked /\ Genesis \in ChainActive /\ tip \in ChainActive
    BY <1>1, <1>3, PathBasics DEF ChainActive
  <1>6. \A b \in ChainActive : Path[b] \subseteq ChainActive
    BY <1>1, PathBasics DEF ChainActive
  <1>7. \A b \in ChainActive : b # tip => Worse(b, tip)
    BY <1>1, WorkGrows DEF ChainActive, Worse, WorseIn
  <1>. QED  BY <1>1, <1>2, <1>3, <1>4, <1>5, <1>6, <1>7

----------------------------------------------------------------------------
(* FindMostWorkChain *)

\* The candidates that are tried have a failed block on their path.
LEMMA TriedLemma ==
    ASSUME IInv, NEW c \in Tried
    PROVE  /\ c \in candidates /\ c \in linked /\ c \in Blocks
           /\ TopFailed(c) \in Path[c] /\ TopFailed(c) \notin ChainActive
           /\ TopFailed(c) \in Failed /\ TopFailed(c) \in Blocks
           /\ c = TopFailed(c) \/ c \notin Path[TopFailed(c)]
  <1>1. c \in candidates /\ c \in linked /\ c \in Blocks
    BY Basics DEF Tried
  <1>2. Unusable(c)
    <2>1. ~Worse(c, c)
      BY <1>1, Basics, WorseOrder DEF Worse
    <2>. QED  BY <1>1, <2>1 DEF Tried
  <1> DEFINE S == (Path[c] \ ChainActive) \cap Failed
  <1>3. S # {} /\ S \in SUBSET Blocks
    BY <1>1, <1>2, PathBasics DEF Unusable
  <1>4. TopFailed(c) \in S
    <2>1. TopFailed(c) = Highest(S)
      BY DEF TopFailed
    <2> HIDE DEF S
    <2>. QED  BY <1>3, <2>1, HighestLemma
  <1>5. c = TopFailed(c) \/ c \notin Path[TopFailed(c)]
    BY <1>1, <1>4, WorkGrows
  <1>. QED  BY <1>1, <1>3, <1>4, <1>5

\* A marked block has a failed ancestor outside the active chain.
LEMMA MarkedLemma ==
    ASSUME IInv, NEW x \in FindMostWorkChain.marked
    PROVE  x \in linked /\ x \in Blocks /\ \E f \in Failed \ ChainActive : f \in Path[x]
  <1>1. PICK c \in Tried : x \in Path[c] \ Path[TopFailed(c)]
    BY DEF FindMostWorkChain
  <1>2. /\ c \in linked /\ c \in Blocks
        /\ TopFailed(c) \in Path[c] /\ TopFailed(c) \in Failed \ ChainActive
    BY TriedLemma
  <1>3. x \in linked /\ x \in Blocks
    BY <1>1, <1>2, Basics
  <1>4. TopFailed(c) \in Path[x]
    BY <1>1, <1>2, Comparable
  <1>. QED  BY <1>2, <1>3, <1>4

\* What FindMostWorkChain returns.
LEMMA FoundLemma ==
    ASSUME IInv
    PROVE  /\ FindMostWorkChain.candidates \subseteq candidates
           /\ \A d \in candidates : ~Unusable(d) => d \in FindMostWorkChain.candidates
           /\ \A d \in candidates \ FindMostWorkChain.candidates :
                 d \in Failed \cup FindMostWorkChain.marked
           /\ IF FindMostWorkChain.candidates = {}
              THEN FindMostWorkChain.pindex = NoBlock
              ELSE /\ FindMostWorkChain.pindex \in FindMostWorkChain.candidates
                   /\ ~Unusable(FindMostWorkChain.pindex)
                   /\ \A d \in FindMostWorkChain.candidates :
                         d = FindMostWorkChain.pindex \/ Worse(d, FindMostWorkChain.pindex)
  <1> DEFINE found == FindMostWorkChain
             marked == UNION {Path[c] \ Path[TopFailed(c)] : c \in Tried}
             tops == {TopFailed(c) : c \in Tried}
             kept == candidates \ (marked \cup tops)
  <1>1. found.marked = marked /\ found.candidates = kept
    BY DEF FindMostWorkChain
  <1>2. found.pindex = IF kept = {} THEN NoBlock
                       ELSE CHOOSE c \in kept : \A d \in kept : d = c \/ Worse(d, c)
    BY DEF FindMostWorkChain
  <1>3. tops \subseteq Failed \ ChainActive
    BY TriedLemma
  <1>4. ASSUME NEW d \in candidates, ~Unusable(d) PROVE d \in kept
    <2>1. d \in Blocks /\ d \in Path[d]
      BY Basics, PathBasics
    <2>2. d \notin tops
      BY <1>3, <1>4, <2>1 DEF Unusable
    <2>3. d \notin marked
      <3>1. d \in marked => \E f \in Failed \ ChainActive : f \in Path[d]
        BY <1>1, MarkedLemma
      <3>. QED  BY <1>4, <3>1 DEF Unusable
    <2>. QED  BY <2>2, <2>3
  <1>5. \A c \in Tried : c \notin kept
    <2> TAKE c \in Tried
    <2>1. c = TopFailed(c) \/ c \in Path[c] \ Path[TopFailed(c)]
      BY TriedLemma, PathBasics
    <2>. QED  BY <2>1
  <1> HIDE DEF kept, marked, tops
  <1>6. ASSUME kept # {}
        PROVE  /\ found.pindex \in kept /\ ~Unusable(found.pindex)
               /\ \A d \in kept : d = found.pindex \/ Worse(d, found.pindex)
    <2>1. kept \in SUBSET Blocks /\ kept \subseteq candidates /\ kept \subseteq linked
      BY Basics DEF kept
    <2>2. \E c \in kept : \A d \in kept : d = c \/ Worse(d, c)
      BY <1>6, <2>1, Basics, BestExists DEF Worse
    <2>3. found.pindex \in kept /\ \A d \in kept : d = found.pindex \/ Worse(d, found.pindex)
      BY <1>2, <1>6, <2>2
    <2> DEFINE p == found.pindex
    <2> HIDE DEF p
    <2>4. p \in kept /\ (\A d \in kept : d = p \/ Worse(d, p)) /\ p \notin Tried /\ p \in candidates
      BY <1>5, <2>1, <2>3 DEF p
    <2>5. PICK d \in candidates : ~Unusable(d) /\ ~Worse(d, p)
      BY <2>4 DEF Tried
    <2>6. d = p
      BY <1>4, <2>4, <2>5
    <2>. QED  BY <2>3, <2>5, <2>6 DEF p
  <1>. QED  BY <1>1, <1>2, <1>3, <1>4, <1>6 DEF kept, tops, marked

----------------------------------------------------------------------------
(* Moving the tip *)

\* What the steps of the activation have in common: the tip moves to an ancestor
\* of its own or of the block found, over blocks that connect, and the blocks F
\* of the way that do not are marked.
Moved(newTip, F) ==
    LET found == FindMostWorkChain
    IN  /\ found.pindex \notin {NoBlock, tip}
        /\ tip' = newTip /\ newTip \in ChainActive \cup Path[found.pindex]
        /\ (Path[newTip] \ ChainActive) \cap badConnect = {}
        /\ F \subseteq (Path[found.pindex] \ Path[newTip]) \cap badConnect
        /\ validScripts' = validScripts \cup (Path[newTip] \ ChainActive)
        /\ failedChild' = failedChild \cup found.marked
        /\ failedValid' = failedValid \cup F
        /\ candidates' = (IF newTip \in ChainActive THEN found.candidates
                          ELSE Prune(found.candidates, newTip)) \ F
        /\ UNCHANGED <<content, index>>

\* What the activation works with.
LEMMA MovedFacts ==
    ASSUME IInv, NEW newTip, NEW F, Moved(newTip, F)
    PROVE  /\ FindMostWorkChain.pindex \in FindMostWorkChain.candidates
           /\ FindMostWorkChain.pindex \in linked /\ FindMostWorkChain.pindex \notin ChainActive
           /\ newTip \in linked /\ newTip \in Blocks /\ Path[newTip] \subseteq linked
           /\ F \subseteq linked /\ F \cap (validScripts \cup {Genesis}) = {}
           /\ FindMostWorkChain.marked \subseteq linked
           /\ Path[newTip] \cap (Failed \cup FindMostWorkChain.marked \cup F \cup badConnect) = {}
           /\ Path[newTip] \cap badContext = {}
  <1> DEFINE found == FindMostWorkChain
             p == found.pindex
  <1>1. found.pindex # NoBlock /\ p # tip
    BY DEF Moved
  <1>2. p \in found.candidates /\ ~Unusable(p) /\ p \in candidates
    BY <1>1, FoundLemma
  <1>3. p \in linked /\ p \in Blocks /\ Path[p] \subseteq linked
    BY <1>2, Basics
  <1>4. p \notin ChainActive
    <2>1. ~Worse(p, tip)
      BY <1>2 DEF IInv, CandidatesPruned
    <2>. QED  BY <1>1, <2>1, Basics
  <1>5. newTip \in linked /\ newTip \in Blocks /\ Path[newTip] \subseteq linked
    BY <1>3, Basics DEF Moved
  <1>6. Path[newTip] \subseteq ChainActive \cup Path[p]
    <2>1. CASE newTip \in ChainActive
      BY <2>1, Basics
    <2>2. CASE newTip \in Path[p]
      BY <1>3, <2>2, PathBasics
    <2>. QED  BY <2>1, <2>2 DEF Moved
  <1>7. Path[newTip] \cap (Failed \ ChainActive) = {}
    BY <1>2, <1>6 DEF Unusable
  <1>8. ChainActive \cap (Failed \cup badConnect \cup badContext) = {}
    BY DEF IInv, ActiveChainValid
  <1>9. Path[newTip] \cap Failed = {}
    BY <1>7, <1>8
  <1>10. Path[newTip] \cap found.marked = {}
    <2> SUFFICES ASSUME NEW x \in Path[newTip], x \in found.marked PROVE FALSE
      OBVIOUS
    <2>1. PICK f \in Failed \ ChainActive : f \in Path[x]
      BY MarkedLemma
    <2>2. f \in Path[newTip]
      BY <1>5, <2>1, PathBasics
    <2>. QED  BY <1>7, <2>1, <2>2
  <1>11. Path[newTip] \cap badConnect = {}
    BY <1>8 DEF Moved
  <1>12. Path[newTip] \cap badContext = {}
    BY <1>5, Basics DEF IInv, IndexTree
  <1>13. F \subseteq linked /\ F \cap Path[newTip] = {} /\ F \cap (validScripts \cup {Genesis}) = {}
    BY <1>3 DEF Moved, IInv, ScriptsSound
  <1>14. found.marked \subseteq linked
    BY MarkedLemma
  <1>. QED  BY <1>2, <1>3, <1>4, <1>5, <1>9, <1>10, <1>11, <1>12, <1>13, <1>14

\* Such a move keeps the invariant of the index and the active chain.
LEMMA MovedLemma ==
    ASSUME IInv, NEW newTip, NEW F, Moved(newTip, F),
           pc' \in [Threads -> Places],
           mostWork' \in [Threads -> Blocks \cup {NoBlock}],
           csMain' \in Threads \cup {NoThread}, unsettled' \in BOOLEAN,
           ops' \in 0 .. MaxOps, faults' \in 0 .. MaxFaults
    PROVE  IInv'
  <1> DEFINE found == FindMostWorkChain
  <1>1. /\ newTip \in linked /\ newTip \in Blocks /\ Path[newTip] \subseteq linked
        /\ F \subseteq linked /\ F \cap (validScripts \cup {Genesis}) = {}
        /\ found.marked \subseteq linked
        /\ Path[newTip] \cap (Failed \cup found.marked \cup F \cup badConnect) = {}
        /\ Path[newTip] \cap badContext = {}
    BY MovedFacts
  <1>2. /\ tip' = newTip
        /\ validScripts' = validScripts \cup (Path[newTip] \ ChainActive)
        /\ failedChild' = failedChild \cup found.marked /\ failedValid' = failedValid \cup F
        /\ UNCHANGED <<badConnect, badContext, mapBlockIndex, haveData, linked, nSequenceId, unlinked>>
    BY DEF Moved, content, index
  <1>3. candidates' \subseteq found.candidates /\ candidates' \subseteq candidates
    BY FoundLemma DEF Moved, Prune
  <1>4. /\ linked \subseteq mapBlockIndex /\ candidates \subseteq linked
        /\ ChainActive \ {Genesis} \subseteq validScripts
    BY Basics DEF IInv, ActiveChainValid
  <1>5. TypeOK'
    BY <1>1, <1>2, <1>3, <1>4 DEF IInv, TypeOK
  <1>6. IndexTree' /\ Numbered'
    BY <1>2 DEF IInv, IndexTree, Numbered
  <1>7. ScriptsSound'
    <2>1. ASSUME NEW b \in validScripts' PROVE Path[b] \ {Genesis} \subseteq validScripts'
      <3>1. CASE b \in validScripts
        BY <1>2, <3>1 DEF IInv, ScriptsSound
      <3>2. CASE b \in Path[newTip] \ ChainActive
        <4>1. Path[b] \subseteq Path[newTip]
          BY <1>1, <3>2, PathBasics
        <4>. QED  BY <1>2, <1>4, <4>1
      <3>. QED  BY <1>2, <2>1, <3>1, <3>2
    <2>2. (validScripts' \cup {Genesis}) \cap badConnect = {}
      BY <1>1, <1>2 DEF IInv, ScriptsSound
    <2>. QED  BY <1>2, <2>1, <2>2 DEF ScriptsSound
  <1>8. ActiveChainValid'
    BY <1>1, <1>2, <1>4 DEF ActiveChainValid, ChainActive, Failed
  <1>9. CandidatesPruned'
    <2> SUFFICES ASSUME NEW c \in candidates' PROVE ~Worse(c, newTip)
      BY <1>2 DEF CandidatesPruned, Worse
    <2>1. CASE newTip \in ChainActive
      <3>1. ~Worse(c, tip) /\ c \in Blocks /\ tip \in Blocks
        BY <1>3, Basics DEF IInv, CandidatesPruned
      <3>2. newTip = tip \/ Worse(newTip, tip)
        BY <2>1, Basics
      <3>. QED  BY <1>1, <3>1, <3>2, Basics, WorseOrder DEF Worse
    <2>2. CASE newTip \notin ChainActive
      BY <2>2 DEF Moved, Prune
    <2>. QED  BY <2>1, <2>2
  <1>. QED  BY <1>5, <1>6, <1>7, <1>8, <1>9 DEF IInv

\* The block a step aims at is on the way to the block found.
LEMMA StepTargetLemma ==
    ASSUME NEW m \in Blocks
    PROVE  StepTarget(m) \in Path[m]
  <1> DEFINE better == {b \in Path[m] \ ChainActive : Work[b] > Work[tip]}
  <1>1. better \in SUBSET Blocks /\ m \in Path[m]
    BY PathBasics
  <1>2. StepTarget(m) = IF better = {} THEN m ELSE Lowest(better)
    BY DEF StepTarget
  <1>3. better # {} => Lowest(better) \in better
    <2> HIDE DEF better
    <2>. QED  BY <1>1, LowestLemma
  <1>. QED  BY <1>1, <1>2, <1>3

\* ActivateBestChainStep moves the tip so.
LEMMA TowardsMoves ==
    ASSUME IInv, NEW t \in Threads, ActivateTowards(t)
    PROVE  \E newTip, F : Moved(newTip, F)
  <1> DEFINE found == FindMostWorkChain
             p == found.pindex
             target == StepTarget(p)
             bad == (Path[target] \ ChainActive) \cap badConnect
             stop == Lowest(bad)
             newTip == IF bad = {} THEN target ELSE Parent[stop]
             connected == Path[newTip] \ ChainActive
             pruned == IF connected = {} THEN found.candidates ELSE Prune(found.candidates, newTip)
             F == IF bad = {} THEN {} ELSE {stop}
  <1>1. /\ p \notin {NoBlock, tip} /\ failedChild' = failedChild \cup found.marked
        /\ tip' = newTip /\ validScripts' = validScripts \cup connected
        /\ failedValid' = IF bad = {} THEN failedValid ELSE failedValid \cup {stop}
        /\ candidates' = IF bad = {} THEN pruned ELSE pruned \ {stop}
        /\ UNCHANGED <<content, index>>
    BY DEF ActivateTowards, ActivateBestChainStep
  <1>2. p \in Blocks
    BY <1>1, FoundLemma, Basics
  <1>3. target \in Path[p] /\ target \in Blocks /\ Path[target] \subseteq Path[p]
    BY <1>2, StepTargetLemma, PathBasics
  <1> HIDE DEF target, p, found
  <1>4. ASSUME bad # {}
        PROVE  /\ stop \in bad /\ stop \in Blocks \ {Genesis} /\ stop \in Path[target]
               /\ \A c \in bad : Height(stop) <= Height(c)
               /\ Parent[stop] \in Path[target] /\ Parent[stop] \in Blocks
    <2>1. bad \in SUBSET Blocks
      BY <1>3, PathBasics
    <2>2. stop \in bad /\ \A c \in bad : Height(stop) <= Height(c)
      <3> HIDE DEF bad
      <3>. QED  BY <1>4, <2>1, LowestLemma
    <2> HIDE DEF stop
    <2>3. stop \in Blocks /\ stop # Genesis /\ stop \in Path[target]
      BY <2>1, <2>2, Basics
    <2>4. Parent[stop] \in Blocks /\ Parent[stop] \in Path[stop] /\ Path[stop] \subseteq Path[target]
      BY <1>3, <2>3, PathBasics
    <2>. QED  BY <2>2, <2>3, <2>4
  <1>5. newTip \in Path[target] /\ newTip \in Blocks /\ newTip \in Path[p]
    BY <1>3, <1>4, PathBasics
  <1>6. connected \cap badConnect = {}
    <2>1. CASE bad = {}
      BY <2>1
    <2>2. CASE bad # {}
      <3> SUFFICES ASSUME NEW x \in Path[Parent[stop]] \ ChainActive, x \in badConnect PROVE FALSE
        BY <2>2
      <3>1. Path[Parent[stop]] \subseteq Path[target]
        BY <1>3, <1>4, <2>2, PathBasics
      <3>2. x \in bad
        BY <3>1
      <3>3. x \in Path[stop] /\ x # stop
        BY <1>4, <2>2, PathBasics
      <3>4. Height(x) < Height(stop) /\ Height(stop) <= Height(x) /\ x \in Blocks
        BY <1>4, <2>2, <3>2, <3>3, HeightLemma, PathBasics
      <3>5. Height(x) \in Nat /\ Height(stop) \in Nat
        BY <1>4, <2>2, <3>4, HeightLemma
      <3>. QED  BY <3>4, <3>5
    <2>. QED  BY <2>1, <2>2
  <1>7. F \subseteq (Path[p] \ Path[newTip]) \cap badConnect
    <2>1. ASSUME bad # {} PROVE stop \in (Path[p] \ Path[Parent[stop]]) \cap badConnect
      BY <1>3, <1>4, <2>1, PathBasics
    <2>. QED  BY <2>1
  <1>8. connected = {} <=> newTip \in ChainActive
    BY <1>5, Basics, PathBasics
  <1>9. failedValid' = failedValid \cup F
    BY <1>1
  <1>10. candidates' = (IF newTip \in ChainActive THEN found.candidates
                        ELSE Prune(found.candidates, newTip)) \ F
    BY <1>1, <1>8
  <1>11. Moved(newTip, F)
    <2> HIDE DEF newTip, F
    <2>. QED  BY <1>1, <1>5, <1>6, <1>7, <1>9, <1>10 DEF Moved, found, p
  <1>. QED  BY <1>11

\* A step that is broken off moves the tip so too.
LEMMA FailsMoves ==
    ASSUME IInv, NEW t \in Threads, ActivateFails(t)
    PROVE  \E newTip : Moved(newTip, {})
  <1> DEFINE found == FindMostWorkChain
             p == found.pindex
             toConnect == Path[StepTarget(p)] \ ChainActive
             forkPoint == Highest(Path[p] \cap ChainActive)
  <1>1. /\ p \notin {NoBlock, tip} /\ failedChild' = failedChild \cup found.marked
        /\ validScripts' = validScripts \cup (Path[tip'] \ ChainActive)
        /\ UNCHANGED <<content, index, failedValid>>
        /\ \/ \E b \in ChainActive \ Path[forkPoint] : tip' = b /\ candidates' = found.candidates
           \/ \E b \in toConnect :
                /\ Path[Parent[b]] \cap badConnect = {}
                /\ tip' = Parent[b]
                /\ candidates' = IF Parent[b] = forkPoint THEN found.candidates
                                 ELSE Prune(found.candidates, Parent[b])
    BY DEF ActivateFails
  <1>2. p \in Blocks
    BY <1>1, FoundLemma, Basics
  <1>3. toConnect \subseteq Path[p] \ ChainActive
    BY <1>2, StepTargetLemma, PathBasics
  <1> HIDE DEF toConnect
  <1>4. forkPoint \in Path[p] \cap ChainActive
        /\ \A c \in Path[p] \cap ChainActive : Height(c) <= Height(forkPoint)
    <2>1. Path[p] \cap ChainActive \in SUBSET Blocks /\ Path[p] \cap ChainActive # {}
      BY <1>2, PathBasics, Basics
    <2>. QED  BY <2>1, HighestLemma
  <1> HIDE DEF forkPoint, p, found
  <1>5. ASSUME NEW b \in ChainActive \ Path[forkPoint],
               tip' = b, candidates' = found.candidates
        PROVE  Moved(b, {})
    <2>1. Path[b] \ ChainActive = {}
      BY Basics
    <2>. QED  BY <1>1, <1>5, <2>1 DEF Moved, found, p
  <1>6. ASSUME NEW b \in toConnect, Path[Parent[b]] \cap badConnect = {}, tip' = Parent[b],
               candidates' = IF Parent[b] = forkPoint THEN found.candidates
                             ELSE Prune(found.candidates, Parent[b])
        PROVE  Moved(Parent[b], {})
    <2>1. b \in Path[p] /\ b \notin ChainActive /\ b \in Blocks /\ b # Genesis
      BY <1>2, <1>3, PathBasics, Basics
    <2>2. /\ Parent[b] \in Blocks /\ Path[b] = {b} \cup Path[Parent[b]] /\ Parent[b] \in Path[b]
          /\ Parent[b] \in Path[p]
      BY <1>2, <2>1, PathBasics
    <2>3. ASSUME Parent[b] \in ChainActive PROVE Parent[b] = forkPoint
      <3>1. forkPoint \in Blocks /\ forkPoint \in Path[p] /\ forkPoint \in ChainActive /\ forkPoint # b
        BY <1>2, <1>4, <2>1, PathBasics
      <3>2. b \notin Path[forkPoint]
        BY <2>1, <3>1, Basics
      <3>3. forkPoint \in Path[Parent[b]]
        BY <1>2, <2>1, <2>2, <3>1, <3>2, Comparable
      <3>4. Height(Parent[b]) <= Height(forkPoint)
        BY <1>4, <2>2, <2>3
      <3>5. Height(Parent[b]) \in Nat /\ Height(forkPoint) \in Nat
        BY <2>2, <3>1, HeightLemma
      <3>6. forkPoint # Parent[b] => Height(forkPoint) < Height(Parent[b])
        BY <2>2, <3>3, HeightLemma
      <3>. QED  BY <3>4, <3>5, <3>6
    <2>4. Parent[b] = forkPoint <=> Parent[b] \in ChainActive
      BY <1>4, <2>3
    <2>5. candidates' = (IF Parent[b] \in ChainActive THEN found.candidates
                         ELSE Prune(found.candidates, Parent[b])) \ {}
      BY <1>6, <2>4
    <2>. QED  BY <1>1, <1>6, <2>2, <2>5 DEF Moved, found, p
  <1>. QED  BY <1>1, <1>5, <1>6

\* Leaving ActivateBestChain, or its nested call.
LEMMA ReturnLemma ==
    ASSUME TypeOK, NEW t \in Threads, Return(t)
    PROVE  /\ pc' \in [Threads -> Places]
           /\ csMain' \in Threads \cup {NoThread}
           /\ \A u \in Threads \ {t} : pc'[u] = pc[u]
  BY DEF TypeOK, Return

----------------------------------------------------------------------------
(* Receiving blocks *)

\* The numbers handed out follow the ones in use and differ.
LEMMA NumbersLemma ==
    ASSUME IInv, NEW L \in SUBSET Blocks, L \cap linked = {}, NEW ids \in SequenceIds(L),
           linked' = linked \cup L,
           nSequenceId' = [x \in Blocks |-> IF x \in L THEN ids[x] ELSE nSequenceId[x]]
    PROVE  /\ Numbered' /\ nSequenceId' \in [Blocks -> 0 .. Cardinality(Blocks)]
           /\ \A x \in linked : nSequenceId'[x] = nSequenceId[x]
  <1> DEFINE n == Cardinality(linked)
             l == Cardinality(L)
  <1>1. /\ linked \subseteq Blocks /\ IsFiniteSet(Blocks) /\ IsFiniteSet(linked) /\ IsFiniteSet(L)
    BY Basics, FS_Subset, TreeAssumption
  <1>2. /\ Cardinality(linked') = n + l /\ Cardinality(linked') <= Cardinality(Blocks)
        /\ n \in Nat /\ l \in Nat /\ Cardinality(Blocks) \in Nat
    <2>1. Cardinality(linked \cup L) = Cardinality(linked) + Cardinality(L) - Cardinality(linked \cap L)
      BY <1>1, FS_Union
    <2>2. Cardinality(linked \cap L) = 0
      BY FS_EmptySet
    <2>3. linked' \in SUBSET Blocks
      BY <1>1
    <2>4. Cardinality(linked') <= Cardinality(Blocks)
      BY <1>1, <2>3, FS_Subset
    <2>. QED  BY <1>1, <2>1, <2>2, <2>4, FS_CardinalityType
  <1>3. /\ \A x \in L : ids[x] \in (n + 1) .. (n + l)
        /\ \A x, y \in L : ids[x] = ids[y] => x = y
    <2>1. ids \in [L -> (n + 1) .. ((n + 1) + l - 1)] /\ \A x, y \in L : ids[x] = ids[y] => x = y
      BY DEF SequenceIds
    <2>. QED  BY <1>2, <2>1
  <1> HIDE DEF n, l
  <1>4. /\ \A x \in L : nSequenceId'[x] = ids[x]
        /\ \A x \in Blocks \ L : nSequenceId'[x] = nSequenceId[x]
    OBVIOUS
  <1>5. /\ \A x \in linked : nSequenceId[x] \in 1 .. n
        /\ \A x \in Blocks \ linked : nSequenceId[x] = 0
    <2>1. \A x \in Blocks : nSequenceId[x] \in Nat
      BY Basics
    <2>. QED  BY <1>1, <2>1 DEF IInv, Numbered, n
  <1>6. \A x \in Blocks : x \in linked' <=> nSequenceId'[x] # 0
    BY <1>1, <1>2, <1>3, <1>4, <1>5
  <1>7. \A x \in linked' : nSequenceId'[x] <= n + l
    BY <1>1, <1>2, <1>3, <1>4, <1>5
  <1>8. ASSUME NEW x \in linked', NEW y \in linked', nSequenceId'[x] = nSequenceId'[y]
        PROVE  x = y
    <2>1. CASE x \in L /\ y \in L
      BY <1>3, <1>4, <1>8, <2>1
    <2>2. CASE x \in linked /\ y \in linked
      BY <1>1, <1>4, <1>8, <2>2 DEF IInv, Numbered
    <2>3. CASE x \in L /\ y \in linked
      BY <1>1, <1>2, <1>3, <1>4, <1>5, <1>8, <2>3
    <2>4. CASE x \in linked /\ y \in L
      BY <1>1, <1>2, <1>3, <1>4, <1>5, <1>8, <2>4
    <2>. QED  BY <2>1, <2>2, <2>3, <2>4
  <1>9. Numbered'
    BY <1>2, <1>6, <1>7, <1>8 DEF Numbered
  <1>10. \A x \in Blocks : nSequenceId'[x] \in 0 .. Cardinality(Blocks)
    <2> TAKE x \in Blocks
    <2>1. CASE x \in linked'
      BY <1>1, <1>2, <1>3, <1>4, <1>5, <2>1
    <2>2. CASE x \notin linked'
      BY <1>2, <1>6, <2>2
    <2>. QED  BY <2>1, <2>2
  <1>11. nSequenceId' \in [Blocks -> 0 .. Cardinality(Blocks)]
    BY <1>10
  <1>. QED  BY <1>1, <1>4, <1>9, <1>11

\* When the data of b arrives and its parent is linked, LinkedBy(b) are just the
\* blocks whose chains have become complete.
LEMMA LinkedByLemma ==
    ASSUME IInv, NEW b \in Blocks \ {Genesis}, b \notin haveData, Parent[b] \in linked
    PROVE  /\ LinkedBy(b) \in SUBSET Blocks /\ LinkedBy(b) \cap linked = {} /\ b \in LinkedBy(b)
           /\ LinkedBy(b) \subseteq haveData \cup {b}
           /\ \A x \in mapBlockIndex \cup {b} :
                 x \in linked \cup LinkedBy(b) <=> Path[x] \subseteq haveData \cup {b}
  <1> DEFINE L == LinkedBy(b)
  <1>1. /\ unlinked = haveData \ linked /\ haveData \subseteq Blocks
        /\ linked \subseteq haveData /\ mapBlockIndex \subseteq Blocks
    BY Basics DEF IInv, IndexTree
  <1>2. /\ L \in SUBSET Blocks /\ L \cap linked = {} /\ b \in L /\ L \subseteq haveData \cup {b}
    BY <1>1 DEF LinkedBy
  <1>3. Path[b] \subseteq haveData \cup {b}
    BY Basics, PathBasics
  <1>4. ASSUME NEW x \in mapBlockIndex \cup {b}, x \in linked \cup L
        PROVE  Path[x] \subseteq haveData \cup {b}
    <2>1. CASE x \in linked
      BY <2>1, Basics
    <2>2. CASE x \in L
      BY <1>1, <1>3, <2>2 DEF LinkedBy
    <2>. QED  BY <1>4, <2>1, <2>2
  <1>5. ASSUME NEW x \in mapBlockIndex \cup {b}, Path[x] \subseteq haveData \cup {b}
        PROVE  x \in linked \cup L
    <2>1. CASE b \notin Path[x]
      <3>1. x # b
        BY <2>1, PathBasics
      <3>. QED  BY <1>5, <2>1, <3>1 DEF IInv, IndexTree
    <2>2. CASE x = b
      BY <1>2, <2>2
    <2>3. CASE b \in Path[x] /\ x # b
      <3>1. x \in Blocks /\ x \in Path[x] /\ x \notin Path[b]
        BY <1>1, <2>3, PathBasics, WorkGrows
      <3>2. ASSUME NEW y \in Path[x] \ Path[b] PROVE y \in unlinked
        <4>1. b \in Path[y] /\ y # b /\ y \in Blocks
          BY <2>3, <3>1, Comparable, PathBasics
        <4>2. y \in haveData
          BY <1>5, <4>1
        <4>3. y \notin linked
          BY <4>1, Basics
        <4>. QED  BY <1>1, <4>2, <4>3
      <3>3. x \in unlinked /\ Path[x] \ Path[b] \subseteq unlinked
        BY <3>1, <3>2
      <3>. QED  BY <2>3, <3>3 DEF LinkedBy
    <2>. QED  BY <2>1, <2>2, <2>3
  <1>. QED  BY <1>2, <1>4, <1>5

\* Without a linked parent no chain becomes complete.
LEMMA NotLinkedLemma ==
    ASSUME IInv, NEW b \in Blocks \ {Genesis}, b \notin haveData,
           Parent[b] \in mapBlockIndex \ linked
    PROVE  \A x \in mapBlockIndex \cup {b} :
              x \in linked <=> Path[x] \subseteq haveData \cup {b}
  <1>1. PICK y \in Path[Parent[b]] : y \notin haveData
    BY DEF IInv, IndexTree
  <1>2. y # b /\ Path[Parent[b]] \subseteq Path[b] /\ b \in Path[b]
    BY <1>1, PathBasics
  <1>3. ASSUME NEW x \in mapBlockIndex \cup {b}
        PROVE  x \in linked <=> Path[x] \subseteq haveData \cup {b}
    <2>1. x \in Blocks
      BY Basics
    <2>2. CASE b \in Path[x]
      <3>1. y \in Path[x]
        BY <1>1, <1>2, <2>1, <2>2, PathBasics
      <3>2. x \notin linked
        BY <1>1, <3>1, Basics
      <3>. QED  BY <1>1, <1>2, <3>1, <3>2
    <2>3. CASE b \notin Path[x]
      <3>1. x \in mapBlockIndex
        BY <1>2, <2>3
      <3>. QED  BY <2>3, <3>1 DEF IInv, IndexTree
    <2>. QED  BY <2>2, <2>3
  <1>. QED  BY <1>3

----------------------------------------------------------------------------
(* The index and the active chain *)

\* At the start there is genesis alone.
LEMMA InitLemma ==
    ASSUME Init
    PROVE  IInv
  <1>1. /\ Genesis \in Blocks /\ Path[Genesis] = {Genesis} /\ IsFiniteSet(Blocks)
        /\ Genesis \notin MaybeBadConnect /\ Genesis \notin MaybeBadContext
        /\ MaybeBadConnect \subseteq Blocks /\ MaybeBadContext \subseteq Blocks
        /\ MaxOps \in Nat /\ MaxFaults \in Nat
    BY TreeAssumption, BoundAssumption
  <1>2. Cardinality(Blocks) \in Nat /\ Cardinality({Genesis}) = 1 /\ 1 <= Cardinality(Blocks)
    <2>1. {Genesis} \in SUBSET Blocks
      BY <1>1
    <2>2. Cardinality({Genesis}) <= Cardinality(Blocks)
      BY <1>1, <2>1, FS_Subset
    <2>. QED  BY <1>1, <2>2, FS_Singleton, FS_CardinalityType
  <1>3. TypeOK
    <2>1. nSequenceId \in [Blocks -> 0 .. Cardinality(Blocks)]
      BY <1>1, <1>2 DEF Init
    <2>2. ops \in 0 .. MaxOps /\ faults \in 0 .. MaxFaults
      BY <1>1 DEF Init
    <2>3. /\ pc \in [Threads -> Places]
          /\ mostWork \in [Threads -> Blocks \cup {NoBlock}]
      BY DEF Init
    <2>. QED  BY <1>1, <2>1, <2>2, <2>3 DEF Init, TypeOK
  <1>4. IndexTree /\ Numbered
    BY <1>1, <1>2 DEF Init, IndexTree, Numbered
  <1>5. ScriptsSound /\ ActiveChainValid
    BY <1>1 DEF Init, ScriptsSound, ActiveChainValid, ChainActive, Failed
  <1>6. CandidatesPruned
    <2>1. candidates = {Genesis} /\ tip = Genesis /\ nSequenceId[Genesis] = 1
      BY <1>1 DEF Init
    <2>2. Work[Genesis] \in Nat
      BY <1>1, PathBasics
    <2>. QED  BY <2>1, <2>2 DEF CandidatesPruned, Worse, WorseIn
  <1>. QED  BY <1>3, <1>4, <1>5, <1>6 DEF IInv

\* A command leaves the control variables typed.
LEMMA OperatorLemma ==
    ASSUME TypeOK, NEW t \in Threads, Operator(t), UNCHANGED faults
    PROVE  /\ pc' \in [Threads -> Places] /\ pc'[t] = "activate"
           /\ ops' \in 0 .. MaxOps /\ faults' \in 0 .. MaxFaults
  BY BoundAssumption DEF TypeOK, Operator, EnterActivateBestChain

\* AcceptBlock with its effects on the index.
LEMMA AcceptLemma ==
    ASSUME IInv, NEW t \in Threads, NEW b \in Blocks, AcceptBlock(t, b)
    PROVE  IInv'
  <1>1. /\ b # Genesis /\ Parent[b] \in mapBlockIndex /\ Parent[b] \notin Failed
        /\ b \notin haveData /\ b \notin badContext
        /\ mapBlockIndex' = mapBlockIndex \cup {b} /\ haveData' = haveData \cup {b}
        /\ UNCHANGED <<badConnect, badContext, validScripts, failedValid, failedChild, tip,
                       mostWork, csMain, unsettled, ops, faults>>
    BY DEF AcceptBlock, NewData, Deliver, AddToBlockIndex, ReceivedBlockTransactions,
           content, flags
  <1>2. pc' \in [Threads -> Places]
    BY DEF AcceptBlock, EnterActivateBestChain, IInv, TypeOK
  <1>3. \A x \in mapBlockIndex' : Path[x] \subseteq mapBlockIndex'
    <2>1. Path[b] = {b} \cup Path[Parent[b]]
      BY <1>1, PathBasics
    <2>. QED  BY <1>1, <2>1 DEF IInv, IndexTree
  <1>4. haveData' \cap badContext' = {}
    BY <1>1 DEF IInv, IndexTree
  <1>5. ScriptsSound' /\ ActiveChainValid'
    BY <1>1 DEF IInv, ScriptsSound, ActiveChainValid, ChainActive, Failed
  <1>6. CASE Parent[b] \in linked
    <2> DEFINE L == LinkedBy(b)
    <2>1. PICK ids \in SequenceIds(L) :
            /\ linked' = linked \cup L /\ unlinked' = unlinked \ L
            /\ nSequenceId' = [x \in Blocks |-> IF x \in L THEN ids[x] ELSE nSequenceId[x]]
            /\ candidates' = candidates \cup {x \in L : ~WorseIn(nSequenceId', x, tip)}
      BY <1>6 DEF AcceptBlock, ReceivedBlockTransactions
    <2>2. /\ L \in SUBSET Blocks /\ L \cap linked = {} /\ b \in L /\ L \subseteq haveData \cup {b}
          /\ \A x \in mapBlockIndex \cup {b} :
                x \in linked \cup L <=> Path[x] \subseteq haveData \cup {b}
      BY <1>1, <1>6, LinkedByLemma
    <2> HIDE DEF L
    <2>3. /\ Numbered' /\ nSequenceId' \in [Blocks -> 0 .. Cardinality(Blocks)]
          /\ \A x \in linked : nSequenceId'[x] = nSequenceId[x]
      BY <2>1, <2>2, NumbersLemma
    <2>4. TypeOK'
      BY <1>1, <1>2, <2>1, <2>2, <2>3 DEF IInv, TypeOK
    <2>5. IndexTree'
      <3>1. unlinked' = haveData' \ linked'
        BY <1>1, <2>1, <2>2 DEF IInv, IndexTree
      <3>. QED  BY <1>1, <1>3, <1>4, <2>1, <2>2, <3>1 DEF IndexTree
    <2>6. CandidatesPruned'
      <3> SUFFICES ASSUME NEW c \in candidates' PROVE ~WorseIn(nSequenceId', c, tip)
        BY <1>1 DEF CandidatesPruned, Worse
      <3>1. CASE c \in candidates
        <4>1. nSequenceId'[c] = nSequenceId[c] /\ nSequenceId'[tip] = nSequenceId[tip]
          BY <2>3, <3>1, Basics
        <4>. QED  BY <3>1, <4>1 DEF IInv, CandidatesPruned, Worse, WorseIn
      <3>. QED  BY <2>1, <3>1
    <2>. QED  BY <1>5, <2>3, <2>4, <2>5, <2>6 DEF IInv
  <1>7. CASE Parent[b] \notin linked
    <2>1. UNCHANGED <<linked, nSequenceId, candidates>> /\ unlinked' = unlinked \cup {b}
      BY <1>1, <1>7 DEF AcceptBlock, ReceivedBlockTransactions
    <2>2. \A x \in mapBlockIndex \cup {b} : x \in linked <=> Path[x] \subseteq haveData \cup {b}
      BY <1>1, <1>7, NotLinkedLemma
    <2>3. TypeOK'
      BY <1>1, <1>2, <2>1 DEF IInv, TypeOK
    <2>4. b \notin linked
      BY <1>1, Basics
    <2>5. IndexTree'
      <3>1. unlinked' = haveData' \ linked'
        BY <1>1, <2>1, <2>4 DEF IInv, IndexTree
      <3>. QED  BY <1>1, <1>3, <1>4, <2>1, <2>2, <3>1 DEF IndexTree
    <2>6. Numbered' /\ CandidatesPruned'
      BY <1>1, <2>1 DEF IInv, Numbered, CandidatesPruned, Worse
    <2>. QED  BY <1>5, <2>3, <2>5, <2>6 DEF IInv
  <1>. QED  BY <1>6, <1>7

\* A header that stays without data.
LEMMA HeaderLemma ==
    ASSUME IInv, NEW t \in Threads, NEW b \in Blocks, NewData(t, b), AddToBlockIndex(b),
           failedValid' \in {failedValid, failedValid \cup {b}},
           UNCHANGED <<content, haveData, linked, nSequenceId, unlinked, validScripts, failedChild,
                       candidates, tip, activation, ops, faults>>
    PROVE  IInv'
  <1>1. /\ b # Genesis /\ Parent[b] \in mapBlockIndex /\ b \notin haveData
        /\ mapBlockIndex' = mapBlockIndex \cup {b}
        /\ UNCHANGED <<badConnect, badContext, haveData, linked, nSequenceId, unlinked, validScripts,
                       failedChild, candidates, tip, pc, mostWork, csMain, unsettled, ops, faults>>
    BY DEF NewData, Deliver, AddToBlockIndex, content, activation
  <1>2. TypeOK'
    BY <1>1 DEF IInv, TypeOK
  <1>3. IndexTree'
    <2>1. Path[b] = {b} \cup Path[Parent[b]] /\ b \in Path[b]
      BY <1>1, PathBasics
    <2>2. b \notin linked
      BY <1>1, Basics
    <2>. QED  BY <1>1, <2>1, <2>2 DEF IInv, IndexTree
  <1>4. b \notin ChainActive
    BY <1>1, Basics
  <1>5. Numbered' /\ ScriptsSound' /\ CandidatesPruned'
    BY <1>1 DEF IInv, Numbered, ScriptsSound, CandidatesPruned, Worse
  <1>6. ActiveChainValid'
    BY <1>1, <1>4 DEF IInv, ActiveChainValid, ChainActive, Failed
  <1>. QED  BY <1>2, <1>3, <1>5, <1>6 DEF IInv

\* ReconsiderBlock takes marks away and adds candidates better than the tip.
LEMMA ReconsiderLemma ==
    ASSUME IInv, NEW b \in Blocks, ReconsiderBlock(b),
           UNCHANGED <<content, index, validScripts, tip, mostWork, unsettled>>,
           pc' \in [Threads -> Places],
           csMain' \in Threads \cup {NoThread},
           ops' \in 0 .. MaxOps, faults' \in 0 .. MaxFaults
    PROVE  IInv'
  <1>1. /\ failedValid' \subseteq failedValid /\ failedChild' \subseteq failedChild
        /\ candidates \subseteq candidates' /\ candidates' \subseteq linked
        /\ \A x \in candidates' \ candidates : Worse(tip, x)
        /\ UNCHANGED <<badConnect, badContext, mapBlockIndex, haveData, linked, nSequenceId, unlinked,
                       validScripts, tip, mostWork, unsettled>>
    BY Basics DEF ReconsiderBlock, content, index
  <1>2. TypeOK'
    BY <1>1 DEF IInv, TypeOK
  <1>3. IndexTree' /\ Numbered' /\ ScriptsSound'
    BY <1>1 DEF IInv, IndexTree, Numbered, ScriptsSound
  <1>4. ActiveChainValid'
    BY <1>1 DEF IInv, ActiveChainValid, ChainActive, Failed
  <1>5. CandidatesPruned'
    <2> SUFFICES ASSUME NEW c \in candidates' PROVE ~Worse(c, tip)
      BY <1>1 DEF CandidatesPruned, Worse
    <2>1. CASE c \in candidates
      BY <2>1 DEF IInv, CandidatesPruned
    <2>2. CASE c \notin candidates
      BY <1>1, <2>2, Basics, WorseOrder DEF Worse
    <2>. QED  BY <2>1, <2>2
  <1>. QED  BY <1>2, <1>3, <1>4, <1>5 DEF IInv

\* The tip goes back along the active chain, nothing in it is marked, and no
\* candidate comes in that sorts before it.
LEMMA BackLemma ==
    ASSUME IInv, tip' \in ChainActive,
           failedValid' \subseteq mapBlockIndex, failedChild' \subseteq mapBlockIndex,
           Path[tip'] \cap (failedValid' \cup failedChild') = {},
           candidates' \subseteq linked, \A c \in candidates' \ candidates : ~Worse(c, tip'),
           UNCHANGED <<content, index, validScripts>>,
           pc' \in [Threads -> Places],
           mostWork' \in [Threads -> Blocks \cup {NoBlock}],
           csMain' \in Threads \cup {NoThread}, unsettled' \in BOOLEAN,
           ops' \in 0 .. MaxOps, faults' \in 0 .. MaxFaults
    PROVE  IInv'
  <1>1. UNCHANGED <<badConnect, badContext, mapBlockIndex, haveData, linked, nSequenceId, unlinked,
                    validScripts>>
    BY DEF content, index
  <1>2. tip' \in linked /\ tip' \in Blocks /\ Path[tip'] \subseteq ChainActive
        /\ (tip' = tip \/ Worse(tip', tip))
    BY Basics
  <1>3. TypeOK'
    BY <1>1, <1>2 DEF IInv, TypeOK
  <1>4. IndexTree' /\ Numbered' /\ ScriptsSound'
    BY <1>1 DEF IInv, IndexTree, Numbered, ScriptsSound
  <1>5. ActiveChainValid'
    <2>1. Path[tip'] \subseteq Path[tip]
      BY <1>2 DEF ChainActive
    <2>. QED  BY <1>1, <2>1 DEF IInv, ActiveChainValid, ChainActive, Failed
  <1>6. CandidatesPruned'
    <2> SUFFICES ASSUME NEW c \in candidates' PROVE ~Worse(c, tip')
      BY <1>1 DEF CandidatesPruned, Worse
    <2>1. CASE c \in candidates
      <3>1. ~Worse(c, tip) /\ c \in Blocks /\ tip \in Blocks
        BY <2>1, Basics DEF IInv, CandidatesPruned
      <3>. QED  BY <1>2, <3>1, Basics, WorseOrder DEF Worse
    <2>. QED  BY <2>1
  <1>. QED  BY <1>3, <1>4, <1>5, <1>6 DEF IInv

\* InvalidateBlock goes back to the parent of a block of the active chain, or only
\* marks a block off it.
LEMMA InvalidateLemma ==
    ASSUME IInv, NEW t \in Threads, NEW b \in Blocks, InvalidateBlock(t, b)
    PROVE  IInv'
  <1> DEFINE walked == IF b \in ChainActive THEN ChainActive \ Path[Parent[b]] ELSE {}
             rest == candidates \ ({b} \cup walked)
  <1>1. /\ Operator(t) /\ b \in mapBlockIndex /\ b # Genesis
        /\ failedValid' = failedValid \cup {b}
        /\ failedChild' = failedChild \cup walked
        /\ tip' = IF b \in ChainActive THEN Parent[b] ELSE tip
        /\ candidates' = rest \cup {x \in linked : /\ x \notin failedValid' \cup failedChild'
                                                   /\ ~Worse(x, tip')}
        /\ UNCHANGED <<content, index, validScripts, mostWork, csMain, unsettled, faults>>
    BY DEF InvalidateBlock
  <1>2. /\ Parent[b] \in Blocks /\ Parent[b] \in Path[b] /\ b \notin Path[Parent[b]]
    BY <1>1, PathBasics
  <1>3. tip' \in ChainActive
    BY <1>1, <1>2, Basics
  <1>4. failedValid' \subseteq mapBlockIndex /\ failedChild' \subseteq mapBlockIndex
    BY <1>1, Basics DEF Failed
  <1>5. ChainActive \cap Failed = {}
    BY DEF IInv, ActiveChainValid
  <1>6. Path[tip'] \cap (failedValid' \cup failedChild') = {}
    <2>1. CASE b \in ChainActive
      <3>1. Path[Parent[b]] \subseteq ChainActive
        BY <1>2, <2>1, Basics
      <3>. QED  BY <1>1, <1>2, <1>5, <2>1, <3>1 DEF Failed
    <2>2. CASE b \notin ChainActive
      BY <1>1, <1>5, <2>2 DEF Failed, ChainActive
    <2>. QED  BY <2>1, <2>2
  <1>7. candidates' \subseteq linked /\ \A c \in candidates' \ candidates : ~Worse(c, tip')
    BY <1>1, Basics
  <1>8. /\ pc' \in [Threads -> Places]
        /\ mostWork' \in [Threads -> Blocks \cup {NoBlock}]
        /\ csMain' \in Threads \cup {NoThread} /\ unsettled' \in BOOLEAN
        /\ ops' \in 0 .. MaxOps /\ faults' \in 0 .. MaxFaults
    <2>1. TypeOK
      BY DEF IInv
    <2>. QED  BY <1>1, <2>1, OperatorLemma DEF TypeOK
  <1>. QED  BY <1>1, <1>3, <1>4, <1>6, <1>7, <1>8, BackLemma

\* DisconnectBlocksAndReprocess goes back to a block that exists.
LEMMA ReprocessLemma ==
    ASSUME IInv, NEW t \in Threads, NEW n \in ReprocessDepths, DisconnectBlocksAndReprocess(t, n)
    PROVE  IInv' /\ tip' \in ChainActive
  <1> DEFINE h == IF n < Height(tip) THEN Height(tip) - (n + 1) ELSE 0
  <1>1. /\ n \in Nat /\ tip' = CHOOSE b \in ChainActive : Height(b) = h
        /\ pc' = [pc EXCEPT ![t] = "activate"]
        /\ UNCHANGED <<content, index, validScripts, flags, candidates, mostWork, csMain, unsettled,
                       ops, faults>>
    BY BoundAssumption DEF DisconnectBlocksAndReprocess, EnterActivateBestChain
  <1>2. tip \in Blocks /\ Height(tip) \in Nat
    BY Basics, HeightLemma
  <1>3. h \in Nat /\ h <= Height(tip)
    BY <1>1, <1>2
  <1> HIDE DEF h
  <1>4. \E b \in ChainActive : Height(b) = h
    BY <1>2, <1>3, HeightOnChain DEF ChainActive
  <1>5. tip' \in ChainActive
    BY <1>1, <1>4
  <1>6. Path[tip'] \subseteq ChainActive
    BY <1>5, Basics
  <1>7. UNCHANGED <<failedValid, failedChild>>
    BY <1>1 DEF flags
  <1>8. Path[tip'] \cap (failedValid' \cup failedChild') = {}
    BY <1>6, <1>7 DEF IInv, ActiveChainValid, Failed
  <1>9. failedValid' \subseteq mapBlockIndex /\ failedChild' \subseteq mapBlockIndex
    BY <1>7, Basics DEF Failed
  <1>10. candidates' \subseteq linked /\ candidates' = candidates
    BY <1>1, Basics
  <1>11. /\ pc' \in [Threads -> Places]
         /\ mostWork' \in [Threads -> Blocks \cup {NoBlock}]
         /\ csMain' \in Threads \cup {NoThread} /\ unsettled' \in BOOLEAN
         /\ ops' \in 0 .. MaxOps /\ faults' \in 0 .. MaxFaults
    <2>1. TypeOK
      BY DEF IInv
    <2>. QED  BY <1>1, <2>1 DEF TypeOK
  <1>12. IInv'
    BY <1>1, <1>5, <1>8, <1>9, <1>10, <1>11, BackLemma
  <1>. QED  BY <1>5, <1>12

\* A turn in which FindMostWorkChain gives nothing to do.
LEMMA NothingLemma ==
    ASSUME IInv, NEW t \in Threads, ActivateNothingToDo(t)
    PROVE  IInv'
  <1> DEFINE found == FindMostWorkChain
  <1>1. /\ failedChild' = failedChild \cup found.marked /\ candidates' = found.candidates
        /\ unsettled' = FALSE /\ Return(t)
        /\ UNCHANGED <<content, index, validScripts, failedValid, tip, mostWork, ops, faults>>
    BY DEF ActivateNothingToDo
  <1>2. candidates' \subseteq candidates
    BY <1>1, FoundLemma
  <1>3. found.marked \subseteq linked /\ ChainActive \cap found.marked = {}
    <2>1. ASSUME NEW x \in found.marked PROVE x \in linked /\ x \notin ChainActive
      <3>1. x \in linked /\ \E f \in Failed \ ChainActive : f \in Path[x]
        BY MarkedLemma
      <3>. QED  BY <3>1, Basics
    <2>. QED  BY <2>1
  <1> HIDE DEF found
  <1>4. tip' \in ChainActive /\ failedValid' \subseteq mapBlockIndex
        /\ failedChild' \subseteq mapBlockIndex
    BY <1>1, <1>3, Basics DEF Failed
  <1>5. Path[tip'] \cap (failedValid' \cup failedChild') = {}
    BY <1>1, <1>3 DEF IInv, ActiveChainValid, ChainActive, Failed
  <1>6. /\ pc' \in [Threads -> Places]
        /\ mostWork' \in [Threads -> Blocks \cup {NoBlock}]
        /\ csMain' \in Threads \cup {NoThread} /\ unsettled' \in BOOLEAN
        /\ ops' \in 0 .. MaxOps /\ faults' \in 0 .. MaxFaults
    <2>1. TypeOK
      BY DEF IInv
    <2>. QED  BY <1>1, <2>1, ReturnLemma DEF TypeOK
  <1>7. candidates' \subseteq linked
    BY <1>2, Basics
  <1>. QED  BY <1>1, <1>2, <1>4, <1>5, <1>6, <1>7, BackLemma

\* A turn that moves the tip.
LEMMA TowardsLemma ==
    ASSUME IInv, NEW t \in Threads, ActivateTowards(t)
    PROVE  IInv'
  <1>1. PICK newTip, F : Moved(newTip, F)
    BY TowardsMoves
  <1>2. TypeOK /\ FindMostWorkChain.pindex \in Blocks
    BY <1>1, MovedFacts, Basics DEF IInv
  <1>3. /\ pc' \in [Threads -> Places]
        /\ mostWork' \in [Threads -> Blocks \cup {NoBlock}]
        /\ csMain' \in Threads \cup {NoThread} /\ unsettled' \in BOOLEAN
        /\ ops' \in 0 .. MaxOps /\ faults' \in 0 .. MaxFaults
    BY <1>2 DEF ActivateTowards, TypeOK
  <1>. QED  BY <1>1, <1>3, MovedLemma

\* A turn that a system error breaks off.
LEMMA FailsLemma ==
    ASSUME IInv, NEW t \in Threads, ActivateFails(t)
    PROVE  IInv'
  <1>1. PICK newTip : Moved(newTip, {})
    BY FailsMoves
  <1>2. TypeOK /\ Return(t)
    BY DEF IInv, ActivateFails
  <1>3. /\ faults < MaxFaults /\ faults' = faults + 1 /\ unsettled' = TRUE
        /\ UNCHANGED <<mostWork, ops>>
    BY DEF ActivateFails
  <1>4. /\ pc' \in [Threads -> Places]
        /\ mostWork' \in [Threads -> Blocks \cup {NoBlock}]
        /\ csMain' \in Threads \cup {NoThread} /\ unsettled' \in BOOLEAN
        /\ ops' \in 0 .. MaxOps /\ faults' \in 0 .. MaxFaults
    BY <1>2, <1>3, ReturnLemma, BoundAssumption DEF TypeOK
  <1>. QED  BY <1>1, <1>4, MovedLemma

\* The steps that touch nothing but the control.
LEMMA ControlLemma ==
    ASSUME IInv,
           UNCHANGED <<content, index, validScripts, flags, candidates, tip, unsettled, faults>>,
           ops' \in 0 .. MaxOps,
           pc' \in [Threads -> Places],
           mostWork' \in [Threads -> Blocks \cup {NoBlock}],
           csMain' \in Threads \cup {NoThread}
    PROVE  IInv'
  <1>1. UNCHANGED <<badConnect, badContext, mapBlockIndex, haveData, linked, nSequenceId, unlinked,
                    validScripts, failedValid, failedChild, candidates, tip, unsettled, faults>>
    BY DEF content, index, flags
  <1>2. TypeOK' /\ IndexTree' /\ Numbered'
    BY <1>1 DEF IInv, TypeOK, IndexTree, Numbered
  <1>3. ScriptsSound' /\ ActiveChainValid' /\ CandidatesPruned'
    BY <1>1 DEF IInv, ScriptsSound, ActiveChainValid, ChainActive, Failed, CandidatesPruned, Worse
  <1>. QED  BY <1>2, <1>3 DEF IInv

\* ProcessNewBlock, whatever becomes of the block.
LEMMA ProcessLemma ==
    ASSUME IInv, NEW t \in Threads, NEW b \in Blocks, ProcessNewBlock(t, b)
    PROVE  IInv'
  <1>0. TypeOK
    BY DEF IInv
  <1>1. CASE AcceptBlockReconsiders(t, b)
    <2>1. Parent[b] \in Blocks
      BY <1>1, Basics DEF AcceptBlockReconsiders, Deliver
    <2>2. ReconsiderBlock(Parent[b])
          /\ UNCHANGED <<content, index, validScripts, tip, mostWork, unsettled>>
      BY <1>1 DEF AcceptBlockReconsiders
    <2>3. /\ pc' \in [Threads -> Places]
          /\ csMain' \in Threads \cup {NoThread}
          /\ ops' \in 0 .. MaxOps /\ faults' \in 0 .. MaxFaults
      BY <1>0, <1>1 DEF AcceptBlockReconsiders, EnterActivateBestChain, TypeOK
    <2>. QED  BY <2>1, <2>2, <2>3, ReconsiderLemma
  <1>2. CASE AcceptBlockDuplicate(t, b)
    <2>1. /\ pc' \in [Threads -> Places]
          /\ mostWork' \in [Threads -> Blocks \cup {NoBlock}]
          /\ csMain' \in Threads \cup {NoThread} /\ ops' \in 0 .. MaxOps
      BY <1>0, <1>2 DEF AcceptBlockDuplicate, EnterActivateBestChain, TypeOK
    <2>. QED  BY <1>2, <2>1, ControlLemma DEF AcceptBlockDuplicate
  <1>3. CASE AcceptBlockInvalid(t, b)
    BY <1>3, HeaderLemma DEF AcceptBlockInvalid
  <1>4. CASE AcceptBlockRefused(t, b)
    BY <1>4, HeaderLemma DEF AcceptBlockRefused, flags
  <1>5. CASE AcceptBlock(t, b)
    BY <1>5, AcceptLemma
  <1>. QED  BY <1>1, <1>2, <1>3, <1>4, <1>5 DEF ProcessNewBlock

\* Every step keeps the invariant.
LEMMA StepLemma ==
    ASSUME IInv, [Next]_vars
    PROVE  IInv'
  <1>0. TypeOK
    BY DEF IInv
  <1>1. ASSUME NEW t \in Threads, NEW b \in Blocks, ProcessNewBlock(t, b) PROVE IInv'
    BY <1>1, ProcessLemma
  <1>2. ASSUME NEW t \in Threads, ActivateNothingToDo(t) PROVE IInv'
    BY <1>2, NothingLemma
  <1>3. ASSUME NEW t \in Threads, ActivateTowards(t) PROVE IInv'
    BY <1>3, TowardsLemma
  <1>4. ASSUME NEW t \in Threads, ActivateFails(t) PROVE IInv'
    BY <1>4, FailsLemma
  <1>5. ASSUME NEW t \in Threads, ActivateLoopTest(t) PROVE IInv'
    <2>1. /\ pc' \in [Threads -> Places]
          /\ mostWork' \in [Threads -> Blocks \cup {NoBlock}]
          /\ csMain' \in Threads \cup {NoThread} /\ ops' \in 0 .. MaxOps
      BY <1>0, <1>5, ReturnLemma DEF ActivateLoopTest, TypeOK
    <2>. QED  BY <1>5, <2>1, ControlLemma DEF ActivateLoopTest
  <1>6. ASSUME NEW t \in Threads, NEW b \in Blocks, InvalidateBlock(t, b) PROVE IInv'
    BY <1>6, InvalidateLemma
  <1>7. ASSUME NEW t \in Threads, NEW b \in Blocks, Reconsider(t, b) PROVE IInv'
    <2>1. /\ pc' \in [Threads -> Places]
          /\ csMain' \in Threads \cup {NoThread}
          /\ ops' \in 0 .. MaxOps /\ faults' \in 0 .. MaxFaults
      BY <1>0, <1>7, OperatorLemma DEF Reconsider, TypeOK
    <2>. QED  BY <1>7, <2>1, ReconsiderLemma DEF Reconsider
  <1>8. ASSUME NEW t \in Threads, NEW n \in ReprocessDepths, DisconnectBlocksAndReprocess(t, n)
        PROVE  IInv'
    BY <1>8, ReprocessLemma
  <1>9. ASSUME NEW t \in Threads, ReprocessBlocks(t) PROVE IInv'
    <2>1. /\ pc' \in [Threads -> Places] /\ ops' \in 0 .. MaxOps
          /\ mostWork' \in [Threads -> Blocks \cup {NoBlock}]
          /\ csMain' \in Threads \cup {NoThread}
      BY <1>0, <1>9, BoundAssumption DEF ReprocessBlocks, TypeOK
    <2>. QED  BY <1>9, <2>1, ControlLemma DEF ReprocessBlocks
  <1>10. ASSUME NEW t \in Threads, NEW b \in Blocks, ReprocessReconsider(t, b) PROVE IInv'
    <2>1. /\ ReconsiderBlock(b) /\ UNCHANGED <<content, index, validScripts, tip>>
          /\ UNCHANGED <<pc, mostWork, csMain, unsettled, ops, faults>>
      BY <1>10 DEF ReprocessReconsider, activation
    <2>. QED  BY <1>0, <2>1, ReconsiderLemma DEF TypeOK
  <1>11. CASE UNCHANGED vars
    <2>1. UNCHANGED <<content, index, validScripts, flags, candidates, tip, activation, ops, faults>>
      BY <1>11 DEF vars
    <2>. QED  BY <1>0, <2>1, ControlLemma DEF activation, TypeOK
  <1>. QED  BY <1>1, <1>2, <1>3, <1>4, <1>5, <1>6, <1>7, <1>8, <1>9, <1>10, <1>11 DEF Next

\* The index, the sequence ids, the connected blocks and the active chain keep
\* to IInv under every interleaving of threads, commands and system errors.
THEOREM Inductive == Spec => []IInv
  <1>1. Init => IInv
    BY InitLemma
  <1>2. IInv /\ [Next]_vars => IInv'
    BY StepLemma
  <1>. QED  BY <1>1, <1>2, PTL DEF Spec

\* CheckBlockIndex's assertions on data and links hold in every state, for any
\* block tree.
THEOREM Consistent == Spec => []IndexConsistent
  <1>1. ASSUME IInv PROVE IndexConsistent
    <2>1. TypeOK /\ unlinked = haveData \ linked /\ mapBlockIndex \subseteq Blocks
      BY <1>1 DEF IInv, IndexTree, TypeOK
    <2>2. ASSUME NEW b \in mapBlockIndex
          PROVE  /\ b \in linked <=> NoMissingAncestor(b)
                 /\ b \notin linked <=> nSequenceId[b] = 0
                 /\ \A c \in linked : nSequenceId[b] = nSequenceId[c] => b = c
                 /\ b \in validScripts => Path[b] \ {Genesis} \subseteq validScripts
                 /\ IF b \in haveData /\ ~NoMissingAncestor(b)
                    THEN NoInvalidAncestor(b) => b \in unlinked
                    ELSE b \notin unlinked
      <3>1. b \in linked <=> NoMissingAncestor(b)
        BY <1>1 DEF IInv, IndexTree, NoMissingAncestor
      <3>2. b \notin linked <=> nSequenceId[b] = 0
        BY <1>1, <2>1 DEF IInv, Numbered
      <3>3. ASSUME NEW c \in linked, nSequenceId[b] = nSequenceId[c] PROVE b = c
        <4>1. c \in Blocks
          BY <1>1, Basics
        <4>2. b \in linked
          BY <1>1, <3>2, <3>3, <4>1 DEF IInv, Numbered
        <4>. QED  BY <1>1, <3>3, <4>2 DEF IInv, Numbered
      <3>4. b \in validScripts => Path[b] \ {Genesis} \subseteq validScripts
        BY <1>1 DEF IInv, ScriptsSound
      <3>. QED  BY <2>1, <3>1, <3>2, <3>3, <3>4
    <2>. QED  BY <2>1, <2>2 DEF IndexConsistent
  <1>. QED  BY <1>1, Inductive, PTL

\* No block of the active chain is marked or breaks a rule, and all were
\* connected: what FindMostWorkChain relies on when its walk stops there.
THEOREM ActiveValid == Spec => []ActiveChainValid
  <1>1. IInv => ActiveChainValid
    BY DEF IInv
  <1>. QED  BY <1>1, Inductive, PTL

----------------------------------------------------------------------------
(* The candidates *)

\* The tip is a block that can dominate others, and a candidate or dominated.
LEMMA TipHeld ==
    ASSUME IInv, Dominated
    PROVE  /\ tip \in Eligible \cap (validScripts \cup {Genesis}) /\ tip \notin Failed
           /\ tip \notin candidates =>
                \E c \in candidates \cap Eligible \cap (validScripts \cup {Genesis}) : Worse(tip, c)
  <1>1. tip \in linked /\ tip \in ChainActive
    BY Basics
  <1>2. ChainActive \cap Failed = {} /\ ChainActive \ {Genesis} \subseteq validScripts
    BY DEF IInv, ActiveChainValid
  <1>3. tip \in Eligible \cap (validScripts \cup {Genesis}) /\ tip \notin Failed
    BY <1>1, <1>2 DEF Eligible, ChainActive
  <1>. QED  BY <1>1, <1>3 DEF Dominated

\* FindMostWorkChain neither drops an eligible candidate nor marks its path.
LEMMA KeptLemma ==
    ASSUME IInv, NEW c \in Eligible
    PROVE  /\ c \in candidates => c \in FindMostWorkChain.candidates
           /\ Path[c] \cap FindMostWorkChain.marked = {}
  <1>1. c \in linked /\ c \in Blocks /\ Path[c] \cap Failed = {}
    BY Basics DEF Eligible
  <1>2. c \in candidates => c \in FindMostWorkChain.candidates
    BY <1>1, FoundLemma DEF Unusable
  <1>3. ASSUME NEW x \in Path[c], x \in FindMostWorkChain.marked PROVE FALSE
    <2>1. PICK f \in Failed : f \in Path[x]
      BY <1>3, MarkedLemma
    <2>2. f \in Path[c]
      BY <1>1, <2>1, PathBasics
    <2>. QED  BY <1>1, <2>2
  <1>. QED  BY <1>2, <1>3

\* FindMostWorkChain marks only below blocks that are marked already.
LEMMA MaskGrows ==
    ASSUME IInv, FailedMaskSound, NEW F, failedValid' = failedValid \cup F,
           failedChild' = failedChild \cup FindMostWorkChain.marked, UNCHANGED mapBlockIndex
    PROVE  FailedMaskSound'
  <1> SUFFICES ASSUME NEW b \in mapBlockIndex, Path[b] \cap (failedValid \cup F) = {},
                      b \in failedValid' \cup failedChild'
               PROVE  FALSE
    BY DEF FailedMaskSound, NoInvalidAncestor, Failed
  <1>1. b \in Blocks /\ b \in Path[b]
    BY Basics, PathBasics
  <1>2. b \notin Failed
    BY DEF FailedMaskSound, NoInvalidAncestor
  <1>3. b \in FindMostWorkChain.marked
    BY <1>1, <1>2 DEF Failed
  <1>4. PICK f \in Failed : f \in Path[b]
    BY <1>3, MarkedLemma
  <1>5. f \in mapBlockIndex /\ Path[f] \subseteq Path[b]
    BY <1>1, <1>4, Basics, PathBasics
  <1>6. Path[f] \cap failedValid # {}
    BY <1>4, <1>5 DEF FailedMaskSound, NoInvalidAncestor
  <1>. QED  BY <1>5, <1>6

\* Moving the tip keeps every unmarked block dominated.
LEMMA MovedDominated ==
    ASSUME IInv, Dominated, NEW newTip, NEW F, Moved(newTip, F)
    PROVE  Dominated'
  <1> DEFINE found == FindMostWorkChain
             top == candidates \cap Eligible \cap (validScripts \cup {Genesis})
             topNew == candidates' \cap Eligible' \cap (validScripts' \cup {Genesis})
  <1>1. /\ newTip \in linked /\ newTip \in Blocks
        /\ F \cap (validScripts \cup {Genesis}) = {}
        /\ Path[newTip] \cap (Failed \cup found.marked \cup F) = {}
    BY MovedFacts
  <1>2. /\ Failed' = Failed \cup found.marked \cup F
        /\ candidates' = (IF newTip \in ChainActive THEN found.candidates
                          ELSE Prune(found.candidates, newTip)) \ F
        /\ validScripts' = validScripts \cup (Path[newTip] \ ChainActive)
        /\ UNCHANGED <<linked, nSequenceId>>
    BY DEF Moved, Failed, index
  <1>3. \A x, y : Worse(x, y)' <=> Worse(x, y)
    BY <1>2 DEF Worse, WorseIn
  <1>4. Eligible' = {x \in linked : Path[x] \cap Failed' = {}}
    BY <1>2 DEF Eligible
  <1>5. ASSUME NEW c \in top PROVE c \in topNew \/ (newTip \notin ChainActive /\ Worse(c, newTip))
    <2>1. c \in found.candidates /\ Path[c] \cap found.marked = {} /\ c \in linked
          /\ Path[c] \cap Failed = {} /\ c \in Path[c]
      BY KeptLemma, Basics, PathBasics DEF Eligible
    <2>2. Path[c] \subseteq validScripts \cup {Genesis}
      BY TreeAssumption DEF IInv, ScriptsSound
    <2>3. Path[c] \cap F = {}
      BY <1>1, <2>2
    <2>4. c \in Eligible' /\ c \in validScripts' \cup {Genesis}
      BY <1>2, <1>4, <2>1, <2>3
    <2>5. c \in candidates' \/ (newTip \notin ChainActive /\ Worse(c, newTip))
      BY <1>2, <2>1, <2>3 DEF Prune
    <2>. QED  BY <2>4, <2>5
  <1>6. newTip \in Eligible /\ newTip \in Eligible' /\ newTip \in validScripts' \cup {Genesis}
    <2>1. newTip \in Path[newTip] /\ ChainActive \ {Genesis} \subseteq validScripts
      BY <1>1, PathBasics DEF IInv, ActiveChainValid
    <2>. QED  BY <1>1, <1>2, <1>4, <2>1 DEF Eligible
  <1>7. ASSUME newTip \notin ChainActive
        PROVE  newTip \in topNew \/ \E c \in topNew : Worse(newTip, c)
    <2>1. CASE newTip \in candidates
      <3>1. newTip \in found.candidates /\ ~Worse(newTip, newTip) /\ newTip \notin F
        BY <1>1, <1>6, <2>1, KeptLemma, Basics, WorseOrder, PathBasics DEF Worse
      <3>2. newTip \in candidates'
        BY <1>2, <1>7, <3>1 DEF Prune
      <3>. QED  BY <1>6, <3>2
    <2>2. CASE newTip \notin candidates
      <3>1. newTip \in linked \ (Failed \cup candidates)
        BY <1>1, <2>2, PathBasics
      <3>2. PICK c \in top : Worse(newTip, c)
        BY <3>1 DEF Dominated
      <3>3. c \in Blocks /\ ~Worse(c, newTip)
        BY <1>1, <3>2, Basics, WorseOrder DEF Worse
      <3>. QED  BY <1>5, <3>2, <3>3
    <2>. QED  BY <2>1, <2>2
  <1>8. ASSUME NEW b \in linked, newTip \notin ChainActive, Worse(b, newTip)
        PROVE  \E c \in topNew : Worse(b, c)
    <2>1. CASE newTip \in topNew
      BY <1>8, <2>1
    <2>2. ASSUME NEW c \in topNew, Worse(newTip, c) PROVE Worse(b, c)
      <3>1. c \in linked /\ c \in Blocks /\ b \in Blocks
        BY <1>4, Basics
      <3>. QED  BY <1>1, <1>8, <2>2, <3>1, Basics, WorseOrder DEF Worse
    <2>. QED  BY <1>7, <1>8, <2>1, <2>2
  <1>9. ASSUME NEW b \in linked \ (Failed' \cup candidates')
        PROVE  \E c \in topNew : Worse(b, c)
    <2>1. CASE b \in candidates
      <3>1. b \in found.candidates
        BY <1>2, <1>9, <2>1, FoundLemma
      <3>2. newTip \notin ChainActive /\ Worse(b, newTip)
        BY <1>2, <1>9, <3>1 DEF Prune
      <3>. QED  BY <1>8, <3>2
    <2>2. CASE b \notin candidates
      <3>1. b \in linked \ (Failed \cup candidates)
        BY <1>2, <1>9, <2>2
      <3>2. PICK c \in top : Worse(b, c)
        BY <3>1 DEF Dominated
      <3>3. CASE c \in topNew
        BY <3>2, <3>3
      <3>4. CASE newTip \notin ChainActive /\ Worse(c, newTip)
        <4>1. b \in Blocks /\ c \in Blocks
          BY <3>2, Basics
        <4>2. Worse(b, newTip)
          BY <1>1, <3>2, <3>4, <4>1, Basics, WorseOrder DEF Worse
        <4>. QED  BY <1>8, <3>4, <4>2
      <3>. QED  BY <1>5, <3>3, <3>4
    <2>. QED  BY <2>1, <2>2
  <1>. QED  BY <1>2, <1>3, <1>9 DEF Dominated

\* Nothing to do: the marks fall on unusable candidates only, and what remains of
\* the candidates is the tip.
LEMMA NothingJ ==
    ASSUME IInv, JInv, NEW t \in Threads, ActivateNothingToDo(t)
    PROVE  JInv'
  <1> DEFINE found == FindMostWorkChain
             top == candidates \cap Eligible \cap (validScripts \cup {Genesis})
  <1>1. /\ found.pindex \in {NoBlock, tip}
        /\ failedChild' = failedChild \cup found.marked /\ candidates' = found.candidates
        /\ UNCHANGED <<mapBlockIndex, linked, nSequenceId, validScripts, failedValid, tip>>
    BY DEF ActivateNothingToDo, index
  <1>2. FailedMaskSound'
    <2>1. failedValid' = failedValid \cup {}
      BY <1>1
    <2>. QED  BY <1>1, <2>1, MaskGrows DEF JInv
  <1>3. Dominated'
    <2>1. Failed' = Failed \cup found.marked /\ Eligible' = {x \in linked : Path[x] \cap Failed' = {}}
      BY <1>1 DEF Failed, Eligible
    <2>2. ASSUME NEW c \in top
          PROVE  c \in candidates' \cap Eligible' \cap (validScripts' \cup {Genesis})
      <3>1. c \in found.candidates /\ Path[c] \cap found.marked = {}
        BY KeptLemma
      <3>. QED  BY <1>1, <2>1, <3>1 DEF Eligible
    <2>3. ASSUME NEW b \in linked \ (Failed' \cup candidates')
          PROVE  \E c \in top : Worse(b, c)
      <3>1. b \notin candidates
        BY <1>1, <2>1, FoundLemma
      <3>. QED  BY <2>1, <3>1 DEF JInv, Dominated
    <2>4. \A x, y : Worse(x, y)' <=> Worse(x, y)
      BY <1>1 DEF Worse, WorseIn
    <2>. QED  BY <1>1, <2>2, <2>3, <2>4 DEF Dominated
  <1>4. candidates' = {tip}
    <2>1. PICK c \in candidates : c \in Eligible
      BY TipHeld DEF JInv
    <2>2. found.candidates # {} /\ NoBlock \notin Blocks /\ found.candidates \subseteq candidates
      BY <2>1, KeptLemma, FoundLemma, TreeAssumption
    <2>3. /\ found.pindex \in found.candidates
          /\ \A d \in found.candidates : d = found.pindex \/ Worse(d, found.pindex)
      BY <2>2, FoundLemma
    <2>4. found.pindex = tip
      BY <1>1, <2>2, <2>3, Basics
    <2>5. \A d \in found.candidates : d = tip
      BY <2>2, <2>3, <2>4 DEF IInv, CandidatesPruned
    <2>. QED  BY <1>1, <2>3, <2>4, <2>5
  <1>. QED  BY <1>1, <1>2, <1>3, <1>4 DEF JInv, Quiet

\* A step that reaches its target leaves it as the only candidate; one that stops
\* short loops.
LEMMA TowardsJ ==
    ASSUME IInv, JInv, NEW t \in Threads, ActivateTowards(t)
    PROVE  JInv'
  <1> DEFINE p == FindMostWorkChain.pindex
  <1>1. PICK newTip, F : Moved(newTip, F)
    BY TowardsMoves
  <1>2. FailedMaskSound' /\ Dominated'
    BY <1>1, MaskGrows, MovedDominated DEF JInv, Moved, index
  <1>3. pc'[t] = "loop" /\ mostWork'[t] = p
    BY DEF ActivateTowards, IInv, TypeOK
  <1>4. CASE tip' # p
    BY <1>2, <1>3, <1>4 DEF JInv, Quiet, Busy
  <1>5. CASE tip' = p
    <2>1. newTip = p /\ p \notin ChainActive /\ p \in FindMostWorkChain.candidates /\ p \in Blocks
      BY <1>1, <1>5, MovedFacts, Basics DEF Moved
    <2>2. F = {}
      BY <1>1, <2>1 DEF Moved
    <2>3. candidates' = {c \in FindMostWorkChain.candidates : ~Worse(c, p)}
      BY <1>1, <2>1, <2>2 DEF Moved, Prune
    <2>4. \A d \in FindMostWorkChain.candidates : d = p \/ Worse(d, p)
      BY <2>1, FoundLemma
    <2>5. ~Worse(p, p)
      BY <2>1, Basics, WorseOrder DEF Worse
    <2>6. candidates' = {tip'}
      BY <1>5, <2>1, <2>3, <2>4, <2>5
    <2>. QED  BY <1>2, <2>6 DEF JInv, Quiet
  <1>. QED  BY <1>4, <1>5

\* A step that is broken off leaves the call unsettled.
LEMMA FailsJ ==
    ASSUME IInv, JInv, NEW t \in Threads, ActivateFails(t)
    PROVE  JInv'
  <1>1. PICK newTip : Moved(newTip, {})
    BY FailsMoves
  <1>2. FailedMaskSound' /\ Dominated'
    BY <1>1, MaskGrows, MovedDominated DEF JInv, Moved, index
  <1>3. unsettled'
    BY DEF ActivateFails
  <1>. QED  BY <1>2, <1>3 DEF JInv, Quiet

\* A new block that is no candidate is worse than the tip.
LEMMA AcceptJ ==
    ASSUME IInv, JInv, NEW t \in Threads, NEW b \in Blocks, AcceptBlock(t, b)
    PROVE  JInv'
  <1> DEFINE top == candidates \cap Eligible \cap (validScripts \cup {Genesis})
  <1>1. /\ b # Genesis /\ Parent[b] \in mapBlockIndex /\ b \notin Failed /\ b \notin haveData
        /\ mapBlockIndex' = mapBlockIndex \cup {b}
        /\ UNCHANGED <<validScripts, failedValid, failedChild, tip>>
        /\ pc'[t] = "activate"
    BY DEF AcceptBlock, NewData, Deliver, AddToBlockIndex, EnterActivateBestChain, flags,
           IInv, TypeOK
  <1>2. FailedMaskSound'
    BY <1>1 DEF JInv, FailedMaskSound, NoInvalidAncestor, Failed
  <1>3. Quiet'
    BY <1>1 DEF Quiet, Busy
  <1>4. Dominated'
    <2>1. CASE Parent[b] \in linked
      <3> DEFINE L == LinkedBy(b)
      <3>1. PICK ids \in SequenceIds(L) :
              /\ linked' = linked \cup L
              /\ nSequenceId' = [x \in Blocks |-> IF x \in L THEN ids[x] ELSE nSequenceId[x]]
              /\ candidates' = candidates \cup {x \in L : ~WorseIn(nSequenceId', x, tip)}
        BY <2>1 DEF AcceptBlock, ReceivedBlockTransactions
      <3>2. L \in SUBSET Blocks /\ L \cap linked = {}
        BY <1>1, <2>1, LinkedByLemma
      <3> HIDE DEF L
      <3>3. \A x \in linked : nSequenceId'[x] = nSequenceId[x]
        BY <3>1, <3>2, NumbersLemma
      <3>4. \A x, y \in linked : Worse(x, y) => Worse(x, y)'
        BY <3>3 DEF Worse, WorseIn
      <3>5. ASSUME NEW c \in top PROVE c \in candidates' \cap Eligible' \cap (validScripts' \cup {Genesis})
        BY <1>1, <3>1 DEF Eligible, Failed
      <3>6. ASSUME NEW x \in L, x \notin candidates' PROVE Worse(x, tip)'
        BY <1>1, <3>1, <3>6 DEF Worse
      <3>7. nSequenceId' \in [Blocks -> Nat]
        <4>1. IInv'
          BY AcceptLemma
        <4>2. nSequenceId' \in [Blocks -> 0 .. Cardinality(Blocks)]
          BY <4>1 DEF IInv, TypeOK
        <4>3. Cardinality(Blocks) \in Nat
          BY FS_CardinalityType, TreeAssumption
        <4>. QED  BY <4>2, <4>3
      <3>8. ASSUME NEW x \in linked' \ (Failed' \cup candidates')
            PROVE  \E c \in candidates' \cap Eligible' \cap (validScripts' \cup {Genesis}) : Worse(x, c)'
        <4>1. CASE x \in linked
          <5>1. x \notin Failed \cup candidates
            BY <1>1, <3>1, <3>8 DEF Failed
          <5>2. PICK c \in top : Worse(x, c)
            BY <4>1, <5>1 DEF JInv, Dominated
          <5>3. c \in linked
            BY Basics
          <5>. QED  BY <3>4, <3>5, <4>1, <5>2, <5>3
        <4>2. CASE x \in L
          <5>1. Worse(x, tip)' /\ tip \in linked /\ tip \in Blocks /\ x \in Blocks
            BY <3>2, <3>6, <3>8, <4>2, Basics
          <5>2. tip \in Eligible \cap (validScripts \cup {Genesis})
            BY TipHeld DEF JInv
          <5>3. CASE tip \in candidates
            BY <1>1, <3>5, <5>1, <5>2, <5>3 DEF Worse
          <5>4. CASE tip \notin candidates
            <6>1. PICK c \in top : Worse(tip, c)
              BY <5>4, TipHeld DEF JInv
            <6>2. WorseIn(nSequenceId', tip, c) /\ c \in Blocks
              <7>1. c \in linked /\ c \in Blocks
                BY Basics
              <7>. QED  BY <3>4, <5>1, <6>1, <7>1 DEF Worse
            <6>3. Worse(x, c)'
              BY <1>1, <3>7, <5>1, <6>2, WorseOrder DEF Worse
            <6>. QED  BY <3>5, <6>3
          <5>. QED  BY <5>3, <5>4
        <4>. QED  BY <3>1, <3>8, <4>1, <4>2
      <3>. QED  BY <3>8 DEF Dominated
    <2>2. CASE Parent[b] \notin linked
      <3>1. UNCHANGED <<linked, nSequenceId, candidates>>
        BY <2>2 DEF AcceptBlock, ReceivedBlockTransactions
      <3>. QED  BY <1>1, <3>1 DEF JInv, Dominated, Eligible, Failed, Worse, WorseIn
    <2>. QED  BY <2>1, <2>2
  <1>. QED  BY <1>2, <1>3, <1>4 DEF JInv

\* A header without data is no candidate and in the way of no linked block.
LEMMA HeaderJ ==
    ASSUME IInv, JInv, NEW t \in Threads, NEW b \in Blocks, NewData(t, b), AddToBlockIndex(b),
           failedValid' \in {failedValid, failedValid \cup {b}},
           UNCHANGED <<content, haveData, linked, nSequenceId, unlinked, validScripts, failedChild,
                       candidates, tip, activation, ops, faults>>
    PROVE  JInv'
  <1>1. /\ b \notin haveData /\ b \notin Failed /\ mapBlockIndex' = mapBlockIndex \cup {b}
        /\ UNCHANGED <<linked, nSequenceId, validScripts, failedChild, candidates, tip,
                       pc, mostWork, unsettled>>
    BY DEF NewData, AddToBlockIndex, activation
  <1>2. b \in Path[b]
    BY PathBasics
  <1>3. FailedMaskSound'
    BY <1>1, <1>2 DEF JInv, FailedMaskSound, NoInvalidAncestor, Failed
  <1>4. Failed \subseteq Failed' /\ Failed' \subseteq Failed \cup {b}
    BY <1>1 DEF Failed
  <1>5. \A x \in linked : b \notin Path[x]
    BY <1>1, Basics
  <1>6. Eligible' = Eligible
    BY <1>1, <1>4, <1>5 DEF Eligible
  <1>7. Dominated'
    BY <1>1, <1>4, <1>6 DEF JInv, Dominated, Worse, WorseIn
  <1>8. Quiet'
    BY <1>1 DEF JInv, Quiet, Busy
  <1>. QED  BY <1>3, <1>7, <1>8 DEF JInv

\* ReconsiderBlock on a block without a failed ancestor takes away the marks of
\* its descendants and no others, and offers those that beat the tip.
LEMMA ReconsiderJ ==
    ASSUME IInv, JInv, NEW b \in Blocks, ReconsiderBlock(b), (Path[b] \ {b}) \cap Failed = {},
           UNCHANGED <<content, index, validScripts, tip>>,
           NEW t \in Threads, pc'[t] \in {"activate", "reprocess"}
    PROVE  JInv'
  <1> DEFINE descendants == {x \in mapBlockIndex : b \in Path[x]}
             top == candidates \cap Eligible \cap (validScripts \cup {Genesis})
  <1>1. /\ failedValid' = failedValid \ (descendants \cup Path[b])
        /\ failedChild' = failedChild \ (descendants \cup Path[b])
        /\ candidates' = candidates \cup
              {x \in descendants : x \in Failed /\ x \in linked /\ Worse(tip, x)}
        /\ UNCHANGED <<mapBlockIndex, linked, nSequenceId, validScripts, tip>>
    BY DEF ReconsiderBlock, index
  <1>2. Failed \subseteq mapBlockIndex /\ mapBlockIndex \subseteq Blocks
    BY Basics
  <1>3. Failed' = Failed \ descendants
    <2>1. \A x \in Failed : x \in Path[b] => x \in descendants
      BY <1>2, PathBasics
    <2>. QED  BY <1>1, <2>1 DEF Failed
  <1>4. FailedMaskSound'
    <2> SUFFICES ASSUME NEW x \in mapBlockIndex, x \in Failed' PROVE Path[x] \cap failedValid' # {}
      BY <1>1 DEF FailedMaskSound, NoInvalidAncestor
    <2>1. x \in Failed /\ b \notin Path[x] /\ x \in Blocks
      BY <1>2, <1>3
    <2>2. PICK f \in failedValid : f \in Path[x]
      BY <2>1 DEF JInv, FailedMaskSound, NoInvalidAncestor
    <2>3. f \in Blocks /\ Path[f] \subseteq Path[x] /\ f \in Failed
      BY <2>1, <2>2, PathBasics DEF Failed
    <2>4. f \notin descendants
      BY <2>1, <2>3
    <2>5. f \notin Path[b]
      <3>1. f # b
        BY <2>3, <2>1, PathBasics
      <3>. QED  BY <2>3, <3>1
    <2>. QED  BY <1>1, <2>2, <2>4, <2>5
  <1>5. Dominated'
    <2>1. ASSUME NEW c \in top PROVE c \in candidates' \cap Eligible' \cap (validScripts' \cup {Genesis})
      BY <1>1, <1>3 DEF Eligible
    <2>2. \A x, y : Worse(x, y)' <=> Worse(x, y)
      BY <1>1 DEF Worse, WorseIn
    <2>3. ASSUME NEW x \in linked \ (Failed' \cup candidates')
          PROVE  \E c \in top : Worse(x, c)
      <3>1. CASE x \notin Failed
        BY <1>1, <3>1 DEF JInv, Dominated
      <3>2. CASE x \in Failed
        <4>1. x \in descendants /\ ~Worse(tip, x)
          BY <1>1, <1>3, <2>3, <3>2
        <4>2. tip \in Eligible \cap (validScripts \cup {Genesis}) /\ tip \notin Failed
          BY TipHeld DEF JInv
        <4>3. x # tip /\ x \in linked /\ tip \in linked /\ x \in Blocks /\ tip \in Blocks
          BY <3>2, <4>2, Basics
        <4>4. Worse(x, tip)
          BY <4>1, <4>3, Basics, WorseOrder DEF Worse
        <4>5. CASE tip \in candidates
          BY <4>2, <4>4, <4>5
        <4>6. CASE tip \notin candidates
          <5>1. PICK c \in top : Worse(tip, c)
            BY <4>6, TipHeld DEF JInv
          <5>2. c \in Blocks
            BY Basics
          <5>3. Worse(x, c)
            BY <4>3, <4>4, <5>1, <5>2, Basics, WorseOrder DEF Worse
          <5>. QED  BY <5>3
        <4>. QED  BY <4>5, <4>6
      <3>. QED  BY <3>1, <3>2
    <2>. QED  BY <1>1, <2>1, <2>2, <2>3 DEF Dominated
  <1>6. Quiet'
    BY DEF Quiet, Busy
  <1>. QED  BY <1>4, <1>5, <1>6 DEF JInv

\* InvalidateBlock marks only b and what is above it, and fills the candidates
\* again: the new tip is one of them and dominates the rest.
LEMMA InvalidateJ ==
    ASSUME IInv, JInv, NEW t \in Threads, NEW b \in Blocks, InvalidateBlock(t, b)
    PROVE  JInv'
  <1> DEFINE walked == IF b \in ChainActive THEN ChainActive \ Path[Parent[b]] ELSE {}
  <1>1. /\ Operator(t) /\ b \in mapBlockIndex /\ b # Genesis
        /\ failedValid' = failedValid \cup {b}
        /\ failedChild' = failedChild \cup walked
        /\ tip' = IF b \in ChainActive THEN Parent[b] ELSE tip
        /\ {x \in linked : x \notin failedValid' \cup failedChild' /\ ~Worse(x, tip')}
              \subseteq candidates'
        /\ UNCHANGED <<mapBlockIndex, linked, nSequenceId, validScripts, faults>>
    BY DEF InvalidateBlock, index
  <1>2. FailedMaskSound'
    <2>1. ASSUME NEW x \in walked PROVE b \in Path[x]
      <3>1. b \in ChainActive /\ x \in ChainActive /\ x \notin Path[Parent[b]]
        OBVIOUS
      <3>2. b \in Path[x] \/ x \in Path[b]
        BY <3>1, Basics, Comparable DEF ChainActive
      <3>3. x \in Path[b] => x = b
        BY <1>1, <3>1, PathBasics
      <3>. QED  BY <3>2, <3>3, PathBasics
    <2> HIDE DEF walked
    <2>2. \A x \in mapBlockIndex : x \in Path[x]
      BY Basics, PathBasics
    <2>. QED  BY <1>1, <2>1, <2>2 DEF JInv, FailedMaskSound, NoInvalidAncestor, Failed
  <1>3. IInv'
    BY InvalidateLemma
  <1>4. /\ tip' \in linked /\ Path[tip'] \cap Failed' = {} /\ tip' \in Path[tip']
        /\ Path[tip'] \ {Genesis} \subseteq validScripts'
    <2>1. ChainActive' = Path[tip']
      BY DEF ChainActive
    <2>2. tip' \in linked' /\ tip' \in Blocks
      BY <1>3 DEF IInv, TypeOK
    <2>3. tip' \in Path[tip']
      BY <2>2, PathBasics
    <2>. QED  BY <1>1, <1>3, <2>1, <2>2, <2>3 DEF IInv, ActiveChainValid
  <1>5. tip' \in candidates' \cap Eligible' \cap (validScripts' \cup {Genesis})
    <2>1. ~Worse(tip', tip')
      BY <1>4, Basics, WorseOrder DEF Worse
    <2>. QED  BY <1>1, <1>4, <2>1 DEF Eligible, Failed
  <1>6. Dominated'
    <2> SUFFICES ASSUME NEW x \in linked \ (Failed' \cup candidates')
                 PROVE  WorseIn(nSequenceId', x, tip')
      BY <1>1, <1>5 DEF Dominated, Worse
    <2>. QED  BY <1>1 DEF Failed, Worse
  <1>7. Quiet'
    <2>1. pc'[t] = "activate"
      BY <1>1, OperatorLemma DEF IInv
    <2>. QED  BY <2>1 DEF Quiet, Busy
  <1>. QED  BY <1>2, <1>6, <1>7 DEF JInv

\* Steps that leave the index, the marks and the candidates alone.
LEMMA QuietJ ==
    ASSUME IInv, JInv, Quiet', UNCHANGED <<content, index, validScripts, flags, candidates>>
    PROVE  JInv'
  <1>1. UNCHANGED <<mapBlockIndex, linked, nSequenceId, validScripts, failedValid, failedChild,
                    candidates>>
    BY DEF index, flags
  <1>2. FailedMaskSound' /\ Dominated'
    BY <1>1 DEF JInv, FailedMaskSound, NoInvalidAncestor, Failed, Dominated, Eligible, Worse, WorseIn
  <1>. QED  BY <1>2 DEF JInv

\* ProcessNewBlock, whatever becomes of the block.
LEMMA ProcessJ ==
    ASSUME IInv, JInv, CheckpointsShallow, NEW t \in Threads, NEW b \in Blocks,
           ProcessNewBlock(t, b)
    PROVE  JInv'
  <1>0. pc \in [Threads -> Places]
    BY DEF IInv, TypeOK
  <1>1. CASE AcceptBlockReconsiders(t, b)
    <2>1. /\ Parent[b] \in Blocks /\ Parent[b] \in Checkpointed \cap Failed
          /\ ReconsiderBlock(Parent[b]) /\ UNCHANGED <<content, index, validScripts, tip>>
          /\ pc'[t] = "activate"
      BY <1>0, <1>1, Basics DEF AcceptBlockReconsiders, Deliver, EnterActivateBestChain
    <2>2. (Path[Parent[b]] \ {Parent[b]}) \cap Failed = {}
      BY <2>1 DEF CheckpointsShallow
    <2>. QED  BY <2>1, <2>2, ReconsiderJ
  <1>2. CASE AcceptBlockDuplicate(t, b)
    <2>1. pc'[t] = "activate"
          /\ UNCHANGED <<content, index, validScripts, flags, candidates>>
      BY <1>0, <1>2 DEF AcceptBlockDuplicate, EnterActivateBestChain
    <2>. QED  BY <2>1, QuietJ DEF Quiet, Busy
  <1>3. CASE AcceptBlockInvalid(t, b)
    BY <1>3, HeaderJ DEF AcceptBlockInvalid
  <1>4. CASE AcceptBlockRefused(t, b)
    BY <1>4, HeaderJ DEF AcceptBlockRefused, flags
  <1>5. CASE AcceptBlock(t, b)
    BY <1>5, AcceptJ
  <1>. QED  BY <1>1, <1>2, <1>3, <1>4, <1>5 DEF ProcessNewBlock

\* Every step keeps the invariant of the candidates.
LEMMA StepJ ==
    ASSUME ~DeepReconsider, IInv, JInv, CheckpointsShallow, [Next]_vars
    PROVE  JInv'
  <1>0. /\ TypeOK /\ pc \in [Threads -> Places]
        /\ mostWork \in [Threads -> Blocks \cup {NoBlock}]
    BY DEF IInv, TypeOK
  <1>1. ASSUME NEW t \in Threads, NEW b \in Blocks, ProcessNewBlock(t, b) PROVE JInv'
    BY <1>1, ProcessJ
  <1>2. ASSUME NEW t \in Threads, ActivateNothingToDo(t) PROVE JInv'
    BY <1>2, NothingJ
  <1>3. ASSUME NEW t \in Threads, ActivateTowards(t) PROVE JInv'
    BY <1>3, TowardsJ
  <1>4. ASSUME NEW t \in Threads, ActivateFails(t) PROVE JInv'
    BY <1>4, FailsJ
  <1>5. ASSUME NEW t \in Threads, ActivateLoopTest(t) PROVE JInv'
    <2>1. /\ UNCHANGED <<content, index, validScripts, flags, candidates, tip, unsettled>>
          /\ pc[t] = "loop" /\ \A u \in Threads \ {t} : mostWork'[u] = mostWork[u]
      BY <1>0, <1>5 DEF ActivateLoopTest
    <2>2. CASE mostWork[t] = tip
      <3>1. \A u \in Threads \ {t} : pc'[u] = pc[u]
        BY <1>0, <1>5, <2>2, ReturnLemma DEF ActivateLoopTest
      <3>2. Quiet'
        BY <2>1, <2>2, <3>1 DEF JInv, Quiet, Busy
      <3>. QED  BY <2>1, <3>2, QuietJ
    <2>3. CASE mostWork[t] # tip
      <3>1. pc'[t] = "activate"
        BY <1>0, <1>5, <2>3 DEF ActivateLoopTest
      <3>. QED  BY <2>1, <3>1, QuietJ DEF Quiet, Busy
    <2>. QED  BY <2>2, <2>3
  <1>6. ASSUME NEW t \in Threads, NEW b \in Blocks, InvalidateBlock(t, b) PROVE JInv'
    BY <1>6, InvalidateJ
  <1>7. ASSUME NEW t \in Threads, NEW b \in Blocks, Reconsider(t, b) PROVE JInv'
    <2>1. /\ Operator(t) /\ UNCHANGED faults
          /\ ReconsiderBlock(b) /\ (Path[b] \ {b}) \cap Failed = {}
          /\ UNCHANGED <<content, index, validScripts, tip>>
      BY <1>7 DEF Reconsider, Reconsiderable
    <2>2. pc'[t] = "activate"
      BY <1>0, <2>1, OperatorLemma
    <2>. QED  BY <2>1, <2>2, ReconsiderJ
  <1>8. ASSUME NEW t \in Threads, NEW n \in ReprocessDepths, DisconnectBlocksAndReprocess(t, n)
        PROVE  JInv'
    <2>1. /\ UNCHANGED <<content, index, validScripts, flags, candidates>>
          /\ pc'[t] = "activate"
      BY <1>0, <1>8 DEF DisconnectBlocksAndReprocess, EnterActivateBestChain
    <2>. QED  BY <2>1, QuietJ DEF Quiet, Busy
  <1>9. ASSUME NEW t \in Threads, ReprocessBlocks(t) PROVE JInv'
    <2>1. /\ UNCHANGED <<content, index, validScripts, flags, candidates>>
          /\ pc'[t] = "reprocess"
      BY <1>0, <1>9 DEF ReprocessBlocks
    <2>. QED  BY <2>1, QuietJ DEF Quiet, Busy
  <1>10. ASSUME NEW t \in Threads, NEW b \in Blocks, ReprocessReconsider(t, b) PROVE JInv'
    <2>1. /\ ReconsiderBlock(b) /\ (Path[b] \ {b}) \cap Failed = {}
          /\ UNCHANGED <<content, index, validScripts, tip>>
          /\ pc'[t] = "reprocess"
      BY <1>10 DEF ReprocessReconsider, Reconsiderable, activation
    <2>. QED  BY <2>1, ReconsiderJ
  <1>11. CASE UNCHANGED vars
    <2>1. UNCHANGED <<content, index, validScripts, flags, candidates, tip, pc, mostWork, unsettled>>
      BY <1>11 DEF vars, activation
    <2>. QED  BY <2>1, QuietJ DEF JInv, Quiet, Busy
  <1>. QED  BY <1>1, <1>2, <1>3, <1>4, <1>5, <1>6, <1>7, <1>8, <1>9, <1>10, <1>11 DEF Next

\* As long as nothing is reconsidered below a failed ancestor, every unmarked
\* block is a candidate or dominated by one, and either the tip is the only
\* candidate, a thread is bound to look again, or the last call failed.
THEOREM InductiveCandidates ==
    ASSUME ~DeepReconsider
    PROVE  Spec /\ []CheckpointsShallow => []JInv
  <1>1. Init => JInv
    <2> SUFFICES ASSUME Init PROVE JInv
      OBVIOUS
    <2>. QED  BY DEF Init, JInv, FailedMaskSound, Failed, Dominated, Quiet
  <1>2. IInv /\ CheckpointsShallow /\ JInv /\ [Next]_vars => JInv'
    BY StepJ
  <1>. QED  BY <1>1, <1>2, Inductive, PTL DEF Spec

\* A block is kept out only because it or an ancestor broke a rule or was
\* invalidated ("The failed mask cannot be set for blocks without invalid
\* parents", CheckBlockIndex).
THEOREM MaskSound ==
    ASSUME ~DeepReconsider
    PROVE  Spec /\ []CheckpointsShallow => []FailedMaskSound
  <1>1. JInv => FailedMaskSound
    BY DEF JInv
  <1>. QED  BY <1>1, InductiveCandidates, PTL

\* setBlockIndexCandidates never loses the best eligible block, also in the
\* middle of an activation.
THEOREM BestKept ==
    ASSUME ~DeepReconsider
    PROVE  Spec /\ []CheckpointsShallow => []BestIsCandidate
  <1>1. ASSUME JInv, IInv PROVE BestIsCandidate
    <2> SUFFICES ASSUME NEW b \in Eligible, \A c \in Eligible : ~Worse(b, c), b \notin candidates
                 PROVE  FALSE
      BY DEF BestIsCandidate
    <2>1. b \in linked /\ b \notin Failed
      BY <1>1, Basics, PathBasics DEF Eligible
    <2>. QED  BY <1>1, <2>1 DEF JInv, Dominated
  <1>. QED  BY <1>1, Inductive, InductiveCandidates, PTL

\* With no call under way and none failed, the tip is the only candidate.
LEMMA RestLemma ==
    ASSUME JInv, AtRest
    PROVE  candidates = {tip}
  BY DEF JInv, Quiet, Busy, AtRest

\* At rest the candidates are exactly the valid blocks that sort at least as well
\* as the tip (CheckBlockIndex).
THEOREM CandidatesExact ==
    ASSUME ~DeepReconsider
    PROVE  Spec /\ []CheckpointsShallow => []CandidatesExactAtRest
  <1>1. ASSUME JInv, IInv PROVE CandidatesExactAtRest
    <2> SUFFICES ASSUME AtRest, NEW b \in mapBlockIndex
                 PROVE  IF b \in linked /\ ~Worse(b, tip)
                        THEN NoInvalidAncestor(b) => b \in candidates
                        ELSE b \notin candidates
      BY DEF CandidatesExactAtRest
    <2>1. candidates = {tip}
      BY <1>1, RestLemma
    <2>2. ~Worse(tip, tip) /\ tip \in linked
      BY <1>1, Basics, WorseOrder DEF Worse
    <2>3. ASSUME b \in linked, ~Worse(b, tip), NoInvalidAncestor(b) PROVE b \in candidates
      <3>1. b \notin Failed
        BY <1>1, <2>3 DEF JInv, FailedMaskSound
      <3>. QED  BY <1>1, <2>1, <2>3, <3>1 DEF JInv, Dominated
    <2>. QED  BY <2>1, <2>2, <2>3
  <1>. QED  BY <1>1, Inductive, InductiveCandidates, PTL

\* ActivateBestChain: "The result is either failure or an activated best chain."
THEOREM TipIsBest ==
    ASSUME ~DeepReconsider
    PROVE  Spec /\ []CheckpointsShallow => []TipIsBestAtRest
  <1>1. ASSUME JInv, IInv PROVE TipIsBestAtRest
    <2> SUFFICES ASSUME AtRest, NEW b \in Eligible, Worse(tip, b) PROVE FALSE
      BY DEF TipIsBestAtRest
    <2>1. candidates = {tip}
      BY <1>1, RestLemma
    <2>2. b \in linked /\ b \in Blocks /\ tip \in Blocks /\ b \notin Failed
      BY <1>1, Basics, PathBasics DEF Eligible
    <2>3. b # tip /\ ~Worse(b, tip)
      BY <1>1, <2>2, Basics, WorseOrder DEF Worse
    <2>. QED  BY <1>1, <2>1, <2>2, <2>3 DEF JInv, Dominated
  <1>. QED  BY <1>1, Inductive, InductiveCandidates, PTL

\* The premise holds when nothing but genesis lies below a checkpointed block: on
\* testnet and regtest, whose only checkpoint is at height 0.
THEOREM ShallowCheckpoints ==
    ASSUME \A b \in Checkpointed : Path[b] \subseteq {b, Genesis}
    PROVE  Spec => []CheckpointsShallow
  <1>1. ASSUME IInv PROVE CheckpointsShallow
    <2>1. Genesis \notin Failed
      BY <1>1, Basics DEF IInv, ActiveChainValid
    <2>. QED  BY <2>1 DEF CheckpointsShallow
  <1>. QED  BY <1>1, Inductive, PTL
=============================================================================
