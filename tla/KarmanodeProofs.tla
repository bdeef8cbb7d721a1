-------------------------- MODULE KarmanodeProofs ---------------------------
(***************************************************************************)
(* Proofs about the karmanode components.  KarmanodePayments, for any      *)
(* karmanodes, payees, heights, limits and threads: the tally of a height  *)
(* is the votes recorded for it, but for what a shutdown saved of one and  *)
(* not of the other, although a vote is tallied after the locks are gone;  *)
(* and a node accepts the payee that others choose with the same votes.    *)
(* KarmanodeSync, for any number of peers and any threshold: a node is past*)
(* a stage only with items of it, if payments have been enforced since it  *)
(* asked for them.                                                         *)
(***************************************************************************)
EXTENDS KarmanodePayments, KarmanodeSync, FiniteSetTheorems, WellFoundedInduction,
        TLAPS

-----------------------------------------------------------------------------
(* KarmanodePayments *)

\* No height above the limit of today has been cleaned.
CleanedBehind == cleaned <= 0 \/ cleaned <= tip - LIMIT

\* A vote about to be tallied is recorded, is not one that a shutdown saved
\* untallied, and no other thread holds it too, unless its height was cleaned
\* while the thread was on its way.
InFlight ==
    \A t \in Thread :
        thread[t].pc = "recorded" /\ thread[t].winner.height >= cleaned =>
            /\ thread[t].winner \in mapKarmanodePayeeVotes \ cut
            /\ \A u \in Thread \ {t} :
                  thread[u].pc = "recorded" => thread[u].winner # thread[t].winner

\* Of the votes a shutdown has taken only those behind the limit are cleaned
\* before it takes the tallies.
SavedKept == saved \ Old(saved) \subseteq mapKarmanodePayeeVotes

\* The inductive invariant.
IInv ==
    /\ TallyMatchesVotes
    /\ IsFiniteSet(mapKarmanodePayeeVotes)
    /\ CleanedBehind
    /\ InFlight
    /\ SavedKept

\* The votes recorded and in a tally.
CountedVotes == mapKarmanodePayeeVotes \ (Pending \cup cut)

\* The tally of a payee at a height is right.
TallyRight(h, p) == Tallied(h, p) = Cardinality(Counted(h, p)) + extra[h][p]

\* Lists of payees, each named once, and the votes one holds for a payee.
List == Seq([payee : Payee, nVotes : Nat \ {0}])
Distinct(vec) == \A i, j \in DOMAIN vec : vec[i].payee = vec[j].payee => i = j
VotesIn(vec, p) ==
    LET at == {i \in DOMAIN vec : vec[i].payee = p}
    IN  IF at = {} THEN 0 ELSE vec[CHOOSE i \in at : TRUE].nVotes

----------------------------------------------------------------------------
(* Lists of payees *)

\* The elements of a list.
LEMMA ListLemma ==
    ASSUME NEW vec \in List
    PROVE  /\ Len(vec) \in Nat /\ DOMAIN vec = 1 .. Len(vec)
           /\ \A i \in DOMAIN vec : /\ vec[i] \in [payee : Payee, nVotes : Nat \ {0}]
                                    /\ vec[i].payee \in Payee
                                    /\ vec[i].nVotes \in Nat /\ vec[i].nVotes # 0
  <1>1. Len(vec) \in Nat /\ DOMAIN vec = 1 .. Len(vec)
    BY DEF List
  <1>2. \A i \in DOMAIN vec : vec[i] \in [payee : Payee, nVotes : Nat \ {0}]
    <2> DEFINE R == [payee : Payee, nVotes : Nat \ {0}]
    <2>1. vec \in Seq(R)
      BY DEF List
    <2> HIDE DEF R
    <2>2. \A i \in 1 .. Len(vec) : vec[i] \in R
      BY <2>1
    <2>. QED  BY <1>1, <2>2 DEF R
  <1>3. \A e \in [payee : Payee, nVotes : Nat \ {0}] :
           e.payee \in Payee /\ e.nVotes \in Nat /\ e.nVotes # 0
    OBVIOUS
  <1>. QED  BY <1>1, <1>2, <1>3

\* What a list holds for a payee is what its entry says.
LEMMA VotesLemma ==
    ASSUME NEW vec \in List, Distinct(vec), NEW p
    PROVE  /\ VotesIn(vec, p) \in Nat
           /\ \A i \in DOMAIN vec : vec[i].payee = p => VotesIn(vec, p) = vec[i].nVotes
           /\ VotesIn(vec, p) = 0 <=> \A i \in DOMAIN vec : vec[i].payee # p
  <1> DEFINE at == {i \in DOMAIN vec : vec[i].payee = p}
             k == CHOOSE i \in at : TRUE
  <1>1. VotesIn(vec, p) = IF at = {} THEN 0 ELSE vec[k].nVotes
    BY DEF VotesIn
  <1>2. at # {} => k \in at
    OBVIOUS
  <1>3. \A i \in at : at # {} /\ i = k
    BY <1>2 DEF Distinct
  <1> HIDE DEF k
  <1>. QED  BY <1>1, <1>2, <1>3, ListLemma

\* AddPayee adds one vote for its payee and touches no other.
LEMMA AddPayeeLemma ==
    ASSUME NEW vec \in List, Distinct(vec), NEW p \in Payee
    PROVE  /\ AddPayee(vec, p) \in List /\ Distinct(AddPayee(vec, p))
           /\ VotesIn(AddPayee(vec, p), p) = VotesIn(vec, p) + 1
           /\ \A q : q # p => VotesIn(AddPayee(vec, p), q) = VotesIn(vec, q)
  <1> DEFINE new == AddPayee(vec, p)
  <1>1. CASE \E i \in DOMAIN vec : vec[i].payee = p
    <2>1. PICK k \in DOMAIN vec : vec[k].payee = p
      BY <1>1
    <2>2. new = [i \in DOMAIN vec |-> IF vec[i].payee = p THEN [vec[i] EXCEPT !.nVotes = @ + 1]
                                      ELSE vec[i]]
      BY <1>1 DEF AddPayee
    <2> HIDE DEF new
    <2>3. /\ DOMAIN new = DOMAIN vec
          /\ \A i \in DOMAIN vec :
                /\ new[i] \in [payee : Payee, nVotes : Nat \ {0}]
                /\ new[i].payee = vec[i].payee
                /\ new[i].nVotes = IF vec[i].payee = p THEN vec[i].nVotes + 1 ELSE vec[i].nVotes
      <3>1. DOMAIN new = DOMAIN vec
        BY <2>2
      <3>2. ASSUME NEW e \in [payee : Payee, nVotes : Nat \ {0}]
            PROVE  LET f == [e EXCEPT !.nVotes = @ + 1]
                   IN  /\ f \in [payee : Payee, nVotes : Nat \ {0}]
                       /\ f.payee = e.payee /\ f.nVotes = e.nVotes + 1
        OBVIOUS
      <3>3. ASSUME NEW i \in DOMAIN vec
            PROVE  /\ new[i] \in [payee : Payee, nVotes : Nat \ {0}]
                   /\ new[i].payee = vec[i].payee
                   /\ new[i].nVotes = IF vec[i].payee = p THEN vec[i].nVotes + 1 ELSE vec[i].nVotes
        <4>1. vec[i] \in [payee : Payee, nVotes : Nat \ {0}]
          BY ListLemma
        <4>2. CASE vec[i].payee = p
          <5>1. new[i] = [vec[i] EXCEPT !.nVotes = @ + 1]
            BY <2>2, <4>2
          <5>. QED  BY <3>2, <4>1, <4>2, <5>1
        <4>3. CASE vec[i].payee # p
          <5>1. new[i] = vec[i]
            BY <2>2, <4>3
          <5>. QED  BY <4>1, <4>3, <5>1
        <4>. QED  BY <4>2, <4>3
      <3>. QED  BY <3>1, <3>3
    <2>4. new \in List
      <3>1. new \in [1 .. Len(vec) -> [payee : Payee, nVotes : Nat \ {0}]] /\ Len(vec) \in Nat
        BY <2>2, <2>3, ListLemma
      <3>. QED  BY <3>1 DEF List
    <2>5. Distinct(new)
      BY <2>3 DEF Distinct
    <2>6. VotesIn(new, p) = VotesIn(vec, p) + 1
      BY <2>1, <2>3, <2>4, <2>5, VotesLemma
    <2>7. ASSUME NEW q, q # p PROVE VotesIn(new, q) = VotesIn(vec, q)
      <3>1. CASE \E i \in DOMAIN vec : vec[i].payee = q
        <4>1. PICK i \in DOMAIN vec : vec[i].payee = q
          BY <3>1
        <4>. QED  BY <2>3, <2>4, <2>5, <2>7, <4>1, VotesLemma
      <3>2. CASE ~\E i \in DOMAIN vec : vec[i].payee = q
        BY <2>3, <2>4, <2>5, <3>2, VotesLemma
      <3>. QED  BY <3>1, <3>2
    <2>. QED  BY <2>4, <2>5, <2>6, <2>7 DEF new
  <1>2. CASE ~\E i \in DOMAIN vec : vec[i].payee = p
    <2> DEFINE e == [payee |-> p, nVotes |-> 1]
    <2>1. new = Append(vec, e)
      BY <1>2 DEF AddPayee
    <2>2. e \in [payee : Payee, nVotes : Nat \ {0}] /\ e.payee = p /\ e.nVotes = 1
      OBVIOUS
    <2> HIDE DEF new, e
    <2>3. new \in List /\ Len(new) = Len(vec) + 1
          /\ new[Len(vec) + 1] = e /\ \A i \in 1 .. Len(vec) : new[i] = vec[i]
      BY <2>1, <2>2 DEF List
    <2>4. /\ Len(vec) \in Nat /\ DOMAIN vec = 1 .. Len(vec) /\ DOMAIN new = 1 .. (Len(vec) + 1)
      BY <2>3, ListLemma
    <2>5. \A i \in DOMAIN new : i \in DOMAIN vec \/ i = Len(vec) + 1
      BY <2>4
    <2>6. Distinct(new)
      BY <1>2, <2>2, <2>3, <2>4, <2>5 DEF Distinct
    <2>7. VotesIn(new, p) = 1 /\ VotesIn(vec, p) = 0
      <3>1. Len(vec) + 1 \in DOMAIN new
        BY <2>4
      <3>. QED  BY <1>2, <2>2, <2>3, <2>6, <3>1, VotesLemma
    <2>8. ASSUME NEW q, q # p PROVE VotesIn(new, q) = VotesIn(vec, q)
      <3>1. CASE \E i \in DOMAIN vec : vec[i].payee = q
        <4>1. PICK i \in DOMAIN vec : vec[i].payee = q
          BY <3>1
        <4>2. i \in DOMAIN new /\ new[i].payee = q /\ new[i].nVotes = vec[i].nVotes
          BY <2>3, <2>4, <4>1
        <4>. QED  BY <2>3, <2>6, <4>1, <4>2, VotesLemma
      <3>2. CASE ~\E i \in DOMAIN vec : vec[i].payee = q
        <4>1. \A i \in DOMAIN new : new[i].payee # q
          BY <2>2, <2>3, <2>4, <2>5, <2>8, <3>2
        <4>. QED  BY <2>3, <2>6, <3>2, <4>1, VotesLemma
      <3>. QED  BY <3>1, <3>2
    <2>. QED  BY <2>3, <2>6, <2>7, <2>8 DEF new
  <1>. QED  BY <1>1, <1>2

----------------------------------------------------------------------------
(* The steps *)

\* A thread in the middle of AddWinningKarmanode.
Busy == [pc : {"checked", "recorded"}, winner : Winner, forBlock : Height]

\* The types, in the form the steps use.
LEMMA TypeFacts ==
    ASSUME TypeOK
    PROVE  /\ \A h \in Height : mapKarmanodeBlocks[h] \in List /\ Distinct(mapKarmanodeBlocks[h])
           /\ \A t \in Thread : thread[t].pc \in {"checked", "recorded"} => thread[t].winner \in Winner
           /\ \A w \in Winner : /\ w.vin \in Karmanode /\ w.height \in Height
                                /\ w.payee \in Payee
           /\ Height \subseteq Nat /\ LIMIT \in Nat /\ tip \in Nat /\ cleaned \in Int
           /\ mapKarmanodePayeeVotes \subseteq Winner /\ saved \subseteq Winner
           /\ cut \subseteq mapKarmanodePayeeVotes
           /\ thread \in [Thread -> {Idle} \cup Busy]
           /\ extra \in [Height -> [Payee -> Nat]]
  <1>1. \A h \in Height : mapKarmanodeBlocks[h] \in List /\ Distinct(mapKarmanodeBlocks[h])
    BY DEF TypeOK, List, Distinct
  <1>2. \A t \in Thread : thread[t].pc \in {"checked", "recorded"} => thread[t].winner \in Winner
    BY DEF TypeOK, Idle
  <1>3. \A w \in Winner : w.vin \in Karmanode /\ w.height \in Height /\ w.payee \in Payee
    BY DEF Winner
  <1>4. Height \subseteq Nat /\ LIMIT \in Nat /\ MaxTip \in Nat
    BY PaymentsAssumption
  <1>5. /\ tip \in Nat /\ cleaned \in Int /\ mapKarmanodePayeeVotes \subseteq Winner
        /\ saved \subseteq Winner /\ cut \subseteq mapKarmanodePayeeVotes
        /\ extra \in [Height -> [Payee -> Nat]]
    BY <1>4 DEF TypeOK
  <1>6. thread \in [Thread -> {Idle} \cup Busy]
    BY DEF TypeOK, Busy
  <1>. QED  BY <1>1, <1>2, <1>3, <1>4, <1>5, <1>6

\* The votes counted for a payee at a height.
LEMMA CountedLemma ==
    ASSUME NEW h, NEW p, NEW w
    PROVE  w \in Counted(h, p) <=> w \in CountedVotes /\ w.height = h /\ w.payee = p
  BY DEF Counted, Recorded, CountedVotes

\* The votes a list holds, in the form the lemmas on lists have.
LEMMA TalliedLemma ==
    ASSUME NEW h, NEW p
    PROVE  Tallied(h, p) = VotesIn(mapKarmanodeBlocks[h], p)
  BY DEF Tallied, VotesIn

\* A height whose list and counted votes stay keeps its tally right.
LEMMA FrameLemma ==
    ASSUME TallyMatchesVotes, NEW h \in Height, h >= cleaned,
           mapKarmanodeBlocks'[h] = mapKarmanodeBlocks[h], UNCHANGED extra,
           CountedVotes \subseteq Winner, CountedVotes' \subseteq Winner,
           \A w \in Winner : w.height = h => (w \in CountedVotes' <=> w \in CountedVotes)
    PROVE  \A p \in Payee : TallyRight(h, p)'
  <1> TAKE p \in Payee
  <1>1. \A w : w \in Counted(h, p)' <=> w \in CountedVotes' /\ w.height = h /\ w.payee = p
    BY DEF Counted, Recorded, CountedVotes
  <1>2. \A w : w \in Counted(h, p) <=> w \in CountedVotes /\ w.height = h /\ w.payee = p
    BY CountedLemma
  <1>3. Counted(h, p)' = Counted(h, p)
    BY <1>1, <1>2
  <1>4. Tallied(h, p)' = Tallied(h, p)
    BY DEF Tallied
  <1>. QED  BY <1>3, <1>4 DEF TallyMatchesVotes, TallyRight

\* At the start nothing is recorded and nothing tallied.
LEMMA InitLemma == Init => IInv
  <1> SUFFICES ASSUME Init PROVE IInv
    OBVIOUS
  <1>1. TypeOK
    <2>1. tip \in 1 .. MaxTip /\ cleaned \in Int /\ nLastBlockHeight \in Height
      BY PaymentsAssumption DEF Init
    <2>2. /\ mapKarmanodeBlocks = [h \in Height |-> <<>>]
          /\ <<>> \in Seq([payee : Payee, nVotes : Nat \ {0}])
      BY DEF Init
    <2>3. /\ mapKarmanodeBlocks \in [Height -> Seq([payee : Payee, nVotes : Nat \ {0}])]
          /\ \A h \in Height : DOMAIN mapKarmanodeBlocks[h] = {}
      BY <2>2
    <2>4. /\ mapKarmanodesLastVote \in [Karmanode -> Height \cup {-1}]
          /\ thread \in [Thread -> {Idle} \cup [pc : {"checked", "recorded"}, winner : Winner,
                                                forBlock : Height]]
          /\ mapKarmanodePayeeVotes = {} /\ cut = {} /\ saved = {} /\ dump = "none"
          /\ extra \in [Height -> [Payee -> Nat]]
      BY DEF Init
    <2>. QED  BY <2>1, <2>3, <2>4 DEF TypeOK
  <1>2. TallyMatchesVotes
    <2>1. ASSUME NEW h \in Height, NEW p \in Payee
          PROVE  Tallied(h, p) = Cardinality(Counted(h, p)) + extra[h][p]
      <3>1. mapKarmanodeBlocks[h] = <<>> /\ mapKarmanodePayeeVotes = {} /\ extra[h][p] = 0
        BY DEF Init
      <3>2. Tallied(h, p) = 0
        BY <3>1 DEF Tallied
      <3>3. Counted(h, p) = {}
        BY <3>1 DEF Counted, Recorded
      <3>4. Cardinality(Counted(h, p)) = 0
        BY <3>3, FS_EmptySet
      <3>. QED  BY <3>1, <3>2, <3>4
    <2>. QED  BY <1>1, <2>1 DEF TallyMatchesVotes
  <1>3. IsFiniteSet(mapKarmanodePayeeVotes)
    BY FS_EmptySet DEF Init
  <1>4. CleanedBehind /\ InFlight /\ SavedKept
    BY DEF Init, CleanedBehind, InFlight, Idle, SavedKept
  <1>. QED  BY <1>2, <1>3, <1>4 DEF IInv

\* Cleaning and a new tip leave of the votes taken by a shutdown those ahead of
\* the limit.
LEMMA SavedLemma ==
    ASSUME IInv, UNCHANGED saved, tip' \in Nat, tip <= tip',
           \A w \in mapKarmanodePayeeVotes :
              w \in mapKarmanodePayeeVotes' \/ tip' - w.height > LIMIT
    PROVE  SavedKept'
  <1>1. TypeOK
    BY DEF IInv, TallyMatchesVotes
  <1>2. /\ saved \subseteq Winner /\ tip \in Nat /\ LIMIT \in Nat /\ Height \subseteq Nat
        /\ \A w \in Winner : w.height \in Height
    BY <1>1, TypeFacts
  <1> SUFFICES ASSUME NEW w \in saved, ~(tip' - w.height > LIMIT)
               PROVE  w \in mapKarmanodePayeeVotes'
    BY DEF SavedKept, Old
  <1>3. w.height \in Nat
    BY <1>2
  <1>4. ~(tip - w.height > LIMIT)
    BY <1>2, <1>3
  <1>5. w \in mapKarmanodePayeeVotes
    BY <1>4 DEF IInv, SavedKept, Old
  <1>. QED  BY <1>5

\* What the steps that leave votes, lists and cleaned heights alone need: the
\* threads that hold a recorded vote are the same.
LEMMA QuietLemma ==
    ASSUME IInv, TypeOK', tip <= tip',
           UNCHANGED <<mapKarmanodePayeeVotes, mapKarmanodeBlocks, saved, cut, extra, cleaned>>,
           \A t \in Thread : thread'[t].pc = "recorded" <=> thread[t].pc = "recorded",
           \A t \in Thread : thread[t].pc = "recorded" => thread'[t] = thread[t]
    PROVE  IInv'
  <1>1. TypeOK /\ TallyMatchesVotes
    BY DEF IInv, TallyMatchesVotes
  <1>2. Pending' = Pending
    BY DEF Pending
  <1>3. CountedVotes' = CountedVotes /\ CountedVotes \subseteq Winner
    BY <1>1, <1>2, TypeFacts DEF CountedVotes
  <1>4. \A h \in Height, p \in Payee : h >= cleaned =>
           TallyRight(h, p)'
    BY <1>1, <1>3, FrameLemma
  <1>5. TallyMatchesVotes'
    BY <1>4 DEF TallyMatchesVotes, TallyRight
  <1>6. CleanedBehind'
    <2>1. tip \in Int /\ tip' \in Int /\ LIMIT \in Nat /\ cleaned \in Int
      BY <1>1, TypeFacts, PaymentsAssumption DEF TypeOK
    <2>2. cleaned <= 0 \/ cleaned <= tip - LIMIT
      BY DEF IInv, CleanedBehind
    <2>3. cleaned <= 0 \/ cleaned <= tip' - LIMIT
      <3>1. \A c, x, y, l \in Int : c <= x - l /\ x <= y => c <= y - l
        OBVIOUS
      <3>2. tip <= tip' /\ LIMIT \in Int
        BY <2>1
      <3>. QED  BY <2>1, <2>2, <3>1, <3>2, Zenon
    <2>. QED  BY <2>3 DEF CleanedBehind
  <1>7. InFlight'
    BY DEF IInv, InFlight
  <1>8. SavedKept'
    <2>1. tip' \in Nat
      BY PaymentsAssumption DEF TypeOK
    <2>. QED  BY <2>1, SavedLemma
  <1>. QED  BY <1>5, <1>6, <1>7, <1>8 DEF IInv

\* The checks of a message, of a block, and a new tip.
LEMMA CheckLemma ==
    ASSUME IInv,
           \/ \E w \in Winner, ok \in BOOLEAN : ProcessMessageMNW(w, ok)
           \/ \E t \in Thread, p \in Payee : ProcessBlock(t, p)
           \/ NewTip
    PROVE  IInv'
  <1>1. TypeOK
    BY DEF IInv, TallyMatchesVotes
  <1>2. MessageHandler \in Thread /\ 0 \in Height /\ NoPayee \in Payee
    BY PaymentsAssumption
  <1>3. ASSUME NEW w \in Winner, NEW ok \in BOOLEAN, ProcessMessageMNW(w, ok) PROVE IInv'
    <2> DEFINE new == [pc |-> "checked", winner |-> w, forBlock |-> 0]
    <2>1. new \in Busy /\ new.pc = "checked"
      BY <1>2 DEF Busy
    <2>2. /\ thread[MessageHandler] = Idle
          /\ thread' = [thread EXCEPT ![MessageHandler] = new] \/ thread' = thread
          /\ mapKarmanodesLastVote' = [mapKarmanodesLastVote EXCEPT ![w.vin] = w.height]
          /\ UNCHANGED <<tip, mapKarmanodePayeeVotes, mapKarmanodeBlocks, nLastBlockHeight,
                         dump, saved, cut, extra, cleaned>>
      BY <1>3 DEF ProcessMessageMNW, shutdownVars
    <2> HIDE DEF new
    <2>3. thread' \in [Thread -> {Idle} \cup Busy]
      BY <1>1, <1>2, <2>1, <2>2, TypeFacts
    <2>4. TypeOK'
      <3>1. w.vin \in Karmanode /\ w.height \in Height
        BY <1>1, TypeFacts
      <3>2. mapKarmanodesLastVote' \in [Karmanode -> Height \cup {-1}]
        BY <1>1, <2>2, <3>1 DEF TypeOK
      <3>. QED  BY <1>1, <2>2, <2>3, <3>2 DEF TypeOK, Busy
    <2>5. /\ \A t \in Thread : thread'[t].pc = "recorded" <=> thread[t].pc = "recorded"
          /\ \A t \in Thread : thread[t].pc = "recorded" => thread'[t] = thread[t]
      BY <1>1, <1>2, <2>1, <2>2, TypeFacts DEF Idle
    <2>6. tip <= tip'
      BY <1>1, <2>2, TypeFacts
    <2>. QED  BY <2>2, <2>4, <2>5, <2>6, QuietLemma
  <1>4. ASSUME NEW t \in Thread, NEW p \in Payee, ProcessBlock(t, p) PROVE IInv'
    <2>1. tip + AHEAD \in Height /\ Self \in Karmanode
      BY <1>4, PaymentsAssumption DEF ProcessBlock
    <2>2. NewWinners(p) \subseteq Winner
      BY <1>2, <2>1 DEF NewWinners, Winner
    <2>3. PICK w \in NewWinners(p) :
             thread' = [thread EXCEPT ![t] =
                          [pc |-> "checked", winner |-> w, forBlock |-> tip + AHEAD]]
      BY <1>4 DEF ProcessBlock
    <2> DEFINE new == [pc |-> "checked", winner |-> w, forBlock |-> tip + AHEAD]
    <2>4. new \in Busy /\ new.pc = "checked"
      BY <2>1, <2>2 DEF Busy
    <2>5. /\ thread[t] = Idle /\ thread' = [thread EXCEPT ![t] = new]
          /\ UNCHANGED <<tip, mapKarmanodePayeeVotes, mapKarmanodeBlocks, mapKarmanodesLastVote,
                         nLastBlockHeight, dump, saved, cut, extra, cleaned>>
      BY <1>4, <2>3 DEF ProcessBlock, shutdownVars
    <2> HIDE DEF new
    <2>6. thread' \in [Thread -> {Idle} \cup Busy]
      BY <1>1, <2>4, <2>5, TypeFacts
    <2>7. TypeOK'
      BY <1>1, <2>5, <2>6 DEF TypeOK, Busy
    <2>8. /\ \A u \in Thread : thread'[u].pc = "recorded" <=> thread[u].pc = "recorded"
          /\ \A u \in Thread : thread[u].pc = "recorded" => thread'[u] = thread[u]
      BY <1>1, <2>4, <2>5, TypeFacts DEF Idle
    <2>9. tip <= tip'
      BY <1>1, <2>5, TypeFacts
    <2>. QED  BY <2>5, <2>7, <2>8, <2>9, QuietLemma
  <1>5. ASSUME NewTip PROVE IInv'
    <2>1. tip \in Nat /\ MaxTip \in Nat
      BY <1>1, TypeFacts, PaymentsAssumption
    <2>2. tip' \in 1 .. MaxTip /\ tip <= tip'
      BY <1>1, <1>5, <2>1 DEF NewTip, TypeOK
    <2>3. TypeOK'
      BY <1>1, <1>5, <2>2 DEF NewTip, TypeOK, shutdownVars
    <2>. QED  BY <1>5, <2>2, <2>3, QuietLemma DEF NewTip, shutdownVars
  <1>. QED  BY <1>3, <1>4, <1>5

\* AddWinningKarmanode under the locks: a vote recorded already is dropped, a
\* new one is recorded and becomes pending, so no tally changes.
LEMMA RecordLemma ==
    ASSUME IInv, NEW t \in Thread, Record(t)
    PROVE  IInv'
  <1> DEFINE w == thread[t].winner
  <1>1. TypeOK /\ TallyMatchesVotes
    BY DEF IInv, TallyMatchesVotes
  <1>2. /\ thread[t].pc = "checked" /\ w \in Winner
        /\ UNCHANGED <<tip, mapKarmanodeBlocks, mapKarmanodesLastVote, nLastBlockHeight,
                       dump, saved, cut, extra, cleaned>>
    BY <1>1, TypeFacts DEF Record, shutdownVars
  <1>3. thread \in [Thread -> {Idle} \cup Busy]
    BY <1>1, TypeFacts
  <1>4. CASE w \in mapKarmanodePayeeVotes
    <2>1. thread' = [thread EXCEPT ![t] = Idle] /\ UNCHANGED mapKarmanodePayeeVotes
      BY <1>4 DEF Record
    <2>2. TypeOK'
      <3>1. thread' \in [Thread -> {Idle} \cup Busy]
        BY <1>3, <2>1
      <3>. QED  BY <1>1, <1>2, <2>1, <3>1 DEF TypeOK, Busy
    <2>3. /\ \A u \in Thread : thread'[u].pc = "recorded" <=> thread[u].pc = "recorded"
          /\ \A u \in Thread : thread[u].pc = "recorded" => thread'[u] = thread[u]
      BY <1>2, <1>3, <2>1 DEF Idle
    <2>4. tip <= tip'
      BY <1>1, <1>2, TypeFacts
    <2>. QED  BY <1>2, <2>1, <2>2, <2>3, <2>4, QuietLemma
  <1>5. CASE w \notin mapKarmanodePayeeVotes
    <2>1. /\ mapKarmanodePayeeVotes' = mapKarmanodePayeeVotes \cup {w}
          /\ thread' = [thread EXCEPT ![t].pc = "recorded"]
      BY <1>5 DEF Record
    <2>2. /\ thread[t] \in Busy
          /\ thread'[t].pc = "recorded" /\ thread'[t].winner = w
          /\ thread'[t] \in Busy
          /\ \A u \in Thread \ {t} : thread'[u] = thread[u]
      <3>1. thread[t] \in Busy
        BY <1>2, <1>3 DEF Idle
      <3>. QED  BY <1>2, <1>3, <2>1, <3>1 DEF Busy
    <2> HIDE DEF w
    <2>3. TypeOK'
      <3>1. thread' \in [Thread -> {Idle} \cup Busy]
        BY <1>3, <2>1, <2>2
      <3>. QED  BY <1>1, <1>2, <2>1, <3>1 DEF TypeOK, Busy
    <2>4. Pending' = Pending \cup {w}
      BY <1>2, <2>1, <2>2 DEF Pending
    <2>5. CountedVotes' = CountedVotes /\ CountedVotes \subseteq Winner
      BY <1>1, <1>2, <1>5, <2>1, <2>4, TypeFacts DEF CountedVotes
    <2>6. \A h \in Height, p \in Payee : h >= cleaned =>
             TallyRight(h, p)'
      BY <1>1, <1>2, <2>5, FrameLemma
    <2>7. TallyMatchesVotes'
      BY <1>2, <2>3, <2>6 DEF TallyMatchesVotes, TallyRight
    <2>8. IsFiniteSet(mapKarmanodePayeeVotes')
      BY <2>1, FS_AddElement DEF IInv
    <2>9. InFlight'
      <3>1. w \notin cut
        BY <1>1, <1>5 DEF TypeOK
      <3>. QED  BY <1>2, <1>5, <2>1, <2>2, <3>1 DEF IInv, InFlight
    <2>10. CleanedBehind'
      BY <1>2 DEF IInv, CleanedBehind
    <2>11. SavedKept'
      <3>1. tip' \in Nat /\ tip <= tip'
        BY <1>1, <1>2, TypeFacts
      <3>. QED  BY <1>2, <2>1, <3>1, SavedLemma
    <2>. QED  BY <2>7, <2>8, <2>9, <2>10, <2>11 DEF IInv
  <1>. QED  BY <1>4, <1>5

\* The tally outside the locks: unless the height was cleaned meanwhile, the vote
\* stops being pending and its payee gains the one vote.
LEMMA TallyLemma ==
    ASSUME IInv, NEW t \in Thread, Tally(t)
    PROVE  IInv'
  <1> DEFINE w == thread[t].winner
  <1>1. TypeOK /\ TallyMatchesVotes
    BY DEF IInv, TallyMatchesVotes
  <1>2. /\ thread[t].pc = "recorded"
        /\ mapKarmanodeBlocks' = [mapKarmanodeBlocks EXCEPT ![w.height] = AddPayee(@, w.payee)]
        /\ nLastBlockHeight' \in {nLastBlockHeight, thread[t].forBlock}
        /\ thread' = [thread EXCEPT ![t] = Idle]
        /\ UNCHANGED <<tip, mapKarmanodePayeeVotes, mapKarmanodesLastVote,
                       dump, saved, cut, extra, cleaned>>
    BY DEF Tally, shutdownVars
  <1>3. w \in Winner /\ w.height \in Height /\ w.payee \in Payee /\ Height \subseteq Nat /\ cleaned \in Int
    BY <1>1, <1>2, TypeFacts
  <1>4. thread \in [Thread -> {Idle} \cup Busy] /\ thread[t].forBlock \in Height
    <2>1. thread \in [Thread -> {Idle} \cup Busy]
      BY <1>1, TypeFacts
    <2>. QED  BY <1>2, <2>1 DEF Idle, Busy
  <1>5. /\ thread'[t] = Idle /\ thread'[t].pc # "recorded"
        /\ \A u \in Thread \ {t} : thread'[u] = thread[u]
    BY <1>2, <1>4 DEF Idle
  <1>6. ASSUME w.height >= cleaned
        PROVE  /\ w \in mapKarmanodePayeeVotes \ cut
               /\ \A u \in Thread \ {t} : thread[u].pc = "recorded" => thread[u].winner # w
    BY <1>2, <1>6 DEF IInv, InFlight
  <1>7. /\ \A h \in Height \ {w.height} : mapKarmanodeBlocks'[h] = mapKarmanodeBlocks[h]
        /\ mapKarmanodeBlocks'[w.height] = AddPayee(mapKarmanodeBlocks[w.height], w.payee)
    BY <1>1, <1>2, <1>3 DEF TypeOK
  <1> DEFINE new == AddPayee(mapKarmanodeBlocks[w.height], w.payee)
  <1>8. /\ new \in List /\ Distinct(new)
        /\ VotesIn(new, w.payee) = VotesIn(mapKarmanodeBlocks[w.height], w.payee) + 1
        /\ \A q : q # w.payee => VotesIn(new, q) = VotesIn(mapKarmanodeBlocks[w.height], q)
    BY <1>1, <1>3, TypeFacts, AddPayeeLemma
  <1> HIDE DEF new
  <1>9. TypeOK'
    <2>1. mapKarmanodeBlocks' \in [Height -> Seq([payee : Payee, nVotes : Nat \ {0}])]
      BY <1>1, <1>2, <1>8 DEF TypeOK, List, new
    <2>2. \A h \in Height : Distinct(mapKarmanodeBlocks'[h])
      BY <1>1, <1>7, <1>8, TypeFacts DEF new
    <2>3. thread' \in [Thread -> {Idle} \cup Busy]
      BY <1>2, <1>4
    <2>4. nLastBlockHeight' \in Height
      BY <1>1, <1>2, <1>4 DEF TypeOK
    <2>. QED  BY <1>1, <1>2, <2>1, <2>2, <2>3, <2>4 DEF TypeOK, Distinct, Busy
  <1> HIDE DEF w
  <1>10. /\ Pending \ {w} \subseteq Pending' /\ Pending' \subseteq Pending
         /\ w.height >= cleaned => w \notin Pending' /\ w \in Pending
    BY <1>2, <1>5, <1>6 DEF Pending, w
  <1>11. /\ CountedVotes \subseteq Winner /\ CountedVotes' \subseteq Winner
         /\ \A v \in Winner \ {w} : v \in CountedVotes' <=> v \in CountedVotes
         /\ w.height >= cleaned => w \notin CountedVotes /\ w \in CountedVotes'
    BY <1>1, <1>2, <1>6, <1>10, TypeFacts DEF CountedVotes
  <1>12. ASSUME NEW h \in Height, NEW p \in Payee, h >= cleaned
         PROVE  TallyRight(h, p)'
    <2>1. CASE h # w.height
      <3>1. \A v \in Winner : v.height = h => (v \in CountedVotes' <=> v \in CountedVotes)
        BY <1>11, <2>1
      <3>. QED  BY <1>1, <1>2, <1>7, <1>11, <1>12, <2>1, <3>1, FrameLemma
    <2>2. CASE h = w.height
      <3>1. /\ Tallied(h, p)' = VotesIn(new, p)
            /\ Tallied(h, p) = VotesIn(mapKarmanodeBlocks[h], p)
        <4>1. Tallied(h, p)' = VotesIn(mapKarmanodeBlocks'[h], p)
          BY DEF Tallied, VotesIn
        <4>. QED  BY <1>7, <2>2, <4>1, TalliedLemma DEF new
      <3>2. Tallied(h, p) = Cardinality(Counted(h, p)) + extra[h][p]
        BY <1>1, <1>12 DEF TallyMatchesVotes
      <3>3. \A v : /\ v \in Counted(h, p) <=> v \in CountedVotes /\ v.height = h /\ v.payee = p
                   /\ v \in Counted(h, p)' <=> v \in CountedVotes' /\ v.height = h /\ v.payee = p
        BY CountedLemma DEF Counted, Recorded, CountedVotes
      <3>4. IsFiniteSet(Counted(h, p)) /\ Cardinality(Counted(h, p)) \in Nat
        <4>1. Counted(h, p) \in SUBSET mapKarmanodePayeeVotes
          BY DEF Counted, Recorded
        <4>. QED  BY <4>1, FS_Subset, FS_CardinalityType DEF IInv
      <3>5. extra[h][p] \in Nat /\ extra' = extra
        BY <1>1, <1>2, TypeFacts
      <3>6. CASE p = w.payee
        <4>1. Counted(h, p)' = Counted(h, p) \cup {w} /\ w \notin Counted(h, p)
          BY <1>3, <1>11, <1>12, <2>2, <3>3, <3>6
        <4>2. Cardinality(Counted(h, p)') = Cardinality(Counted(h, p)) + 1
          BY <3>4, <4>1, FS_AddElement
        <4>3. VotesIn(new, p) = VotesIn(mapKarmanodeBlocks[h], p) + 1
          BY <1>8, <2>2, <3>6
        <4>4. Tallied(h, p)' = Tallied(h, p) + 1
          BY <3>1, <4>3
        <4>5. /\ extra'[h][p] = extra[h][p] /\ extra[h][p] \in Nat
              /\ Cardinality(Counted(h, p)) \in Nat
          BY <3>4, <3>5
        <4>6. \A c, e \in Nat : (c + e) + 1 = (c + 1) + e
          OBVIOUS
        <4>7. Tallied(h, p)' = Cardinality(Counted(h, p)') + extra'[h][p]
          BY <3>2, <4>2, <4>4, <4>5, <4>6, Zenon
        <4>. QED  BY <4>7 DEF TallyRight
      <3>7. CASE p # w.payee
        <4>1. Counted(h, p)' = Counted(h, p)
          BY <1>11, <3>3, <3>7
        <4>2. VotesIn(new, p) = VotesIn(mapKarmanodeBlocks[h], p)
          BY <1>8, <2>2, <3>7
        <4>. QED  BY <3>1, <3>2, <3>5, <4>1, <4>2 DEF TallyRight
      <3>. QED  BY <3>6, <3>7
    <2>. QED  BY <2>1, <2>2
  <1>13. TallyMatchesVotes'
    BY <1>2, <1>9, <1>12 DEF TallyMatchesVotes, TallyRight
  <1>14. InFlight' /\ CleanedBehind' /\ IsFiniteSet(mapKarmanodePayeeVotes')
    BY <1>2, <1>5 DEF IInv, InFlight, CleanedBehind
  <1>15. SavedKept'
    <2>1. tip' \in Nat /\ tip <= tip'
      BY <1>1, <1>2, TypeFacts
    <2>. QED  BY <1>2, <2>1, SavedLemma
  <1>. QED  BY <1>13, <1>14, <1>15 DEF IInv

\* What cleaning leaves of well formed lists, and which heights it leaves alone.
LEMMA CleanBlocksLemma ==
    ASSUME TypeOK, NEW votes \in SUBSET Winner
    PROVE  LET blocks == CleanBlocks(votes, mapKarmanodeBlocks)
           IN  /\ blocks \in [Height -> List]
               /\ \A h \in Height : Distinct(blocks[h])
               /\ \A h \in Height : h >= tip - LIMIT => blocks[h] = mapKarmanodeBlocks[h]
               /\ \A v \in Winner : v.height >= tip - LIMIT => v \notin Old(votes)
  <1>1. <<>> \in List /\ Distinct(<<>>)
    BY DEF List, Distinct
  <1>2. \A h \in Height : mapKarmanodeBlocks[h] \in List /\ Distinct(mapKarmanodeBlocks[h])
    BY TypeFacts
  <1>3. /\ LIMIT \in Nat /\ tip \in Nat /\ Height \subseteq Nat
        /\ \A v \in Winner : v.height \in Height
    BY TypeFacts
  <1>4. ASSUME NEW v \in Winner, v.height >= tip - LIMIT PROVE v \notin Old(votes)
    <2>1. v.height \in Nat
      BY <1>3
    <2>2. ~(tip - v.height > LIMIT)
      BY <1>3, <1>4, <2>1
    <2>. QED  BY <2>2 DEF Old
  <1>5. \A h \in Height : h >= tip - LIMIT =>
           CleanBlocks(votes, mapKarmanodeBlocks)[h] = mapKarmanodeBlocks[h]
    BY <1>4 DEF CleanBlocks, Old
  <1>6. /\ CleanBlocks(votes, mapKarmanodeBlocks) \in [Height -> List]
        /\ \A h \in Height : Distinct(CleanBlocks(votes, mapKarmanodeBlocks)[h])
    BY <1>1, <1>2 DEF CleanBlocks
  <1>. QED  BY <1>4, <1>5, <1>6

\* Cleaning: only heights behind the limit lose votes and lists, and a vote that
\* a thread had recorded there is behind the limit as well.
LEMMA CleanLemma ==
    ASSUME IInv, CleanPaymentList
    PROVE  IInv'
  <1>1. TypeOK /\ TallyMatchesVotes
    BY DEF IInv, TallyMatchesVotes
  <1>2. /\ Height \subseteq Nat /\ LIMIT \in Nat /\ tip \in Nat /\ cleaned \in Int
        /\ mapKarmanodePayeeVotes \in SUBSET Winner
        /\ \A v \in Winner : v.height \in Height
    BY <1>1, TypeFacts
  <1>3. /\ mapKarmanodePayeeVotes' = mapKarmanodePayeeVotes \ Old(mapKarmanodePayeeVotes)
        /\ mapKarmanodeBlocks' = CleanBlocks(mapKarmanodePayeeVotes, mapKarmanodeBlocks)
        /\ cut' = cut \ Old(mapKarmanodePayeeVotes) /\ cleaned' = tip - LIMIT
        /\ UNCHANGED <<tip, mapKarmanodesLastVote, nLastBlockHeight, thread, dump, saved, extra>>
    BY DEF CleanPaymentList
  <1>4. /\ mapKarmanodeBlocks' \in [Height -> List]
        /\ \A h \in Height : Distinct(mapKarmanodeBlocks'[h])
        /\ \A h \in Height : h >= cleaned' => mapKarmanodeBlocks'[h] = mapKarmanodeBlocks[h]
        /\ \A v \in Winner : v.height >= cleaned' => v \notin Old(mapKarmanodePayeeVotes)
    BY <1>1, <1>2, <1>3, CleanBlocksLemma
  <1>5. TypeOK'
    <2>1. cleaned' \in Int /\ cut' \subseteq mapKarmanodePayeeVotes'
      <3>1. cut \subseteq mapKarmanodePayeeVotes
        BY <1>1, TypeFacts
      <3>. QED  BY <1>2, <1>3, <3>1
    <2>2. mapKarmanodePayeeVotes' \subseteq Winner
      BY <1>2, <1>3
    <2>. QED  BY <1>1, <1>3, <1>4, <2>1, <2>2 DEF TypeOK, List, Distinct
  <1>6. \A h \in Height : h >= cleaned' => h >= cleaned
    BY <1>2, <1>3 DEF IInv, CleanedBehind
  <1>7. \A v \in Winner : v.height >= cleaned' => (v \in Pending' <=> v \in Pending)
    BY <1>3, <1>4 DEF Pending
  <1>8. CountedVotes \subseteq Winner /\ CountedVotes' \subseteq Winner
    BY <1>2, <1>3 DEF CountedVotes
  <1>9. \A v \in Winner : v.height >= cleaned' => (v \in CountedVotes' <=> v \in CountedVotes)
    BY <1>3, <1>4, <1>7 DEF CountedVotes
  <1>10. \A h \in Height, p \in Payee : h >= cleaned' => TallyRight(h, p)'
    BY <1>1, <1>3, <1>4, <1>6, <1>8, <1>9, FrameLemma
  <1>11. TallyMatchesVotes'
    BY <1>5, <1>10 DEF TallyMatchesVotes, TallyRight
  <1>12. IsFiniteSet(mapKarmanodePayeeVotes') /\ CleanedBehind'
    <2>1. mapKarmanodePayeeVotes' \in SUBSET mapKarmanodePayeeVotes
      BY <1>3
    <2>2. IsFiniteSet(mapKarmanodePayeeVotes')
      BY <2>1, FS_Subset DEF IInv
    <2>. QED  BY <1>2, <1>3, <2>2 DEF CleanedBehind
  <1>13. InFlight'
    <2> SUFFICES ASSUME NEW t \in Thread, thread[t].pc = "recorded",
                        thread[t].winner.height >= cleaned'
                 PROVE  /\ thread[t].winner \in mapKarmanodePayeeVotes' \ cut'
                        /\ \A u \in Thread \ {t} :
                              thread[u].pc = "recorded" => thread[u].winner # thread[t].winner
      BY <1>3 DEF InFlight
    <2>1. thread[t].winner \in Winner
      BY <1>1, TypeFacts
    <2>2. thread[t].winner.height >= cleaned
      BY <1>2, <1>6, <2>1
    <2>3. thread[t].winner \in mapKarmanodePayeeVotes \ cut
      BY <2>2 DEF IInv, InFlight
    <2>4. thread[t].winner \notin Old(mapKarmanodePayeeVotes)
      BY <1>4, <2>1
    <2>. QED  BY <1>3, <2>2, <2>3, <2>4 DEF IInv, InFlight
  <1>14. SavedKept'
    <2>1. \A v \in mapKarmanodePayeeVotes : v \in mapKarmanodePayeeVotes' \/ tip' - v.height > LIMIT
      BY <1>3 DEF Old
    <2>2. tip' \in Nat /\ tip <= tip'
      BY <1>2, <1>3
    <2>. QED  BY <1>3, <2>1, <2>2, SavedLemma
  <1>. QED  BY <1>11, <1>12, <1>13, <1>14 DEF IInv

\* The votes are taken for the file.
LEMMA SaveLemma ==
    ASSUME IInv, SaveVotes
    PROVE  IInv'
  <1>1. TypeOK /\ TallyMatchesVotes
    BY DEF IInv, TallyMatchesVotes
  <1>2. /\ dump' = "votes" /\ saved' = mapKarmanodePayeeVotes
        /\ UNCHANGED <<tip, mapKarmanodePayeeVotes, mapKarmanodeBlocks, mapKarmanodesLastVote,
                       nLastBlockHeight, thread, cut, extra, cleaned>>
    BY DEF SaveVotes
  <1>3. TypeOK'
    <2>1. saved' \subseteq Winner
      BY <1>1, <1>2 DEF TypeOK
    <2>. QED  BY <1>1, <1>2, <2>1 DEF TypeOK
  <1>4. TallyMatchesVotes'
    <2>1. \A h, p : Tallied(h, p)' = Tallied(h, p) /\ Counted(h, p)' = Counted(h, p)
      BY <1>2 DEF Tallied, Counted, Recorded, Pending
    <2>2. ASSUME NEW h \in Height, NEW p \in Payee, h >= cleaned PROVE TallyRight(h, p)'
      <3>1. Tallied(h, p) = Cardinality(Counted(h, p)) + extra[h][p]
        BY <1>1, <2>2, Zenon DEF TallyMatchesVotes
      <3>. QED  BY <1>2, <2>1, <3>1, Zenon DEF TallyRight
    <2>. QED  BY <1>2, <1>3, <2>2 DEF TallyMatchesVotes, TallyRight
  <1>5. IsFiniteSet(mapKarmanodePayeeVotes') /\ CleanedBehind' /\ InFlight'
    BY <1>2 DEF IInv, CleanedBehind, InFlight
  <1>6. SavedKept'
    BY <1>2 DEF SavedKept
  <1>. QED  BY <1>4, <1>5, <1>6 DEF IInv

\* A shutdown and a start: of the votes counted in a tally the file has those
\* saved; the others stay in the tally as extra votes.  Of the votes saved those
\* that were not in the tally are cut.
LEMMA RestartLemma ==
    ASSUME IInv, Restart
    PROVE  IInv'
  <1>1. TypeOK /\ TallyMatchesVotes
    BY DEF IInv, TallyMatchesVotes
  <1>2. /\ Height \subseteq Nat /\ LIMIT \in Nat /\ tip \in Nat /\ cleaned \in Int
        /\ saved \in SUBSET Winner /\ mapKarmanodePayeeVotes \subseteq Winner
        /\ cut \subseteq mapKarmanodePayeeVotes
        /\ \A v \in Winner : v.height \in Height
        /\ extra \in [Height -> [Payee -> Nat]]
    BY <1>1, TypeFacts
  <1>3. /\ thread' = [t \in Thread |-> Idle]
        /\ mapKarmanodesLastVote' = [k \in Karmanode |-> -1] /\ nLastBlockHeight' = 0
        /\ mapKarmanodePayeeVotes' = saved \ Old(saved)
        /\ mapKarmanodeBlocks' = CleanBlocks(saved, mapKarmanodeBlocks)
        /\ cut' = (saved \cap (Pending \cup cut)) \ Old(saved)
        /\ extra' = ExtraSaved /\ cleaned' = tip - LIMIT
        /\ dump' = "none" /\ saved' = {} /\ UNCHANGED tip
    BY DEF Restart
  <1>4. /\ mapKarmanodeBlocks' \in [Height -> List]
        /\ \A h \in Height : Distinct(mapKarmanodeBlocks'[h])
        /\ \A h \in Height : h >= cleaned' => mapKarmanodeBlocks'[h] = mapKarmanodeBlocks[h]
        /\ \A v \in Winner : v.height >= cleaned' => v \notin Old(saved)
    BY <1>1, <1>2, <1>3, CleanBlocksLemma
  <1>5. mapKarmanodePayeeVotes' \in SUBSET mapKarmanodePayeeVotes
    BY <1>3 DEF IInv, SavedKept
  <1>6. ASSUME NEW h \in Height, NEW p \in Payee
        PROVE  /\ IsFiniteSet(Counted(h, p)) /\ IsFiniteSet(Counted(h, p) \ saved)
               /\ IsFiniteSet(Counted(h, p) \cap saved)
               /\ Cardinality(Counted(h, p) \ saved) \in Nat
               /\ Cardinality(Counted(h, p) \cap saved) \in Nat
               /\ Cardinality(Counted(h, p)) =
                     Cardinality(Counted(h, p) \cap saved) + Cardinality(Counted(h, p) \ saved)
    <2>1. Counted(h, p) \in SUBSET mapKarmanodePayeeVotes
      BY DEF Counted, Recorded
    <2>2. IsFiniteSet(Counted(h, p))
      BY <2>1, FS_Subset DEF IInv
    <2>3. IsFiniteSet(Counted(h, p) \ saved) /\ IsFiniteSet(Counted(h, p) \cap saved)
      <3>1. Counted(h, p) \ saved \in SUBSET Counted(h, p)
        OBVIOUS
      <3>2. Counted(h, p) \cap saved \in SUBSET Counted(h, p)
        OBVIOUS
      <3>. QED  BY <2>2, <3>1, <3>2, FS_Subset
    <2> DEFINE A == Counted(h, p) \cap saved
               B == Counted(h, p) \ saved
    <2>4. A \cup B = Counted(h, p) /\ A \cap B = {}
      OBVIOUS
    <2>5. IsFiniteSet(A) /\ IsFiniteSet(B) /\ Cardinality(A) \in Nat /\ Cardinality(B) \in Nat
      BY <2>3, FS_CardinalityType
    <2> HIDE DEF A, B
    <2>6. Cardinality(A \cup B) = Cardinality(A) + Cardinality(B) - Cardinality(A \cap B)
      BY <2>5, FS_Union
    <2>7. Cardinality(A \cap B) = 0
      BY <2>4, FS_EmptySet
    <2>8. Cardinality(A \cup B) = Cardinality(A) + Cardinality(B)
      BY <2>5, <2>6, <2>7
    <2>. QED  BY <2>2, <2>4, <2>5, <2>8 DEF A, B
  <1>7. extra' \in [Height -> [Payee -> Nat]]
    <2> DEFINE Sum(h, p) == IF h < tip - LIMIT THEN 0
                            ELSE extra[h][p] + Cardinality(Counted(h, p) \ saved)
    <2>1. ASSUME NEW h \in Height, NEW p \in Payee PROVE Sum(h, p) \in Nat
      <3>1. extra[h][p] \in Nat
        BY <1>2
      <3>2. Cardinality(Counted(h, p) \ saved) \in Nat
        BY <1>6
      <3>. QED  BY <3>1, <3>2
    <2>2. ExtraSaved = [h \in Height |-> [p \in Payee |-> Sum(h, p)]]
      BY DEF ExtraSaved
    <2> HIDE DEF Sum
    <2>. QED  BY <1>3, <2>1, <2>2
  <1>8. TypeOK'
    <2>1. thread' \in [Thread -> {Idle} \cup Busy] /\ 0 \in Height
          /\ mapKarmanodesLastVote' \in [Karmanode -> Height \cup {-1}]
      BY <1>3, PaymentsAssumption
    <2>2. cut' \subseteq mapKarmanodePayeeVotes' /\ mapKarmanodePayeeVotes' \subseteq Winner
      BY <1>2, <1>3
    <2>3. cleaned' \in Int
      BY <1>2, <1>3
    <2>. QED  BY <1>1, <1>3, <1>4, <1>7, <2>1, <2>2, <2>3 DEF TypeOK, List, Distinct, Busy
  <1>9. ASSUME NEW h \in Height, NEW p \in Payee, h >= cleaned'
        PROVE  (Tallied(h, p) = Cardinality(Counted(h, p)) + extra[h][p])'
    <2>1. h >= cleaned
      <3>1. cleaned <= 0 \/ cleaned <= tip - LIMIT
        BY DEF IInv, CleanedBehind
      <3>2. h \in Nat /\ h >= tip - LIMIT
        BY <1>2, <1>3, <1>9
      <3>. QED  BY <1>2, <3>1, <3>2
    <2>2. Tallied(h, p) = Cardinality(Counted(h, p)) + extra[h][p]
      BY <1>1, <2>1, Zenon DEF TallyMatchesVotes
    <2>3. Tallied(h, p)' = Tallied(h, p)
      <3>1. mapKarmanodeBlocks'[h] = mapKarmanodeBlocks[h]
        BY <1>4, <1>9
      <3>2. Tallied(h, p)' = VotesIn(mapKarmanodeBlocks'[h], p)
        BY DEF Tallied, VotesIn
      <3>. QED  BY <3>1, <3>2, TalliedLemma
    <2>4. Counted(h, p)' = Counted(h, p) \cap saved
      <3>1. Pending' = {}
        BY <1>3 DEF Pending, Idle
      <3>2. ASSUME NEW v \in Winner, v.height = h
            PROVE  /\ v \in mapKarmanodePayeeVotes' <=> v \in saved
                   /\ v \in cut' <=> v \in saved \cap (Pending \cup cut)
                   /\ v \in saved => v \in mapKarmanodePayeeVotes
        <4>1. v \notin Old(saved)
          BY <1>4, <1>9, <3>2
        <4>. QED  BY <1>3, <1>5, <4>1
      <3>3. ASSUME NEW v PROVE v \in Counted(h, p)' <=> v \in Counted(h, p) \cap saved
        BY <1>2, <1>5, <3>1, <3>2 DEF Counted, Recorded
      <3>. QED  BY <3>3
    <2>5. extra'[h][p] = extra[h][p] + Cardinality(Counted(h, p) \ saved)
      <3>1. ~(h < tip - LIMIT)
        BY <1>2, <1>3, <1>9
      <3>. QED  BY <1>3, <3>1 DEF ExtraSaved
    <2>6. extra[h][p] \in Nat
      BY <1>2
    <2> DEFINE c == Cardinality(Counted(h, p) \cap saved)
               d == Cardinality(Counted(h, p) \ saved)
               e == extra[h][p]
    <2>7. c \in Nat /\ d \in Nat /\ e \in Nat /\ Cardinality(Counted(h, p)) = c + d
      BY <1>6, <2>6
    <2>8. Tallied(h, p)' = (c + d) + e /\ Cardinality(Counted(h, p)') = c /\ extra'[h][p] = e + d
      BY <2>2, <2>3, <2>4, <2>5, <2>7
    <2> HIDE DEF c, d, e
    <2>9. (c + d) + e = c + (e + d)
      BY <2>7
    <2>. QED  BY <2>8, <2>9
  <1>10. TallyMatchesVotes'
    BY <1>8, <1>9 DEF TallyMatchesVotes
  <1>11. IsFiniteSet(mapKarmanodePayeeVotes') /\ CleanedBehind' /\ InFlight' /\ SavedKept'
    <2>1. IsFiniteSet(mapKarmanodePayeeVotes')
      BY <1>5, FS_Subset DEF IInv
    <2>. QED  BY <1>2, <1>3, <2>1 DEF CleanedBehind, InFlight, Idle, SavedKept
  <1>. QED  BY <1>10, <1>11 DEF IInv

\* A start with nothing.
LEMMA RestartEmptyLemma ==
    ASSUME IInv, RestartEmpty
    PROVE  IInv'
  <1>1. TypeOK /\ <<>> \in List /\ Distinct(<<>>)
    BY DEF IInv, TallyMatchesVotes, List, Distinct
  <1>2. /\ mapKarmanodePayeeVotes' = {} /\ mapKarmanodeBlocks' = [h \in Height |-> <<>>]
        /\ thread' = [t \in Thread |-> Idle] /\ dump' = "none" /\ saved' = {} /\ cut' = {}
        /\ extra' = [h \in Height |-> [p \in Payee |-> 0]] /\ cleaned' = 0 /\ UNCHANGED tip
        /\ mapKarmanodesLastVote' = [k \in Karmanode |-> -1] /\ nLastBlockHeight' = 0
    BY DEF RestartEmpty
  <1>3. TypeOK'
    <2>1. /\ mapKarmanodeBlocks' \in [Height -> List] /\ 0 \in Height
          /\ \A h \in Height : Distinct(mapKarmanodeBlocks'[h])
          /\ thread' \in [Thread -> {Idle} \cup Busy]
          /\ mapKarmanodesLastVote' \in [Karmanode -> Height \cup {-1}]
          /\ extra' \in [Height -> [Payee -> Nat]]
      BY <1>1, <1>2, PaymentsAssumption
    <2>. QED  BY <1>1, <1>2, <2>1 DEF TypeOK, List, Distinct, Busy
  <1>4. ASSUME NEW h \in Height, NEW p \in Payee
        PROVE  (Tallied(h, p) = Cardinality(Counted(h, p)) + extra[h][p])'
    <2>1. Tallied(h, p)' = 0 /\ extra'[h][p] = 0
      BY <1>2 DEF Tallied
    <2>2. Counted(h, p)' = {}
      BY <1>2 DEF Counted, Recorded
    <2>. QED  BY <2>1, <2>2, FS_EmptySet
  <1>5. TallyMatchesVotes'
    BY <1>3, <1>4 DEF TallyMatchesVotes
  <1>6. IsFiniteSet(mapKarmanodePayeeVotes')
    BY <1>2, FS_EmptySet
  <1>7. CleanedBehind' /\ InFlight' /\ SavedKept'
    BY <1>2 DEF CleanedBehind, InFlight, Idle, SavedKept
  <1>. QED  BY <1>5, <1>6, <1>7 DEF IInv

\* Every step keeps the invariant.
LEMMA StepLemma == IInv /\ [Next]_vars => IInv'
  <1> SUFFICES ASSUME IInv, [Next]_vars PROVE IInv'
    OBVIOUS
  <1>1. CASE UNCHANGED vars
    <2>1. TypeOK
      BY DEF IInv, TallyMatchesVotes
    <2>2. TypeOK'
      BY <1>1, <2>1 DEF vars, shutdownVars, TypeOK
    <2>3. tip <= tip'
      BY <1>1, <2>1, TypeFacts DEF vars
    <2>. QED  BY <1>1, <2>2, <2>3, QuietLemma DEF vars, shutdownVars
  <1>2. ASSUME NEW t \in Thread, Record(t) \/ Tally(t) PROVE IInv'
    BY <1>2, RecordLemma, TallyLemma
  <1>3. ASSUME CleanPaymentList \/ SaveVotes \/ Restart \/ RestartEmpty PROVE IInv'
    BY <1>3, CleanLemma, SaveLemma, RestartLemma, RestartEmptyLemma
  <1>4. ASSUME \/ \E w \in Winner, ok \in BOOLEAN : ProcessMessageMNW(w, ok)
               \/ \E t \in Thread, p \in Payee : ProcessBlock(t, p)
               \/ NewTip
        PROVE  IInv'
    BY <1>4, CheckLemma
  <1>. QED  BY <1>1, <1>2, <1>3, <1>4 DEF Next

\* The invariant holds in every state.
THEOREM Inductive == Spec => []IInv
  BY InitLemma, StepLemma, PTL DEF Spec

\* The tally of a payee at a height that has not been cleaned is the number of its
\* votes recorded, though AddWinningKarmanode tallies after letting go of the locks,
\* but for votes on their way to the tally and those that a shutdown saved on one
\* side only.
THEOREM TallyMatches == Spec => []TallyMatchesVotes
  <1>1. IInv => TallyMatchesVotes
    BY DEF IInv
  <1>. QED  BY <1>1, Inductive, PTL

----------------------------------------------------------------------------
(* The payee *)

\* A block that pays what GetPayee would choose on a node with the same votes for
\* the height passes IsTransactionValid, where no shutdown left votes and tally apart.
THEOREM PayeeAccepted == Spec => []ChosenPayeeAccepted
  <1>1. ASSUME IInv PROVE ChosenPayeeAccepted
    <2>1. TypeOK /\ TallyMatchesVotes /\ IsFiniteSet(mapKarmanodePayeeVotes)
      BY <1>1 DEF IInv, TallyMatchesVotes
    <2>2. MNPAYMENTS_SIGNATURES_REQUIRED \in Nat \ {0}
      BY PaymentsAssumption
    <2>3. ASSUME NEW h \in Height, h >= cleaned, \A w \in Pending \cup cut : w.height # h,
                 \A q \in Payee : extra[h][q] = 0, NEW p \in MostVoted(h)
          PROVE  IsTransactionValid(h, p)
      <3> DEFINE vec == mapKarmanodeBlocks[h]
      <3>1. vec \in List /\ Distinct(vec) /\ p \in Payee
        BY <2>1, TypeFacts DEF MostVoted
      <3>2. \A q \in Payee : VotesIn(vec, q) = Cardinality(Recorded(h, q))
        <4> TAKE q \in Payee
        <4>1. Counted(h, q) = Recorded(h, q) /\ IsFiniteSet(Recorded(h, q))
          <5>1. Recorded(h, q) \in SUBSET mapKarmanodePayeeVotes
            BY DEF Recorded
          <5>2. IsFiniteSet(Recorded(h, q))
            BY <2>1, <5>1, FS_Subset
          <5>. QED  BY <2>3, <5>2 DEF Counted, Recorded
        <4>2. Tallied(h, q) = Cardinality(Counted(h, q)) + extra[h][q]
          BY <2>1, <2>3 DEF TallyMatchesVotes
        <4>3. Cardinality(Recorded(h, q)) \in Nat
          BY <4>1, FS_CardinalityType
        <4>. QED  BY <2>3, <4>1, <4>2, <4>3, TalliedLemma
      <3>3. \A q \in Payee : Cardinality(Recorded(h, q)) <= Cardinality(Recorded(h, p))
        BY DEF MostVoted
      <3>4. CASE \A i \in DOMAIN vec : vec[i].nVotes < MNPAYMENTS_SIGNATURES_REQUIRED
        BY <3>4 DEF IsTransactionValid
      <3>5. ASSUME NEW i \in DOMAIN vec, ~(vec[i].nVotes < MNPAYMENTS_SIGNATURES_REQUIRED)
            PROVE  IsTransactionValid(h, p)
        <4> DEFINE q == vec[i].payee
        <4>1. q \in Payee /\ vec[i].nVotes \in Nat
          BY <3>1, ListLemma
        <4>2. VotesIn(vec, q) = vec[i].nVotes
          BY <3>1, VotesLemma
        <4> HIDE DEF q
        <4>3. VotesIn(vec, q) <= VotesIn(vec, p)
          BY <3>1, <3>2, <3>3, <4>1
        <4>4. VotesIn(vec, p) \in Nat
          BY <3>1, VotesLemma
        <4>5. VotesIn(vec, p) >= MNPAYMENTS_SIGNATURES_REQUIRED /\ VotesIn(vec, p) # 0
          BY <2>2, <3>5, <4>1, <4>2, <4>3, <4>4
        <4>6. PICK j \in DOMAIN vec : vec[j].payee = p
          BY <3>1, <4>5, VotesLemma
        <4>7. vec[j].nVotes = VotesIn(vec, p)
          BY <3>1, <4>6, VotesLemma
        <4>. QED  BY <4>5, <4>6, <4>7 DEF IsTransactionValid
      <3>. QED  BY <3>4, <3>5
    <2>. QED  BY <2>3 DEF ChosenPayeeAccepted
  <1>. QED  BY <1>1, Inductive, PTL

-----------------------------------------------------------------------------
(* KarmanodeSync *)

USE SyncAssumption

\* What SyncedMeansReceived says of one state of the stages, for payments
\* enforced (e) or not.
Received(s, e) ==
    e =>
        /\ spork8
        /\ s.assets \in {"MNW", "BUDGET", "FINISHED"} => s.last["LIST"] # "never"
        /\ s.assets \in {"BUDGET", "FINISHED"} => s.last["MNW"] # "never"

Good(s, e) == s \in SyncState /\ Received(s, e)
Flags == [Peer -> SUBSET {Request[a] : a \in DOMAIN Request}]

\* The counter of attempts starts inside its bounds.
LEMMA NoAttempts == 0 \in 0..(3 * KARMANODE_SYNC_THRESHOLD)
  OBVIOUS

\* A stage is left for the next one with everything received, if what is
\* required of it has come.
LEMMA NextAssetLemma ==
    ASSUME NEW s, NEW e, Good(s, e), s.assets \in DOMAIN Following,
           e /\ s.assets \in {"LIST", "MNW"} => s.last[s.assets] # "never"
    PROVE  Good(GetNextAsset(s), e) /\ GetNextAsset(s).attempt = 0
  <1>1. s.assets \in {"INITIAL", "SPORKS", "LIST", "MNW", "BUDGET"}
    BY DEF Following
  <1>2. Following[s.assets] =
           CASE s.assets = "INITIAL" -> "SPORKS" [] s.assets = "SPORKS" -> "LIST"
             [] s.assets = "LIST" -> "MNW" [] s.assets = "MNW" -> "BUDGET"
             [] s.assets = "BUDGET" -> "FINISHED"
    BY <1>1 DEF Following
  <1>3. /\ GetNextAsset(s).assets = Following[s.assets]
        /\ GetNextAsset(s).attempt = 0
        /\ GetNextAsset(s).last = s.last
    BY DEF Good, SyncState, GetNextAsset
  <1>4. GetNextAsset(s) \in SyncState
    <2>1. Following[s.assets] \in {"INITIAL", "SPORKS", "FAILED", "FINISHED"} \cup Asset
      BY <1>1, <1>2 DEF Asset
    <2>. QED  BY <2>1, NoAttempts DEF Good, SyncState, GetNextAsset
  <1>. QED  BY <1>1, <1>2, <1>3, <1>4 DEF Good, Received

\* A set of numbers has a least one.
LEMMA LeastNat ==
    ASSUME NEW S \in SUBSET Nat, S # {}
    PROVE  \E m \in S : \A k \in S : m <= k
  <1> DEFINE R == OpToRel(<, Nat)
  <1>1. \E m \in S : \A k \in S : <<k, m>> \notin R
    <2>1. IsWellFoundedOn(R, Nat)
      BY NatLessThanWellFounded
    <2> HIDE DEF R
    <2>. QED  BY <2>1, WFMin
  <1>2. \A m, k \in Nat : <<k, m>> \notin R => m <= k
    BY DEF OpToRel
  <1>. QED  BY <1>1, <1>2

\* A request noted for a peer keeps the type of the flags.
LEMMA AskLemma ==
    ASSUME NEW f \in Flags, NEW a \in DOMAIN Request
    PROVE  Ask(f, a) \in Flags
  BY DEF Flags, Ask, Peer

\* One more attempt below the limit.
LEMMA AttemptLemma ==
    ASSUME NEW s, NEW e, Good(s, e), s.attempt < 3 * KARMANODE_SYNC_THRESHOLD
    PROVE  Good([s EXCEPT !.attempt = @ + 1], e)
  BY DEF Good, SyncState, Received

\* A visit to the peers keeps the types and moves on only with the items.
LEMMA VisitLemma ==
    ASSUME NEW s, NEW e, NEW f \in Flags, Good(s, e), dsegAsked \subseteq Peer,
           s.assets \in {"SPORKS", "LIST", "MNW", "BUDGET"}, Visit(s, f)
    PROVE  Good(sync', e) /\ fulfilled' \in Flags /\ dsegAsked' \subseteq Peer
  <1>1. s.assets \in DOMAIN Following /\ s.assets \in DOMAIN Request
    BY DEF Following, Request
  <1>2. Ask(f, s.assets) \in Flags
    BY <1>1, AskLemma
  <1>3. CASE s.assets = "SPORKS"
    <2>1. VisitSporks(s, f)
      BY <1>3 DEF Visit
    <2>2. CASE Unasked(f, "SPORKS") = {}
      BY <2>1, <2>2 DEF VisitSporks, Becomes
    <2>3. CASE Unasked(f, "SPORKS") # {} /\ s.attempt >= 2
      <3>1. Good(GetNextAsset(s), e) /\ GetNextAsset(s).attempt = 0
        BY <1>1, <1>3, NextAssetLemma
      <3>2. Good([GetNextAsset(s) EXCEPT !.attempt = @ + 1], e)
        BY <3>1, AttemptLemma
      <3>. QED  BY <1>2, <1>3, <2>1, <2>3, <3>2 DEF VisitSporks, Becomes
    <2>4. CASE Unasked(f, "SPORKS") # {} /\ ~(s.attempt >= 2)
      <3>1. Good([s EXCEPT !.attempt = @ + 1], e)
        BY <2>4, AttemptLemma DEF Good, SyncState
      <3>. QED  BY <1>2, <1>3, <2>1, <2>4, <3>1 DEF VisitSporks, Becomes
    <2>. QED  BY <2>2, <2>3, <2>4
  <1>4. ASSUME NEW a \in Asset, s.assets = a, Send(s, f, a), ~(s.attempt >= 3 * KARMANODE_SYNC_THRESHOLD),
               Unasked(f, a) # {}
        PROVE  Good(sync', e) /\ fulfilled' \in Flags /\ dsegAsked' \subseteq Peer
    <2>1. First(Unasked(f, a)) \in Peer
      <3>1. PICK p \in Unasked(f, a) : \A q \in Unasked(f, a) : p <= q
        <4>1. Unasked(f, a) \subseteq Nat
          BY DEF Unasked, Peer
        <4>. QED  BY <1>4, <4>1, LeastNat
      <3>. QED  BY <3>1 DEF First, Unasked
    <2>2. Good([s EXCEPT !.attempt = @ + 1], e)
      BY <1>4, AttemptLemma DEF Good, SyncState
    <2>. QED  BY <1>2, <1>4, <2>1, <2>2 DEF Send
  <1>5. CASE s.assets \in {"LIST", "MNW"}
    <2> DEFINE a == s.assets
    <2>1. VisitList(s, f, a)
      BY <1>5 DEF Visit
    <2>2. CASE Settled(s, a)
      <3>1. Good(GetNextAsset(s), e)
        BY <1>1, <2>2, NextAssetLemma DEF Settled
      <3>. QED  BY <2>1, <2>2, <3>1 DEF VisitList, Becomes
    <2>3. CASE ~Settled(s, a) /\ Unasked(f, a) = {}
      BY <2>1, <2>3 DEF VisitList, Becomes
    <2>4. CASE ~Settled(s, a) /\ Unasked(f, a) # {} /\ TimedOut(s, a)
      <3>1. CASE spork8
        <4> DEFINE failed == [s EXCEPT !.assets = "FAILED", !.attempt = 0]
        <4>1. failed \in SyncState /\ failed.assets = "FAILED"
          BY NoAttempts DEF Good, SyncState
        <4>2. Becomes(failed, Ask(f, a))
          BY <2>1, <2>4, <3>1 DEF VisitList, Timeout
        <4> HIDE DEF failed
        <4>. QED  BY <1>2, <4>1, <4>2 DEF Becomes, Good, Received
      <3>2. CASE ~spork8
        <4>1. Good(GetNextAsset(s), e)
          BY <1>1, <3>2, NextAssetLemma DEF Good, Received
        <4>. QED  BY <1>2, <2>1, <2>4, <3>2, <4>1 DEF VisitList, Becomes, Timeout
      <3>. QED  BY <3>1, <3>2
    <2>5. CASE /\ ~Settled(s, a) /\ Unasked(f, a) # {} /\ ~TimedOut(s, a)
               /\ s.attempt >= 3 * KARMANODE_SYNC_THRESHOLD
      BY <1>2, <2>1, <2>5 DEF VisitList, Becomes
    <2>6. CASE /\ ~Settled(s, a) /\ Unasked(f, a) # {} /\ ~TimedOut(s, a)
               /\ ~(s.attempt >= 3 * KARMANODE_SYNC_THRESHOLD)
      <3>1. Send(s, f, a) /\ a \in Asset
        BY <1>5, <2>1, <2>6 DEF VisitList, Asset
      <3>. QED  BY <1>4, <2>6, <3>1
    <2>. QED  BY <2>2, <2>3, <2>4, <2>5, <2>6
  <1>6. CASE s.assets = "BUDGET"
    <2>1. VisitBudget(s, f)
      BY <1>6 DEF Visit
    <2>2. CASE Settled(s, "BUDGET") \/ TimedOut(s, "BUDGET")
      <3>1. Good(GetNextAsset(s), e)
        BY <1>1, <1>6, NextAssetLemma
      <3>. QED  BY <2>1, <2>2, <3>1 DEF VisitBudget, Becomes
    <2>3. CASE ~(Settled(s, "BUDGET") \/ TimedOut(s, "BUDGET")) /\ Unasked(f, "BUDGET") = {}
      BY <2>1, <2>3 DEF VisitBudget, Becomes
    <2>4. CASE /\ ~(Settled(s, "BUDGET") \/ TimedOut(s, "BUDGET")) /\ Unasked(f, "BUDGET") # {}
               /\ s.attempt >= 3 * KARMANODE_SYNC_THRESHOLD
      BY <1>2, <1>6, <2>1, <2>4 DEF VisitBudget, Becomes
    <2>5. CASE /\ ~(Settled(s, "BUDGET") \/ TimedOut(s, "BUDGET")) /\ Unasked(f, "BUDGET") # {}
               /\ ~(s.attempt >= 3 * KARMANODE_SYNC_THRESHOLD)
      <3>1. Send(s, f, "BUDGET")
        BY <2>1, <2>5 DEF VisitBudget
      <3>. QED  BY <1>4, <1>6, <2>5, <3>1 DEF Asset
    <2>. QED  BY <2>2, <2>3, <2>4, <2>5
  <1>. QED  BY <1>3, <1>5, <1>6

-----------------------------------------------------------------------------
\* SyncedMeansReceived is inductive.
LEMMA SyncedStep == SyncedMeansReceived /\ [SyncNext]_syncVars => SyncedMeansReceived'
  <1> SUFFICES ASSUME SyncedMeansReceived, [SyncNext]_syncVars
               PROVE  SyncedMeansReceived'
    OBVIOUS
  <1>0. Good(sync, enforced) /\ fulfilled \in Flags
    BY DEF SyncedMeansReceived, SyncTypeOK, Good, Received, Flags
  <1>a. SUFFICES Good(sync, enforced)' /\ fulfilled' \in Flags
                   /\ {spork8, enforced, blockchainSynced, enabled, retryDue}' \subseteq BOOLEAN
                   /\ dsegAsked' \subseteq Peer /\ sleeps' \in 0..MaxSleeps
    BY DEF SyncedMeansReceived, SyncTypeOK, Good, Received, Flags
  <1>b. Good(ResetState, spork8)
    BY NoAttempts DEF ResetState, Good, SyncState, Received, Asset
  <1> USE DEF SyncedMeansReceived, SyncTypeOK
  <1>1. ASSUME NEW locked \in BOOLEAN, NEW lockedAgain \in BOOLEAN, Process(locked, lockedAgain)
        PROVE  Good(sync, enforced)' /\ fulfilled' \in Flags /\ dsegAsked' \subseteq Peer
    <2> DEFINE s == IF StartsOver THEN ResetState ELSE sync
               e == IF StartsOver THEN spork8 ELSE enforced
               started == s.assets = "INITIAL"
               t == IF started THEN GetNextAsset(s) ELSE s
               f == IF started /\ locked THEN [p \in Peer |-> {}] ELSE fulfilled
    <2>1. Good(s, e) /\ f \in Flags
      BY <1>0, <1>b DEF Flags
    <2>2. s.assets \in {"INITIAL", "SPORKS", "LIST", "MNW", "BUDGET"}
      BY <1>0, <1>1 DEF Process, ResetState, Good, SyncState, Asset
    <2>3. Good(t, e) /\ t.assets \in {"SPORKS", "LIST", "MNW", "BUDGET"}
      <3>1. CASE started
        <4>1. Good(GetNextAsset(s), e)
          BY <2>1, <3>1, NextAssetLemma DEF Following
        <4>2. GetNextAsset(s).assets = "SPORKS"
          BY <2>1, <3>1 DEF GetNextAsset, Following, Good, SyncState
        <4>. QED  BY <3>1, <4>1, <4>2
      <3>2. CASE ~started
        BY <2>1, <2>2, <3>2
      <3>. QED  BY <3>1, <3>2
    <2>4. Visit(t, f) \/ Becomes(t, f)
      BY <1>1 DEF Process
    <2>7. enforced' = e /\ spork8' = spork8
      BY <1>1 DEF Process
    <2> HIDE DEF s, e, started, t, f
    <2>5. CASE Visit(t, f)
      <3>1. Good(sync', e) /\ fulfilled' \in Flags /\ dsegAsked' \subseteq Peer
        BY <2>1, <2>3, <2>5, VisitLemma
      <3>. QED  BY <2>7, <3>1 DEF Good, Received
    <2>6. CASE Becomes(t, f)
      BY <2>1, <2>3, <2>6, <2>7 DEF Becomes, Good, Received
    <2>. QED  BY <2>4, <2>5, <2>6
  <1>2. ASSUME NEW locked \in BOOLEAN, NEW lockedAgain \in BOOLEAN, Process(locked, lockedAgain)
        PROVE  {spork8, enforced, blockchainSynced, enabled, retryDue}' \subseteq BOOLEAN
                 /\ sleeps' \in 0..MaxSleeps
    BY <1>2 DEF Process
  <1>3. ASSUME NEW a \in Asset, Added(a) \/ Age(a)
        PROVE  Good(sync, enforced)'
    <2>1. CASE Added(a)
      <3>1. /\ sync' \in SyncState
            /\ sync'.assets = sync.assets
            /\ \A b \in Asset : sync.last[b] # "never" => sync'.last[b] # "never"
        BY <1>0, <2>1 DEF Added, Good, SyncState
      <3>. QED  BY <1>0, <2>1, <3>1 DEF Added, Good, Received, Asset
    <2>2. CASE Age(a)
      BY <1>0, <2>2 DEF Age, Good, SyncState, Received
    <2>. QED  BY <1>3, <2>1, <2>2
  <1>4. ASSUME NEW a \in Asset, Added(a) \/ Age(a)
        PROVE  UNCHANGED <<spork8, enforced, fulfilled, blockchainSynced, enabled, retryDue, dsegAsked, sleeps>>
    BY <1>4 DEF Added, Age
  <1>5. CASE Expire
    BY <1>0, <1>5 DEF Expire, Good, SyncState, Received
  <1>6. CASE RetryTime \/ DsegTime \/ ChainSynced
    <2>1. UNCHANGED <<sync, spork8, enforced, fulfilled, enabled, sleeps>>
      BY <1>6 DEF RetryTime, DsegTime, ChainSynced
    <2>2. dsegAsked' \subseteq Peer
      BY <1>6 DEF RetryTime, DsegTime, ChainSynced
    <2>3. {spork8, enforced, blockchainSynced, enabled, retryDue}' \subseteq BOOLEAN
      BY <1>6, <2>1, Zenon DEF RetryTime, DsegTime, ChainSynced
    <2>. QED  BY <1>0, <2>1, <2>2, <2>3 DEF Good, Received
  <1>7. ASSUME NEW flag \in BOOLEAN, Sleep(flag)
        PROVE  Good(sync, enforced)' /\ fulfilled' \in Flags
                 /\ {spork8, enforced, blockchainSynced, enabled, retryDue}' \subseteq BOOLEAN
                 /\ dsegAsked' \subseteq Peer /\ sleeps' \in 0..MaxSleeps
    BY <1>0, <1>b, <1>7 DEF Sleep, Good, Received
  <1>8. CASE EnabledChanges
    BY <1>0, <1>8 DEF EnabledChanges, Good, Received
  <1>9. ASSUME NEW p \in Peer, Reconnect(p)
        PROVE  fulfilled' \in Flags
                 /\ UNCHANGED <<sync, spork8, enforced, blockchainSynced, enabled, retryDue, dsegAsked, sleeps>>
    BY <1>0, <1>9 DEF Reconnect, Flags
  <1>10. CASE UNCHANGED syncVars
    BY <1>0, <1>10 DEF syncVars, Good, Received
  <1>11. CASE SporkChanges
    <2>1. UNCHANGED <<sync, fulfilled, blockchainSynced, enabled, retryDue, dsegAsked, sleeps>>
      BY <1>11 DEF SporkChanges
    <2>2. spork8' \in BOOLEAN /\ enforced' \in BOOLEAN
      BY <1>11, Zenon DEF SporkChanges
    <2>3. /\ enforced' => spork8'
          /\ enforced' => enforced \/ sync.assets \in {"INITIAL", "SPORKS"}
      BY <1>11 DEF SporkChanges
    <2>4. Good(sync, enforced)'
      BY <1>0, <2>1, <2>3 DEF Good, Received
    <2>. QED  BY <1>0, <2>1, <2>2, <2>4
  <1>. QED
    BY <1>0, <1>1, <1>2, <1>3, <1>4, <1>5, <1>6, <1>7, <1>8, <1>9, <1>10, <1>11 DEF SyncNext, Good, Received

\* A node that has enforced payments since it asked for the list and takes itself
\* for synced has received the list and the votes since it last started over
\* (karmanode-sync.cpp), for any number of peers, threshold and order of answers,
\* timeouts, restarts and switches of the spork.
THEOREM Synced == SyncSpec => []SyncedMeansReceived
  <1>1. SyncInit => SyncedMeansReceived
    <2> SUFFICES ASSUME SyncInit PROVE SyncedMeansReceived
      OBVIOUS
    <2>1. ResetState \in SyncState
      BY NoAttempts DEF ResetState, SyncState, Asset
    <2>2. fulfilled \in Flags
      BY DEF SyncInit, Flags
    <2>3. SyncTypeOK
      <3>1. {spork8, enforced, blockchainSynced, enabled, retryDue} \subseteq BOOLEAN
        BY Zenon DEF SyncInit
      <3>2. sleeps \in 0..MaxSleeps /\ dsegAsked \subseteq Peer
        BY DEF SyncInit
      <3>. QED  BY <2>1, <2>2, <3>1, <3>2 DEF SyncInit, SyncTypeOK, Flags
    <2>4. sync.assets = "INITIAL"
      BY DEF SyncInit, ResetState
    <2>5. enforced => spork8
      BY DEF SyncInit
    <2>. QED  BY <2>3, <2>4, <2>5 DEF SyncedMeansReceived
  <1>. QED  BY <1>1, SyncedStep, PTL DEF SyncSpec
=============================================================================
