-------------------------- MODULE KarmanodePayments --------------------------
(***************************************************************************)
(* Karmanode payment votes as one node keeps them (karmanode-payments.cpp, *)
(* CKarmanodePayments in the header).  Karmanodes vote for the payee of a  *)
(* height; the votes are recorded once each and tallied by height, the     *)
(* tally chooses the payee of an own block and judges the blocks of        *)
(* others.  Votes come with messages, and from any thread that processes a *)
(* block; threads add votes at the same time, in the three steps the locks *)
(* leave: the checks, the record under both locks, and the tally outside   *)
(* them.  Old votes are cleaned by one more thread, and the thread that    *)
(* shuts the node down saves the two maps one after the other, without a   *)
(* lock, while all others still run.                                       *)
(***************************************************************************)
EXTENDS Integers, Sequences, FiniteSets

CONSTANTS
    Karmanode,
    Payee,
    NoPayee,         \* the empty script
    Height,          \* heights a vote may name
    Top,             \* the karmanodes of each height not ranked behind the
                     \* MNPAYMENTS_SIGNATURES_TOTAL best
    Self,            \* this node's own karmanode, or NoKarmanode
    NoKarmanode,
    Thread,          \* the threads that process messages and blocks
    MessageHandler,  \* the one of them that handles messages
    MNPAYMENTS_SIGNATURES_REQUIRED,
    AHEAD,           \* ProcessBlock votes for the height AHEAD (10) above the tip
    FAR,             \* votes are taken up to FAR (20) above the tip
    WINDOW,          \* and down to WINDOW (1.25 enabled karmanodes) below it
    LIMIT,           \* and kept down to LIMIT (the larger of 1.25 karmanodes and 1000)
    MaxTip,          \* bound on the height of the tip
    MaxVotes,        \* bound on the votes recorded at a time
    MaxExtra         \* bound on the votes lost from the record but not from a tally

ASSUME PaymentsAssumption ==
    /\ Height \subseteq Nat /\ 0 \in Height
    /\ NoPayee \in Payee
    /\ MessageHandler \in Thread
    /\ Top \in [Height -> SUBSET Karmanode]
    /\ NoKarmanode \notin Karmanode
    /\ Self \in Karmanode \cup {NoKarmanode}
    /\ {MNPAYMENTS_SIGNATURES_REQUIRED, AHEAD, MaxTip} \subseteq Nat \ {0}
    /\ {FAR, WINDOW, LIMIT, MaxVotes, MaxExtra} \subseteq Nat
    /\ AHEAD <= FAR /\ WINDOW <= LIMIT

VARIABLES
    tip,                     \* chainActive.Height()
    mapKarmanodePayeeVotes,  \* the votes recorded
    mapKarmanodeBlocks,      \* vecPayments of each height, empty without an entry
    mapKarmanodesLastVote,   \* the last height each karmanode voted for, -1: none
    nLastBlockHeight,        \* the last height this karmanode voted for
    thread,                  \* the step each thread is at, and its vote
    dump,                    \* "votes" once DumpKarmanodePayments has taken the votes
    saved,                   \* the votes it has taken
    cut,                     \* history: votes saved before their tally
    extra,                   \* history: how many votes of each height and payee
                             \* were tallied when the node stopped, but not saved
    cleaned                  \* history: the heights below it have been cleaned

shutdownVars == <<dump, saved, cut, extra>>
vars == <<tip, mapKarmanodePayeeVotes, mapKarmanodeBlocks, mapKarmanodesLastVote,
          nLastBlockHeight, thread, shutdownVars, cleaned>>

\* CKarmanodePaymentWinner, by what GetHash covers.
Winner == [vin : Karmanode, height : Height, payee : Payee]

\* A thread between two calls; or adding a vote (winner), and the height it was
\* asked to vote for (forBlock), 0 in a message.
Idle == [pc |-> "idle"]

\* Votes recorded whose tally is still to come.
Pending == {w \in mapKarmanodePayeeVotes :
               \E t \in Thread : thread[t].pc = "recorded" /\ thread[t].winner = w}

-----------------------------------------------------------------------------
\* CKarmanodeBlockPayees::AddPayee, with an increment of 1.
AddPayee(vec, p) ==
    IF \E i \in DOMAIN vec : vec[i].payee = p
    THEN [i \in DOMAIN vec |-> IF vec[i].payee = p THEN [vec[i] EXCEPT !.nVotes = @ + 1]
                               ELSE vec[i]]
    ELSE Append(vec, [payee |-> p, nVotes |-> 1])

\* Mutant: the required votes themselves are not enough.
IsTransactionValidMore(h, p) ==
    LET vec == mapKarmanodeBlocks[h]
    IN  \/ \A i \in DOMAIN vec : vec[i].nVotes < MNPAYMENTS_SIGNATURES_REQUIRED
        \/ \E i \in DOMAIN vec :
              vec[i].payee = p /\ vec[i].nVotes > MNPAYMENTS_SIGNATURES_REQUIRED

\* CKarmanodePayments::IsTransactionValid for a block of height h that pays p
\* enough: without a payee of the required votes any is right.
IsTransactionValid(h, p) ==
    LET vec == mapKarmanodeBlocks[h]
    IN  \/ \A i \in DOMAIN vec : vec[i].nVotes < MNPAYMENTS_SIGNATURES_REQUIRED
        \/ \E i \in DOMAIN vec :
              vec[i].payee = p /\ vec[i].nVotes >= MNPAYMENTS_SIGNATURES_REQUIRED

-----------------------------------------------------------------------------
Init ==
    /\ tip = 1
    /\ mapKarmanodePayeeVotes = {}
    /\ mapKarmanodeBlocks = [h \in Height |-> <<>>]
    /\ mapKarmanodesLastVote = [k \in Karmanode |-> -1]
    /\ nLastBlockHeight = 0
    /\ thread = [t \in Thread |-> Idle]
    /\ dump = "none" /\ saved = {}
    /\ cut = {} /\ extra = [h \in Height |-> [p \in Payee |-> 0]]
    /\ cleaned = 0

\* The mnw message up to AddWinningKarmanode: an unknown vote of a height in
\* range by a karmanode of the top that did not vote for this height last.
\* The vote counts as the last one before the signature is looked at.
ProcessMessageMNW(w, signatureValid) ==
    /\ thread[MessageHandler] = Idle
    /\ w \notin mapKarmanodePayeeVotes
    /\ w.height >= tip - WINDOW /\ w.height <= tip + FAR
    /\ w.vin \in Top[w.height]
    /\ mapKarmanodesLastVote[w.vin] # w.height
    /\ mapKarmanodesLastVote' = [mapKarmanodesLastVote EXCEPT ![w.vin] = w.height]
    /\ thread' = IF signatureValid
                 THEN [thread EXCEPT ![MessageHandler] = [pc |-> "checked", winner |-> w, forBlock |-> 0]]
                 ELSE thread
    /\ UNCHANGED <<tip, mapKarmanodePayeeVotes, mapKarmanodeBlocks, nLastBlockHeight,
                   shutdownVars, cleaned>>

\* What ProcessBlock votes for: the next karmanode in the queue for payment
\* (external); in a budget payment block, and when there is none, neither height
\* nor payee is filled in.
NewWinners(p) ==
    {[vin |-> Self, height |-> tip + AHEAD, payee |-> p],
     [vin |-> Self, height |-> 0, payee |-> NoPayee]}

\* ProcessBlock up to AddWinningKarmanode, in any thread that processed a block.
ProcessBlock(t, p) ==
    /\ thread[t] = Idle
    /\ tip + AHEAD \in Height
    /\ Self \in Top[tip + AHEAD]
    /\ tip + AHEAD > nLastBlockHeight
    /\ \E w \in NewWinners(p) :
          thread' = [thread EXCEPT ![t] =
                        [pc |-> "checked", winner |-> w, forBlock |-> tip + AHEAD]]
    /\ UNCHANGED <<tip, mapKarmanodePayeeVotes, mapKarmanodeBlocks, mapKarmanodesLastVote,
                   nLastBlockHeight, shutdownVars, cleaned>>

\* Mutant: the record is not looked up again under the locks.
RecordUnchecked(t) ==
    /\ thread[t].pc = "checked"
    /\ LET w == thread[t].winner
       IN  /\ mapKarmanodePayeeVotes' = mapKarmanodePayeeVotes \cup {w}
           /\ thread' = [thread EXCEPT ![t].pc = "recorded"]
    /\ Cardinality(mapKarmanodePayeeVotes) < MaxVotes
    /\ UNCHANGED <<tip, mapKarmanodeBlocks, mapKarmanodesLastVote, nLastBlockHeight, shutdownVars, cleaned>>

\* AddWinningKarmanode under LOCK2: a vote not yet recorded is (and its height
\* gets an entry with an empty list).
Record(t) ==
    /\ thread[t].pc = "checked"
    /\ LET w == thread[t].winner
       IN  IF w \in mapKarmanodePayeeVotes
           THEN /\ thread' = [thread EXCEPT ![t] = Idle]
                /\ UNCHANGED mapKarmanodePayeeVotes
           ELSE /\ Cardinality(mapKarmanodePayeeVotes) < MaxVotes
                /\ mapKarmanodePayeeVotes' = mapKarmanodePayeeVotes \cup {w}
                /\ thread' = [thread EXCEPT ![t].pc = "recorded"]
    /\ UNCHANGED <<tip, mapKarmanodeBlocks, mapKarmanodesLastVote, nLastBlockHeight, shutdownVars, cleaned>>

\* The rest of AddWinningKarmanode, without a lock: operator[] makes the entry
\* again when it was cleaned in between.  ProcessBlock then notes the height it
\* was called with.
Tally(t) ==
    /\ thread[t].pc = "recorded"
    /\ LET w == thread[t].winner
       IN  /\ mapKarmanodeBlocks' =
                 [mapKarmanodeBlocks EXCEPT ![w.height] = AddPayee(@, w.payee)]
           /\ nLastBlockHeight' = IF thread[t].forBlock = 0 THEN nLastBlockHeight
                                  ELSE thread[t].forBlock
    /\ thread' = [thread EXCEPT ![t] = Idle]
    /\ UNCHANGED <<tip, mapKarmanodePayeeVotes, mapKarmanodesLastVote, shutdownVars, cleaned>>

\* The votes CleanPaymentList removes.
Old(votes) == {w \in votes : tip - w.height > LIMIT}

\* CleanPaymentList on the tallies: the heights of old votes lose their entry.
CleanBlocks(votes, blocks) ==
    [h \in Height |-> IF \E w \in Old(votes) : w.height = h THEN <<>> ELSE blocks[h]]

\* CleanPaymentList, called every minute by the thread of the mixing pool.
CleanPaymentList ==
    /\ mapKarmanodePayeeVotes' = mapKarmanodePayeeVotes \ Old(mapKarmanodePayeeVotes)
    /\ mapKarmanodeBlocks' = CleanBlocks(mapKarmanodePayeeVotes, mapKarmanodeBlocks)
    /\ cut' = cut \ Old(mapKarmanodePayeeVotes)
    /\ cleaned' = tip - LIMIT
    /\ UNCHANGED <<tip, mapKarmanodesLastVote, nLastBlockHeight, thread, dump, saved, extra>>

\* A block is connected (external).
NewTip ==
    /\ tip < MaxTip
    /\ tip' = tip + 1
    /\ UNCHANGED <<mapKarmanodePayeeVotes, mapKarmanodeBlocks, mapKarmanodesLastVote,
                   nLastBlockHeight, thread, shutdownVars, cleaned>>

\* DumpKarmanodePayments takes the votes first, without a lock; nothing has been
\* told to stop yet.
SaveVotes ==
    /\ dump = "none"
    /\ dump' = "votes"
    /\ saved' = mapKarmanodePayeeVotes
    /\ UNCHANGED <<tip, mapKarmanodePayeeVotes, mapKarmanodeBlocks, mapKarmanodesLastVote,
                   nLastBlockHeight, thread, cut, extra, cleaned>>

\* The votes recorded for a payee at a height.
Recorded(h, p) == {w \in mapKarmanodePayeeVotes : w.height = h /\ w.payee = p}

\* Those of them that are in the tally.
Counted(h, p) == Recorded(h, p) \ (Pending \cup cut)

\* Votes in the tallies that are not among the votes saved before them.
ExtraSaved ==
    [h \in Height |-> [p \in Payee |->
        IF h < tip - LIMIT THEN 0 ELSE extra[h][p] + Cardinality(Counted(h, p) \ saved)]]

\* It takes the tallies next, and the process ends; the next one reads both and
\* cleans them.  The other maps are not in the file.
Restart ==
    /\ dump = "votes"
    /\ \A h \in Height, p \in Payee : ExtraSaved[h][p] <= MaxExtra
    /\ thread' = [t \in Thread |-> Idle]
    /\ mapKarmanodesLastVote' = [k \in Karmanode |-> -1]
    /\ nLastBlockHeight' = 0
    /\ mapKarmanodePayeeVotes' = saved \ Old(saved)
    /\ mapKarmanodeBlocks' = CleanBlocks(saved, mapKarmanodeBlocks)
    /\ cut' = (saved \cap (Pending \cup cut)) \ Old(saved)
    /\ extra' = ExtraSaved
    /\ cleaned' = tip - LIMIT
    /\ dump' = "none" /\ saved' = {}
    /\ UNCHANGED tip

\* A start without a file that can be read: Clear.
RestartEmpty ==
    /\ thread' = [t \in Thread |-> Idle]
    /\ mapKarmanodesLastVote' = [k \in Karmanode |-> -1]
    /\ nLastBlockHeight' = 0
    /\ mapKarmanodePayeeVotes' = {}
    /\ mapKarmanodeBlocks' = [h \in Height |-> <<>>]
    /\ dump' = "none" /\ saved' = {}
    /\ cut' = {} /\ extra' = [h \in Height |-> [p \in Payee |-> 0]]
    /\ cleaned' = 0
    /\ UNCHANGED tip

Next ==
    \/ \E w \in Winner, ok \in BOOLEAN : ProcessMessageMNW(w, ok)
    \/ \E t \in Thread : Record(t) \/ Tally(t) \/ \E p \in Payee : ProcessBlock(t, p)
    \/ CleanPaymentList
    \/ NewTip
    \/ SaveVotes
    \/ Restart
    \/ RestartEmpty

Spec == Init /\ [][Next]_vars

-----------------------------------------------------------------------------
\* Types: a list names a payee once, with at least one vote, and a thread in
\* the middle of AddWinningKarmanode holds a vote.
TypeOK ==
    /\ tip \in 1..MaxTip
    /\ mapKarmanodePayeeVotes \subseteq Winner
    /\ mapKarmanodeBlocks \in [Height -> Seq([payee : Payee, nVotes : Nat \ {0}])]
    /\ \A h \in Height : \A i, j \in DOMAIN mapKarmanodeBlocks[h] :
          mapKarmanodeBlocks[h][i].payee = mapKarmanodeBlocks[h][j].payee => i = j
    /\ mapKarmanodesLastVote \in [Karmanode -> Height \cup {-1}]
    /\ nLastBlockHeight \in Height
    /\ thread \in [Thread -> {Idle} \cup [pc : {"checked", "recorded"}, winner : Winner,
                                         forBlock : Height]]
    /\ dump \in {"none", "votes"} /\ saved \subseteq Winner
    /\ cut \subseteq mapKarmanodePayeeVotes
    /\ extra \in [Height -> [Payee -> Nat]]
    /\ cleaned \in Int

\* The votes a list holds for a payee.
Tallied(h, p) ==
    LET at == {i \in DOMAIN mapKarmanodeBlocks[h] : mapKarmanodeBlocks[h][i].payee = p}
    IN  IF at = {} THEN 0 ELSE mapKarmanodeBlocks[h][CHOOSE i \in at : TRUE].nVotes

\* At every height that has not been cleaned, a payee's tally is the number of
\* votes recorded for it, less those a thread is about to add and those a shutdown
\* saved without their tally, more those it saved in the tally alone: only the
\* gap between the two maps of a shutdown makes AddWinningKarmanode count a vote
\* twice or lose it, though it tallies after it has let go of the locks.
\* A list names a payee once (TypeOK).
TallyMatchesVotes ==
    /\ TypeOK
    /\ \A h \in Height, p \in Payee : h >= cleaned =>
        Tallied(h, p) = Cardinality(Counted(h, p)) + extra[h][p]

\* The payees a node with the same votes for a height may choose: those with
\* the most votes, in whatever order the votes came.
MostVoted(h) ==
    {p \in Payee : \A q \in Payee : Cardinality(Recorded(h, q)) <= Cardinality(Recorded(h, p))}

\* A block of another node that pays the payee it chose with the same votes for
\* the height (GetPayee: the first of those with the most), in whatever order they
\* came there, is right for IsTransactionValid here, once all the votes are
\* tallied and if no shutdown has left the tally and the votes of the height apart.
ChosenPayeeAccepted ==
    \A h \in Height :
        (/\ h >= cleaned
         /\ \A w \in Pending \cup cut : w.height # h
         /\ \A p \in Payee : extra[h][p] = 0) =>
            \A p \in MostVoted(h) : IsTransactionValid(h, p)
=============================================================================
