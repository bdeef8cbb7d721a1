------------------------------ MODULE SwiftTX ------------------------------
(***************************************************************************)
(* SwiftTX transaction locks as one node keeps them (swifttx.cpp): lock    *)
(* requests and the votes of karmanodes arrive in any order, several       *)
(* times, before the karmanode or the transaction is known; conflicting    *)
(* requests compete for inputs; locks expire; a warning about a fork stops *)
(* the announcements and a spork the messages.  A handler is one step.     *)
(* Time is the time a lock has left; with 0 it expires when the locks are  *)
(* cleaned next.                                                           *)
(***************************************************************************)
EXTENDS Integers, Sequences, FiniteSets

CONSTANTS
    Tx,                    \* transactions
    Vin,                   \* the set of outpoints each one spends
    LockHeight,            \* height its lock is voted at, from the age of its input
    Karmanode,
    Height,                \* heights a vote may name
    Top,                   \* the SIGNATURES_TOTAL best karmanodes of each height
    Self,                  \* this node's own karmanode, or NoKarmanode
    SIGNATURES_REQUIRED,
    LOCK_TIME,             \* the 60 minutes of nExpiration
    NoTx, NoKarmanode

Outpoint == UNION {Vin[t] : t \in Tx}

ASSUME SwiftAssumption ==
    /\ Vin \in [Tx -> SUBSET Outpoint]
    /\ Height \subseteq Nat \ {0}
    /\ LockHeight \in [Tx -> Height]
    /\ Top \in [Height -> SUBSET Karmanode]
    /\ SIGNATURES_REQUIRED \in Nat \ {0}
    /\ LOCK_TIME \in Nat \ {0}
    /\ NoTx \notin Tx /\ NoKarmanode \notin Karmanode
    /\ Self \in Karmanode \cup {NoKarmanode}

VARIABLES
    mapTxLockReq,          \* "none", "tx" (the transaction) or "empty" (operator[])
    mapTxLockReqRejected,  \* the rejected requests
    mapTxLockVote,         \* the votes seen: pairs of karmanode and transaction
    mapTxLocks,            \* the locks: height, votes, time left; or NoLock
    mapLockedInputs,       \* which transaction an outpoint is locked for
    spork2,                \* IsSporkActive(SPORK_2_SWIFTTX)
    largeWork,             \* fLargeWorkForkFound or fLargeWorkInvalidChainFound
    notified               \* the transactions NotifyTransactionLock was sent
                           \* for during their present lock

lockVars == <<mapTxLockReq, mapTxLockReqRejected, mapTxLockVote, mapTxLocks, mapLockedInputs>>
switches == <<spork2, largeWork>>
vars == <<lockVars, switches, notified>>

Vote == Karmanode \X Height
NoLock == [height |-> 0, votes |-> <<>>, left |-> 0, exists |-> FALSE]
NewLock(h) == [height |-> h, votes |-> <<>>, left |-> LOCK_TIME, exists |-> TRUE]

-----------------------------------------------------------------------------
\* Mutant: a vote counts whatever height it names.
CountAnyHeight(lock) == IF lock.height = 0 THEN -1 ELSE Len(lock.votes)

\* CTransactionLock::CountSignatures.
CountSignatures(lock) ==
    IF lock.height = 0 THEN -1
    ELSE Cardinality({i \in DOMAIN lock.votes : lock.votes[i][2] = lock.height})

\* The votes for t that count in locks, or -1; read where the lock is at hand.
LockSignatures(locks, t) == IF locks[t].exists THEN CountSignatures(locks[t]) ELSE -1

\* GetTransactionLockSignatures, which the announcements read.
Signatures(locks, t) ==
    IF largeWork THEN -2 ELSE IF ~spork2 THEN -1 ELSE LockSignatures(locks, t)

\* Mutant: a repeated request starts the hour again.
CreateNewLockRenews(t) ==
    [mapTxLocks EXCEPT ![t] = [NewLock(LockHeight[t]) EXCEPT !.votes = mapTxLocks[t].votes]]

\* CreateNewLock when the inputs are old enough.
CreateNewLock(t) ==
    [mapTxLocks EXCEPT ![t] = IF @.exists THEN [@ EXCEPT !.height = LockHeight[t]]
                              ELSE NewLock(LockHeight[t])]

\* What CreateNewLock may do: nothing when an input is missing or too new.
CreatedLocks(t) == {mapTxLocks, CreateNewLock(t)}

\* The inputs of t that a lock of another transaction holds.
Rivals(t) == {mapLockedInputs[o] : o \in Vin[t]} \ {t, NoTx}

\* CheckForConflictingLocks: t and one rival expire now.
Cancelled(locks, t) ==
    IF Rivals(t) = {} THEN {locks}
    ELSE {[v \in Tx |-> IF v \in {t, u} /\ locks[v].exists THEN [locks[v] EXCEPT !.left = 0]
                        ELSE locks[v]] : u \in Rivals(t)}

\* The free inputs of t become locked for it.
LockInputs(t) ==
    [o \in Outpoint |-> IF o \in Vin[t] /\ mapLockedInputs[o] = NoTx THEN t ELSE mapLockedInputs[o]]

\* AcceptToMemoryPool, as far as it depends on locks.  It may also refuse for any
\* other reason: the pool changes at any time, so what is in it is a choice.
Acceptable(t) == Rivals(t) = {}

-----------------------------------------------------------------------------
Init ==
    /\ mapTxLockReq = [t \in Tx |-> "none"]
    /\ mapTxLockReqRejected = {}
    /\ mapTxLockVote = {}
    /\ mapTxLocks = [t \in Tx |-> NoLock]
    /\ mapLockedInputs = [o \in Outpoint |-> NoTx]
    /\ spork2 \in BOOLEAN /\ largeWork \in BOOLEAN
    /\ notified = {}

\* DoConsensusVote: the own vote is remembered and sent, not counted here.  When
\* no lock was made its height is 0 and the rank is the one at the tip.
OwnVotes(t, locks) ==
    LET votes == IF Self = NoKarmanode THEN mapTxLockVote ELSE mapTxLockVote \cup {<<Self, t>>}
    IN  IF locks[t].height = 0 THEN {mapTxLockVote, votes}
        ELSE {IF Self \in Top[LockHeight[t]] THEN votes ELSE mapTxLockVote}

\* The ix message with a transaction the pool accepts.
ProcessIxAccepted(t) ==
    /\ spork2
    /\ mapTxLockReq[t] = "none" /\ t \notin mapTxLockReqRejected
    /\ Acceptable(t)
    /\ \E locks \in CreatedLocks(t) :
          /\ mapTxLocks' = locks
          /\ mapTxLockVote' \in OwnVotes(t, locks)
          /\ notified' = IF Signatures(locks, t) = SIGNATURES_REQUIRED
                         THEN notified \cup {t} ELSE notified
    /\ mapTxLockReq' = [mapTxLockReq EXCEPT ![t] = "tx"]
    /\ UNCHANGED <<mapTxLockReqRejected, mapLockedInputs, switches>>

\* The ix message with a transaction the pool refuses: its free inputs are
\* locked, and a complete lock without a rival becomes a request (and
\* ReprocessBlocks runs, see ChainState).
ProcessIxRejected(t) ==
    /\ spork2
    /\ mapTxLockReq[t] = "none" /\ t \notin mapTxLockReqRejected
    /\ mapTxLockReqRejected' = mapTxLockReqRejected \cup {t}
    /\ mapLockedInputs' = LockInputs(t)
    /\ \E locks \in CreatedLocks(t) :
          IF LockSignatures(locks, t) >= SIGNATURES_REQUIRED
          THEN /\ mapTxLocks' \in Cancelled(locks, t)
               /\ mapTxLockReq' = IF Rivals(t) = {} THEN [mapTxLockReq EXCEPT ![t] = "tx"]
                                  ELSE mapTxLockReq
          ELSE mapTxLocks' = locks /\ UNCHANGED mapTxLockReq
    /\ UNCHANGED <<mapTxLockVote, switches, notified>>

\* The wallet asks for a lock of a transaction that is in the pool already, or
\* sendrawtransaction of one it offers to the pool afterwards, whatever the spork.
LocalRequest(t) ==
    /\ mapTxLockReq' = [mapTxLockReq EXCEPT ![t] = IF @ = "none" THEN "tx" ELSE @]
    /\ mapTxLocks' \in CreatedLocks(t)
    /\ UNCHANGED <<mapTxLockReqRejected, mapTxLockVote, mapLockedInputs, switches, notified>>

\* ProcessConsensusVote up to AddSignature: a vote may make the lock, whose
\* height is then not known yet.
AddSignature(m, t, h) ==
    LET old == IF mapTxLocks[t].exists THEN mapTxLocks[t] ELSE NewLock(0)
    IN  [mapTxLocks EXCEPT ![t] = [old EXCEPT !.votes = Append(@, <<m, h>>)]]

\* Mutant: the announcement comes one vote late.
AnnounceLate(t, locks, req) == req[t] # "none" /\ Signatures(locks, t) > SIGNATURES_REQUIRED

\* The test at the end of the txlvote message.
Announce(t, locks, req) == req[t] # "none" /\ Signatures(locks, t) = SIGNATURES_REQUIRED

\* Mutant: operator[] is used whether or not the lock is complete.
RequestLookupAlways(t, locks) ==
    [mapTxLockReq EXCEPT ![t] = IF @ = "none" THEN "empty" ELSE @]

\* mapTxLockReq[txHash] of a complete lock creates an empty transaction.
RequestLookup(t, locks) ==
    IF LockSignatures(locks, t) >= SIGNATURES_REQUIRED
    THEN [mapTxLockReq EXCEPT ![t] = IF @ = "none" THEN "empty" ELSE @]
    ELSE mapTxLockReq

\* mapTxLockVote.insert, before anything about the vote is checked.
Remember(m, t, h) == mapTxLockVote \cup {<<m, t>>}

\* The txlvote message with a vote that counts.  An empty transaction has no
\* inputs, so it has no rival and locks nothing.
ProcessVote(m, t, h) ==
    LET locks == AddSignature(m, t, h)
        req == RequestLookup(t, locks)
        complete == LockSignatures(locks, t) >= SIGNATURES_REQUIRED
    IN  /\ spork2 /\ <<m, t>> \notin mapTxLockVote
        /\ m \in Top[h]
        /\ mapTxLockVote' = Remember(m, t, h)
        /\ mapTxLockReq' = req
        /\ IF complete /\ req[t] = "tx"
           THEN /\ mapTxLocks' \in Cancelled(locks, t)
                /\ mapLockedInputs' = IF Rivals(t) = {} THEN LockInputs(t) ELSE mapLockedInputs
           ELSE mapTxLocks' = locks /\ UNCHANGED mapLockedInputs
        /\ notified' = IF Announce(t, locks, req) THEN notified \cup {t} ELSE notified
        /\ UNCHANGED <<mapTxLockReqRejected, switches>>

\* The txlvote message with a vote of an unknown or low-ranked karmanode, or
\* with a bad signature: it is remembered and dropped.
ProcessVoteRefused(m, t) ==
    /\ spork2 /\ <<m, t>> \notin mapTxLockVote
    /\ mapTxLockVote' = mapTxLockVote \cup {<<m, t>>}
    /\ notified' = IF Announce(t, mapTxLocks, mapTxLockReq) THEN notified \cup {t} ELSE notified
    /\ UNCHANGED <<mapTxLockReq, mapTxLockReqRejected, mapTxLocks, mapLockedInputs, switches>>

\* CleanTransactionLocksList, one expired lock.
Expire(t) ==
    /\ mapTxLocks[t].exists /\ mapTxLocks[t].left = 0
    /\ IF mapTxLockReq[t] # "none"
       THEN /\ mapLockedInputs' = [o \in Outpoint |->
                 IF mapTxLockReq[t] = "tx" /\ o \in Vin[t] THEN NoTx ELSE mapLockedInputs[o]]
            /\ mapTxLockReq' = [mapTxLockReq EXCEPT ![t] = "none"]
            /\ mapTxLockReqRejected' = mapTxLockReqRejected \ {t}
            /\ mapTxLockVote' = mapTxLockVote \
                 {<<mapTxLocks[t].votes[i][1], t>> : i \in DOMAIN mapTxLocks[t].votes}
       ELSE UNCHANGED <<mapLockedInputs, mapTxLockReq, mapTxLockReqRejected, mapTxLockVote>>
    /\ mapTxLocks' = [mapTxLocks EXCEPT ![t] = NoLock]
    /\ notified' = notified \ {t}
    /\ UNCHANGED <<switches>>

\* Time passes.
Tick ==
    /\ \E t \in Tx : mapTxLocks[t].exists /\ mapTxLocks[t].left # 0
    /\ mapTxLocks' = [t \in Tx |-> IF mapTxLocks[t].exists /\ mapTxLocks[t].left # 0
                                   THEN [mapTxLocks[t] EXCEPT !.left = @ - 1] ELSE mapTxLocks[t]]
    /\ UNCHANGED <<mapTxLockReq, mapTxLockReqRejected, mapTxLockVote, mapLockedInputs, switches, notified>>

\* A spork message switches SwiftTX on or off; CheckForkWarningConditions
\* sees a longer fork, or none any more (environment).
SporkChanges ==
    /\ spork2' = ~spork2
    /\ UNCHANGED <<lockVars, largeWork, notified>>
ForkWarningChanges ==
    /\ largeWork' = ~largeWork
    /\ UNCHANGED <<lockVars, spork2, notified>>

Next ==
    \/ \E t \in Tx : ProcessIxAccepted(t) \/ ProcessIxRejected(t) \/ LocalRequest(t)
    \/ \E m \in Karmanode, t \in Tx : ProcessVoteRefused(m, t) \/ \E h \in Height : ProcessVote(m, t, h)
    \/ \E t \in Tx : Expire(t)
    \/ Tick \/ SporkChanges \/ ForkWarningChanges

Spec == Init /\ [][Next]_vars

\* Time passes, and the obfuscation thread calls CleanTransactionLocksList
\* every minute once the chain is synced.
Fairness == WF_vars(Tick) /\ \A t \in Tx : WF_vars(Expire(t))
FairSpec == Spec /\ Fairness

-----------------------------------------------------------------------------
SwitchesOK == {spork2, largeWork} \subseteq BOOLEAN

\* Every variable has its type.
TypeOK ==
    /\ mapTxLockReq \in [Tx -> {"none", "tx", "empty"}]
    /\ mapTxLockReqRejected \subseteq Tx
    /\ mapTxLockVote \subseteq Karmanode \X Tx
    /\ \A t \in Tx : /\ mapTxLocks[t].height \in {0, LockHeight[t]}
                     /\ mapTxLocks[t].votes \in Seq(Vote)
                     /\ mapTxLocks[t].left \in 0..LOCK_TIME
                     /\ mapTxLocks[t].exists \in BOOLEAN
    /\ mapLockedInputs \in [Outpoint -> Tx \cup {NoTx}]
    /\ SwitchesOK
    /\ notified \subseteq Tx

Complete(t) == LockSignatures(mapTxLocks, t) >= SIGNATURES_REQUIRED

\* The karmanodes whose votes for t name the height of its lock.
Voters(t) ==
    {m \in Karmanode : \E i \in DOMAIN mapTxLocks[t].votes :
                          mapTxLocks[t].votes[i] = <<m, LockHeight[t]>>}

\* No karmanode is counted twice in a lock: each of its votes is remembered as
\* long as the lock lives.
VotesCountedOnce ==
    \A t \in Tx : \A i, j \in DOMAIN mapTxLocks[t].votes :
        /\ <<mapTxLocks[t].votes[i][1], t>> \in mapTxLockVote
        /\ mapTxLocks[t].votes[i][1] = mapTxLocks[t].votes[j][1] => i = j

\* A complete lock has the votes of SIGNATURES_REQUIRED different karmanodes of
\* the quorum of its height, whatever was received twice, forgotten or sent before
\* the request (AddSignature itself counts whatever it is given),
\* and no karmanode is counted twice in any lock (VotesCountedOnce).
CompleteByQuorum ==
    /\ TypeOK /\ VotesCountedOnce
    /\ \A t \in Tx : Complete(t) =>
        Cardinality(Voters(t) \cap Top[LockHeight[t]]) >= SIGNATURES_REQUIRED

\* An empty transaction stands under the hash of a request only if that request
\* was rejected: votes alone never complete a lock, its height is unknown.
EmptyRequestWasRejected ==
    \A t \in Tx : mapTxLockReq[t] = "empty" => t \in mapTxLockReqRejected

\* The vote that completes the lock of a known request announces it, unless a
\* fork warning stands at that moment: then the lock is never announced, the next
\* votes make more than the number that is compared with "=".
CompletingVoteAnnounces ==
    [][\A t \in Tx : mapTxLocks'[t].votes # mapTxLocks[t].votes /\ mapTxLockReq[t] # "none"
                       /\ ~largeWork /\ ~Complete(t) /\ Complete(t)' => t \in notified']_vars

\* The inputs locked for a request that has a lock are free again in the end.
LockedInputsExpire ==
    \A t \in Tx : \A o \in Vin[t] :
        (mapLockedInputs[o] = t /\ mapTxLockReq[t] = "tx" /\ mapTxLocks[t].exists)
            ~> mapLockedInputs[o] # t
=============================================================================
