---------------------------- MODULE KarmanodeSync ----------------------------
(***************************************************************************)
(* The stages in which a node fetches sporks, the karmanode list, the      *)
(* payment votes and the budget from its peers (karmanode-sync.cpp).       *)
(* Process runs every KARMANODE_SYNC_TIMEOUT seconds and asks one peer at  *)
(* a time; items arrive from any peer at any time; a stage ends when items *)
(* stop coming or when time is up; sleep, failure and losing all           *)
(* karmanodes start over.  Times are what the code compares them for.  The *)
(* networks other than regtest, with peers of the active protocol.         *)
(***************************************************************************)
EXTENDS Integers, FiniteSets

CONSTANTS
    N,                         \* number of peers; vNodes is 1..N
    KARMANODE_SYNC_THRESHOLD,
    MaxSleeps                 \* bound on sleeps and on losing all karmanodes

ASSUME SyncAssumption ==
    /\ N \in Nat \ {0}
    /\ KARMANODE_SYNC_THRESHOLD \in Nat \ {0}
    /\ MaxSleeps \in Nat

VARIABLES
    sync,              \* the state Reset sets, see SyncState
    spork8,            \* IsSporkActive(SPORK_8_KARMANODE_PAYMENT_ENFORCEMENT)
    enforced,          \* history: spork8 has been on since the list was first asked for
    fulfilled,         \* vecRequestsFulfilled of each peer
    blockchainSynced,  \* fBlockchainSynced
    enabled,           \* mnodeman.CountEnabled() > 0
    retryDue,          \* a minute has passed since lastFailure
    dsegAsked,         \* mWeAskedForKarmanodeList: peers asked in the last three hours
    sleeps             \* bound

syncVars == <<sync, spork8, enforced, fulfilled, blockchainSynced, enabled, retryDue, dsegAsked, sleeps>>

Peer == 1..N
Asset == {"LIST", "MNW", "BUDGET"}

\* assets and attempt: RequestedKarmanodeAssets and RequestedKarmanodeAttempt.
\* last: lastKarmanodeList, lastKarmanodeWinner and lastBudgetItem: 0, or within
\* the last ten seconds or before.  expired: nAssetSyncStarted is 25 seconds ago.
SyncState ==
    [assets  : {"INITIAL", "SPORKS", "FAILED", "FINISHED"} \cup Asset,
     attempt : 0..(3 * KARMANODE_SYNC_THRESHOLD),
     last    : [Asset -> {"never", "recent", "old"}],
     expired : BOOLEAN]

-----------------------------------------------------------------------------
\* Reset.
ResetState ==
    [assets |-> "INITIAL", attempt |-> 0, last |-> [a \in Asset |-> "never"],
     expired |-> FALSE]

\* The order of the stages.
Following ==
    [INITIAL |-> "SPORKS", SPORKS |-> "LIST", LIST |-> "MNW", MNW |-> "BUDGET",
     BUDGET |-> "FINISHED"]

\* GetNextAsset; ClearFulfilledRequest is in Process.
GetNextAsset(s) ==
    [s EXCEPT !.assets = Following[s.assets], !.attempt = 0, !.expired = FALSE]

\* Items of the asset came, the last not lately, and it was asked for enough.
Settled(s, a) == s.last[a] = "old" /\ s.attempt >= KARMANODE_SYNC_THRESHOLD

\* No item came, and the attempts or the time are used up.
TimedOut(s, a) ==
    s.last[a] = "never" /\ (s.attempt >= 3 * KARMANODE_SYNC_THRESHOLD \/ s.expired)

\* Mutant: a stage without items is over for the payments' sake too.
TimeoutMovesOn(s) == GetNextAsset(s)

\* What a timeout of the list or of the winners does.
Timeout(s) ==
    IF spork8 THEN [s EXCEPT !.assets = "FAILED", !.attempt = 0] ELSE GetNextAsset(s)

\* The requests of a stage, and the first peer in vNodes not sent one.
Request == [SPORKS |-> "getspork", LIST |-> "knsync", MNW |-> "knwsync", BUDGET |-> "busync"]
Unasked(f, a) == {p \in Peer : Request[a] \notin f[p]}
First(peers) == CHOOSE p \in peers : \A q \in peers : p <= q
Ask(f, a) == [f EXCEPT ![First(Unasked(f, a))] = @ \cup {Request[a]}]

\* A visit changes the stages to s and the flags to f, and sends nothing.
Becomes(s, f) == sync' = s /\ fulfilled' = f /\ UNCHANGED dsegAsked

\* The loop over vNodes while sporks are fetched: every third peer asked ends it.
VisitSporks(s, f) ==
    IF Unasked(f, "SPORKS") = {} THEN Becomes(s, f)
    ELSE LET next == IF s.attempt >= 2 THEN GetNextAsset(s) ELSE s
         IN  Becomes([next EXCEPT !.attempt = @ + 1], Ask(f, "SPORKS"))

\* The request for an asset is sent to the first peer: dseg not to a peer asked
\* in the last three hours, mnget and mnvs always.
Send(s, f, a) ==
    LET p == First(Unasked(f, a))
    IN  /\ sync' = [s EXCEPT !.attempt = @ + 1]
        /\ fulfilled' = Ask(f, a)
        /\ dsegAsked' = IF a = "LIST" THEN dsegAsked \cup {p} ELSE dsegAsked

\* Mutant: without a timeout the last attempt is waited for.
VisitListPatient(s, f, a) ==
    IF Settled(s, a) THEN Becomes(GetNextAsset(s), f)
    ELSE IF Unasked(f, a) = {} THEN Becomes(s, f)
    ELSE IF s.attempt >= 3 * KARMANODE_SYNC_THRESHOLD THEN Becomes(s, Ask(f, a))
    ELSE Send(s, f, a)

\* The loop while the list or the winners are fetched: the timeout is looked at
\* only when there is a peer still to ask.
VisitList(s, f, a) ==
    IF Settled(s, a) THEN Becomes(GetNextAsset(s), f)
    ELSE IF Unasked(f, a) = {} THEN Becomes(s, f)
    ELSE IF TimedOut(s, a) THEN Becomes(Timeout(s), Ask(f, a))
    ELSE IF s.attempt >= 3 * KARMANODE_SYNC_THRESHOLD THEN Becomes(s, Ask(f, a))
    ELSE Send(s, f, a)

\* The loop while the budget is fetched: there may be none, so the stage ends.
VisitBudget(s, f) ==
    IF Settled(s, "BUDGET") \/ TimedOut(s, "BUDGET") THEN Becomes(GetNextAsset(s), f)
    ELSE IF Unasked(f, "BUDGET") = {} THEN Becomes(s, f)
    ELSE IF s.attempt >= 3 * KARMANODE_SYNC_THRESHOLD THEN Becomes(s, Ask(f, "BUDGET"))
    ELSE Send(s, f, "BUDGET")

Visit(s, f) ==
    CASE s.assets = "SPORKS" -> VisitSporks(s, f)
      [] s.assets \in {"LIST", "MNW"} -> VisitList(s, f, s.assets)
      [] s.assets = "BUDGET" -> VisitBudget(s, f)

-----------------------------------------------------------------------------
SyncInit ==
    /\ sync = ResetState
    /\ spork8 \in BOOLEAN
    /\ enforced = spork8
    /\ fulfilled = [p \in Peer |-> {}]
    /\ blockchainSynced = FALSE
    /\ enabled \in BOOLEAN
    /\ retryDue = FALSE
    /\ dsegAsked = {}
    /\ sleeps = 0

\* Process starts over when synced without karmanodes, or a minute after a
\* failure.
StartsOver ==
    \/ sync.assets = "FINISHED" /\ ~enabled
    \/ sync.assets = "FAILED" /\ retryDue

\* Process when it has something to do.  ClearFulfilledRequest and the loop each
\* try cs_vNodes, and do nothing when another thread holds it.
Process(locked, lockedAgain) ==
    /\ StartsOver \/ sync.assets \notin {"FINISHED", "FAILED"}
    /\ LET s == IF StartsOver THEN ResetState ELSE sync
           started == s.assets = "INITIAL"
           t == IF started THEN GetNextAsset(s) ELSE s
           f == IF started /\ locked THEN [p \in Peer |-> {}] ELSE fulfilled
       IN  IF lockedAgain /\ (blockchainSynced \/ t.assets = "SPORKS")
           THEN Visit(t, f) ELSE Becomes(t, f)
    /\ enforced' = IF StartsOver THEN spork8 ELSE enforced
    /\ retryDue' = FALSE
    /\ UNCHANGED <<spork8, blockchainSynced, enabled, sleeps>>

\* An item of an asset arrives: AddedKarmanodeList, AddedKarmanodeWinner and
\* AddedBudgetItem.  An item nobody has seen counts every time, so there is always
\* one that does; a known one counts KARMANODE_SYNC_THRESHOLD times.
Added(a) ==
    /\ sync' = [sync EXCEPT !.last[a] = "recent"]
    /\ UNCHANGED <<spork8, enforced, fulfilled, blockchainSynced, enabled, retryDue, dsegAsked, sleeps>>

\* Ten seconds pass without an item of the asset, and 25 seconds in a stage.
Age(a) ==
    /\ sync.last[a] = "recent"
    /\ sync' = [sync EXCEPT !.last[a] = "old"]
    /\ UNCHANGED <<spork8, enforced, fulfilled, blockchainSynced, enabled, retryDue, dsegAsked, sleeps>>
Expire ==
    /\ ~sync.expired
    /\ sync' = [sync EXCEPT !.expired = TRUE]
    /\ UNCHANGED <<spork8, enforced, fulfilled, blockchainSynced, enabled, retryDue, dsegAsked, sleeps>>

\* A minute passes after a failure, and three hours after the last dseg.
RetryTime ==
    /\ sync.assets = "FAILED" /\ ~retryDue
    /\ retryDue' = TRUE
    /\ UNCHANGED <<sync, spork8, enforced, fulfilled, blockchainSynced, enabled, dsegAsked, sleeps>>
DsegTime ==
    /\ dsegAsked # {}
    /\ dsegAsked' = {}
    /\ UNCHANGED <<sync, spork8, enforced, fulfilled, blockchainSynced, enabled, retryDue, sleeps>>

\* IsBlockchainSynced finds the tip recent.
ChainSynced ==
    /\ ~blockchainSynced
    /\ blockchainSynced' = TRUE
    /\ UNCHANGED <<sync, spork8, enforced, fulfilled, enabled, retryDue, dsegAsked, sleeps>>

\* IsBlockchainSynced after more than an hour without a call, from any thread;
\* the mnsync reset command does the same without the flag.
Sleep(flag) ==
    /\ sleeps < MaxSleeps
    /\ sleeps' = sleeps + 1
    /\ sync' = ResetState
    /\ blockchainSynced' = (flag /\ blockchainSynced)
    /\ enforced' = spork8
    /\ UNCHANGED <<spork8, fulfilled, enabled, retryDue, dsegAsked>>

\* The karmanodes come and go (external).
EnabledChanges ==
    /\ enabled => sleeps < MaxSleeps
    /\ sleeps' = IF enabled THEN sleeps + 1 ELSE sleeps
    /\ enabled' = ~enabled
    /\ UNCHANGED <<sync, spork8, enforced, fulfilled, blockchainSynced, retryDue, dsegAsked>>

\* A spork message switches the enforcement of payments on or off, or its time
\* comes; Process reads it at every timeout.
SporkChanges ==
    /\ spork8' = ~spork8
    /\ enforced' = (spork8' /\ (enforced \/ sync.assets \in {"INITIAL", "SPORKS"}))
    /\ UNCHANGED <<sync, fulfilled, blockchainSynced, enabled, retryDue, dsegAsked, sleeps>>

\* A peer is replaced by another, or connects again.
Reconnect(p) ==
    /\ fulfilled' = [fulfilled EXCEPT ![p] = {}]
    /\ UNCHANGED <<sync, spork8, enforced, blockchainSynced, enabled, retryDue, dsegAsked, sleeps>>

SyncNext ==
    \/ \E locked, lockedAgain \in BOOLEAN : Process(locked, lockedAgain)
    \/ \E a \in Asset : Added(a) \/ Age(a)
    \/ Expire \/ RetryTime \/ DsegTime \/ ChainSynced
    \/ \E flag \in BOOLEAN : Sleep(flag)
    \/ EnabledChanges \/ SporkChanges
    \/ \E p \in Peer : Reconnect(p)

SyncSpec == SyncInit /\ [][SyncNext]_syncVars

\* An answer is on its way: the asset was asked for on some connection, the list
\* in the last three hours.
Answering(a) == IF a = "LIST" THEN dsegAsked # {} ELSE \E p \in Peer : Request[a] \in fulfilled[p]

\* Process keeps running, does not always find cs_vNodes held, and is called
\* several times before the 25 seconds of a stage are over; time passes; the
\* chain gets recent and karmanodes appear; connections do not last for ever; a
\* peer that was asked keeps answering, not always too late.  And the items of a
\* stage pause: now and then Process, which runs every five seconds, finds that
\* none came for ten.  New items without such a pause hold the stage for ever.
Fairness ==
    /\ WF_syncVars(\E locked \in BOOLEAN : Process(locked, TRUE))
    /\ \A a \in Asset : WF_syncVars(Age(a))
    /\ \A a \in {"LIST", "MNW"} :
          /\ SF_syncVars(/\ sync.assets = a /\ ~sync.expired
                         /\ \E locked \in BOOLEAN : Process(locked, TRUE))
          /\ SF_syncVars(sync.assets = a /\ Answering(a) /\ Added(a))
    /\ SF_syncVars(/\ \E a \in Asset : sync.assets = a /\ sync.last[a] = "old"
                   /\ \E locked \in BOOLEAN : Process(locked, TRUE))
    /\ WF_syncVars(Expire) /\ WF_syncVars(RetryTime) /\ WF_syncVars(DsegTime) /\ WF_syncVars(ChainSynced)
    /\ WF_syncVars(~enabled /\ EnabledChanges)
    /\ \A p \in Peer : WF_syncVars(Reconnect(p))

FairSyncSpec == SyncSpec /\ Fairness

-----------------------------------------------------------------------------
\* Types; in particular no stage makes more than three times the threshold of
\* attempts.
SyncTypeOK ==
    /\ sync \in SyncState
    /\ fulfilled \in [Peer -> SUBSET {Request[a] : a \in DOMAIN Request}]
    /\ {spork8, enforced, blockchainSynced, enabled, retryDue} \subseteq BOOLEAN
    /\ dsegAsked \subseteq Peer
    /\ sleeps \in 0..MaxSleeps

\* If payments have been enforced since the list was first asked for, a node is
\* past a stage only with items of it: a node that takes itself for synced, and
\* refuses blocks by its list and its votes (IsBlockPayeeValid), has received both
\* since it last started over.  (With the spork off a stage may end with nothing,
\* and the spork then turn on.)  No stage makes more attempts than its limit.
SyncedMeansReceived ==
    /\ SyncTypeOK
    /\ enforced =>
        /\ spork8
        /\ sync.assets \in {"MNW", "BUDGET", "FINISHED"} => sync.last["LIST"] # "never"
        /\ sync.assets \in {"BUDGET", "FINISHED"} => sync.last["MNW"] # "never"

\* The node is synced in the end, and again after every new start, whatever the
\* spork does: stages without an answer, a held lock, requests that are not sent
\* and failures hold a stage for a time only, and so do items that pause.
SyncFinishes == []<>(sync.assets = "FINISHED")
=============================================================================
