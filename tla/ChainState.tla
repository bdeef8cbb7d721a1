----------------------------- MODULE ChainState -----------------------------
(***************************************************************************)
(* The block index and the activation of the best chain (main.cpp):        *)
(* ProcessNewBlock / AcceptBlock / ReceivedBlockTransactions feed the      *)
(* index, ActivateBestChain moves the active chain towards the most work,  *)
(* InvalidateBlock and ReconsiderBlock are the operator's commands, and    *)
(* ReprocessBlocks is what a transaction lock that was rejected before     *)
(* calls when it turns out complete.  Every action is one critical section *)
(* of cs_main; ActivateBestChain and ReprocessBlocks give the lock up      *)
(* between two steps, so two threads interleave there.                     *)
(*                                                                         *)
(* The block tree is given: Parent is pprev, Path[b] is b with all its     *)
(* ancestors (what GetAncestor walks), Work is nChainWork.  Which blocks   *)
(* break a rule is drawn in Init, so a run covers all cases.               *)
(***************************************************************************)
EXTENDS Integers, FiniteSets

CONSTANTS Blocks, Genesis, NoBlock, Parent, Path, Work,
          Threads, NoThread,
          MaybeBadConnect,   \* blocks that may fail ConnectBlock
          MaybeBadContext,   \* blocks that may fail ContextualCheckBlock
          Refusable,         \* blocks the stake check or the disk may turn away
          Checkpointed,      \* blocks that match a hard-coded checkpoint
          MaybeRejected,     \* mapRejectedBlocks: blocks that broke a lock or a payment once
          DeepReconsider,    \* TRUE: reconsider below a failed ancestor too
          ReprocessDepths,   \* arguments given to ReprocessBlocks
          MaxOps,            \* bound: commands, reprocessings and system errors in a behaviour
          MaxFaults          \* bound: system errors among them

ASSUME TreeAssumption ==
    /\ Genesis \in Blocks /\ NoBlock \notin Blocks /\ NoThread \notin Threads
    /\ IsFiniteSet(Blocks)
    /\ Parent \in [Blocks -> Blocks \cup {NoBlock}] /\ Parent[Genesis] = NoBlock
    /\ Path \in [Blocks -> SUBSET Blocks]
    /\ Path[Genesis] = {Genesis}
    /\ \A b \in Blocks \ {Genesis} : /\ Parent[b] \in Blocks
                                     /\ Path[b] = {b} \cup Path[Parent[b]]
                                     /\ b \notin Path[Parent[b]]
                                     /\ Genesis \in Path[b]
    /\ \A b \in Blocks : \A a \in Path[b] : Path[a] \subseteq Path[b]
    /\ Work \in [Blocks -> Nat]
    /\ \A b \in Blocks \ {Genesis} : Work[Parent[b]] < Work[b]

ASSUME BoundAssumption ==
    /\ MaybeBadConnect \subseteq Blocks \ {Genesis}
    /\ MaybeBadContext \subseteq Blocks \ {Genesis}
    /\ Refusable \subseteq Blocks /\ Checkpointed \subseteq Blocks
    /\ MaybeRejected \subseteq Blocks
    /\ DeepReconsider \in BOOLEAN
    /\ ReprocessDepths \subseteq Nat
    /\ MaxOps \in Nat /\ MaxFaults \in Nat

VARIABLES
    badConnect, badContext,    \* what the blocks are, fixed by Init
    mapBlockIndex,             \* the blocks whose header is known
    haveData,                  \* BLOCK_HAVE_DATA, that is nTx > 0 and at least VALID_TRANSACTIONS
    validScripts,              \* BLOCK_VALID_SCRIPTS
    failedValid, failedChild,  \* the two bits of BLOCK_FAILED_MASK
    linked,                    \* nChainTx # 0
    nSequenceId,
    candidates,                \* setBlockIndexCandidates
    unlinked,                  \* mapBlocksUnlinked: b stands for the pair (b->pprev, b)
    tip,                       \* chainActive.Tip()
    pc, mostWork,              \* a thread's place in ReprocessBlocks or ActivateBestChain,
                               \* its pindexMostWork
    csMain,                    \* the thread that keeps cs_main between two actions
    unsettled,                 \* a call has failed, and none has since reached its target
    ops, faults

content    == <<badConnect, badContext>>
index      == <<mapBlockIndex, haveData, linked, nSequenceId, unlinked>>
flags      == <<failedValid, failedChild>>
activation == <<pc, mostWork, csMain, unsettled>>
vars == <<content, index, validScripts, flags, candidates, tip, activation, ops, faults>>

----------------------------------------------------------------------------
\* BLOCK_FAILED_MASK
Failed == failedValid \cup failedChild

Height(b) == Cardinality(Path[b]) - 1

\* CBlockIndexWorkComparator: a sorts before (is worse than) b.  Linked blocks
\* have distinct sequence ids, so the tie-break on addresses is never reached.
WorseIn(seq, a, b) ==
    \/ Work[a] < Work[b]
    \/ Work[a] = Work[b] /\ seq[a] > seq[b]

Worse(a, b) == WorseIn(nSequenceId, a, b)

\* chainActive as a set; the tip determines it.
ChainActive == Path[tip]

Free(t) == csMain \in {NoThread, t}

\* The blocks of S from which no other block of S is further from genesis.
Highest(S) == CHOOSE b \in S : \A c \in S : Height(c) <= Height(b)
Lowest(S)  == CHOOSE b \in S : \A c \in S : Height(b) <= Height(c)

----------------------------------------------------------------------------
(* Receiving blocks *)

\* Mutant: the descendants waiting in mapBlocksUnlinked are not looked up.
LinkedByWithoutQueue(b) == {b}

\* The blocks ReceivedBlockTransactions links when b's data arrives and b's
\* parent is linked: b and everything waiting below it in mapBlocksUnlinked.
LinkedBy(b) ==
    {b} \cup {d \in unlinked : b \in Path[d] /\ Path[d] \ Path[b] \subseteq unlinked}

\* The ids the breadth-first queue hands out; the order among the children of
\* one block (their order in the multimap) is left open.
SequenceIds(L) ==
    LET first == Cardinality(linked) + 1
    IN {f \in [L -> first .. first + Cardinality(L) - 1] :
            \A a, b \in L : /\ f[a] = f[b] => a = b
                            /\ Height(a) < Height(b) => f[a] < f[b]}

\* ReceivedBlockTransactions with AddToBlockIndex before it.
ReceivedBlockTransactions(b) ==
    /\ haveData' = haveData \cup {b}
    /\ IF Parent[b] \in linked
       THEN LET L == LinkedBy(b) IN
            /\ linked' = linked \cup L
            /\ unlinked' = unlinked \ L
            /\ \E ids \in SequenceIds(L) :
                /\ nSequenceId' = [x \in Blocks |-> IF x \in L THEN ids[x] ELSE nSequenceId[x]]
                /\ candidates' = candidates \cup {x \in L : ~WorseIn(nSequenceId', x, tip)}
       ELSE /\ unlinked' = IF Parent[b] \in Failed THEN unlinked ELSE unlinked \cup {b}
            /\ UNCHANGED <<linked, nSequenceId, candidates>>

AddToBlockIndex(b) == mapBlockIndex' = mapBlockIndex \cup {b}

\* Mutant: clears BLOCK_FAILED_VALID where it should clear BLOCK_FAILED_MASK.
ReconsiderBlockKeepsChildBit(b) ==
    LET descendants == {x \in mapBlockIndex : b \in Path[x]}
    IN /\ failedValid' = failedValid \ (descendants \cup Path[b])
       /\ failedChild' = failedChild
       /\ candidates' = candidates \cup
              {x \in descendants : x \in Failed /\ x \in linked /\ Worse(tip, x)}

\* ReconsiderBlock: the flags of b, its descendants and its ancestors go; only
\* descendants come back to the candidates.
ReconsiderBlock(b) ==
    LET descendants == {x \in mapBlockIndex : b \in Path[x]}
        cleared     == descendants \cup Path[b]
    IN /\ failedValid' = failedValid \ cleared
       /\ failedChild' = failedChild \ cleared
       /\ candidates' = candidates \cup
              {x \in descendants : x \in Failed /\ x \in linked /\ Worse(tip, x)}

\* The thread goes on to ActivateBestChain.
EnterActivateBestChain(t) == pc' = [pc EXCEPT ![t] = "activate"]

\* ProcessNewBlock for a block whose parent is known and that passed the
\* checks that need no index: AcceptBlock, then ActivateBestChain if it
\* returned true.
Deliver(t, b) ==
    /\ pc[t] = "idle" /\ Free(t)
    /\ b # Genesis /\ Parent[b] \in mapBlockIndex

\* ... the parent failed but matches a checkpoint: reconsider it and activate
\* under the lock already held; the block itself is dropped.
AcceptBlockReconsiders(t, b) ==
    /\ Deliver(t, b)
    /\ Parent[b] \in Failed /\ Parent[b] \in Checkpointed
    /\ ReconsiderBlock(Parent[b])
    /\ csMain' = t
    /\ EnterActivateBestChain(t)
    /\ UNCHANGED <<content, index, validScripts, tip, mostWork, unsettled, ops, faults>>

\* ... a block whose data is already stored: nothing to store.
AcceptBlockDuplicate(t, b) ==
    /\ Deliver(t, b)
    /\ Parent[b] \notin Failed
    /\ b \in haveData \ Failed
    /\ EnterActivateBestChain(t)
    /\ UNCHANGED <<content, index, validScripts, flags, candidates, tip, mostWork, csMain, unsettled, ops, faults>>

\* What the remaining outcomes have in common.
NewData(t, b) ==
    /\ Deliver(t, b)
    /\ Parent[b] \notin Failed
    /\ b \notin Failed /\ b \notin haveData

\* ... ContextualCheckBlock refuses it: the header stays, marked.
AcceptBlockInvalid(t, b) ==
    /\ NewData(t, b)
    /\ b \in badContext
    /\ AddToBlockIndex(b)
    /\ failedValid' = failedValid \cup {b}
    /\ UNCHANGED <<content, haveData, linked, nSequenceId, unlinked, validScripts, failedChild,
                   candidates, tip, activation, ops, faults>>

\* ... the stake inputs are spent at the tip, or the block cannot be written:
\* the header stays, unmarked, without data.
AcceptBlockRefused(t, b) ==
    /\ NewData(t, b)
    /\ b \notin badContext /\ b \in Refusable
    /\ AddToBlockIndex(b)
    /\ UNCHANGED <<content, haveData, linked, nSequenceId, unlinked, validScripts, flags,
                   candidates, tip, activation, ops, faults>>

\* ... it is stored.
AcceptBlock(t, b) ==
    /\ NewData(t, b)
    /\ b \notin badContext
    /\ AddToBlockIndex(b)
    /\ ReceivedBlockTransactions(b)
    /\ EnterActivateBestChain(t)
    /\ UNCHANGED <<content, validScripts, flags, tip, mostWork, csMain, unsettled, ops, faults>>

ProcessNewBlock(t, b) ==
    \/ AcceptBlockReconsiders(t, b)
    \/ AcceptBlockDuplicate(t, b)
    \/ AcceptBlockInvalid(t, b)
    \/ AcceptBlockRefused(t, b)
    \/ AcceptBlock(t, b)

----------------------------------------------------------------------------
(* Activating the best chain *)

\* Mutant: only the candidate itself is looked at, not its path.
UnusableItself(c) == c \in Failed /\ c \notin ChainActive

\* FindMostWorkChain.  The candidates are tried from the best down; one whose
\* path to the active chain holds a failed block is unusable, and the path
\* above its highest failed block is marked and dropped with that block.
Unusable(c) == (Path[c] \ ChainActive) \cap Failed # {}
Tried ==
    LET usable == {d \in candidates : ~Unusable(d)}
    IN {c \in candidates : \A d \in usable : Worse(d, c)}
TopFailed(c) == Highest((Path[c] \ ChainActive) \cap Failed)
FindMostWorkChain ==
    LET tried  == Tried
        marked == UNION {Path[c] \ Path[TopFailed(c)] : c \in tried}
        kept   == candidates \ (marked \cup {TopFailed(c) : c \in tried})
    IN [pindex     |-> IF kept = {} THEN NoBlock
                       ELSE CHOOSE c \in kept : \A d \in kept : d = c \/ Worse(d, c),
        marked     |-> marked,
        candidates |-> kept]

\* Mutant: the comparison drops the tip itself too.
PruneTip(cands, newTip) == {c \in cands : Worse(newTip, c)}

\* Mutant: nothing is deleted.
PruneNothing(cands, newTip) == cands

\* PruneBlockIndexCandidates, once the tip is newTip.
Prune(cands, newTip) == {c \in cands : ~Worse(c, newTip)}

\* ActivateBestChainStep towards m stops at the first block with more work than
\* the old tip, or at m.
StepTarget(m) ==
    LET better == {b \in Path[m] \ ChainActive : Work[b] > Work[tip]}
    IN IF better = {} THEN m ELSE Lowest(better)

\* Mutant: a block that fails to connect is not marked and stays a candidate.
ActivateBestChainStepUnmarked(found) ==
    LET toConnect == Path[StepTarget(found.pindex)] \ ChainActive
        bad       == toConnect \cap badConnect
        newTip    == IF bad = {} THEN StepTarget(found.pindex) ELSE Parent[Lowest(bad)]
    IN /\ tip' = newTip
       /\ validScripts' = validScripts \cup (Path[newTip] \ ChainActive)
       /\ failedValid' = failedValid
       /\ candidates' = IF newTip \in ChainActive THEN found.candidates
                        ELSE Prune(found.candidates, newTip)

\* ActivateBestChainStep, given what FindMostWorkChain found: disconnect to the
\* fork point and connect the path.  ConnectTip raises a connected block to
\* VALID_SCRIPTS; a bad block is marked by InvalidBlockFound and ends the step
\* on its parent.
ActivateBestChainStep(found) ==
    LET toConnect == Path[StepTarget(found.pindex)] \ ChainActive
        bad       == toConnect \cap badConnect
        stop      == Lowest(bad)
        newTip    == IF bad = {} THEN StepTarget(found.pindex) ELSE Parent[stop]
        connected == Path[newTip] \ ChainActive
        pruned    == IF connected = {} THEN found.candidates ELSE Prune(found.candidates, newTip)
    IN /\ tip' = newTip
       /\ validScripts' = validScripts \cup connected
       /\ failedValid' = IF bad = {} THEN failedValid ELSE failedValid \cup {stop}
       /\ candidates' = IF bad = {} THEN pruned ELSE pruned \ {stop}

\* Nothing to do: return, or leave the nested call of AcceptBlock and let the
\* outer ActivateBestChain look again once cs_main is released.
Return(t) ==
    IF csMain = t THEN csMain' = NoThread /\ pc' = [pc EXCEPT ![t] = "activate"]
                  ELSE csMain' = csMain /\ pc' = [pc EXCEPT ![t] = "idle"]

ActivateNothingToDo(t) ==
    /\ pc[t] = "activate" /\ Free(t)
    /\ LET found == FindMostWorkChain
       IN /\ found.pindex \in {NoBlock, tip}
          /\ failedChild' = failedChild \cup found.marked
          /\ candidates' = found.candidates
    /\ unsettled' = FALSE
    /\ Return(t)
    /\ UNCHANGED <<content, index, validScripts, failedValid, tip, mostWork, ops, faults>>

ActivateTowards(t) ==
    /\ pc[t] = "activate" /\ Free(t)
    /\ LET found == FindMostWorkChain
       IN /\ found.pindex \notin {NoBlock, tip}
          /\ failedChild' = failedChild \cup found.marked
          /\ ActivateBestChainStep(found)
          /\ mostWork' = [mostWork EXCEPT ![t] = found.pindex]
          /\ unsettled' = (unsettled /\ tip' # found.pindex)
    /\ pc' = [pc EXCEPT ![t] = "loop"]
    /\ UNCHANGED <<content, index, csMain, ops, faults>>

\* ReadBlockFromDisk, DisconnectBlock or FlushStateToDisk fails somewhere in
\* the step: it stops with the chain where it is and the call returns false.
ActivateFails(t) ==
    /\ pc[t] = "activate" /\ Free(t)
    /\ faults < MaxFaults /\ ops + faults < MaxOps
    /\ LET found == FindMostWorkChain
           toConnect == Path[StepTarget(found.pindex)] \ ChainActive
           forkPoint == Highest(Path[found.pindex] \cap ChainActive)
       IN /\ found.pindex \notin {NoBlock, tip}
          /\ failedChild' = failedChild \cup found.marked
          /\ \/ \E b \in ChainActive \ Path[forkPoint] :       \* while disconnecting b
                    tip' = b /\ candidates' = found.candidates
             \/ \E b \in toConnect :                           \* while connecting b
                    /\ Path[Parent[b]] \cap badConnect = {}
                    /\ tip' = Parent[b]
                    /\ candidates' = IF Parent[b] = forkPoint THEN found.candidates
                                     ELSE Prune(found.candidates, Parent[b])
    /\ validScripts' = validScripts \cup (Path[tip'] \ ChainActive)
    /\ faults' = faults + 1 /\ unsettled' = TRUE
    /\ Return(t)
    /\ UNCHANGED <<content, index, failedValid, mostWork, ops>>

\* Mutant: one step and out, as if the do-while were not there.
ActivateOnce(t) ==
    /\ pc[t] = "loop"
    /\ mostWork' = [mostWork EXCEPT ![t] = NoBlock]
    /\ Return(t)
    /\ UNCHANGED <<content, index, validScripts, flags, candidates, tip, unsettled, ops, faults>>

\* The loop's condition, read without cs_main.
ActivateLoopTest(t) ==
    /\ pc[t] = "loop"
    /\ mostWork' = [mostWork EXCEPT ![t] = NoBlock]
    /\ IF mostWork[t] = tip THEN Return(t)
       ELSE pc' = [pc EXCEPT ![t] = "activate"] /\ csMain' = csMain
    /\ UNCHANGED <<content, index, validScripts, flags, candidates, tip, unsettled, ops, faults>>

----------------------------------------------------------------------------
(* Commands; each goes on to ActivateBestChain *)

Operator(t) ==
    /\ pc[t] = "idle" /\ Free(t)
    /\ ops + faults < MaxOps
    /\ ops' = ops + 1
    /\ EnterActivateBestChain(t)

\* InvalidateBlock: mark b, walk the active chain back below it marking every
\* block, and offer again whatever sorts at least as well as the new tip.
InvalidateBlock(t, b) ==
    /\ Operator(t)
    /\ b \in mapBlockIndex \ {Genesis}
    /\ LET walked == IF b \in ChainActive THEN ChainActive \ Path[Parent[b]] ELSE {}
           rest   == candidates \ ({b} \cup walked)
       IN /\ failedValid' = failedValid \cup {b}
          /\ failedChild' = failedChild \cup walked
          /\ tip' = IF b \in ChainActive THEN Parent[b] ELSE tip
          /\ candidates' = rest \cup {x \in linked : /\ x \notin failedValid' \cup failedChild'
                                                     /\ ~Worse(x, tip')}
    /\ UNCHANGED <<content, index, validScripts, mostWork, csMain, unsettled, faults>>

\* Without DeepReconsider only a block none of whose proper ancestors failed is
\* reconsidered, as when undoing an earlier invalidateblock.
Reconsiderable(b) == DeepReconsider \/ (Path[b] \ {b}) \cap Failed = {}

\* The RPC command reconsiderblock.
Reconsider(t, b) ==
    /\ Operator(t)
    /\ b \in mapBlockIndex
    /\ Reconsiderable(b)
    /\ ReconsiderBlock(b)
    /\ UNCHANGED <<content, index, validScripts, tip, mostWork, csMain, unsettled, faults>>

\* A transaction lock that was rejected before is complete: ReprocessBlocks begins.
ReprocessBlocks(t) ==
    /\ pc[t] = "idle" /\ ops + faults < MaxOps
    /\ ops' = ops + 1
    /\ pc' = [pc EXCEPT ![t] = "reprocess"]
    /\ UNCHANGED <<content, index, validScripts, flags, candidates, tip, mostWork, csMain, unsettled,
                   faults>>

\* ... one turn of its loop: a rejected block, if it is recent enough, is
\* reconsidered under a lock of its own.
ReprocessReconsider(t, b) ==
    /\ pc[t] = "reprocess" /\ Free(t)
    /\ b \in MaybeRejected \cap mapBlockIndex
    /\ Reconsiderable(b)
    /\ ReconsiderBlock(b)
    /\ UNCHANGED <<content, index, validScripts, tip, activation, ops, faults>>

\* ... and after the loop: n + 1 blocks are disconnected, genesis excepted, whose
\* DisconnectTip fails; the candidates are left alone.
DisconnectBlocksAndReprocess(t, n) ==
    /\ pc[t] = "reprocess" /\ Free(t)
    /\ tip' = CHOOSE b \in ChainActive :
                  Height(b) = IF n < Height(tip) THEN Height(tip) - (n + 1) ELSE 0
    /\ EnterActivateBestChain(t)
    /\ UNCHANGED <<content, index, validScripts, flags, candidates, mostWork, csMain, unsettled,
                   ops, faults>>

----------------------------------------------------------------------------
Init ==
    /\ badConnect \in SUBSET MaybeBadConnect
    /\ badContext \in SUBSET MaybeBadContext
    /\ mapBlockIndex = {Genesis} /\ haveData = {Genesis} /\ linked = {Genesis}
    /\ nSequenceId = [b \in Blocks |-> IF b = Genesis THEN 1 ELSE 0]
    /\ unlinked = {} /\ validScripts = {}
    /\ failedValid = {} /\ failedChild = {}
    /\ candidates = {Genesis} /\ tip = Genesis
    /\ pc = [t \in Threads |-> "idle"]
    /\ mostWork = [t \in Threads |-> NoBlock]
    /\ csMain = NoThread
    /\ unsettled = FALSE
    /\ ops = 0 /\ faults = 0

Next ==
    \E t \in Threads :
        \/ \E b \in Blocks : ProcessNewBlock(t, b)
        \/ ActivateNothingToDo(t)
        \/ ActivateTowards(t)
        \/ ActivateFails(t)
        \/ ActivateLoopTest(t)
        \/ \E b \in Blocks : InvalidateBlock(t, b)
        \/ \E b \in Blocks : Reconsider(t, b)
        \/ ReprocessBlocks(t)
        \/ \E b \in Blocks : ReprocessReconsider(t, b)
        \/ \E n \in ReprocessDepths : DisconnectBlocksAndReprocess(t, n)

Spec == Init /\ [][Next]_vars

\* What a turn of a thread that moves on does to the control.  It can be taken
\* exactly when ActivateNothingToDo(t), ActivateTowards(t), ActivateLoopTest(t)
\* or DisconnectBlocksAndReprocess(t, n) can.
Turn(t) ==
    /\ pc[t] = "loop" \/ (pc[t] \in {"activate", "reprocess"} /\ Free(t))
    /\ \E step \in {"idle", "activate", "loop"} : pc' = [pc EXCEPT ![t] = step]
    /\ csMain' \in IF csMain = t THEN {t, NoThread} ELSE {csMain}

\* A thread inside ActivateBestChain polls cs_main every 50 ms, the loop of
\* ReprocessBlocks over mapRejectedBlocks ends, and no lock is kept for good: the
\* next turn of a thread is taken eventually.
FairSpec == Spec /\ \A t \in Threads : WF_<<pc, csMain>>(Turn(t))

----------------------------------------------------------------------------
(* Properties *)

Places == {"idle", "reprocess", "activate", "loop"}

\* The variables hold values of the program's types.
TypeOK ==
    /\ badConnect \subseteq Blocks /\ badContext \subseteq Blocks
    /\ mapBlockIndex \subseteq Blocks
    /\ haveData \subseteq mapBlockIndex /\ linked \subseteq haveData
    /\ unlinked \subseteq haveData /\ validScripts \subseteq linked
    /\ failedValid \subseteq mapBlockIndex /\ failedChild \subseteq mapBlockIndex
    /\ candidates \subseteq linked /\ tip \in linked
    /\ nSequenceId \in [Blocks -> 0 .. Cardinality(Blocks)]
    /\ pc \in [Threads -> Places]
    /\ mostWork \in [Threads -> Blocks \cup {NoBlock}]
    /\ csMain \in Threads \cup {NoThread} /\ unsettled \in BOOLEAN
    /\ ops \in 0 .. MaxOps /\ faults \in 0 .. MaxFaults

\* pindexFirstInvalid = NULL, pindexFirstMissing = NULL in CheckBlockIndex.
NoInvalidAncestor(b) == Path[b] \cap failedValid = {}
NoMissingAncestor(b) == Path[b] \subseteq haveData

\* CheckBlockIndex's assertions on data and links: nChainTx is set exactly on
\* blocks whose whole chain has data, sequence ids only there and never twice,
\* VALID_SCRIPTS reaches down to genesis, and mapBlocksUnlinked holds exactly
\* the blocks that wait for an ancestor's data. Candidates and the tip are among
\* the linked blocks (TypeOK).
IndexConsistent ==
    /\ TypeOK
    /\ \A b \in mapBlockIndex :
        /\ b \in linked <=> NoMissingAncestor(b)
        /\ b \notin linked <=> nSequenceId[b] = 0
        /\ \A c \in linked : nSequenceId[b] = nSequenceId[c] => b = c
        /\ b \in validScripts => Path[b] \ {Genesis} \subseteq validScripts
        /\ IF b \in haveData /\ ~NoMissingAncestor(b)
           THEN NoInvalidAncestor(b) => b \in unlinked
           ELSE b \notin unlinked

\* "The failed mask cannot be set for blocks without invalid parents."
\* (CheckBlockIndex): a block is only kept out because it or an ancestor broke
\* a rule or was invalidated.
FailedMaskSound ==
    \A b \in mapBlockIndex : NoInvalidAncestor(b) => b \notin Failed

\* What FindMostWorkChain relies on when it stops its walk at the active
\* chain: no block in it is marked, each was connected, none breaks a rule.
ActiveChainValid ==
    /\ ChainActive \cap (Failed \cup badConnect \cup badContext) = {}
    /\ ChainActive \ {Genesis} \subseteq validScripts

\* The blocks that could be the tip as far as the node knows.
Eligible == {b \in linked : Path[b] \cap Failed = {}}

\* setBlockIndexCandidates never loses the best eligible block, whatever was
\* pruned, dropped or marked on the way, also in the middle of an activation.
BestIsCandidate ==
    \A b \in Eligible : (\A c \in Eligible : ~Worse(b, c)) => b \in candidates

\* No thread is inside ReprocessBlocks or ActivateBestChain, and a call that ended in a system error
\* has been followed by one that reached its target or had nothing to do.
AtRest == ~unsettled /\ \A t \in Threads : pc[t] = "idle"

\* The assertions of CheckBlockIndex on setBlockIndexCandidates: it holds every
\* valid block that sorts at least as well as the tip and no block that sorts
\* worse or lacks data.  They hold at rest, whatever was reorganised, invalidated,
\* reconsidered or broken off by a system error before.
CandidatesExactAtRest ==
    AtRest => \A b \in mapBlockIndex :
                  IF b \in linked /\ ~Worse(b, tip)
                  THEN NoInvalidAncestor(b) => b \in candidates
                  ELSE b \notin candidates

\* ActivateBestChain: "The result is either failure or an activated best
\* chain."  At rest no eligible block sorts above the tip: two threads that moved
\* it under each other have not left it short, and a failed call is made good by
\* the next one.
TipIsBestAtRest == AtRest => \A b \in Eligible : ~Worse(tip, b)

\* Every call of ActivateBestChain or ReprocessBlocks returns: threads that undo each other's
\* work, failing blocks and stale pindexMostWork never make it loop for ever.
ActivationReturns == \A t \in Threads : (pc[t] # "idle") ~> (pc[t] = "idle")
=============================================================================
