---------------------------- MODULE ThreadProofs ----------------------------
(***************************************************************************)
(* Proofs about the two thread pools.  CheckQueue, for any number of workers*)
(* and checks and any batch size: Wait returns the conjunction of all checks*)
(* and leaves the queue idle.  Scheduler, for any number of threads and    *)
(* tasks: CScheduler counts its threads and runs a task once.              *)
(***************************************************************************)
EXTENDS CheckQueue, Scheduler, FiniteSetTheorems, WellFoundedInduction, TLAPS

-----------------------------------------------------------------------------
(* CheckQueue *)

Waits == {"wait", "signalled"}
Running == {t \in Thread : pc[t] = "run"}
Waiting == {t \in Thread : pc[t] \in Waits}

\* Every thread in Loop is idle or runs a batch; interrupted ones stay counted
\* as both, so the difference is exact.
CountInv ==
    /\ nTotal = nIdle + Cardinality(Running)
    /\ Cardinality(Waiting) <= nIdle

\* What fAllOk says of the checks added so far, when the outstanding ones are S.
Verdict(allOk, S) ==
    /\ S \subseteq added
    /\ ~allOk => added \cap Bad # {}
    /\ (added \ S) \cap Bad # {} => ~allOk

\* A thread skips its batch only when a check of this block has failed.
SkipInv == \A t \in Thread : pc[t] = "run" /\ ~fOk[t] => ~fAllOk

\* The master is in Loop only while its control waits.
ControlInv ==
    /\ control \in {"none", "adding"} => pc[Master] = "out"
    /\ control = "none" => nTodo = 0 /\ fAllOk /\ WaitResultCorrect
    /\ pc[Master] # "dead"

\* The inductive invariant.
IInv == /\ TypeOK
        /\ TodoCountsOutstanding
        /\ CountInv
        /\ control # "none" => Verdict(fAllOk, Outstanding)
        /\ SkipInv
        /\ ControlInv

-----------------------------------------------------------------------------
\* What remains when thread t is left aside.
RestOf(t) == queue \cup UNION {vChecks[u] : u \in Thread \ {t}}
RunningBut(t) == {u \in Thread \ {t} : pc[u] = "run"}
WaitingBut(t) == {u \in Thread \ {t} : pc[u] \in Waits}

USE QueueAssumption

\* There are finitely many threads.
LEMMA ThreadFinite == IsFiniteSet(Thread)
  BY FS_AddElement DEF Thread

\* Counting the running and the waiting threads one thread at a time.
LEMMA CountLemma ==
    ASSUME NEW P \in SUBSET Thread, NEW t \in Thread
    PROVE  /\ IsFiniteSet(P) /\ Cardinality(P) \in Nat
           /\ Cardinality(P \ {t}) \in Nat
           /\ Cardinality(P) = Cardinality(P \ {t}) + (IF t \in P THEN 1 ELSE 0)
  <1>1. IsFiniteSet(P)
    BY ThreadFinite, FS_Subset
  <1>2. /\ IsFiniteSet(P \ {t})
        /\ Cardinality(P \ {t}) = IF t \in P THEN Cardinality(P) - 1 ELSE Cardinality(P)
    BY <1>1, FS_RemoveElement
  <1>3. Cardinality(P) \in Nat /\ Cardinality(P \ {t}) \in Nat
    BY <1>1, <1>2, FS_CardinalityType
  <1>. QED
    BY <1>1, <1>2, <1>3

\* Any set of checks is finite and has a size.
LEMMA CheckSets ==
    ASSUME NEW S \in SUBSET Check
    PROVE  /\ IsFiniteSet(S) /\ Cardinality(S) \in Nat
           /\ Cardinality(S) = 0 <=> S = {}
  BY FS_Subset, FS_CardinalityType, FS_EmptySet

\* A batch is never empty and never larger than the queue it is taken from.
LEMMA BatchLemma ==
    ASSUME NEW total \in Nat, NEW idle \in Nat, NEW batch \in SUBSET Check,
           queue \in SUBSET Check, Cardinality(batch) = BatchSize(total, idle)
    PROVE  batch # {}
  <1>1. BatchSize(total, idle) # 0
    BY CheckSets DEF BatchSize
  <1>. QED
    BY <1>1, CheckSets

\* The core of the argument: if the members handed to LoopTop describe the state
\* without thread t, the invariant holds after it.
LEMMA LoopLemma ==
    ASSUME IInv, NEW t \in Thread,
           NEW pcs \in [Thread -> {"out", "wait", "signalled", "run", "dead"}],
           NEW todo, NEW allOk \in BOOLEAN, NEW total \in Nat, NEW idle \in Nat,
           \A u \in Thread \ {t} : /\ pcs[u] = "run" <=> pc[u] = "run"
                                   /\ pcs[u] \in Waits <=> pc[u] \in Waits
                                   /\ pcs[u] = "out" <=> pc[u] = "out"
                                   /\ pcs[u] = "dead" <=> pc[u] = "dead",
           todo = Cardinality(RestOf(t)),
           total = idle + 1 + Cardinality(RunningBut(t)),
           Cardinality(WaitingBut(t)) <= idle,
           control # "none" => Verdict(allOk, RestOf(t)),
           \A u \in Thread \ {t} : pc[u] = "run" /\ ~fOk[u] => ~allOk,
           control = "none" => allOk /\ todo = 0,
           t = Master => control \in {"waiting", "unwinding"},
           LoopTop(t, pcs, todo, allOk, total, idle)
    PROVE  IInv'
  <1>. USE DEF IInv
  <1>a. RestOf(t) \in SUBSET Check /\ queue \in SUBSET Check
    BY DEF TypeOK, RestOf
  <1>b. todo \in Nat /\ (todo = 0 <=> RestOf(t) = {})
    BY <1>a, CheckSets
  <1>c. added' = added /\ shutdown' = shutdown /\ nTodo' = todo
    BY DEF LoopTop
  <1>d. /\ RunningBut(t) \in SUBSET Thread /\ WaitingBut(t) \in SUBSET Thread
        /\ Cardinality(RunningBut(t)) \in Nat /\ Cardinality(WaitingBut(t)) \in Nat
    BY CountLemma DEF RunningBut, WaitingBut
  <1>e. ASSUME NEW s \in {"out", "wait", "run"}, pc' = [pcs EXCEPT ![t] = s]
        PROVE  /\ Running' \ {t} = RunningBut(t) /\ Waiting' \ {t} = WaitingBut(t)
               /\ Cardinality(Running') = Cardinality(RunningBut(t)) + (IF s = "run" THEN 1 ELSE 0)
               /\ Cardinality(Waiting') = Cardinality(WaitingBut(t)) + (IF s = "wait" THEN 1 ELSE 0)
               /\ pc' \in [Thread -> {"out", "wait", "signalled", "run", "dead"}]
    <2>1. Running' \ {t} = RunningBut(t) /\ Waiting' \ {t} = WaitingBut(t)
      BY <1>e DEF Running, Waiting, RunningBut, WaitingBut, Waits
    <2>2. Running' \in SUBSET Thread /\ Waiting' \in SUBSET Thread
      BY DEF Running, Waiting
    <2>3. (t \in Running' <=> s = "run") /\ (t \in Waiting' <=> s = "wait")
      BY <1>e DEF Running, Waiting, Waits
    <2>. QED  BY <1>e, <2>1, <2>2, <2>3, CountLemma
  <1>1. CASE /\ queue = {} /\ t = Master /\ todo = 0
             /\ pc' = [pcs EXCEPT ![t] = "out"]
             /\ nTotal' = total - 1
             /\ nIdle' = idle
             /\ result' = allOk
             /\ fAllOk' = TRUE
             /\ control' = "none"
             /\ vChecks' = [vChecks EXCEPT ![t] = {}]
             /\ UNCHANGED <<queue, fOk>>
    <2>1. RestOf(t) = {} /\ Outstanding' = {}
      <3>1. RestOf(t) = {}
        BY <1>1, <1>b
      <3>. QED  BY <1>1, <3>1 DEF RestOf, Outstanding, TypeOK
    <2>2. \A u \in Thread : vChecks'[u] = {} /\ pc'[u] # "run"
      BY <1>1, <2>1 DEF RestOf, TypeOK
    <2>3. TypeOK'
      BY <1>1, <1>b, <1>c, <1>d, <1>e, <2>2 DEF TypeOK
    <2>4. TodoCountsOutstanding'
      <3>1. nTodo' = Cardinality(Outstanding')
        BY <1>1, <1>c, <2>1, FS_EmptySet
      <3>. QED  BY <2>2, <3>1 DEF TodoCountsOutstanding
    <2>5. CountInv'
      BY <1>1, <1>d, <1>e DEF CountInv
    <2>6. allOk <=> added \cap Bad = {}
      BY <1>1, <2>1 DEF Verdict
    <2>7. SkipInv' /\ ControlInv'
      BY <1>1, <1>c, <2>2, <2>6 DEF SkipInv, ControlInv, WaitResultCorrect, TypeOK
    <2>. QED  BY <1>1, <2>3, <2>4, <2>5, <2>7
  <1>2. CASE /\ queue = {} /\ ~(t = Master /\ todo = 0)
             /\ pc' = [pcs EXCEPT ![t] = "wait"]
             /\ nTotal' = total
             /\ nIdle' = idle + 1
             /\ fAllOk' = allOk
             /\ vChecks' = [vChecks EXCEPT ![t] = {}]
             /\ UNCHANGED <<queue, fOk, control, result>>
    <2>1. Outstanding' = RestOf(t)
      BY <1>2 DEF RestOf, Outstanding, TypeOK
    <2>2. TypeOK'
      BY <1>2, <1>b, <1>c, <1>e DEF TypeOK
    <2>3. TodoCountsOutstanding'
      BY <1>2, <1>c, <2>1 DEF TodoCountsOutstanding, TypeOK
    <2>4. CountInv'
      BY <1>2, <1>d, <1>e DEF CountInv
    <2>5. (control # "none" => Verdict(fAllOk, Outstanding))'
      BY <1>2, <1>c, <2>1 DEF Verdict
    <2>6. SkipInv'
      BY <1>2 DEF SkipInv, TypeOK
    <2>7. ControlInv'
      BY <1>2, <1>c DEF ControlInv, WaitResultCorrect, TypeOK, Thread
    <2>. QED  BY <2>2, <2>3, <2>4, <2>5, <2>6, <2>7
  <1>3. ASSUME queue # {}, NEW batch \in SUBSET queue,
               Cardinality(batch) = BatchSize(total, idle),
               vChecks' = [vChecks EXCEPT ![t] = batch],
               queue' = queue \ batch,
               pc' = [pcs EXCEPT ![t] = "run"],
               nTotal' = total,
               nIdle' = idle,
               fAllOk' = allOk,
               fOk' = [fOk EXCEPT ![t] = allOk],
               UNCHANGED <<control, result>>
        PROVE  IInv'
    <2>0. batch # {} /\ RestOf(t) # {}
      BY <1>3, <1>a, BatchLemma DEF RestOf
    <2>1. Outstanding' = RestOf(t)
      BY <1>3 DEF RestOf, Outstanding, TypeOK
    <2>2. TypeOK'
      BY <1>3, <1>b, <1>c, <1>e, <2>0 DEF TypeOK
    <2>3. TodoCountsOutstanding'
      BY <1>3, <1>c, <2>1 DEF TodoCountsOutstanding, TypeOK
    <2>4. CountInv'
      BY <1>3, <1>d, <1>e DEF CountInv
    <2>5. (control # "none" => Verdict(fAllOk, Outstanding))'
      BY <1>3, <1>c, <2>1 DEF Verdict
    <2>6. SkipInv'
      BY <1>3 DEF SkipInv, TypeOK
    <2>7. ControlInv'
      BY <1>3, <1>b, <1>c, <2>0 DEF ControlInv, TypeOK, Thread
    <2>. QED  BY <2>2, <2>3, <2>4, <2>5, <2>6, <2>7
  <1>. QED
    BY <1>1, <1>2, <1>3 DEF LoopTop

\* The invariant holds initially.
LEMMA InitIInv == Init => IInv
  <1>. SUFFICES ASSUME Init PROVE IInv
    OBVIOUS
  <1>1. Outstanding = {} /\ Running = {} /\ Waiting = {}
    BY DEF Init, Outstanding, Running, Waiting, Waits
  <1>2. TypeOK /\ SkipInv /\ ControlInv
    BY DEF Init, TypeOK, SkipInv, ControlInv, WaitResultCorrect, Thread
  <1>3. TodoCountsOutstanding
    <2>1. nTodo = Cardinality(Outstanding)
      BY <1>1, FS_EmptySet DEF Init
    <2>. QED  BY <2>1 DEF Init, TodoCountsOutstanding
  <1>4. CountInv
    BY <1>1, FS_EmptySet DEF Init, CountInv
  <1>. QED
    BY <1>2, <1>3, <1>4 DEF Init, IInv

\* Leaving aside a thread that holds no batch changes nothing.
LEMMA RestLemma ==
    ASSUME IInv, NEW t \in Thread
    PROVE  /\ RestOf(t) \in SUBSET Check
           /\ Outstanding = RestOf(t) \cup vChecks[t]
           /\ Cardinality(RestOf(t)) = nTodo - Cardinality(vChecks[t])
           /\ pc[t] # "run" => RestOf(t) = Outstanding /\ Cardinality(RestOf(t)) = nTodo
           /\ RunningBut(t) = Running \ {t} /\ WaitingBut(t) = Waiting \ {t}
           /\ Cardinality(RunningBut(t)) \in Nat /\ Cardinality(WaitingBut(t)) \in Nat
           /\ Cardinality(Running) =
                 Cardinality(RunningBut(t)) + (IF pc[t] = "run" THEN 1 ELSE 0)
           /\ Cardinality(Waiting) =
                 Cardinality(WaitingBut(t)) + (IF pc[t] \in Waits THEN 1 ELSE 0)
  <1>. USE DEF IInv
  <1>1. RestOf(t) \in SUBSET Check /\ vChecks[t] \in SUBSET Check
    BY DEF TypeOK, RestOf
  <1>2. Outstanding = RestOf(t) \cup vChecks[t] /\ RestOf(t) \cap vChecks[t] = {}
    BY DEF TypeOK, RestOf, Outstanding, TodoCountsOutstanding
  <1>3. /\ IsFiniteSet(RestOf(t)) /\ Cardinality(RestOf(t)) \in Nat
        /\ IsFiniteSet(vChecks[t]) /\ Cardinality(vChecks[t]) \in Nat
    BY <1>1, CheckSets
  <1>4. Cardinality(RestOf(t) \cup vChecks[t]) =
          Cardinality(RestOf(t)) + Cardinality(vChecks[t]) - Cardinality(RestOf(t) \cap vChecks[t])
    BY <1>3, FS_Union
  <1>5. Cardinality(RestOf(t)) = nTodo - Cardinality(vChecks[t])
    <2>1. nTodo = Cardinality(RestOf(t)) + Cardinality(vChecks[t]) - Cardinality({})
      BY <1>2, <1>4 DEF TodoCountsOutstanding
    <2>2. Cardinality({}) = 0
      BY FS_EmptySet
    <2>. QED  BY <1>3, <2>1, <2>2
  <1>6. pc[t] # "run" => RestOf(t) = Outstanding /\ Cardinality(RestOf(t)) = nTodo
    BY <1>2 DEF TypeOK, TodoCountsOutstanding
  <1>7. /\ RunningBut(t) = Running \ {t} /\ WaitingBut(t) = Waiting \ {t}
        /\ Running \in SUBSET Thread /\ Waiting \in SUBSET Thread
        /\ (t \in Running <=> pc[t] = "run") /\ (t \in Waiting <=> pc[t] \in Waits)
    BY DEF Running, Waiting, RunningBut, WaitingBut
  <1>8. /\ Cardinality(Running \ {t}) \in Nat /\ Cardinality(Waiting \ {t}) \in Nat
        /\ Cardinality(Running) = Cardinality(Running \ {t}) + (IF t \in Running THEN 1 ELSE 0)
        /\ Cardinality(Waiting) = Cardinality(Waiting \ {t}) + (IF t \in Waiting THEN 1 ELSE 0)
    BY <1>7, CountLemma
  <1>. QED
    BY <1>1, <1>2, <1>5, <1>6, <1>7, <1>8

\* A thread that enters Loop.
LEMMA EnterLemma ==
    ASSUME IInv, NEW t \in Thread, Enter(t)
    PROVE  IInv'
  <1>. USE DEF IInv
  <1>1. pc[t] = "out" /\ LoopTop(t, pc, nTodo, fAllOk, nTotal + 1, nIdle)
    BY DEF Enter
  <1>2. /\ nTodo = Cardinality(RestOf(t))
        /\ nTotal + 1 = nIdle + 1 + Cardinality(RunningBut(t))
        /\ Cardinality(WaitingBut(t)) <= nIdle
        /\ nTotal + 1 \in Nat
    BY <1>1, RestLemma DEF CountInv, Waits, TypeOK
  <1>3. control # "none" => Verdict(fAllOk, RestOf(t))
    BY <1>1, RestLemma
  <1>4. /\ t = Master => control \in {"waiting", "unwinding"}
        /\ control = "none" => fAllOk /\ nTodo = 0
        /\ \A u \in Thread \ {t} : pc[u] = "run" /\ ~fOk[u] => ~fAllOk
    BY DEF Enter, ControlInv, SkipInv
  <1>5. /\ pc \in [Thread -> {"out", "wait", "signalled", "run", "dead"}]
        /\ fAllOk \in BOOLEAN /\ nIdle \in Nat
    BY DEF TypeOK
  <1>. QED
    BY <1>1, <1>2, <1>3, <1>4, <1>5, LoopLemma

\* A thread whose wait returns.
LEMMA ResumeLemma ==
    ASSUME IInv, NEW t \in Thread, Resume(t)
    PROVE  IInv'
  <1>. USE DEF IInv
  <1>1. pc[t] \in Waits /\ LoopTop(t, pc, nTodo, fAllOk, nTotal, nIdle - 1)
    BY DEF Resume, Waits
  <1>2. /\ nTodo = Cardinality(RestOf(t))
        /\ nTotal = (nIdle - 1) + 1 + Cardinality(RunningBut(t))
        /\ Cardinality(WaitingBut(t)) <= nIdle - 1
        /\ nIdle - 1 \in Nat
    BY <1>1, RestLemma DEF CountInv, Waits, TypeOK
  <1>3. control # "none" => Verdict(fAllOk, RestOf(t))
    BY <1>1, RestLemma DEF Waits
  <1>4. /\ t = Master => control \in {"waiting", "unwinding"}
        /\ control = "none" => fAllOk /\ nTodo = 0
        /\ \A u \in Thread \ {t} : pc[u] = "run" /\ ~fOk[u] => ~fAllOk
    BY <1>1 DEF ControlInv, SkipInv, TypeOK, Waits
  <1>5. /\ pc \in [Thread -> {"out", "wait", "signalled", "run", "dead"}]
        /\ fAllOk \in BOOLEAN /\ nTotal \in Nat
    BY DEF TypeOK
  <1>. QED
    BY <1>1, <1>2, <1>3, <1>4, <1>5, LoopLemma

\* A thread that has executed its batch.
LEMMA FinishLemma ==
    ASSUME IInv, NEW t \in Thread, Finish(t)
    PROVE  IInv'
  <1>. USE DEF IInv
  <1>. DEFINE todo == nTodo - Cardinality(vChecks[t])
              allOk == fAllOk /\ fOk[t] /\ vChecks[t] \cap Bad = {}
              pcs == IF todo = 0 /\ t # Master /\ pc[Master] = "wait"
                     THEN [pc EXCEPT ![Master] = "signalled"] ELSE pc
  <1>1. pc[t] = "run" /\ LoopTop(t, pcs, todo, allOk, nTotal, nIdle)
    BY DEF Finish
  <1>2. /\ todo = Cardinality(RestOf(t))
        /\ nTotal = nIdle + 1 + Cardinality(RunningBut(t))
        /\ Cardinality(WaitingBut(t)) <= nIdle
    BY <1>1, RestLemma DEF CountInv, Waits, TypeOK
  <1>3. /\ pcs \in [Thread -> {"out", "wait", "signalled", "run", "dead"}]
        /\ nIdle \in Nat /\ nTotal \in Nat
        /\ \A u \in Thread \ {t} : /\ pcs[u] = "run" <=> pc[u] = "run"
                                   /\ pcs[u] \in Waits <=> pc[u] \in Waits
                                   /\ pcs[u] = "out" <=> pc[u] = "out"
                                   /\ pcs[u] = "dead" <=> pc[u] = "dead"
    BY DEF TypeOK, Waits
  <1>4. control # "none"
    <2>1. vChecks[t] # {} /\ vChecks[t] \subseteq Outstanding /\ Outstanding \in SUBSET Check
      BY <1>1 DEF TypeOK, Outstanding
    <2>. QED  BY <2>1, CheckSets DEF ControlInv, TodoCountsOutstanding
  <1>5. allOk \in BOOLEAN
    BY DEF TypeOK
  <1>6. Verdict(allOk, RestOf(t))
    <2>1. fOk[t] \/ ~fAllOk
      BY <1>1 DEF SkipInv
    <2>2. Verdict(fAllOk, Outstanding) /\ Outstanding = RestOf(t) \cup vChecks[t]
      BY <1>4, RestLemma
    <2>. QED  BY <2>1, <2>2 DEF Verdict
  <1>7. /\ t = Master => control \in {"waiting", "unwinding"}
        /\ \A u \in Thread \ {t} : pc[u] = "run" /\ ~fOk[u] => ~allOk
    BY <1>1 DEF ControlInv, SkipInv, TypeOK
  <1>. HIDE DEF todo, allOk, pcs
  <1>. QED
    BY <1>1, <1>2, <1>3, <1>4, <1>5, <1>6, <1>7, LoopLemma

\* Add keeps the count, since the new checks are disjoint from the old.
LEMMA AddLemma ==
    ASSUME IInv, NEW checks \in SUBSET Check, Add(checks)
    PROVE  IInv'
  <1>. USE DEF IInv
  <1>1. /\ control = "adding" /\ control' = control
        /\ queue' = queue \cup checks /\ added' = added \cup checks
        /\ nTodo' = nTodo + Cardinality(checks) /\ checks \cap added = {}
        /\ UNCHANGED <<nIdle, nTotal, fAllOk, vChecks, fOk, result, shutdown>>
    BY DEF Add
  <1>2. PICK woken \in SUBSET {w \in Worker : pc[w] = "wait"} :
          pc' = [t \in Thread |-> IF t \in woken THEN "signalled" ELSE pc[t]]
    BY DEF Add
  <1>3. /\ pc' \in [Thread -> {"out", "wait", "signalled", "run", "dead"}]
        /\ Running' = Running /\ Waiting' = Waiting /\ pc'[Master] = pc[Master]
    BY <1>2 DEF TypeOK, Running, Waiting, Waits, Thread
  <1>4. Outstanding' = Outstanding \cup checks /\ Outstanding \cap checks = {}
    BY <1>1 DEF Outstanding, Verdict
  <1>5. nTodo' = Cardinality(Outstanding') /\ nTodo' \in Nat
    <2>1. Outstanding \in SUBSET Check
      BY DEF TypeOK, Outstanding
    <2>2. /\ IsFiniteSet(Outstanding) /\ Cardinality(Outstanding) \in Nat
          /\ IsFiniteSet(checks) /\ Cardinality(checks) \in Nat
      BY <2>1, CheckSets
    <2>3. Cardinality(Outstanding \cup checks) = Cardinality(Outstanding)
              + Cardinality(checks) - Cardinality(Outstanding \cap checks)
      BY <2>2, FS_Union
    <2>4. Cardinality({}) = 0
      BY FS_EmptySet
    <2>5. nTodo = Cardinality(Outstanding)
      BY DEF TodoCountsOutstanding
    <2>6. Cardinality(Outstanding') = Cardinality(Outstanding) + Cardinality(checks)
      <3>. DEFINE n == Cardinality(Outstanding)
                  k == Cardinality(checks)
      <3>1. Cardinality(Outstanding') = n + k - Cardinality({})
        BY <1>4, <2>3
      <3>. HIDE DEF n, k
      <3>2. n \in Nat /\ k \in Nat
        BY <2>2 DEF n, k
      <3>3. Cardinality(Outstanding') = n + k
        BY <3>1, <3>2, <2>4
      <3>. QED  BY <3>3 DEF n, k
    <2>. QED  BY <1>1, <2>2, <2>5, <2>6
  <1>6. TypeOK'
    BY <1>1, <1>2, <1>3, <1>5 DEF TypeOK
  <1>7. TodoCountsOutstanding'
    <2>1. \A t \in Thread : checks \cap vChecks[t] = {}
      BY <1>4 DEF Outstanding
    <2>. QED  BY <1>1, <1>5, <2>1 DEF TodoCountsOutstanding
  <1>8. CountInv'
    BY <1>1, <1>3 DEF CountInv
  <1>9. Verdict(fAllOk, Outstanding)'
    BY <1>1, <1>4 DEF Verdict
  <1>10. SkipInv' /\ ControlInv'
    BY <1>1, <1>2, <1>3 DEF SkipInv, ControlInv, TypeOK
  <1>. QED
    BY <1>6, <1>7, <1>8, <1>9, <1>10

\* A waiting thread that is interrupted leaves the counts as they are.
LEMMA InterruptLemma ==
    ASSUME IInv, NEW t \in Thread, pc[t] \in Waits,
           NEW s \in {"dead", "out"}, pc' = [pc EXCEPT ![t] = s],
           t = Master => s = "out" /\ control = "waiting" /\ control' = "unwinding",
           t # Master => control' = control,
           shutdown' \in {"called", "delivered"},
           UNCHANGED <<queue, nIdle, nTotal, fAllOk, nTodo, vChecks, fOk, added, result>>
    PROVE  IInv'
  <1>. USE DEF IInv
  <1>1. Running' = Running /\ Waiting' = Waiting \ {t} /\ Waiting \in SUBSET Thread
    BY DEF TypeOK, Running, Waiting, Waits
  <1>2. /\ Cardinality(Waiting) \in Nat /\ Cardinality(Waiting \ {t}) \in Nat
        /\ Cardinality(Waiting \ {t}) <= Cardinality(Waiting)
    BY <1>1, CountLemma
  <1>3. TypeOK'
    BY DEF TypeOK, Waits
  <1>4. Outstanding' = Outstanding /\ TodoCountsOutstanding'
    BY DEF TodoCountsOutstanding, Outstanding
  <1>5. CountInv'
    BY <1>1, <1>2 DEF CountInv, TypeOK
  <1>6. (control # "none" => Verdict(fAllOk, Outstanding))'
    BY <1>4 DEF Verdict
  <1>7. SkipInv'
    BY DEF SkipInv, TypeOK, Waits
  <1>8. ControlInv'
    BY DEF ControlInv, WaitResultCorrect, TypeOK, Waits, Thread
  <1>. QED
    BY <1>3, <1>4, <1>5, <1>6, <1>7, <1>8

\* Every step keeps the invariant.
LEMMA NextIInv == IInv /\ [Next]_vars => IInv'
  <1>. SUFFICES ASSUME IInv, [Next]_vars PROVE IInv'
    OBVIOUS
  <1>1. CASE NewControl
    <2>1. nTodo = 0 /\ fAllOk /\ Outstanding \in SUBSET Check /\ pc[Master] = "out"
      BY <1>1 DEF NewControl, IInv, ControlInv, TypeOK, Outstanding
    <2>2. Outstanding = {} /\ Outstanding' = Outstanding
      <3>1. Cardinality(Outstanding) = 0
        BY <2>1 DEF IInv, TodoCountsOutstanding
      <3>2. Outstanding = {}
        BY <2>1, <3>1, CheckSets
      <3>3. Outstanding' = Outstanding
        BY <1>1 DEF NewControl, Outstanding
      <3>. QED  BY <3>2, <3>3
    <2>. QED
      BY <1>1, <2>1, <2>2 DEF NewControl, IInv, TypeOK, TodoCountsOutstanding, CountInv,
         Running, Waiting, Verdict, SkipInv, ControlInv
  <1>2. CASE BeginWait \/ InterruptAll \/ UNCHANGED vars
    <2>1. Outstanding' = Outstanding /\ Running' = Running /\ Waiting' = Waiting
      BY <1>2 DEF BeginWait, InterruptAll, vars, Outstanding, Running, Waiting
    <2>. QED
      BY <1>2, <2>1 DEF BeginWait, InterruptAll, vars, IInv, TypeOK, TodoCountsOutstanding,
         CountInv, Verdict, SkipInv, ControlInv, WaitResultCorrect
  <1>3. CASE InterruptMaster
    BY <1>3, InterruptLemma DEF InterruptMaster, Waits, Thread
  <1>4. ASSUME NEW w \in Worker, InterruptWorker(w)
        PROVE  IInv'
    <2>1. shutdown' \in {"called", "delivered"} /\ w \in Thread /\ w # Master
      BY <1>4 DEF InterruptWorker, IInv, TypeOK, Thread
    <2>. QED
      BY <1>4, <2>1, InterruptLemma DEF InterruptWorker, Waits
  <1>5. ASSUME NEW checks \in SUBSET Check, Add(checks)
        PROVE  IInv'
    BY <1>5, AddLemma
  <1>6. ASSUME NEW t \in Thread, ThreadStep(t)
        PROVE  IInv'
    BY <1>6, EnterLemma, ResumeLemma, FinishLemma DEF ThreadStep
  <1>. QED
    BY <1>1, <1>2, <1>3, <1>4, <1>5, <1>6 DEF Next

\* The inductive invariant holds in every reachable state.
THEOREM Invariance == Spec => []IInv
  BY InitIInv, NextIInv, PTL DEF Spec

\* Every operation of the check queue keeps its members in their types.
THEOREM TypeCorrect == Spec => []TypeOK
  BY Invariance, PTL DEF IInv

\* nTodo is the number of checks that are queued or being executed.
THEOREM TodoExact == Spec => []TodoCountsOutstanding
  BY Invariance, PTL DEF IInv

\* Wait returns true exactly when all checks of the block succeed.
THEOREM WaitCorrect == Spec => []WaitResultCorrect
  <1>1. IInv => WaitResultCorrect
    BY DEF IInv, ControlInv, WaitResultCorrect
  <1>. QED
    BY <1>1, Invariance, PTL

\* The constructor's assert holds before every block.
THEOREM IdleAssertHolds == Spec => []IdleBetweenBlocks
  <1>1. IInv => IdleBetweenBlocks
    <2>. SUFFICES ASSUME IInv, control = "none"
                  PROVE  nTotal = nIdle /\ nTodo = 0 /\ fAllOk
      BY DEF IdleBetweenBlocks
    <2>1. nTodo = 0 /\ fAllOk /\ nIdle \in Nat
      BY DEF IInv, ControlInv, TypeOK
    <2>2. Outstanding = {}
      <3>1. Outstanding \in SUBSET Check
        BY DEF IInv, TypeOK, Outstanding
      <3>. QED  BY <2>1, <3>1, CheckSets DEF IInv, TodoCountsOutstanding
    <2>3. Running = {}
      BY <2>2 DEF IInv, TypeOK, Outstanding, Running
    <2>4. Cardinality({}) = 0
      BY FS_EmptySet
    <2>. QED  BY <2>1, <2>3, <2>4 DEF IInv, CountInv
  <1>. QED
    BY <1>1, Invariance, PTL

HIDE QueueAssumption

-----------------------------------------------------------------------------
(* Scheduler *)

USE SchedulerAssumption, NoTaskAssumption

\* The order of the multimap: an insertion needs it to find its place.
QueueSorted ==
    \A i, j \in DOMAIN taskQueue : i <= j => taskQueue[i].left <= taskQueue[j].left

\* The inductive invariant.
SchedulerIInv == QueueSorted /\ CounterExact /\ TaskRunsOnce

----------------------------------------------------------------------------
(* Lemmas *)

\* A set of numbers has a least one.
LEMMA LeastNumber ==
    ASSUME NEW S \in SUBSET Nat, S # {}
    PROVE  \E m \in S : \A k \in S : m <= k
  <1> DEFINE R == OpToRel(<, Nat)
  <1>1. IsWellFoundedOn(R, Nat)
    BY NatLessThanWellFounded
  <1>2. \A m, k \in Nat : <<k, m>> \notin R => m <= k
    BY DEF OpToRel
  <1> HIDE DEF R
  <1>3. \E m \in S : \A k \in S : <<k, m>> \notin R
    BY <1>1, WFMin
  <1>. QED  BY <1>2, <1>3

\* In a sorted queue the tasks at or before a time come first.
LEMMA UpperBoundLemma ==
    ASSUME taskQueue \in Seq(Entry), QueueSorted, NEW d \in 0..MaxDelay
    PROVE  /\ UpperBound(d) \in 0..Len(taskQueue)
           /\ \A i \in DOMAIN taskQueue : taskQueue[i].left <= d <=> i <= UpperBound(d)
  <1> DEFINE S == {n \in 0..Len(taskQueue) :
                      \A i \in DOMAIN taskQueue : taskQueue[i].left <= d => i <= n}
  <1>1. Len(taskQueue) \in S /\ S \in SUBSET Nat
    OBVIOUS
  <1>2. PICK n \in S : \A k \in S : n <= k
    BY <1>1, LeastNumber
  <1>3. n \in 0..Len(taskQueue) /\ \A i \in DOMAIN taskQueue : taskQueue[i].left <= d => i <= n
    OBVIOUS
  <1>4. ASSUME NEW i \in DOMAIN taskQueue, i <= n
        PROVE  taskQueue[i].left <= d
    <2>1. n \in DOMAIN taskQueue /\ n - 1 \in 0..Len(taskQueue) /\ n - 1 \notin S
      BY <1>2, <1>3, <1>4
    <2>2. PICK j \in DOMAIN taskQueue : taskQueue[j].left <= d /\ ~(j <= n - 1)
      BY <2>1
    <2>3. j = n
      BY <1>3, <2>1, <2>2
    <2>4. taskQueue[i].left <= taskQueue[n].left
      BY <1>4, <2>1 DEF QueueSorted
    <2>5. taskQueue[i] \in Entry /\ taskQueue[n] \in Entry
      BY <2>1
    <2>6. taskQueue[i].left \in Int /\ taskQueue[n].left \in Int
      BY <2>5 DEF Entry
    <2>. QED  BY <2>2, <2>3, <2>4, <2>6
  <1>5. \A i \in DOMAIN taskQueue : taskQueue[i].left <= d <=> i <= n
    BY <1>3, <1>4
  <1> HIDE DEF S
  <1>. QED  BY <1>3, <1>5 DEF UpperBound

\* What an insertion makes of the queue: entry by entry, the old ones in their
\* order around the new one.
LEMMA InsertLemma ==
    ASSUME taskQueue \in Seq(Entry), QueueSorted, NEW k \in Task, NEW d \in 0..MaxDelay
    PROVE  /\ Insert(k, d) \in Seq(Entry)
           /\ Len(Insert(k, d)) = Len(taskQueue) + 1
           /\ \A i \in 1..(Len(taskQueue) + 1) :
                 Insert(k, d)[i] = IF i <= UpperBound(d) THEN taskQueue[i]
                                   ELSE IF i = UpperBound(d) + 1 THEN [task |-> k, left |-> d]
                                   ELSE taskQueue[i - 1]
  <1> DEFINE n == UpperBound(d)
             e == [task |-> k, left |-> d]
             a == SubSeq(taskQueue, 1, n)
             b == SubSeq(taskQueue, n + 1, Len(taskQueue))
  <1>1. n \in 0..Len(taskQueue)
    BY UpperBoundLemma
  <1>2. e \in Entry
    BY DEF Entry
  <1> HIDE DEF n, e
  <1>3. /\ a \in Seq(Entry) /\ Len(a) = n
        /\ \A i \in 1..n : a[i] = taskQueue[i]
    BY <1>1
  <1>4. /\ b \in Seq(Entry) /\ Len(b) = Len(taskQueue) - n
        /\ \A i \in 1..(Len(taskQueue) - n) : b[i] = taskQueue[n + i]
    BY <1>1
  <1> HIDE DEF a, b
  <1>5. /\ a \o <<e>> \in Seq(Entry) /\ Len(a \o <<e>>) = n + 1
        /\ \A i \in 1..n : (a \o <<e>>)[i] = taskQueue[i]
        /\ (a \o <<e>>)[n + 1] = e
    BY <1>1, <1>2, <1>3
  <1> DEFINE c == a \o <<e>>
  <1> HIDE DEF c
  <1> DEFINE q == c \o b
  <1>6. /\ q \in Seq(Entry) /\ Len(q) = Len(taskQueue) + 1
        /\ \A i \in 1..(n + 1) : q[i] = c[i]
        /\ \A i \in (n + 2)..(Len(taskQueue) + 1) : q[i] = taskQueue[i - 1]
    <2>1. c \in Seq(Entry) /\ Len(c) = n + 1
      BY <1>5 DEF c
    <2>2. q \in Seq(Entry) /\ Len(q) = Len(taskQueue) + 1
      <3>1. q \in Seq(Entry) /\ Len(q) = Len(c) + Len(b)
        BY <1>4, <2>1
      <3>. QED  BY <1>1, <1>4, <2>1, <3>1
    <2>3. \A i \in 1..(n + 1) : q[i] = c[i]
      BY <1>1, <1>4, <2>1
    <2>4. ASSUME NEW i \in (n + 2)..(Len(taskQueue) + 1)
          PROVE  q[i] = taskQueue[i - 1]
      <3>1. q[i] = b[i - (n + 1)] /\ i - (n + 1) \in 1..(Len(taskQueue) - n)
        BY <1>1, <1>4, <2>1
      <3>. QED  BY <1>1, <1>4, <3>1
    <2>. QED  BY <2>2, <2>3, <2>4
  <1>7. Insert(k, d) = q
    BY DEF Insert, n, e, a, b, c
  <1> HIDE DEF q
  <1>8. \A i \in 1..(Len(taskQueue) + 1) :
           q[i] = IF i <= n THEN taskQueue[i] ELSE IF i = n + 1 THEN e
                  ELSE taskQueue[i - 1]
    BY <1>1, <1>5, <1>6 DEF c
  <1>. QED  BY <1>6, <1>7, <1>8 DEF n, e

\* An insertion keeps the order, adds one task and no other, and leaves no task
\* twice if the new one is not queued.
LEMMA InsertKeeps ==
    ASSUME SchedulerTypeOK, QueueSorted, NEW k \in Task, NEW d \in 0..MaxDelay,
           taskQueue' = Insert(k, d)
    PROVE  /\ taskQueue' \in Seq(Entry) /\ QueueSorted'
           /\ Queued' = Queued \cup {k}
           /\ (k \notin Queued
                 /\ \A i, j \in DOMAIN taskQueue : taskQueue[i].task = taskQueue[j].task => i = j)
              => \A i, j \in DOMAIN taskQueue' : taskQueue'[i].task = taskQueue'[j].task => i = j
  <1> DEFINE n == UpperBound(d)
             N == Len(taskQueue)
             e == [task |-> k, left |-> d]
  <1>1. taskQueue \in Seq(Entry) /\ N \in Nat /\ DOMAIN taskQueue = 1..N
    BY DEF SchedulerTypeOK
  <1>2. /\ n \in 0..N
        /\ \A i \in 1..N : taskQueue[i].left <= d <=> i <= n
    BY <1>1, UpperBoundLemma
  <1>3. /\ taskQueue' \in Seq(Entry) /\ DOMAIN taskQueue' = 1..(N + 1)
        /\ \A i \in 1..(N + 1) :
              taskQueue'[i] = IF i <= n THEN taskQueue[i] ELSE IF i = n + 1 THEN e
                              ELSE taskQueue[i - 1]
    BY <1>1, InsertLemma
  <1>4. e.task = k /\ e.left = d
    OBVIOUS
  <1>5. \A i \in 1..N : taskQueue[i].left \in Int
    <2>1. \A i \in 1..N : taskQueue[i] \in Entry
      BY <1>1
    <2>. QED  BY <2>1 DEF Entry
  <1> HIDE DEF n, N, e
  <1>6. \A i, j \in 1..N : i <= j => taskQueue[i].left <= taskQueue[j].left
    BY <1>1 DEF QueueSorted
  <1>7. QueueSorted'
    <2> SUFFICES ASSUME NEW i \in 1..(N + 1), NEW j \in 1..(N + 1), i <= j
                 PROVE  taskQueue'[i].left <= taskQueue'[j].left
      BY <1>3 DEF QueueSorted
    <2>1. CASE j <= n
      BY <1>1, <1>2, <1>3, <1>6, <2>1
    <2>2. CASE j = n + 1
      BY <1>1, <1>2, <1>3, <1>4, <2>2
    <2>3. CASE j > n + 1
      <3>1. j - 1 \in 1..N /\ taskQueue'[j] = taskQueue[j - 1] /\ d <= taskQueue[j - 1].left
        BY <1>1, <1>2, <1>3, <1>5, <2>3
      <3>2. CASE i <= n
        BY <1>1, <1>2, <1>3, <1>6, <3>1, <3>2
      <3>3. CASE i = n + 1
        BY <1>1, <1>2, <1>3, <1>4, <3>1, <3>3
      <3>4. CASE i > n + 1
        <4>1. i - 1 \in 1..N /\ taskQueue'[i] = taskQueue[i - 1] /\ i - 1 <= j - 1
          BY <1>1, <1>2, <1>3, <2>3, <3>4
        <4>. QED  BY <1>6, <3>1, <4>1
      <3>. QED  BY <1>1, <1>2, <3>2, <3>3, <3>4
    <2>. QED  BY <1>1, <1>2, <2>1, <2>2, <2>3
  <1>8. Queued' = Queued \cup {k}
    <2>1. ASSUME NEW i \in 1..N
          PROVE  \E j \in 1..(N + 1) : taskQueue'[j] = taskQueue[i]
      <3>1. CASE i <= n
        BY <1>1, <1>2, <1>3, <3>1
      <3>2. CASE i > n
        <4>1. i + 1 \in 1..(N + 1) /\ taskQueue'[i + 1] = taskQueue[i]
          BY <1>1, <1>2, <1>3, <3>2
        <4>. QED  BY <4>1
      <3>. QED  BY <1>1, <1>2, <3>1, <3>2
    <2>2. \E j \in 1..(N + 1) : taskQueue'[j] = e
      <3>1. n + 1 \in 1..(N + 1) /\ taskQueue'[n + 1] = e
        BY <1>1, <1>2, <1>3
      <3>. QED  BY <3>1
    <2>3. ASSUME NEW j \in 1..(N + 1)
          PROVE  taskQueue'[j] = e \/ \E i \in 1..N : taskQueue'[j] = taskQueue[i]
      <3>1. CASE j <= n
        BY <1>1, <1>2, <1>3, <3>1
      <3>2. CASE j > n + 1
        <4>1. j - 1 \in 1..N /\ taskQueue'[j] = taskQueue[j - 1]
          BY <1>1, <1>2, <1>3, <3>2
        <4>. QED  BY <4>1
      <3>3. CASE j = n + 1
        BY <1>1, <1>2, <1>3, <3>3
      <3>. QED  BY <1>1, <1>2, <3>1, <3>2, <3>3
    <2>4. Queued = {taskQueue[i].task : i \in 1..N}
      BY <1>1 DEF Queued
    <2>5. Queued' = {taskQueue'[i].task : i \in 1..(N + 1)}
      BY <1>3 DEF Queued
    <2>. QED  BY <1>4, <2>1, <2>2, <2>3, <2>4, <2>5
  <1>9. ASSUME k \notin Queued,
               \A i, j \in DOMAIN taskQueue : taskQueue[i].task = taskQueue[j].task => i = j,
               NEW i \in DOMAIN taskQueue', NEW j \in DOMAIN taskQueue',
               taskQueue'[i].task = taskQueue'[j].task
        PROVE  i = j
    <2>1. \A m \in 1..N : taskQueue[m].task # k
      BY <1>1, <1>9 DEF Queued
    <2>2. \A m \in 1..(N + 1) : taskQueue'[m].task = k => m = n + 1
      BY <1>1, <1>2, <1>3, <2>1
    <2>3. CASE i = n + 1 \/ j = n + 1
      BY <1>2, <1>3, <1>4, <1>9, <2>2, <2>3
    <2>4. CASE i # n + 1 /\ j # n + 1
      <3> DEFINE f(m) == IF m <= n THEN m ELSE m - 1
      <3>1. f(i) \in 1..N /\ f(j) \in 1..N
        BY <1>1, <1>2, <1>3, <2>4
      <3>2. taskQueue'[i] = taskQueue[f(i)] /\ taskQueue'[j] = taskQueue[f(j)]
        BY <1>1, <1>2, <1>3, <2>4
      <3>3. f(i) = f(j)
        BY <1>1, <1>9, <3>1, <3>2
      <3>. QED  BY <1>1, <1>2, <1>3, <2>4, <3>3
    <2>. QED  BY <2>3, <2>4
  <1>. QED  BY <1>3, <1>7, <1>8, <1>9

\* The tasks of a shorter queue are queued in the longer one.
LEMMA TailLemma ==
    ASSUME SchedulerTypeOK, QueueSorted, taskQueue # <<>>, taskQueue' = Tail(taskQueue),
           \A i, j \in DOMAIN taskQueue : taskQueue[i].task = taskQueue[j].task => i = j
    PROVE  /\ taskQueue' \in Seq(Entry) /\ QueueSorted'
           /\ Head(taskQueue).task \in Queued \cap Task
           /\ Queued' \subseteq Queued \ {Head(taskQueue).task}
           /\ \A i, j \in DOMAIN taskQueue' : taskQueue'[i].task = taskQueue'[j].task => i = j
  <1>1. /\ taskQueue \in Seq(Entry) /\ DOMAIN taskQueue = 1..Len(taskQueue)
        /\ 1 \in DOMAIN taskQueue /\ Head(taskQueue) = taskQueue[1]
    BY DEF SchedulerTypeOK
  <1>2. /\ taskQueue' \in Seq(Entry) /\ DOMAIN taskQueue' = 1..(Len(taskQueue) - 1)
        /\ \A i \in DOMAIN taskQueue' : i + 1 \in DOMAIN taskQueue
                                        /\ taskQueue'[i] = taskQueue[i + 1]
    BY <1>1
  <1>3. QueueSorted'
    BY <1>1, <1>2 DEF QueueSorted
  <1>4. taskQueue[1] \in Entry
    BY <1>1
  <1>5. Head(taskQueue).task \in Queued \cap Task
    BY <1>1, <1>4 DEF Queued, Entry
  <1>6. Queued' \subseteq Queued \ {Head(taskQueue).task}
    <2> SUFFICES ASSUME NEW i \in DOMAIN taskQueue'
                 PROVE  taskQueue'[i].task \in Queued \ {taskQueue[1].task}
      BY <1>1 DEF Queued
    <2>1. i + 1 # 1
      BY <1>2
    <2>. QED  BY <1>1, <1>2, <2>1 DEF Queued
  <1>7. \A i, j \in DOMAIN taskQueue' : taskQueue'[i].task = taskQueue'[j].task => i = j
    BY <1>1, <1>2
  <1>. QED  BY <1>2, <1>3, <1>5, <1>6, <1>7

\* Nobody enters or leaves serviceQueue by a notification, or starts or ends a
\* task.
LEMMA NotifyOneLemma ==
    ASSUME NEW p \in [ServiceThread -> PC], NEW q \in NotifyOne(p)
    PROVE  /\ q \in [ServiceThread -> PC]
           /\ \A t \in ServiceThread : /\ q[t] = "run" <=> p[t] = "run"
                                       /\ q[t] \in {"outside", "exited", "thrown"} <=>
                                            p[t] \in {"outside", "exited", "thrown"}
  <1>1. q = p \/ \E t \in ServiceThread : p[t] \in {"wait", "timed"} /\ q = [p EXCEPT ![t] = "locked"]
    BY DEF NotifyOne
  <1>. QED  BY <1>1 DEF PC

\* A step that takes nobody in or out keeps the counter.
LEMMA InsideKept ==
    ASSUME \A t \in ServiceThread : at'[t] \in {"outside", "exited", "thrown"} <=>
                               at[t] \in {"outside", "exited", "thrown"},
           UNCHANGED nThreadsServicingQueue, CounterExact
    PROVE  CounterExact'
  <1>1. Inside' = Inside
    BY DEF Inside
  <1>. QED  BY <1>1 DEF CounterExact

\* Thread t comes in, or goes out, and nobody else does.
LEMMA InsideMoves ==
    ASSUME NEW t \in ServiceThread, CounterExact,
           \A u \in ServiceThread \ {t} : at'[u] \in {"outside", "exited", "thrown"} <=>
                                     at[u] \in {"outside", "exited", "thrown"},
           \/ t \notin Inside /\ t \in Inside'
                /\ nThreadsServicingQueue' = nThreadsServicingQueue + 1
           \/ t \in Inside /\ t \notin Inside'
                /\ nThreadsServicingQueue' = nThreadsServicingQueue - 1
    PROVE  CounterExact'
  <1>1. IsFiniteSet(Inside)
    BY FS_Subset DEF Inside
  <1>2. Inside' = IF t \in Inside THEN Inside \ {t} ELSE Inside \cup {t}
    BY DEF Inside
  <1>3. Cardinality(Inside') = IF t \in Inside THEN Cardinality(Inside) - 1
                               ELSE Cardinality(Inside) + 1
    BY <1>1, <1>2, FS_AddElement, FS_RemoveElement
  <1>. QED  BY <1>3 DEF CounterExact

\* A step of the waits: the queue and the running tasks stay.
LEMMA WaitsLemma ==
    ASSUME SchedulerIInv, UNCHANGED <<taskQueue, running>>, SchedulerTypeOK',
           \A t \in ServiceThread : at[t] = "run" => at'[t] = "run"
    PROVE  QueueSorted' /\ TaskRunsOnce'
  <1>1. QueueSorted'
    BY DEF SchedulerIInv, QueueSorted
  <1>2. Queued' = Queued
    BY DEF Queued
  <1>. QED  BY <1>1, <1>2 DEF SchedulerIInv, TaskRunsOnce

----------------------------------------------------------------------------
(* The steps *)

\* At the start nothing is queued and nobody runs.
LEMMA InitLemma == SchedulerInit => SchedulerIInv
  <1> SUFFICES ASSUME SchedulerInit PROVE SchedulerIInv
    OBVIOUS
  <1>1. SchedulerTypeOK
    <2>1. taskQueue \in Seq(Entry) /\ nThreadsServicingQueue \in Int
      BY DEF SchedulerInit
    <2>2. at \in [ServiceThread -> PC] /\ until \in [ServiceThread -> 0..MaxDelay]
          /\ running \in [ServiceThread -> Task \cup {NoTask}]
      BY DEF SchedulerInit, PC
    <2>3. stopRequested \in BOOLEAN /\ stopWhenEmpty \in BOOLEAN /\ interrupted \subseteq ServiceThread
      BY DEF SchedulerInit
    <2>. QED  BY <2>1, <2>2, <2>3 DEF SchedulerTypeOK
  <1>2. Inside = {}
    BY DEF SchedulerInit, Inside
  <1>3. CounterExact
    BY <1>2, FS_EmptySet DEF SchedulerInit, CounterExact
  <1>4. QueueSorted /\ TaskRunsOnce
    BY <1>1 DEF SchedulerInit, QueueSorted, TaskRunsOnce
  <1>. QED  BY <1>3, <1>4 DEF SchedulerIInv

\* schedule puts one task into its place in the queue.
LEMMA ScheduleLemma ==
    ASSUME SchedulerIInv, NEW k \in Task, Schedule(k)
    PROVE  SchedulerIInv'
  <1>1. PICK d \in 0..MaxDelay : schedule(k, d)
    BY DEF Schedule
  <1>2. /\ k \notin Queued /\ taskQueue' = Insert(k, d) /\ at' \in NotifyOne(at)
        /\ UNCHANGED <<stopRequested, stopWhenEmpty, until, running,
                       nThreadsServicingQueue, interrupted>>
        /\ \A t \in ServiceThread : running[t] # k
    BY <1>1 DEF Schedule, schedule
  <1>3. SchedulerTypeOK /\ at \in [ServiceThread -> PC]
    BY DEF SchedulerIInv, TaskRunsOnce, SchedulerTypeOK
  <1>4. /\ at' \in [ServiceThread -> PC]
        /\ \A t \in ServiceThread : /\ at'[t] = "run" <=> at[t] = "run"
                                    /\ at'[t] \in {"outside", "exited", "thrown"} <=>
                                         at[t] \in {"outside", "exited", "thrown"}
    BY <1>2, <1>3, NotifyOneLemma
  <1>5. /\ taskQueue' \in Seq(Entry) /\ QueueSorted' /\ Queued' = Queued \cup {k}
        /\ \A i, j \in DOMAIN taskQueue' : taskQueue'[i].task = taskQueue'[j].task => i = j
    BY <1>2, <1>3, InsertKeeps DEF SchedulerIInv, TaskRunsOnce
  <1>6. SchedulerTypeOK'
    BY <1>2, <1>3, <1>4, <1>5 DEF SchedulerTypeOK
  <1>7. CounterExact'
    BY <1>2, <1>4, InsideKept DEF SchedulerIInv
  <1>8. TaskRunsOnce'
    BY <1>2, <1>4, <1>5, <1>6 DEF SchedulerIInv, TaskRunsOnce
  <1>. QED  BY <1>5, <1>7, <1>8 DEF SchedulerIInv

\* A thread enters serviceQueue and is counted.
LEMMA EnterServiceLemma ==
    ASSUME SchedulerIInv, NEW t \in ServiceThread, EnterService(t)
    PROVE  SchedulerIInv'
  <1>1. SchedulerTypeOK /\ at \in [ServiceThread -> PC]
    BY DEF SchedulerIInv, TaskRunsOnce, SchedulerTypeOK
  <1>2. SchedulerTypeOK'
    BY <1>1 DEF EnterService, SchedulerTypeOK, queueVars, PC
  <1>3. CounterExact'
    <2>1. t \notin Inside /\ t \in Inside'
      BY <1>1 DEF EnterService, Inside
    <2>. QED  BY <1>1, <2>1, InsideMoves DEF SchedulerIInv, EnterService
  <1>. QED  BY <1>1, <1>2, <1>3, WaitsLemma DEF SchedulerIInv, EnterService, queueVars

\* A thread that leaves is counted off.
LEMMA LeaveLemma ==
    ASSUME SchedulerIInv, NEW t \in ServiceThread, Leave(t)
    PROVE  SchedulerIInv'
  <1> DEFINE p == [at EXCEPT ![t] = "exited"]
  <1>1. SchedulerTypeOK /\ at \in [ServiceThread -> PC] /\ p \in [ServiceThread -> PC]
    BY DEF SchedulerIInv, TaskRunsOnce, SchedulerTypeOK, PC
  <1>2. at' \in NotifyOne(p) /\ at[t] \in {"locked", "timeout"}
    BY DEF Leave
  <1>3. p[t] = "exited" /\ \A u \in ServiceThread \ {t} : p[u] = at[u]
    BY <1>1
  <1> HIDE DEF p
  <1>4. /\ at' \in [ServiceThread -> PC]
        /\ \A u \in ServiceThread : /\ at'[u] = "run" <=> p[u] = "run"
                                    /\ at'[u] \in {"outside", "exited", "thrown"} <=>
                                         p[u] \in {"outside", "exited", "thrown"}
    BY <1>1, <1>2, NotifyOneLemma
  <1>5. SchedulerTypeOK'
    BY <1>1, <1>4 DEF Leave, SchedulerTypeOK, queueVars
  <1>6. CounterExact'
    <2>1. t \in Inside /\ t \notin Inside'
      BY <1>2, <1>3, <1>4 DEF Inside
    <2>. QED  BY <1>3, <1>4, <2>1, InsideMoves DEF SchedulerIInv, Leave
  <1>7. \A u \in ServiceThread : at[u] = "run" => at'[u] = "run"
    BY <1>2, <1>3, <1>4
  <1>. QED  BY <1>5, <1>6, <1>7, WaitsLemma DEF SchedulerIInv, Leave, queueVars

\* The steps around a wait.
LEMMA WaitLemma ==
    ASSUME SchedulerIInv, NEW t \in ServiceThread,
           Wait(t) \/ WaitUntil(t) \/ Timeout(t) \/ Spurious(t)
    PROVE  SchedulerIInv'
  <1>1. SchedulerTypeOK /\ at \in [ServiceThread -> PC]
    BY DEF SchedulerIInv, TaskRunsOnce, SchedulerTypeOK
  <1>2. /\ at[t] \in {"locked", "timeout", "wait", "timed"}
        /\ \E v \in {"locked", "timeout", "wait", "timed"} : at' = [at EXCEPT ![t] = v]
        /\ UNCHANGED <<queueVars, running, nThreadsServicingQueue, interrupted>>
    BY DEF Wait, WaitUntil, Timeout, Spurious, OnCondition
  <1>3. at' \in [ServiceThread -> PC]
    BY <1>1, <1>2 DEF PC
  <1>4. until' \in [ServiceThread -> 0..MaxDelay]
    <2>1. CASE WaitUntil(t)
      <3>1. taskQueue \in Seq(Entry) /\ taskQueue # <<>>
        BY <1>1, <2>1 DEF WaitUntil, SchedulerTypeOK
      <3>2. Head(taskQueue) \in Entry
        BY <3>1
      <3>3. Head(taskQueue).left \in 0..MaxDelay
        BY <3>2 DEF Entry
      <3>. QED  BY <1>1, <2>1, <3>3 DEF WaitUntil, SchedulerTypeOK
    <2>2. CASE ~WaitUntil(t)
      BY <1>1, <2>2 DEF Wait, Timeout, Spurious, SchedulerTypeOK
    <2>. QED  BY <2>1, <2>2
  <1>5. SchedulerTypeOK'
    BY <1>1, <1>2, <1>3, <1>4 DEF SchedulerTypeOK, queueVars
  <1>6. \A u \in ServiceThread : /\ at'[u] = "run" <=> at[u] = "run"
                                 /\ at'[u] \in {"outside", "exited", "thrown"} <=>
                                      at[u] \in {"outside", "exited", "thrown"}
    BY <1>1, <1>2
  <1>7. CounterExact'
    BY <1>2, <1>6, InsideKept DEF SchedulerIInv
  <1>. QED  BY <1>2, <1>5, <1>6, <1>7, WaitsLemma DEF SchedulerIInv, queueVars

\* A thread takes the first task of the queue.
LEMMA TakeLemma ==
    ASSUME SchedulerIInv, NEW t \in ServiceThread, Take(t)
    PROVE  SchedulerIInv'
  <1> DEFINE k == Head(taskQueue).task
  <1>1. SchedulerTypeOK /\ at \in [ServiceThread -> PC] /\ running \in [ServiceThread -> Task \cup {NoTask}]
    BY DEF SchedulerIInv, TaskRunsOnce, SchedulerTypeOK
  <1>2. /\ taskQueue' \in Seq(Entry) /\ QueueSorted' /\ k \in Queued \cap Task
        /\ Queued' \subseteq Queued \ {k}
        /\ \A i, j \in DOMAIN taskQueue' : taskQueue'[i].task = taskQueue'[j].task => i = j
    BY <1>1, TailLemma DEF SchedulerIInv, TaskRunsOnce, Take
  <1>3. running' = [running EXCEPT ![t] = k] /\ at' = [at EXCEPT ![t] = "run"]
        /\ at[t] = "timeout"
    BY DEF Take
  <1> HIDE DEF k
  <1>4. SchedulerTypeOK'
    BY <1>1, <1>2, <1>3 DEF Take, SchedulerTypeOK, PC
  <1>5. CounterExact'
    <2>1. \A u \in ServiceThread : at'[u] \in {"outside", "exited", "thrown"} <=>
                              at[u] \in {"outside", "exited", "thrown"}
      BY <1>1, <1>3
    <2>. QED  BY <2>1, InsideKept DEF SchedulerIInv, Take
  <1>6. TaskRunsOnce'
    <2>1. /\ \A u \in ServiceThread : running[u] # k
          /\ running'[t] = k /\ at'[t] = "run"
          /\ \A u \in ServiceThread \ {t} : running'[u] = running[u] /\ at'[u] = at[u]
      BY <1>1, <1>2, <1>3 DEF SchedulerIInv, TaskRunsOnce
    <2>2. \A u \in ServiceThread : running'[u] # NoTask => at'[u] = "run" /\ running'[u] \notin Queued'
      BY <1>2, <2>1 DEF SchedulerIInv, TaskRunsOnce
    <2>3. \A u, v \in ServiceThread : running'[u] = running'[v] /\ running'[u] # NoTask => u = v
      BY <2>1 DEF SchedulerIInv, TaskRunsOnce
    <2>. QED  BY <1>2, <1>4, <2>2, <2>3 DEF TaskRunsOnce
  <1>. QED  BY <1>2, <1>5, <1>6 DEF SchedulerIInv

\* A task ends.
LEMMA FinishTaskLemma ==
    ASSUME SchedulerIInv, NEW t \in ServiceThread, FinishTask(t)
    PROVE  SchedulerIInv'
  <1> DEFINE p == [at EXCEPT ![t] = "locked"]
  <1>1. /\ SchedulerTypeOK /\ at \in [ServiceThread -> PC] /\ p \in [ServiceThread -> PC]
        /\ running \in [ServiceThread -> Task \cup {NoTask}]
    BY DEF SchedulerIInv, TaskRunsOnce, SchedulerTypeOK, PC
  <1>2. p[t] = "locked" /\ \A u \in ServiceThread \ {t} : p[u] = at[u]
    BY <1>1
  <1>3. /\ at[t] = "run" /\ running' = [running EXCEPT ![t] = NoTask]
        /\ running'[t] = NoTask /\ \A u \in ServiceThread \ {t} : running'[u] = running[u]
        /\ UNCHANGED <<stopRequested, stopWhenEmpty, until, nThreadsServicingQueue, interrupted>>
    BY <1>1 DEF FinishTask
  <1>4. \/ /\ running[t] \in Repeating
           /\ \E d \in 1..MaxDelay : taskQueue' = Insert(running[t], d)
           /\ at' \in NotifyOne(p)
        \/ at' = p /\ UNCHANGED taskQueue
    BY DEF FinishTask
  <1> HIDE DEF p
  <1>5. /\ at' \in [ServiceThread -> PC]
        /\ \A u \in ServiceThread : /\ at'[u] = "run" <=> p[u] = "run"
                                    /\ at'[u] \in {"outside", "exited", "thrown"} <=>
                                         p[u] \in {"outside", "exited", "thrown"}
    BY <1>1, <1>4, NotifyOneLemma
  <1>6. CounterExact'
    <2>1. \A u \in ServiceThread : at'[u] \in {"outside", "exited", "thrown"} <=>
                              at[u] \in {"outside", "exited", "thrown"}
      BY <1>2, <1>3, <1>5
    <2>. QED  BY <1>3, <2>1, InsideKept DEF SchedulerIInv
  <1>7. /\ taskQueue' \in Seq(Entry) /\ QueueSorted'
        /\ Queued' = Queued \/ (running[t] # NoTask /\ Queued' = Queued \cup {running[t]})
        /\ \A i, j \in DOMAIN taskQueue' : taskQueue'[i].task = taskQueue'[j].task => i = j
    <2>1. CASE UNCHANGED taskQueue
      BY <1>1, <2>1 DEF SchedulerIInv, QueueSorted, TaskRunsOnce, SchedulerTypeOK, Queued
    <2>2. CASE running[t] \in Repeating
               /\ \E d \in 1..MaxDelay : taskQueue' = Insert(running[t], d)
      <3>1. PICK d \in 1..MaxDelay : taskQueue' = Insert(running[t], d)
        BY <2>2
      <3>2. running[t] \in Task /\ running[t] # NoTask /\ running[t] \notin Queued
        BY <2>2 DEF SchedulerIInv, TaskRunsOnce
      <3>3. d \in 0..MaxDelay
        OBVIOUS
      <3>. QED  BY <1>1, <3>1, <3>2, <3>3, InsertKeeps DEF SchedulerIInv, TaskRunsOnce
    <2>. QED  BY <1>4, <2>1, <2>2
  <1>8. SchedulerTypeOK'
    BY <1>1, <1>3, <1>5, <1>7 DEF SchedulerTypeOK
  <1>9. TaskRunsOnce'
    <2>1. \A u \in ServiceThread : running'[u] # NoTask => at'[u] = "run" /\ running'[u] \notin Queued'
      <3> SUFFICES ASSUME NEW u \in ServiceThread, running'[u] # NoTask
                   PROVE  at'[u] = "run" /\ running'[u] \notin Queued'
        OBVIOUS
      <3>1. u # t /\ running'[u] = running[u]
        BY <1>3
      <3>2. at[u] = "run" /\ running[u] \notin Queued
        BY <3>1 DEF SchedulerIInv, TaskRunsOnce
      <3>3. running[u] # running[t]
        BY <3>1 DEF SchedulerIInv, TaskRunsOnce
      <3>. QED  BY <1>2, <1>5, <1>7, <3>1, <3>2, <3>3
    <2>2. \A u, v \in ServiceThread : running'[u] = running'[v] /\ running'[u] # NoTask => u = v
      BY <1>3 DEF SchedulerIInv, TaskRunsOnce
    <2>. QED  BY <1>7, <1>8, <2>1, <2>2 DEF TaskRunsOnce
  <1>. QED  BY <1>6, <1>7, <1>9 DEF SchedulerIInv

\* An interrupted thread throws, waiting or running, and is counted off.
LEMMA ThrowLemma ==
    ASSUME SchedulerIInv, NEW t \in ServiceThread, Throw(t)
    PROVE  SchedulerIInv'
  <1>1. /\ SchedulerTypeOK /\ at \in [ServiceThread -> PC] /\ running \in [ServiceThread -> Task \cup {NoTask}]
    BY DEF SchedulerIInv, TaskRunsOnce, SchedulerTypeOK
  <1>2. /\ at[t] \in {"wait", "timed", "run"} /\ at'[t] = "thrown" /\ running'[t] = NoTask
        /\ \A u \in ServiceThread \ {t} : running'[u] = running[u] /\ at'[u] = at[u]
        /\ UNCHANGED taskQueue
    BY <1>1 DEF Throw, queueVars
  <1>3. SchedulerTypeOK'
    BY <1>1 DEF Throw, SchedulerTypeOK, queueVars, PC
  <1>4. CounterExact'
    <2>1. t \in Inside /\ t \notin Inside'
      BY <1>2 DEF Inside
    <2>. QED  BY <1>2, <2>1, InsideMoves DEF SchedulerIInv, Throw
  <1>5. Queued' = Queued /\ QueueSorted'
    BY <1>2 DEF Queued, SchedulerIInv, QueueSorted
  <1>6. TaskRunsOnce'
    BY <1>2, <1>3, <1>5 DEF SchedulerIInv, TaskRunsOnce
  <1>. QED  BY <1>4, <1>5, <1>6 DEF SchedulerIInv

\* stop touches the flags only.
LEMMA StopLemma ==
    ASSUME SchedulerIInv, NEW drain \in BOOLEAN, stop(drain)
    PROVE  SchedulerIInv'
  <1>1. SchedulerTypeOK /\ at \in [ServiceThread -> PC]
    BY DEF SchedulerIInv, TaskRunsOnce, SchedulerTypeOK
  <1>2. /\ at' \in [ServiceThread -> PC]
        /\ \A u \in ServiceThread : /\ at'[u] = "run" <=> at[u] = "run"
                                    /\ at'[u] \in {"outside", "exited", "thrown"} <=>
                                         at[u] \in {"outside", "exited", "thrown"}
    BY <1>1 DEF stop, NotifyAll, PC
  <1>3. stopRequested' \in BOOLEAN /\ stopWhenEmpty' \in BOOLEAN
    BY <1>1 DEF stop, SchedulerTypeOK
  <1>4. SchedulerTypeOK'
    BY <1>1, <1>2, <1>3 DEF stop, SchedulerTypeOK
  <1>5. CounterExact'
    BY <1>2, InsideKept DEF SchedulerIInv, stop
  <1>. QED  BY <1>2, <1>4, <1>5, WaitsLemma DEF SchedulerIInv, stop

\* Time passes.
LEMMA TickLemma ==
    ASSUME SchedulerIInv, Tick
    PROVE  SchedulerIInv'
  <1>1. SchedulerTypeOK /\ taskQueue \in Seq(Entry)
    BY DEF SchedulerIInv, TaskRunsOnce, SchedulerTypeOK
  <1>2. taskQueue' = [i \in DOMAIN taskQueue |->
                       IF taskQueue[i].left > 0 THEN [taskQueue[i] EXCEPT !.left = @ - 1]
                       ELSE taskQueue[i]]
    BY DEF Tick
  <1>3. ASSUME NEW i \in DOMAIN taskQueue
        PROVE  /\ taskQueue'[i] \in Entry /\ taskQueue'[i].task = taskQueue[i].task
               /\ taskQueue[i].left \in 0..MaxDelay
               /\ taskQueue'[i].left =
                     IF taskQueue[i].left > 0 THEN taskQueue[i].left - 1 ELSE taskQueue[i].left
    <2>1. taskQueue[i] \in Entry
      BY <1>1
    <2>. QED  BY <1>2, <2>1 DEF Entry
  <1>4. taskQueue' \in Seq(Entry) /\ DOMAIN taskQueue' = DOMAIN taskQueue
    <2>1. DOMAIN taskQueue = 1..Len(taskQueue) /\ Len(taskQueue) \in Nat
      BY <1>1
    <2>2. DOMAIN taskQueue' = DOMAIN taskQueue /\ taskQueue' \in [1..Len(taskQueue) -> Entry]
      BY <1>2, <1>3, <2>1
    <2>. QED  BY <2>1, <2>2
  <1>5. QueueSorted'
    BY <1>3, <1>4 DEF SchedulerIInv, QueueSorted
  <1>6. Queued' = Queued
    BY <1>3, <1>4 DEF Queued
  <1>7. until' \in [ServiceThread -> 0..MaxDelay]
    BY <1>1 DEF Tick, SchedulerTypeOK
  <1>8. SchedulerTypeOK'
    BY <1>1, <1>4, <1>7 DEF Tick, SchedulerTypeOK
  <1>9. CounterExact'
    BY InsideKept DEF SchedulerIInv, Tick
  <1>10. TaskRunsOnce'
    <2>1. UNCHANGED <<at, running>>
      BY DEF Tick
    <2>2. \A i, j \in DOMAIN taskQueue' : taskQueue'[i].task = taskQueue'[j].task => i = j
      BY <1>3, <1>4 DEF SchedulerIInv, TaskRunsOnce
    <2>. QED  BY <1>6, <1>8, <2>1, <2>2 DEF SchedulerIInv, TaskRunsOnce
  <1>. QED  BY <1>5, <1>9, <1>10 DEF SchedulerIInv

----------------------------------------------------------------------------
(* The theorems *)

\* The counter, the order of the queue and the places of the tasks are kept by
\* every step of every thread and client.
THEOREM Inductive == SchedulerSpec => []SchedulerIInv
  <1>1. SchedulerIInv /\ [SchedulerNext]_schedulerVars => SchedulerIInv'
    <2> SUFFICES ASSUME SchedulerIInv, [SchedulerNext]_schedulerVars PROVE SchedulerIInv'
      OBVIOUS
    <2>1. ASSUME NEW k \in Task, Schedule(k) PROVE SchedulerIInv'
      BY <2>1, ScheduleLemma
    <2>2. ASSUME NEW t \in ServiceThread, EnterService(t) PROVE SchedulerIInv'
      BY <2>2, EnterServiceLemma
    <2>3. ASSUME NEW t \in ServiceThread, Step(t) PROVE SchedulerIInv'
      BY <2>3, LeaveLemma, WaitLemma, TakeLemma, FinishTaskLemma DEF Step
    <2>4. ASSUME NEW t \in ServiceThread, Spurious(t) PROVE SchedulerIInv'
      BY <2>4, WaitLemma
    <2>5. ASSUME NEW t \in ServiceThread, Throw(t) PROVE SchedulerIInv'
      BY <2>5, ThrowLemma
    <2>6. ASSUME NEW drain \in BOOLEAN, stop(drain) PROVE SchedulerIInv'
      BY <2>6, StopLemma
    <2>7. CASE Interrupt \/ UNCHANGED schedulerVars
      <3>1. /\ UNCHANGED <<taskQueue, running, at, nThreadsServicingQueue>> /\ SchedulerTypeOK'
        BY <2>7 DEF Interrupt, schedulerVars, queueVars, threadVars, SchedulerIInv, TaskRunsOnce, SchedulerTypeOK
      <3>. QED  BY <3>1, InsideKept, WaitsLemma DEF SchedulerIInv
    <2>8. CASE Tick
      BY <2>8, TickLemma
    <2>. QED  BY <2>1, <2>2, <2>3, <2>4, <2>5, <2>6, <2>7, <2>8 DEF SchedulerNext
  <1>. QED  BY <1>1, InitLemma, PTL DEF SchedulerSpec

\* nThreadsServicingQueue is the number of threads in serviceQueue, whichever
\* way they leave it.
THEOREM Counter == SchedulerSpec => []CounterExact
  <1>1. SchedulerIInv => CounterExact
    BY DEF SchedulerIInv
  <1>. QED  BY <1>1, Inductive, PTL

\* No task is queued while it runs, queued twice, or run by two threads.
THEOREM RunsOnce == SchedulerSpec => []TaskRunsOnce
  <1>1. SchedulerIInv => TaskRunsOnce
    BY DEF SchedulerIInv
  <1>. QED  BY <1>1, Inductive, PTL
=============================================================================
