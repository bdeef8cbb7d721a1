----------------------------- MODULE CheckQueue -----------------------------
(***************************************************************************)
(* The queue of script checks that ConnectBlock fills and a pool of        *)
(* threads drains (checkqueue.h: CCheckQueue, CCheckQueueControl).  Each   *)
(* action is one critical section of the queue's mutex; what a thread      *)
(* executes between two of them is local to it.  The queue is a stack in   *)
(* the code "as the order of booleans doesn't matter"; here it is a set.   *)
(* Threads may be interrupted at shutdown while they wait (init.cpp,       *)
(* threadGroup.interrupt_all), and a wait may return without a signal.     *)
(***************************************************************************)
EXTENDS Integers, FiniteSets

CONSTANTS
    Worker,      \* the threads that run CCheckQueue::Thread
    Master,      \* the thread that runs ConnectBlock
    Check,       \* the checks of one block
    Bad,         \* the checks whose operator() returns false
    nBatchSize   \* the largest batch a thread takes

ASSUME QueueAssumption ==
    /\ IsFiniteSet(Worker)
    /\ Master \notin Worker
    /\ IsFiniteSet(Check)
    /\ Bad \subseteq Check
    /\ nBatchSize \in Nat \ {0}

Thread == Worker \cup {Master}

VARIABLES
    queue, nIdle, nTotal, fAllOk, nTodo,  \* the members of CCheckQueue
    pc,        \* where each thread is: outside Loop, waiting, signalled, running
    vChecks,   \* the batch each thread holds
    fOk,       \* the thread's copy of fAllOk, taken with its batch
    control,   \* the life of ConnectBlock's CCheckQueueControl
    added,     \* the checks added under the current or the last control
    result,    \* what its last Wait returned
    shutdown   \* interrupt_all: not called, called, delivered to the master

vars == <<queue, nIdle, nTotal, fAllOk, nTodo, pc, vChecks, fOk, control, added,
          result, shutdown>>

Init ==
    /\ queue = {}
    /\ nIdle = 0
    /\ nTotal = 0
    /\ fAllOk = TRUE
    /\ nTodo = 0
    /\ pc = [t \in Thread |-> "out"]
    /\ vChecks = [t \in Thread |-> {}]
    /\ fOk = [t \in Thread |-> TRUE]
    /\ control = "none"
    /\ added = {}
    /\ result = TRUE
    /\ shutdown = "no"

-----------------------------------------------------------------------------
\* The number of checks a thread takes: at most nBatchSize, at least one, and
\* a smaller share the more threads there are.
BatchSize(total, idle) ==
    LET share == Cardinality(queue) \div (total + idle + 1)
        capped == IF share < nBatchSize THEN share ELSE nBatchSize
    IN  IF capped > 1 THEN capped ELSE 1

\* The inner part of Loop for thread t: return, wait on the condition variable,
\* or take a batch.  The parameters are the members as the clean-up of the
\* previous iteration left them, pcs the program counters after its signal.
LoopTop(t, pcs, todo, allOk, total, idle) ==
    /\ nTodo' = todo
    /\ \/ /\ queue = {} /\ t = Master /\ todo = 0
          /\ pc' = [pcs EXCEPT ![t] = "out"]
          /\ nTotal' = total - 1
          /\ nIdle' = idle
          /\ result' = allOk
          /\ fAllOk' = TRUE
          /\ control' = "none"
          /\ vChecks' = [vChecks EXCEPT ![t] = {}]
          /\ UNCHANGED <<queue, fOk>>
       \/ /\ queue = {} /\ ~(t = Master /\ todo = 0)
          /\ pc' = [pcs EXCEPT ![t] = "wait"]
          /\ nTotal' = total
          /\ nIdle' = idle + 1
          /\ fAllOk' = allOk
          /\ vChecks' = [vChecks EXCEPT ![t] = {}]
          /\ UNCHANGED <<queue, fOk, control, result>>
       \/ /\ queue # {}
          /\ \E batch \in SUBSET queue :
                /\ Cardinality(batch) = BatchSize(total, idle)
                /\ vChecks' = [vChecks EXCEPT ![t] = batch]
                /\ queue' = queue \ batch
          /\ pc' = [pcs EXCEPT ![t] = "run"]
          /\ nTotal' = total
          /\ nIdle' = idle
          /\ fAllOk' = allOk
          /\ fOk' = [fOk EXCEPT ![t] = allOk]
          /\ UNCHANGED <<control, result>>
    /\ UNCHANGED <<added, shutdown>>

\* A thread enters Loop: Thread() of a worker, Wait() of the master, the
\* latter called by ConnectBlock or by ~CCheckQueueControl.
Enter(t) ==
    /\ pc[t] = "out"
    /\ t = Master => control \in {"waiting", "unwinding"}
    /\ LoopTop(t, pc, nTodo, fAllOk, nTotal + 1, nIdle)

\* Mutant: nIdle-- is skipped when the wait returns.
ResumeStaysIdle(t) ==
    /\ pc[t] \in {"wait", "signalled"}
    /\ LoopTop(t, pc, nTodo, fAllOk, nTotal, nIdle)

\* cond.wait returns, signalled or spuriously.
Resume(t) ==
    /\ pc[t] \in {"wait", "signalled"}
    /\ LoopTop(t, pc, nTodo, fAllOk, nTotal, nIdle - 1)

\* Mutant: the worker that finishes last does not wake the master.
FinishSilently(t) ==
    /\ pc[t] = "run"
    /\ LoopTop(t, pc, nTodo - Cardinality(vChecks[t]),
               fAllOk /\ fOk[t] /\ vChecks[t] \cap Bad = {}, nTotal, nIdle)

\* Mutant: the result of a batch overwrites the result of the others.
FinishOverwrites(t) ==
    LET todo == nTodo - Cardinality(vChecks[t])
    IN  /\ pc[t] = "run"
        /\ LoopTop(t,
                   IF todo = 0 /\ t # Master /\ pc[Master] = "wait"
                   THEN [pc EXCEPT ![Master] = "signalled"] ELSE pc,
                   todo, fOk[t] /\ vChecks[t] \cap Bad = {}, nTotal, nIdle)

\* Mutant: a finished batch is taken off the count one check at a time.
FinishCountsOne(t) ==
    /\ pc[t] = "run"
    /\ LoopTop(t,
               IF nTodo = 1 /\ t # Master /\ pc[Master] = "wait"
               THEN [pc EXCEPT ![Master] = "signalled"] ELSE pc,
               nTodo - 1, fAllOk /\ fOk[t] /\ vChecks[t] \cap Bad = {}, nTotal, nIdle)

\* The thread has executed its batch, skipping it once a check has failed, and
\* takes the mutex again: clean-up, signal to the master, next iteration.
Finish(t) ==
    LET todo == nTodo - Cardinality(vChecks[t])
    IN  /\ pc[t] = "run"
        /\ LoopTop(t,
                   IF todo = 0 /\ t # Master /\ pc[Master] = "wait"
                   THEN [pc EXCEPT ![Master] = "signalled"] ELSE pc,
                   todo, fAllOk /\ fOk[t] /\ vChecks[t] \cap Bad = {}, nTotal, nIdle)

\* CCheckQueueControl's constructor, in ConnectBlock.
NewControl ==
    /\ control = "none" /\ pc[Master] = "out"
    /\ control' = "adding"
    /\ added' = {}
    /\ UNCHANGED <<queue, nIdle, nTotal, fAllOk, nTodo, pc, vChecks, fOk, result, shutdown>>

\* Add: one new check wakes one waiting worker, more wake all of them.
Add(checks) ==
    /\ control = "adding"
    /\ checks # {} /\ checks \cap added = {}
    /\ queue' = queue \cup checks
    /\ added' = added \cup checks
    /\ nTodo' = nTodo + Cardinality(checks)
    /\ LET waiting == {w \in Worker : pc[w] = "wait"}
       IN  \E woken \in SUBSET waiting :
             /\ IF Cardinality(checks) = 1 /\ waiting # {}
                THEN Cardinality(woken) = 1 ELSE woken = waiting
             /\ pc' = [t \in Thread |-> IF t \in woken THEN "signalled" ELSE pc[t]]
    /\ UNCHANGED <<nIdle, nTotal, fAllOk, vChecks, fOk, control, result, shutdown>>

\* control.Wait(), or the destructor after an early return.
BeginWait ==
    /\ control = "adding"
    /\ control' = "waiting"
    /\ UNCHANGED <<queue, nIdle, nTotal, fAllOk, nTodo, pc, vChecks, fOk, added, result,
                   shutdown>>

InterruptAll ==
    /\ shutdown = "no"
    /\ shutdown' = "called"
    /\ UNCHANGED <<queue, nIdle, nTotal, fAllOk, nTodo, pc, vChecks, fOk, control, added,
                   result>>

\* cond.wait throws thread_interrupted, past nIdle--.
InterruptWorker(w) ==
    /\ shutdown # "no"
    /\ pc[w] \in {"wait", "signalled"}
    /\ pc' = [pc EXCEPT ![w] = "dead"]
    /\ UNCHANGED <<queue, nIdle, nTotal, fAllOk, nTodo, vChecks, fOk, control, added, result,
                   shutdown>>

\* The master's Wait is interrupted once; ~CCheckQueueControl then calls it again.
InterruptMaster ==
    /\ shutdown = "called"
    /\ shutdown' = "delivered"
    /\ control = "waiting"
    /\ pc[Master] \in {"wait", "signalled"}
    /\ pc' = [pc EXCEPT ![Master] = "out"]
    /\ control' = "unwinding"
    /\ UNCHANGED <<queue, nIdle, nTotal, fAllOk, nTodo, vChecks, fOk, added, result>>

ThreadStep(t) == Enter(t) \/ Resume(t) \/ Finish(t)

Next ==
    \/ NewControl \/ BeginWait \/ InterruptAll \/ InterruptMaster
    \/ \E checks \in SUBSET Check : Add(checks)
    \/ \E t \in Thread : ThreadStep(t)
    \/ \E w \in Worker : InterruptWorker(w)

\* The scheduler runs every thread that is ready: one that has entered Loop or
\* is about to, that holds a batch, or that a signal has woken.  Nothing is
\* assumed of spurious wake-ups or of interrupts.
Fairness ==
    /\ \A t \in Thread : /\ WF_vars(Enter(t))
                         /\ WF_vars(Finish(t))
                         /\ WF_vars(pc[t] = "signalled" /\ Resume(t))
    /\ WF_vars(BeginWait)

Spec == Init /\ [][Next]_vars /\ Fairness

-----------------------------------------------------------------------------
\* Every variable has its type; a batch is held exactly while it is run.
TypeOK ==
    /\ queue \in SUBSET Check
    /\ nIdle \in Nat /\ nTotal \in Nat /\ nTodo \in Nat
    /\ fAllOk \in BOOLEAN
    /\ pc \in [Thread -> {"out", "wait", "signalled", "run", "dead"}]
    /\ vChecks \in [Thread -> SUBSET Check]
    /\ fOk \in [Thread -> BOOLEAN]
    /\ control \in {"none", "adding", "waiting", "unwinding"}
    /\ added \in SUBSET Check
    /\ result \in BOOLEAN
    /\ shutdown \in {"no", "called", "delivered"}
    /\ \A t \in Thread : pc[t] = "run" <=> vChecks[t] # {}

\* The checks that are queued or in some thread's batch.
Outstanding == queue \cup UNION {vChecks[t] : t \in Thread}

\* nTodo counts each unfinished check once, so no thread can see nTodo = 0 while
\* a check is still queued or in a batch (the unsigned count never wraps).
TodoCountsOutstanding ==
    /\ nTodo = Cardinality(Outstanding)
    /\ \A t \in Thread : /\ queue \cap vChecks[t] = {}
                         /\ \A u \in Thread \ {t} : vChecks[t] \cap vChecks[u] = {}

\* Wait returns true exactly when every check that was added succeeds, however
\* the batches were split, skipped or finished, and also when the master was
\* interrupted and its destructor waited again.
WaitResultCorrect == control = "none" => (result <=> added \cap Bad = {})

\* The assert in CCheckQueueControl's constructor: between two blocks the queue
\* is idle, whatever workers have started, been woken or died meanwhile.
IdleBetweenBlocks ==
    control = "none" => nTotal = nIdle /\ nTodo = 0 /\ fAllOk

\* Once ConnectBlock waits, Wait returns, even if every worker is asleep, late
\* or dead: no signal that matters is lost.
WaitReturns == control = "waiting" ~> control = "none"
=============================================================================
