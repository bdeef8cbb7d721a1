----------------------------- MODULE Scheduler -----------------------------
(***************************************************************************)
(* CScheduler: threads in serviceQueue wait on a condition variable for    *)
(* the first task of a time-ordered queue (scheduler.cpp).  What a thread  *)
(* does between two waits is one step under newTaskMutex.  Times are       *)
(* relative: the time a task or a wait has left, 0 once it has come.  A    *)
(* task that repeats schedules itself again when it ends (Repeat).         *)
(***************************************************************************)
EXTENDS Integers, Sequences, FiniteSets

CONSTANTS
    ServiceThread,  \* the threads that call serviceQueue
    Task,
    Repeating,   \* the tasks of scheduleEvery
    MaxDelay     \* bound: the longest delay of a task

ASSUME SchedulerAssumption ==
    /\ IsFiniteSet(ServiceThread)
    /\ MaxDelay \in Nat
    /\ Repeating \subseteq Task

NoTask == "none"
ASSUME NoTaskAssumption == NoTask \notin Task

VARIABLES
    taskQueue,              \* tasks and the time each has left, in the order of
                            \* the multimap: by time, then by insertion
    nThreadsServicingQueue,
    stopRequested,
    stopWhenEmpty,
    at,                     \* where each thread is
    until,                  \* what is left of its timed wait
    running,                \* the task it runs, or NoTask
    interrupted             \* boost::thread::interrupt was called on it

queueVars == <<taskQueue, stopRequested, stopWhenEmpty>>
threadVars == <<at, until, running>>
schedulerVars == <<queueVars, threadVars, nThreadsServicingQueue, interrupted>>

\* Where a thread is: "outside" before serviceQueue; "locked": about to take newTaskMutex, after
\* an entry, a wake-up or a task; "wait" and "timed" on the condition variable;
\* "timeout": the timed wait ended by itself; "run" inside f; "exited", "thrown".
PC == {"outside", "locked", "wait", "timed", "timeout", "run", "exited", "thrown"}

Entry == [task : Task, left : 0..MaxDelay]
Queued == {taskQueue[i].task : i \in DOMAIN taskQueue}
shouldStop == stopRequested \/ (stopWhenEmpty /\ taskQueue = <<>>)
OnCondition == {t \in ServiceThread : at[t] \in {"wait", "timed"}}

-----------------------------------------------------------------------------
SchedulerInit ==
    /\ taskQueue = <<>>
    /\ nThreadsServicingQueue = 0
    /\ stopRequested = FALSE /\ stopWhenEmpty = FALSE
    /\ at = [t \in ServiceThread |-> "outside"]
    /\ until = [t \in ServiceThread |-> 0]
    /\ running = [t \in ServiceThread |-> NoTask]
    /\ interrupted = {}

\* The thread states after notify_one on p: some waiting thread wakes.
NotifyOne(p) ==
    LET waiting == {t \in ServiceThread : p[t] \in {"wait", "timed"}}
    IN  IF waiting = {} THEN {p} ELSE {[p EXCEPT ![t] = "locked"] : t \in waiting}

\* The thread states after notify_all.
NotifyAll(p) == [t \in ServiceThread |-> IF p[t] \in {"wait", "timed"} THEN "locked" ELSE p[t]]

\* The number of tasks that come before a new one at time d.
UpperBound(d) ==
    CHOOSE n \in 0..Len(taskQueue) :
        \A i \in DOMAIN taskQueue : taskQueue[i].left <= d <=> i <= n

\* taskQueue.insert: after the tasks of the same time.
Insert(k, d) ==
    LET n == UpperBound(d)
    IN  SubSeq(taskQueue, 1, n) \o <<[task |-> k, left |-> d]>>
            \o SubSeq(taskQueue, n + 1, Len(taskQueue))

\* Mutant: nobody is told of a new task.
ScheduleSilently(k, d) ==
    /\ k \notin Queued
    /\ taskQueue' = Insert(k, d)
    /\ UNCHANGED at

\* schedule: the task goes into the queue and one waiting thread is notified.
schedule(k, d) ==
    /\ k \notin Queued
    /\ taskQueue' = Insert(k, d)
    /\ at' \in NotifyOne(at)

\* A client calls scheduleFromNow or scheduleEvery; not once it asked for a drain.
Schedule(k) ==
    /\ ~stopWhenEmpty
    /\ \A t \in ServiceThread : running[t] # k
    /\ \E d \in 0..MaxDelay : schedule(k, d)
    /\ UNCHANGED <<stopRequested, stopWhenEmpty, until, running, nThreadsServicingQueue, interrupted>>

\* serviceQueue is entered.
EnterService(t) ==
    /\ at[t] = "outside"
    /\ nThreadsServicingQueue' = nThreadsServicingQueue + 1
    /\ at' = [at EXCEPT ![t] = "locked"]
    /\ UNCHANGED <<queueVars, until, running, interrupted>>

\* The loop from its head, or after a notification: leave, wait for a task, or
\* wait for the time of the first one.
Leave(t) ==
    /\ at[t] \in {"locked", "timeout"} /\ shouldStop
    /\ nThreadsServicingQueue' = nThreadsServicingQueue - 1
    /\ at' \in NotifyOne([at EXCEPT ![t] = "exited"])
    /\ UNCHANGED <<queueVars, until, running, interrupted>>
Wait(t) ==
    /\ at[t] \in {"locked", "timeout"} /\ ~shouldStop /\ taskQueue = <<>>
    /\ at' = [at EXCEPT ![t] = "wait"]
    /\ UNCHANGED <<queueVars, until, running, nThreadsServicingQueue, interrupted>>
WaitUntil(t) ==
    /\ at[t] = "locked" /\ ~shouldStop /\ taskQueue # <<>>
    /\ at' = [at EXCEPT ![t] = "timed"]
    /\ until' = [until EXCEPT ![t] = Head(taskQueue).left]
    /\ UNCHANGED <<queueVars, running, nThreadsServicingQueue, interrupted>>

\* Mutant: the task stays in the queue while it runs.
TakeKeeps(t) ==
    /\ at[t] = "timeout" /\ ~shouldStop /\ taskQueue # <<>>
    /\ running' = [running EXCEPT ![t] = Head(taskQueue).task]
    /\ at' = [at EXCEPT ![t] = "run"]
    /\ UNCHANGED <<taskQueue, stopRequested, stopWhenEmpty, until, nThreadsServicingQueue, interrupted>>

\* After a timeout the first task is taken, whichever it is by now.
Take(t) ==
    /\ at[t] = "timeout" /\ ~shouldStop /\ taskQueue # <<>>
    /\ running' = [running EXCEPT ![t] = Head(taskQueue).task]
    /\ taskQueue' = Tail(taskQueue)
    /\ at' = [at EXCEPT ![t] = "run"]
    /\ UNCHANGED <<stopRequested, stopWhenEmpty, until, nThreadsServicingQueue, interrupted>>

\* f returns; Repeat schedules it again first.
FinishTask(t) ==
    /\ at[t] = "run"
    /\ running' = [running EXCEPT ![t] = NoTask]
    /\ \/ /\ running[t] \in Repeating
          /\ \E d \in 1..MaxDelay : taskQueue' = Insert(running[t], d)
          /\ at' \in NotifyOne([at EXCEPT ![t] = "locked"])
       \/ /\ running[t] \notin Repeating
          /\ at' = [at EXCEPT ![t] = "locked"]
          /\ UNCHANGED taskQueue
    /\ UNCHANGED <<stopRequested, stopWhenEmpty, until, nThreadsServicingQueue, interrupted>>

\* The condition variable: a wait ends when its time has come, or for no reason;
\* the wait of an interrupted thread throws.
Timeout(t) ==
    /\ at[t] = "timed" /\ until[t] = 0 /\ t \notin interrupted
    /\ at' = [at EXCEPT ![t] = "timeout"]
    /\ UNCHANGED <<queueVars, until, running, nThreadsServicingQueue, interrupted>>
Spurious(t) ==
    /\ t \in OnCondition \ interrupted
    /\ at' = [at EXCEPT ![t] = "locked"]
    /\ UNCHANGED <<queueVars, until, running, nThreadsServicingQueue, interrupted>>

\* Mutant: the counter is not put back when a wait or a task throws.
ThrowUncounted(t) ==
    /\ t \in interrupted /\ at[t] \in {"wait", "timed", "run"}
    /\ at' = [at EXCEPT ![t] = "thrown"]
    /\ running' = [running EXCEPT ![t] = NoTask]
    /\ UNCHANGED <<queueVars, until, nThreadsServicingQueue, interrupted>>

\* thread_interrupted out of a wait or out of f.
Throw(t) ==
    /\ t \in interrupted /\ at[t] \in {"wait", "timed", "run"}
    /\ nThreadsServicingQueue' = nThreadsServicingQueue - 1
    /\ at' = [at EXCEPT ![t] = "thrown"]
    /\ running' = [running EXCEPT ![t] = NoTask]
    /\ UNCHANGED <<queueVars, until, interrupted>>

\* Mutant: stop wakes nobody.
StopSilently(drain) ==
    /\ ~(IF drain THEN stopWhenEmpty ELSE stopRequested)
    /\ IF drain THEN stopWhenEmpty' = TRUE /\ UNCHANGED stopRequested
                ELSE stopRequested' = TRUE /\ UNCHANGED stopWhenEmpty
    /\ UNCHANGED <<taskQueue, at, until, running, nThreadsServicingQueue, interrupted>>

\* stop, once of each kind.
stop(drain) ==
    /\ ~(IF drain THEN stopWhenEmpty ELSE stopRequested)
    /\ IF drain THEN stopWhenEmpty' = TRUE /\ UNCHANGED stopRequested
                ELSE stopRequested' = TRUE /\ UNCHANGED stopWhenEmpty
    /\ at' = NotifyAll(at)
    /\ UNCHANGED <<taskQueue, until, running, nThreadsServicingQueue, interrupted>>

\* Shutdown interrupts the threads of the thread group.
Interrupt ==
    /\ interrupted # ServiceThread
    /\ interrupted' = ServiceThread
    /\ UNCHANGED <<queueVars, threadVars, nThreadsServicingQueue>>

\* A second passes.
Tick ==
    /\ \/ \E i \in DOMAIN taskQueue : taskQueue[i].left > 0
       \/ \E t \in ServiceThread : at[t] = "timed" /\ until[t] > 0
    /\ taskQueue' = [i \in DOMAIN taskQueue |->
                       IF taskQueue[i].left > 0 THEN [taskQueue[i] EXCEPT !.left = @ - 1] ELSE taskQueue[i]]
    /\ until' = [t \in ServiceThread |-> IF until[t] > 0 THEN until[t] - 1 ELSE until[t]]
    /\ UNCHANGED <<stopRequested, stopWhenEmpty, at, running, nThreadsServicingQueue, interrupted>>

Step(t) == Leave(t) \/ Wait(t) \/ WaitUntil(t) \/ Take(t) \/ FinishTask(t) \/ Timeout(t)

SchedulerNext ==
    \/ \E k \in Task : Schedule(k)
    \/ \E t \in ServiceThread : EnterService(t) \/ Step(t) \/ Spurious(t) \/ Throw(t)
    \/ \E drain \in BOOLEAN : stop(drain)
    \/ Interrupt
    \/ Tick

SchedulerSpec == SchedulerInit /\ [][SchedulerNext]_schedulerVars

\* Threads run, tasks end and the clock advances; a thread that comes back to a
\* wait whose time has passed times out some day, however often it is notified
\* or wakes up for no reason.
SchedulerFairness ==
    /\ \A t \in ServiceThread : /\ WF_schedulerVars(Step(t))
                                /\ WF_schedulerVars(EnterService(t))
                                /\ WF_schedulerVars(Throw(t))
                                /\ SF_schedulerVars(Timeout(t))
    /\ WF_schedulerVars(Tick)
FairSchedulerSpec == SchedulerSpec /\ SchedulerFairness

-----------------------------------------------------------------------------
\* Every variable has its type.
SchedulerTypeOK ==
    /\ taskQueue \in Seq(Entry)
    /\ nThreadsServicingQueue \in Int
    /\ stopRequested \in BOOLEAN /\ stopWhenEmpty \in BOOLEAN
    /\ at \in [ServiceThread -> PC]
    /\ until \in [ServiceThread -> 0..MaxDelay]
    /\ running \in [ServiceThread -> Task \cup {NoTask}]
    /\ interrupted \subseteq ServiceThread

Inside == {t \in ServiceThread : at[t] \notin {"outside", "exited", "thrown"}}

\* The counter is the number of threads inside serviceQueue, through every way
\* out of it, so the assert of ~CScheduler holds once they are joined.
CounterExact == nThreadsServicingQueue = Cardinality(Inside)

\* A task is in one place: never queued while it runs, never run by two threads.
\* The variables have their types (SchedulerTypeOK).
TaskRunsOnce ==
    /\ SchedulerTypeOK
    /\ \A t \in ServiceThread : running[t] # NoTask => at[t] = "run" /\ running[t] \notin Queued
    /\ \A t, u \in ServiceThread : running[t] = running[u] /\ running[t] # NoTask => t = u
    /\ \A i, j \in DOMAIN taskQueue : taskQueue[i].task = taskQueue[j].task => i = j

\* A queued task is run, unless the scheduler is stopped or interrupted: no
\* notification is lost between threads that wait for different tasks.
QueuedTaskRuns ==
    \A k \in Task : k \in Queued ~> (k \notin Queued \/ stopRequested \/ interrupted # {})

\* After stop(false), or an interrupt, every thread leaves serviceQueue.
ThreadsLeave ==
    (stopRequested \/ interrupted # {}) ~> (\A t \in ServiceThread : at[t] \in {"exited", "thrown"})
=============================================================================
