---------------------------- MODULE JobScheduler ----------------------------
(***************************************************************************)
(* The work-stealing scheduler of UnAsync/Jobs/JobScheduler.{h,cpp}.       *)
(*                                                                         *)
(* WorkerCount threads run WorkerThreadProcess; Externals are the other    *)
(* threads of the program, which call ScheduleJob; the owner thread runs   *)
(* the constructor and the destructor.  One action is one access to a      *)
(* shared object: an atomic load, store or read-modify-write, a semaphore  *)
(* operation, or a critical section of one of the two kinds of queue       *)
(* (every critical section of the code holds a single mutex and calls      *)
(* nothing that blocks, so it is one step).  All atomics of the code are   *)
(* sequentially consistent.                                                *)
(*                                                                         *)
(* Spawns[j] is the set of jobs for which ScheduleJob is called while j    *)
(* executes: from its body, or from the DecrementDependencyCount of its    *)
(* dependent (Job.h:192-195).  A job is scheduled at most once.  Any       *)
(* thread may call SetPriority on a job, also while it is in a queue:      *)
(* Changes says which calls the program makes, at any time.                *)
(***************************************************************************)
EXTENDS Integers, FiniteSets, SequencesExt

CONSTANTS
    WorkerCount,    \* m_WorkerCount
    Externals,      \* threads that are not workers and call ScheduleJob
    Jobs,
    FirstPriority,  \* [Jobs -> 0..3]: the priority each job is made with
    Changes,        \* the pairs <<j, n>> for which j.SetPriority(n) is called
    EmptyJobs,      \* the jobs for which Job::Empty() holds
    Spawns          \* [Jobs -> SUBSET Jobs]

ASSUME WorkerCountAssumption == WorkerCount \in Nat \ {0}

Workers == 0 .. WorkerCount - 1

ASSUME ThreadsAssumption == IsFiniteSet(Externals) /\ Externals \cap Int = {}

Priorities == 0 .. 3

ASSUME JobsAssumption ==
    /\ FirstPriority \in [Jobs -> Priorities]
    /\ Changes \subseteq Jobs \X Priorities
    /\ EmptyJobs \subseteq Jobs
    /\ Spawns \in [Jobs -> SUBSET Jobs]
    /\ \A j, k \in Jobs : j # k => Spawns[j] \cap Spawns[k] = {}

Threads == Workers \cup Externals

\* The jobs an external thread schedules: no job of the program does.
Roots == {k \in Jobs : \A j \in Jobs : k \notin Spawns[j]}

VARIABLES
    globalQueue,    \* m_GlobalQueue.m_Deque
    localQueue,     \* m_Threads[w]->Queue.m_Deque
    priority,       \* the two priority bits of each job's m_Flags
    disturbed,      \* history: the jobs whose priority changed in a queue, and
                    \* those pushed into a queue that held a disturbed job
    sleepingCount,  \* m_SleepingWorkerCount
    isSleeping,     \* m_Threads[w]->IsSleeping
    permits,        \* m_Threads[w]->WaitSemaphore
    startPermits,   \* m_Semaphore
    shouldExit,     \* m_ShouldExit
    pc,             \* where each thread is
    ret,            \* where NotifyWorker returns to
    scan,           \* the index i of NotifyWorker's for loop
    victim,         \* ProcessJobs' victimIndex
    attempt,        \* TryStealJob's loop index
    stack,          \* the jobs the thread is executing, innermost last
    ownerPc,        \* where the owner is in the constructor or destructor
    ownerIndex,     \* the index of its loop
    submitted,      \* history: the jobs ScheduleJob was called with
    finished        \* history: the jobs whose ExecuteInternal has returned

order   == <<priority, disturbed>>
queues  == <<globalQueue, localQueue, order>>
sleep   == <<sleepingCount, isSleeping, permits>>
owner   == <<startPermits, shouldExit, ownerPc, ownerIndex>>
notify  == <<ret, scan>>
steal   == <<victim, attempt>>
history == <<submitted, finished>>
vars == <<queues, sleep, owner, pc, notify, steal, stack, history>>

WorkerPc == {"unborn", "start", "check", "empty1", "empty2", "inc", "setSleep",
             "wait", "woken", "dequeue", "self", "again", "steal", "exited"}
NotifyPc == {"load", "exchange", "decrement", "post"}
ReturnPc == {"empty2", "run"}
OwnerPc  == {"spawn", "push", "postStart", "alive", "release", "join", "freed"}

Goto(t, label) == pc' = [pc EXCEPT ![t] = label]

-----------------------------------------------------------------------------
(* The queues: a new job before its equals, behind higher priorities.      *)

\* Mutant: push_back, ignoring the priority.
QueueEnd(q, j) == {Len(q) + 1}

\* The indexes std::lower_bound may return when it compares with
\* lhs->GetPriority() > rhs->GetPriority(): the last job it found higher than j
\* is in front of the index, the last one it did not find higher is at it.  In
\* a sorted queue there is one such index.  A queue in which a priority was
\* changed breaks lower_bound's precondition: it may return any of them.
InsertionPoints(q, j) ==
    {i \in 1 .. Len(q) + 1 :
        /\ i > 1 => priority[q[i - 1]] > priority[j]
        /\ i <= Len(q) => priority[q[i]] <= priority[j]}

Enqueued(q, j) == {InsertAt(q, i, j) : i \in InsertionPoints(q, j)}

\* j is pushed into the queue q.
NoteDisturbed(q, j) ==
    /\ disturbed' = IF Range(q) \cap disturbed = {} THEN disturbed ELSE disturbed \cup {j}
    /\ UNCHANGED priority

Queued(j) == j \in Range(globalQueue) \/ \E w \in Workers : j \in Range(localQueue[w])

\* Worker u, at its present step, holds or is about to hold the mutex of v's
\* queue: only then can all 16 try_lock of a thief fail.
Touches(u, v) ==
    \/ u = v /\ pc[u] \in {"self", "again", "run"}
    \/ u # v /\ pc[u] = "steal" /\ victim[u] = v

NextVictim(w, v) ==
    LET n == (v + 1) % WorkerCount
    IN  IF n = w THEN (n + 1) % WorkerCount ELSE n

-----------------------------------------------------------------------------
Init ==
    /\ globalQueue = <<>>
    /\ localQueue = [w \in Workers |-> <<>>]
    /\ priority = FirstPriority
    /\ disturbed = {}
    /\ sleepingCount = 0
    /\ isSleeping = [w \in Workers |-> FALSE]
    /\ permits = [w \in Workers |-> 0]
    /\ startPermits = 0
    /\ shouldExit = FALSE
    /\ pc = [t \in Threads |-> IF t \in Workers THEN "unborn" ELSE "run"]
    /\ ret = [t \in Threads |-> "run"]
    /\ scan = [t \in Threads |-> 0]
    /\ victim = [w \in Workers |-> IF w = 0 THEN 1 ELSE 0]
    /\ attempt = [w \in Workers |-> 0]
    /\ stack = [t \in Threads |-> <<>>]
    /\ ownerPc = "spawn"
    /\ ownerIndex = 0
    /\ submitted = {}
    /\ finished = {}

-----------------------------------------------------------------------------
(* The owner: the constructor starts the threads and registers them in     *)
(* m_Threads, then lets them go; the destructor wakes and joins them one   *)
(* after the other.  It may run once no external call is in progress, the  *)
(* precondition of every C++ destructor.                                   *)

OwnerLoop(next, done) ==
    IF ownerIndex + 1 < WorkerCount
    THEN ownerIndex' = ownerIndex + 1 /\ ownerPc' = next
    ELSE ownerIndex' = 0 /\ ownerPc' = done

SpawnThread ==
    /\ ownerPc = "spawn"
    /\ Goto(ownerIndex, "start")
    /\ ownerPc' = "push"
    /\ UNCHANGED <<queues, sleep, startPermits, shouldExit, ownerIndex, notify, steal, stack, history>>

PushThread ==
    /\ ownerPc = "push"
    /\ OwnerLoop("spawn", "postStart")
    /\ UNCHANGED <<queues, sleep, startPermits, shouldExit, pc, notify, steal, stack, history>>

PostStart ==
    /\ ownerPc = "postStart"
    /\ startPermits' = startPermits + WorkerCount
    /\ ownerPc' = "alive"
    /\ UNCHANGED <<queues, sleep, shouldExit, ownerIndex, pc, notify, steal, stack, history>>

Stop ==
    /\ ownerPc = "alive"
    /\ \A e \in Externals : pc[e] = "run" /\ stack[e] = <<>>
    /\ shouldExit' = TRUE
    /\ ownerPc' = "release"
    /\ UNCHANGED <<queues, sleep, startPermits, ownerIndex, pc, notify, steal, stack, history>>

\* Mutant: join without waking the worker.
ReleaseNobody ==
    /\ ownerPc = "release"
    /\ ownerPc' = "join"
    /\ UNCHANGED <<queues, sleep, startPermits, shouldExit, ownerIndex, pc, notify, steal, stack, history>>

ReleaseWorker ==
    /\ ownerPc = "release"
    /\ permits' = [permits EXCEPT ![ownerIndex] = @ + 1]
    /\ ownerPc' = "join"
    /\ UNCHANGED <<queues, sleepingCount, isSleeping, startPermits, shouldExit, ownerIndex,
                   pc, notify, steal, stack, history>>

\* Mutant: detach instead of join.
Detach ==
    /\ ownerPc = "join"
    /\ OwnerLoop("release", "freed")
    /\ UNCHANGED <<queues, sleep, startPermits, shouldExit, pc, notify, steal, stack, history>>

Join ==
    /\ ownerPc = "join"
    /\ pc[ownerIndex] = "exited"
    /\ OwnerLoop("release", "freed")
    /\ UNCHANGED <<queues, sleep, startPermits, shouldExit, pc, notify, steal, stack, history>>

Construct == SpawnThread \/ PushThread \/ PostStart
Destroy   == ReleaseWorker \/ Join

-----------------------------------------------------------------------------
(* NotifyWorker, on any thread: while m_SleepingWorkerCount is not zero,   *)
(* wake every worker found sleeping.                                       *)

CallNotify(t, returnTo) ==
    /\ Goto(t, "load")
    /\ ret' = [ret EXCEPT ![t] = returnTo]
    /\ UNCHANGED scan

\* Mutant: i <= m_WorkerCount.
NextScanPastEnd(t) ==
    IF scan[t] + 1 <= WorkerCount
    THEN scan' = [scan EXCEPT ![t] = @ + 1] /\ Goto(t, "exchange")
    ELSE scan' = [scan EXCEPT ![t] = 0] /\ Goto(t, "load")

NextScan(t) ==
    IF scan[t] + 1 < WorkerCount
    THEN scan' = [scan EXCEPT ![t] = @ + 1] /\ Goto(t, "exchange")
    ELSE scan' = [scan EXCEPT ![t] = 0] /\ Goto(t, "load")

NotifyLoad(t) ==
    /\ pc[t] = "load"
    /\ IF sleepingCount = 0
       THEN Goto(t, ret[t]) /\ ret' = [ret EXCEPT ![t] = "run"]
       ELSE Goto(t, "exchange") /\ UNCHANGED ret
    /\ UNCHANGED <<queues, sleep, owner, scan, steal, stack, history>>

\* Mutant: store(false) and release without looking at the old mark.
NotifyAlways(t) ==
    /\ pc[t] = "exchange"
    /\ isSleeping' = [isSleeping EXCEPT ![scan[t]] = FALSE]
    /\ Goto(t, "decrement")
    /\ UNCHANGED <<queues, sleepingCount, permits, owner, notify, steal, stack, history>>

NotifyExchange(t) ==
    /\ pc[t] = "exchange"
    /\ isSleeping' = [isSleeping EXCEPT ![scan[t]] = FALSE]
    /\ IF isSleeping[scan[t]]
       THEN Goto(t, "decrement") /\ UNCHANGED scan
       ELSE NextScan(t)
    /\ UNCHANGED <<queues, sleepingCount, permits, owner, ret, steal, stack, history>>

\* Mutant: the sleeper is not deducted.
NotifyNoDecrement(t) ==
    /\ pc[t] = "decrement"
    /\ Goto(t, "post")
    /\ UNCHANGED <<queues, sleep, owner, notify, steal, stack, history>>

NotifyDecrement(t) ==
    /\ pc[t] = "decrement"
    /\ sleepingCount' = sleepingCount - 1
    /\ Goto(t, "post")
    /\ UNCHANGED <<queues, isSleeping, permits, owner, notify, steal, stack, history>>

\* Mutant: the mark is taken and the semaphore not released.
NotifyNoPost(t) ==
    /\ pc[t] = "post"
    /\ NextScan(t)
    /\ UNCHANGED <<queues, sleep, owner, ret, steal, stack, history>>

NotifyPost(t) ==
    /\ pc[t] = "post"
    /\ permits' = [permits EXCEPT ![scan[t]] = @ + 1]
    /\ NextScan(t)
    /\ UNCHANGED <<queues, sleepingCount, isSleeping, owner, ret, steal, stack, history>>

NotifyWorker(t) == NotifyLoad(t) \/ NotifyExchange(t) \/ NotifyDecrement(t) \/ NotifyPost(t)

-----------------------------------------------------------------------------
(* ScheduleJob and Execute, on any thread.                                 *)

Idle(t) == stack[t] = <<>>

\* t calls ScheduleJob(k) now: a job it executes does, or an external thread
\* that is in no call into the scheduler.
MaySchedule(t, k) ==
    /\ pc[t] = "run"
    /\ k \notin submitted
    /\ IF Idle(t)
       THEN t \in Externals /\ ownerPc = "alive" /\ k \in Roots
       ELSE k \in Spawns[Last(stack[t])]

\* An empty job is executed by the calling thread, inside the call.
ScheduleEmpty(t, k) ==
    /\ MaySchedule(t, k)
    /\ k \in EmptyJobs
    /\ submitted' = submitted \cup {k}
    /\ stack' = [stack EXCEPT ![t] = Append(@, k)]
    /\ UNCHANGED <<queues, sleep, owner, pc, notify, steal, finished>>

\* A worker pushes to its own queue.
ScheduleLocal(t, k) ==
    /\ MaySchedule(t, k)
    /\ k \notin EmptyJobs
    /\ t \in Workers
    /\ submitted' = submitted \cup {k}
    /\ \E q \in Enqueued(localQueue[t], k) : localQueue' = [localQueue EXCEPT ![t] = q]
    /\ NoteDisturbed(localQueue[t], k)
    /\ CallNotify(t, "run")
    /\ UNCHANGED <<globalQueue, sleep, owner, steal, stack, finished>>

ScheduleGlobal(t, k) ==
    /\ MaySchedule(t, k)
    /\ k \notin EmptyJobs
    /\ t \notin Workers
    /\ submitted' = submitted \cup {k}
    /\ globalQueue' \in Enqueued(globalQueue, k)
    /\ NoteDisturbed(globalQueue, k)
    /\ CallNotify(t, "run")
    /\ UNCHANGED <<localQueue, sleep, owner, steal, stack, finished>>

\* Mutant: a worker goes back to the outer loop after one job.
AfterExecuteOuter(t) == IF t \in Workers /\ Len(stack[t]) = 1 THEN "check" ELSE "run"

\* A worker whose job came from a queue goes on with ProcessJobs' inner loop.
AfterExecute(t) == IF t \in Workers /\ Len(stack[t]) = 1 THEN "again" ELSE "run"

\* ExecuteInternal returns, all it schedules being scheduled.
Finish(t) ==
    /\ pc[t] = "run"
    /\ ~Idle(t)
    /\ Spawns[Last(stack[t])] \subseteq submitted
    /\ finished' = finished \cup {Last(stack[t])}
    /\ stack' = [stack EXCEPT ![t] = Front(@)]
    /\ Goto(t, AfterExecute(t))
    /\ UNCHANGED <<queues, sleep, owner, notify, steal, submitted>>

Running(t) ==
    \/ \E k \in Jobs : ScheduleEmpty(t, k) \/ ScheduleLocal(t, k) \/ ScheduleGlobal(t, k)
    \/ Finish(t)

\* Some thread calls j.SetPriority(n), wherever j is: nothing moves it in the
\* queue it may be in.  (A job that has finished may be gone.)
SetPriority(j, n) ==
    /\ <<j, n>> \in Changes
    /\ j \notin finished
    /\ priority[j] # n
    /\ priority' = [priority EXCEPT ![j] = n]
    /\ disturbed' = IF Queued(j) THEN disturbed \cup {j} ELSE disturbed
    /\ UNCHANGED <<globalQueue, localQueue, sleep, owner, pc, notify, steal, stack, history>>

Prioritize == \E j \in Jobs, n \in Priorities : SetPriority(j, n)

-----------------------------------------------------------------------------
(* WorkerThreadProcess and ProcessJobs.                                    *)

Start(w) ==
    /\ pc[w] = "start"
    /\ startPermits > 0
    /\ startPermits' = startPermits - 1
    /\ Goto(w, "check")
    /\ UNCHANGED <<queues, sleep, shouldExit, ownerPc, ownerIndex, notify, steal, stack, history>>

\* The head of the outer loop, and the test after the semaphore was acquired.
ExitCheck(w) ==
    /\ pc[w] \in {"check", "woken"}
    /\ Goto(w, IF shouldExit THEN "exited" ELSE IF pc[w] = "check" THEN "empty1" ELSE "dequeue")
    /\ UNCHANGED <<queues, sleep, owner, notify, steal, stack, history>>

FirstEmpty(w) ==
    /\ pc[w] = "empty1"
    /\ IF globalQueue = <<>>
       THEN CallNotify(w, "empty2")
       ELSE Goto(w, "dequeue") /\ UNCHANGED notify
    /\ UNCHANGED <<queues, sleep, owner, steal, stack, history>>

SecondEmpty(w) ==
    /\ pc[w] = "empty2"
    /\ Goto(w, IF globalQueue = <<>> THEN "inc" ELSE "dequeue")
    /\ UNCHANGED <<queues, sleep, owner, notify, steal, stack, history>>

CountSleeper(w) ==
    /\ pc[w] = "inc"
    /\ sleepingCount' = sleepingCount + 1
    /\ Goto(w, "setSleep")
    /\ UNCHANGED <<queues, isSleeping, permits, owner, notify, steal, stack, history>>

MarkSleeping(w) ==
    /\ pc[w] = "setSleep"
    /\ isSleeping' = [isSleeping EXCEPT ![w] = TRUE]
    /\ Goto(w, "wait")
    /\ UNCHANGED <<queues, sleepingCount, permits, owner, notify, steal, stack, history>>

Acquire(w) ==
    /\ pc[w] = "wait"
    /\ permits[w] > 0
    /\ permits' = [permits EXCEPT ![w] = @ - 1]
    /\ Goto(w, "woken")
    /\ UNCHANGED <<queues, sleepingCount, isSleeping, owner, notify, steal, stack, history>>

DequeueGlobal(w) ==
    /\ pc[w] = "dequeue"
    /\ IF globalQueue = <<>>
       THEN Goto(w, "self") /\ UNCHANGED <<globalQueue, stack>>
       ELSE /\ globalQueue' = Tail(globalQueue)
            /\ stack' = [stack EXCEPT ![w] = <<Head(globalQueue)>>]
            /\ Goto(w, "run")
    /\ UNCHANGED <<localQueue, order, sleep, owner, notify, steal, history>>

\* TryStealJob's first test comes with the failed SelfSteal.
NoLocalJob(w) ==
    /\ localQueue[w] = <<>>
    /\ Goto(w, IF WorkerCount = 1 THEN "check" ELSE "steal")
    /\ UNCHANGED <<localQueue, stack, notify>>

TakeLocalJob(w) ==
    /\ localQueue[w] # <<>>
    /\ localQueue' = [localQueue EXCEPT ![w] = Tail(@)]
    /\ stack' = [stack EXCEPT ![w] = <<Head(localQueue[w])>>]

\* SelfSteal after an empty global queue, and after a job has been executed:
\* only the second wakes others when there is more to do.
SelfSteal(w) ==
    /\ \/ pc[w] \in {"self", "again"} /\ NoLocalJob(w)
       \/ pc[w] = "self" /\ TakeLocalJob(w) /\ Goto(w, "run") /\ UNCHANGED notify
       \/ pc[w] = "again" /\ TakeLocalJob(w) /\ CallNotify(w, "run")
    /\ UNCHANGED <<globalQueue, order, sleep, owner, steal, history>>

\* Mutant: front() without pop_front().
StealCopy(w) ==
    /\ pc[w] = "steal"
    /\ localQueue[victim[w]] # <<>>
    /\ stack' = [stack EXCEPT ![w] = <<Head(localQueue[victim[w]])>>]
    /\ attempt' = [attempt EXCEPT ![w] = 0]
    /\ Goto(w, "run")
    /\ UNCHANGED <<queues, sleep, owner, notify, victim, history>>

StealHit(w) ==
    /\ pc[w] = "steal"
    /\ localQueue[victim[w]] # <<>>
    /\ localQueue' = [localQueue EXCEPT ![victim[w]] = Tail(@)]
    /\ stack' = [stack EXCEPT ![w] = <<Head(localQueue[victim[w]])>>]
    /\ attempt' = [attempt EXCEPT ![w] = 0]
    /\ Goto(w, "run")
    /\ UNCHANGED <<globalQueue, order, sleep, owner, notify, victim, history>>

StealMiss(w) ==
    /\ pc[w] = "steal"
    /\ \/ localQueue[victim[w]] = <<>>
       \/ \E u \in Workers \ {w} : Touches(u, victim[w])
    /\ victim' = [victim EXCEPT ![w] = NextVictim(w, @)]
    /\ attempt' = [attempt EXCEPT ![w] = (@ + 1) % (2 * WorkerCount)]
    /\ Goto(w, IF attempt[w] + 1 = 2 * WorkerCount THEN "check" ELSE "steal")
    /\ UNCHANGED <<queues, sleep, owner, notify, stack, history>>

Worker(w) ==
    \/ Start(w) \/ ExitCheck(w) \/ FirstEmpty(w) \/ SecondEmpty(w) \/ CountSleeper(w)
    \/ MarkSleeping(w) \/ Acquire(w) \/ DequeueGlobal(w) \/ SelfSteal(w)
    \/ StealHit(w) \/ StealMiss(w) \/ NotifyWorker(w) \/ Running(w)

External(e) == NotifyWorker(e) \/ Running(e)

\* The scheduler is gone.
Freed == ownerPc = "freed" /\ UNCHANGED vars

Next ==
    \/ Construct \/ Stop \/ Destroy \/ Freed
    \/ \E w \in Workers : Worker(w)
    \/ \E e \in Externals : External(e)
    \/ Prioritize

Spec == Init /\ [][Next]_vars

(***************************************************************************)
(* The operating system runs every thread that can run: a worker, the      *)
(* constructor, the destructor, and an external thread inside a call.      *)
(* Nothing makes an external thread begin a call, or the owner destroy the *)
(* scheduler.  No fairness makes try_lock succeed: the thief gives up.     *)
(***************************************************************************)
FairSpec ==
    /\ Spec
    /\ WF_vars(Construct) /\ WF_vars(Destroy)
    /\ \A w \in Workers : WF_vars(Worker(w))
    /\ \A e \in Externals : WF_vars(NotifyWorker(e) \/ (~Idle(e) /\ Running(e)))

-----------------------------------------------------------------------------
TypeOK ==
    /\ globalQueue \in Seq(Jobs)
    /\ localQueue \in [Workers -> Seq(Jobs)]
    /\ priority \in [Jobs -> Priorities]
    /\ disturbed \subseteq Jobs
    /\ sleepingCount \in Int
    /\ isSleeping \in [Workers -> BOOLEAN]
    /\ permits \in [Workers -> Nat]
    /\ startPermits \in Nat
    /\ shouldExit \in BOOLEAN
    /\ pc \in [Threads -> WorkerPc \cup NotifyPc \cup {"run"}]
    /\ \A e \in Externals : pc[e] \in NotifyPc \cup {"run"}
    /\ ret \in [Threads -> ReturnPc]
    /\ \A e \in Externals : ret[e] = "run"
    /\ scan \in [Threads -> Workers]
    /\ victim \in [Workers -> 0 .. WorkerCount]
    /\ attempt \in [Workers -> 0 .. 2 * WorkerCount - 1]
    /\ stack \in [Threads -> Seq(Jobs)]
    /\ ownerPc \in OwnerPc
    /\ ownerIndex \in Workers
    /\ submitted \subseteq Jobs
    /\ finished \subseteq Jobs

\* The workers the count should include: marked, or between increment and
\* mark; and the threads that took a mark and have not deducted it yet.
Counted == {w \in Workers : pc[w] = "setSleep" \/ isSleeping[w]}
Uncounting == {t \in Threads : pc[t] = "decrement"}

\* The threads that took w's mark and have not released its semaphore yet.
Wakers(w) == {t \in Threads : pc[t] \in {"decrement", "post"} /\ scan[t] = w}

\* m_SleepingWorkerCount counts the workers that are marked sleeping or about
\* to be, and those whose mark was taken and not yet deducted: it never drifts,
\* goes negative, or stays positive with nobody to wake (which would make
\* every NotifyWorker spin for ever).
SleepAccounting == sleepingCount = Cardinality(Counted) + Cardinality(Uncounting)

\* The destructor has released w's semaphore.
Released(w) ==
    \/ ownerPc = "release" /\ w < ownerIndex
    \/ ownerPc = "join" /\ w <= ownerIndex
    \/ ownerPc = "freed"

Count(b) == IF b THEN 1 ELSE 0

\* The wake-ups of a worker are exact: one mark, one pending post or one permit
\* while it is parked and none otherwise, plus the one the destructor adds.  No
\* interleaving of exchange, decrement and Release loses the wake-up of a marked
\* worker; nor is there a surplus permit, which would let a later Acquire return
\* with nobody having woken the worker and leave its mark and the count behind.
WakeTokens ==
    \A w \in Workers :
        Count(isSleeping[w]) + permits[w] + Cardinality(Wakers(w))
            = Count(pc[w] = "wait") + Count(Released(w))

(* Where a job is: every queue entry and every activation counts.          *)
Places(j) ==
    {<<"global", 0, i>> : i \in {n \in DOMAIN globalQueue : globalQueue[n] = j}}
    \cup (UNION {{<<"local", w, i>> : i \in {n \in DOMAIN localQueue[w] : localQueue[w][n] = j}} : w \in Workers})
    \cup (UNION {{<<"running", t, i>> : i \in {n \in DOMAIN stack[t] : stack[t][n] = j}} : t \in Threads})
    \cup {<<"finished", 0, 0>> : n \in {j} \cap finished}

\* A job handed to ScheduleJob is in exactly one place: once in one queue, or
\* being executed by one thread, or finished.  No dequeue, steal, SelfSteal or
\* inline execution loses a job, runs it twice or runs one nobody scheduled.
JobInOnePlace == \A j \in Jobs : Cardinality(Places(j)) = Count(j \in submitted)

\* q without its disturbed jobs is sorted by descending priority.
InOrder(q) ==
    \A i, k \in DOMAIN q :
        i < k /\ q[i] \notin disturbed /\ q[k] \notin disturbed => priority[q[i]] >= priority[q[k]]

\* Each queue hands out the more urgent job first, as far as it can: no steal,
\* dequeue or push puts a job out of order, and a SetPriority on a queued job
\* puts out of order that job and those pushed while its queue holds it (or one
\* of them), never two others.  In particular a queue none of whose jobs was
\* changed while it waited is sorted, which lower_bound requires.
UndisturbedInOrder == InOrder(globalQueue) /\ \A w \in Workers : InOrder(localQueue[w])

\* w executes no job and looks for none of its own.
OutOfWork(w) ==
    \/ pc[w] \in {"unborn", "start", "check", "empty1", "empty2", "inc", "setSleep", "wait",
                  "woken", "dequeue", "self", "steal", "exited"}
    \/ pc[w] \in NotifyPc /\ ret[w] = "empty2"

\* A worker that sleeps, exits, steals or turns to the global queue has drained
\* its own queue and executes nothing: jobs pushed by a job are never left in
\* the queue of a worker that is parked or gone, where nobody may look.
LocalQueueDrained == \A w \in Workers : OutOfWork(w) => localQueue[w] = <<>> /\ Idle(w)

\* TryStealJob never locks the worker's own queue a second time, and never
\* indexes m_Threads beyond the workers.
StealTargetsAnother == \A w \in Workers : pc[w] = "steal" => victim[w] \in Workers \ {w}

\* m_Threads[id] is there when a worker reads it, and m_Threads[i] for every
\* worker when any thread is in NotifyWorker or TryStealJob: no worker gets past
\* the start semaphore before the last Push.
AllRegistered ==
    (\E w \in Workers : pc[w] \notin {"unborn", "start"}) => ownerPc \notin {"spawn", "push"}

\* When the scheduler is freed no thread uses it any more, and a job that never
\* ran is still in the global queue: the destructor abandons no other job.
FreedIsQuiescent ==
    ownerPc = "freed" =>
        /\ \A w \in Workers : pc[w] = "exited"
        /\ \A e \in Externals : Idle(e) /\ pc[e] = "run"
        /\ submitted \subseteq finished \cup Range(globalQueue)

\* Every thread record and queue that a thread uses is one that exists: the last
\* Push of the constructor comes first, the last join of the destructor after
\* that, and a thief's index stays among the others between; and what is freed
\* holds no job that a worker had taken over.
WithinLifetime == AllRegistered /\ StealTargetsAnother /\ FreedIsQuiescent

-----------------------------------------------------------------------------
Pool == INSTANCE JobPool WITH
    waiting  <- {j \in Jobs : Queued(j)},
    running  <- {j \in Jobs : \E t \in Threads : j \in Range(stack[t])},
    finished <- finished

\* Whatever the queues, the thieves and the destructor do, a user sees a pool:
\* each scheduled job is started at most once, by one thread, and finishes once.
ImplementsPool == Pool!PoolSpec

-----------------------------------------------------------------------------
\* All workers are parked with their marks in place: only another ScheduleJob or
\* the destructor wakes one.
AllAsleep == \A w \in Workers : pc[w] = "wait" /\ isSleeping[w] /\ permits[w] = 0

\* A queued job is taken by a worker, unless all of them fall asleep on it (see
\* ScheduledJobRuns: the code lets that happen) or the scheduler is stopped.  (An
\* empty job is never queued.)
TakenUnlessAllAsleep == \A j \in Jobs \ EmptyJobs : Queued(j) ~> (~Queued(j) \/ AllAsleep \/ shouldExit)

\* A job in a worker's own queue, one that a job scheduled, is always taken, by
\* its owner or by a thief: also during the destruction of the scheduler.
LocalJobTaken ==
    \A j \in Jobs \ (EmptyJobs \cup Roots) : (\E w \in Workers : j \in Range(localQueue[w])) ~> ~Queued(j)

\* The destructor returns: every worker sees m_ShouldExit, parked or not, and no
\* NotifyWorker of a worker spins for ever.
ShutdownCompletes == shouldExit ~> ownerPc = "freed"

\* README.md:46 of the repository, of SyncWait on a task whose coroutine is
\* scheduled by co_await Job::Run: "Wait for the jobs to finish".  It can
\* wait for ever: the job of a thread that is not a worker is never executed.
ScheduledJobRuns == \A j \in Jobs : j \in submitted ~> (j \in finished \/ shouldExit)
=============================================================================
