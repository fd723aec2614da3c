--------------------------------- MODULE Job ---------------------------------
(***************************************************************************)
(* Jobs and their dependencies: UnAsync/Jobs/Job.h over a scheduler that   *)
(* keeps the promise of JobPool.                                           *)
(*                                                                         *)
(* Clients call AttachParent, Schedule, SetPriority, RunOneTime and await  *)
(* Job::Run; workers execute the jobs the scheduler hands out.  One action *)
(* is one access to shared memory: m_Flags is atomic, but SetPriority      *)
(* loads and stores it separately, and AttachParent writes m_Dependent and *)
(* increments the counter in two steps.  Each thread has a stack of the    *)
(* calls it is in: a counter that reaches zero calls ScheduleJob, which    *)
(* executes an empty job at once.                                          *)
(***************************************************************************)
EXTENDS Integers, FiniteSets, SequencesExt

CONSTANTS
    Jobs,
    NoJob,          \* nullptr
    Clients,        \* threads that call the interface of Job
    Workers,        \* threads of the scheduler
    CountBits,      \* DependencyCountBitCount: 13 in the code
    InitialPriority,\* [Jobs -> 0..3]: constructor argument
    EmptyJobs,      \* constructed with isEmpty
    OneTimeJobs,    \* created by RunOneTime
    Operations,     \* SchedulerOperations: the awaitables of Job::Run(pScheduler)
    Attachments,    \* the calls c.AttachParent(p) the clients make: pairs <<c, p>>
    Priorities,     \* the calls j.SetPriority(p) they make: pairs <<j, p>>
    Careful         \* SetPriority is called before anything else is done to a job

ASSUME CountBitsAssumption == CountBits \in Nat \ {0}

ASSUME JobsAssumption ==
    /\ NoJob \notin Jobs
    /\ Clients \cap Workers = {}
    /\ InitialPriority \in [Jobs -> 0 .. 3]
    /\ EmptyJobs \subseteq Jobs
    /\ OneTimeJobs \subseteq Jobs
    /\ Operations \subseteq Jobs
    /\ EmptyJobs \cap (OneTimeJobs \cup Operations) = {}
    /\ OneTimeJobs \cap Operations = {}
    /\ Attachments \subseteq Jobs \X Jobs
    /\ Priorities \subseteq Jobs \X (0 .. 3)
    /\ Careful \in BOOLEAN

Threads == Clients \cup Workers

Parents(c)  == {p \in Jobs : <<c, p>> \in Attachments}
Children(p) == {c \in Jobs : <<c, p>> \in Attachments}

VARIABLES
    flags,      \* m_Flags: a word of CountBits + 3 bits
    dependent,  \* m_Dependent
    bound,      \* the jobs whose m_pScheduler has been assigned
    calls,      \* the calls each thread is in, innermost last
    made,       \* the calls the clients have made
    alive,      \* the jobs that have not been destroyed
    accessed,   \* history: the jobs touched after they were destroyed
    submissions,\* history: how often ScheduleJob was called with each job
    waiting, running, finished      \* the scheduler: see JobPool

pool == <<waiting, running, finished>>
history == <<accessed, submissions>>
vars == <<flags, dependent, bound, calls, made, alive, history, pool>>

-----------------------------------------------------------------------------
(* m_Flags: one-time bit, two priority bits, counter.                      *)

CountRange == 2 ^ CountBits
WordRange  == 8 * CountRange

\* What CountBitsAssumption says of it, for provers that know nothing of powers.
ASSUME CountRangeAssumption == CountRange \in Nat /\ CountRange >= 2

CountOf(word)    == word % CountRange
PriorityOf(word) == (word \div CountRange) % 4
IsOneTime(word)  == word \div (4 * CountRange) = 1

\* Mutant: IsOneTimeSubmitShift off by one, beyond the 16 bits.
InitialFlagsShifted(j) ==
    1 + InitialPriority[j] * CountRange + (IF j \in OneTimeJobs THEN 8 * CountRange ELSE 0)

InitialFlags(j) ==
    1 + InitialPriority[j] * CountRange + (IF j \in OneTimeJobs THEN 4 * CountRange ELSE 0)

\* Mutant: the counter seen before the decrement, compared with 1 or less.
ReachedZeroEarly(word) == CountOf(word) <= 1

\* Mutant: --m_Flags == 0, without the mask.
ReachedZeroUnmasked(word) == word = 0

\* (--m_Flags & DependencyCountMask) == 0
ReachedZero(word) == CountOf(word) = 0

Incremented(word) == (word + 1) % WordRange
Decremented(word) == (word + WordRange - 1) % WordRange

\* Mutant: value | m_Flags, the old priority bits not cleared (3 | p = 3).
WithPriorityNotCleared(word, p) ==
    IF PriorityOf(word) = 3 THEN word ELSE word - PriorityOf(word) * CountRange + p * CountRange

\* value | cleared in SetPriority
WithPriority(word, p) == word - PriorityOf(word) * CountRange + p * CountRange

\* GetMaxDependencyCount
MaxDependencyCount == CountRange - 1

-----------------------------------------------------------------------------
(* The calls a thread is in.  pc is the next step of the call; dep and     *)
(* oneTime are the locals of ExecuteInternal, word the local of            *)
(* SetPriority.  The dep of a call of AttachParent is its parameter.       *)

Frame(pc, j) == [pc |-> pc, job |-> j, dep |-> NoJob, oneTime |-> FALSE, word |-> 0]
FramePc == {"count", "store", "decrement", "capture", "body", "signal", "delete"}

Idle(t) == calls[t] = <<>>
Top(t) == Last(calls[t])
At(t, pc) == ~Idle(t) /\ Top(t).pc = pc

Push(t, f)    == calls' = [calls EXCEPT ![t] = Append(@, f)]
Replace(t, f) == calls' = [calls EXCEPT ![t] = Append(Front(@), f)]
Return(t)     == calls' = [calls EXCEPT ![t] = Front(@)]

\* A read or write of the object j.
Access(j) == accessed' = accessed \cup ({j} \ alive)

Pool == INSTANCE JobPool

\* ScheduleJob(j), the last thing the present call of t does: see JobScheduler.
ScheduleJob(t, j) ==
    /\ submissions' = [submissions EXCEPT ![j] = @ + 1]
    /\ IF j \in EmptyJobs
       THEN running' = running \cup {j} /\ Replace(t, Frame("capture", j)) /\ UNCHANGED waiting
       ELSE waiting' = waiting \cup {j} /\ Return(t) /\ UNCHANGED running
    /\ UNCHANGED finished

-----------------------------------------------------------------------------
(* When a client may make a call: a job is attached before it or its       *)
(* parent is scheduled, and each is scheduled once.                        *)

Scheduled(j) == <<"schedule", j>> \in made
Attached(c, p) ==
    <<"attach", c, p>> \in made /\ \A t \in Clients : ~(At(t, "count") /\ Top(t).job = c /\ Top(t).dep = p)
BeingSet(j) == \E t \in Clients : At(t, "store") /\ Top(t).job = j
Untouched(j) == ~Scheduled(j) /\ \A p \in Jobs : <<"attach", j, p>> \notin made

Make(t, call) == Idle(t) /\ call \notin made /\ made' = made \cup {call}

MaySchedule(j) ==
    /\ \A p \in Parents(j) : Attached(j, p)
    /\ \A c \in Children(j) : Attached(c, j)
    /\ Careful => ~BeingSet(j)

Init ==
    /\ flags = [j \in Jobs |-> InitialFlags(j)]
    /\ dependent = [j \in Jobs |-> NoJob]
    /\ bound = Operations
    /\ calls = [t \in Threads |-> <<>>]
    /\ made = {}
    /\ alive = Jobs
    /\ accessed = {}
    /\ submissions = [j \in Jobs |-> 0]
    /\ Pool!PoolInit

-----------------------------------------------------------------------------
(* The interface.                                                          *)

AttachParent(t, c, p) ==
    /\ ~Scheduled(c) /\ ~Scheduled(p)
    /\ Careful => ~BeingSet(c)
    /\ Make(t, <<"attach", c, p>>)
    /\ dependent' = [dependent EXCEPT ![p] = c]
    /\ Access(p)
    /\ Push(t, [Frame("count", c) EXCEPT !.dep = p])
    /\ UNCHANGED <<flags, bound, alive, submissions, pool>>

IncrementDependencyCount(t) ==
    /\ At(t, "count")
    /\ flags' = [flags EXCEPT ![Top(t).job] = Incremented(@)]
    /\ Access(Top(t).job)
    /\ Return(t)
    /\ UNCHANGED <<dependent, bound, made, alive, submissions, pool>>

Schedule(t, j) ==
    /\ j \notin Operations
    /\ MaySchedule(j)
    /\ Make(t, <<"schedule", j>>)
    /\ bound' = bound \cup {j}
    /\ Access(j)
    /\ Push(t, Frame("decrement", j))
    /\ UNCHANGED <<flags, dependent, alive, submissions, pool>>

\* SchedulerOperation::await_suspend: m_pScheduler is set by the constructor.
Await(t, j) ==
    /\ j \in Operations
    /\ MaySchedule(j)
    /\ Make(t, <<"schedule", j>>)
    /\ Push(t, Frame("decrement", j))
    /\ UNCHANGED <<flags, dependent, bound, alive, history, pool>>

\* The new job goes to the scheduler with its counter still 1.  Nobody else knows it.
RunOneTime(t, j) ==
    /\ j \in OneTimeJobs /\ Parents(j) = {} /\ Children(j) = {}
    /\ \A p \in 0 .. 3 : <<j, p>> \notin Priorities
    /\ Make(t, <<"schedule", j>>)
    /\ waiting' = waiting \cup {j}
    /\ submissions' = [submissions EXCEPT ![j] = @ + 1]
    /\ UNCHANGED <<flags, dependent, bound, calls, alive, accessed, running, finished>>

\* m_Flags.load(), then m_Flags.store().
SetPriority(t, j, p) ==
    /\ j \notin finished
    /\ Careful => Untouched(j)
    /\ Make(t, <<"priority", j, p>>)
    /\ Access(j)
    /\ Push(t, [Frame("store", j) EXCEPT !.word = WithPriority(flags[j], p)])
    /\ UNCHANGED <<flags, dependent, bound, alive, submissions, pool>>

StoreFlags(t) ==
    /\ At(t, "store")
    /\ flags' = [flags EXCEPT ![Top(t).job] = Top(t).word]
    /\ Access(Top(t).job)
    /\ Return(t)
    /\ UNCHANGED <<dependent, bound, made, alive, submissions, pool>>

DecrementDependencyCount(t) ==
    /\ At(t, "decrement")
    /\ LET j == Top(t).job
           word == Decremented(flags[j])
       IN  /\ flags' = [flags EXCEPT ![j] = word]
           /\ Access(j)
           /\ IF ReachedZero(word)
              THEN ScheduleJob(t, j)
              ELSE Return(t) /\ UNCHANGED <<submissions, pool>>
    /\ UNCHANGED <<dependent, bound, made, alive>>

-----------------------------------------------------------------------------
(* ExecuteInternal, on a worker or, for an empty job, inside ScheduleJob.  *)

Take(w) ==
    /\ Idle(w)
    /\ \E j \in waiting : Pool!Take(j) /\ Push(w, Frame("capture", j))
    /\ UNCHANGED <<flags, dependent, bound, made, alive, history>>

\* The reads of m_Dependent and m_Flags: the one-time bit never changes.
Capture(t) ==
    /\ At(t, "capture")
    /\ LET j == Top(t).job
       IN  /\ Access(j)
           /\ Replace(t, [Frame("body", j) EXCEPT !.dep = dependent[j], !.oneTime = IsOneTime(flags[j])])
    /\ UNCHANGED <<flags, dependent, bound, made, alive, submissions, pool>>

\* Execute(context).  That of a SchedulerOperation resumes the coroutine whose
\* frame holds the job: it is destroyed before resume() returns.
Body(t) ==
    /\ At(t, "body")
    /\ alive' = IF Top(t).job \in Operations THEN alive \ {Top(t).job} ELSE alive
    /\ Replace(t, [Top(t) EXCEPT !.pc = "signal"])
    /\ UNCHANGED <<flags, dependent, bound, made, history, pool>>

\* Mutant: m_Dependent is read after Execute.
SignalReread(t) ==
    /\ At(t, "signal")
    /\ Access(Top(t).job)
    /\ LET tail == [Top(t) EXCEPT !.pc = "delete"]
           dep  == dependent[Top(t).job]
       IN  calls' = [calls EXCEPT ![t] =
               Front(@) \o (IF dep = NoJob THEN <<tail>> ELSE <<tail, Frame("decrement", dep)>>)]
    /\ UNCHANGED <<flags, dependent, bound, made, alive, submissions, pool>>

Signal(t) ==
    /\ At(t, "signal")
    /\ LET tail == [Top(t) EXCEPT !.pc = "delete"]
       IN  calls' = [calls EXCEPT ![t] =
               Front(@) \o (IF Top(t).dep = NoJob THEN <<tail>> ELSE <<tail, Frame("decrement", Top(t).dep)>>)]
    /\ UNCHANGED <<flags, dependent, bound, made, alive, history, pool>>

Delete(t) ==
    /\ At(t, "delete")
    /\ alive' = IF Top(t).oneTime THEN alive \ {Top(t).job} ELSE alive
    /\ Pool!Done(Top(t).job)
    /\ Return(t)
    /\ UNCHANGED <<flags, dependent, bound, made, history>>

ExecuteInternal(t) == Capture(t) \/ Body(t) \/ Signal(t) \/ Delete(t)

-----------------------------------------------------------------------------
AllCalls ==
    {<<"attach", a[1], a[2]>> : a \in Attachments}
    \cup {<<"priority", a[1], a[2]>> : a \in Priorities}
    \cup {<<"schedule", j>> : j \in Jobs}

\* Every job was scheduled, every call returned, the scheduler has nothing to do.
Quiet == (\A j \in Jobs : Scheduled(j)) /\ waiting = {} /\ \A t \in Threads : Idle(t)

Terminated == Quiet /\ UNCHANGED vars

Call(t) ==
    \/ \E a \in Attachments : AttachParent(t, a[1], a[2])
    \/ \E a \in Priorities : SetPriority(t, a[1], a[2])
    \/ \E j \in Jobs : Schedule(t, j) \/ Await(t, j) \/ RunOneTime(t, j)

Step(t) ==
    IncrementDependencyCount(t) \/ StoreFlags(t) \/ DecrementDependencyCount(t) \/ ExecuteInternal(t)

Next ==
    \/ \E t \in Clients : Call(t)
    \/ \E w \in Workers : Take(w)
    \/ \E t \in Threads : Step(t)
    \/ Terminated

Spec == Init /\ [][Next]_vars

-----------------------------------------------------------------------------
TypeOK ==
    /\ flags \in [Jobs -> 0 .. WordRange - 1]
    /\ dependent \in [Jobs -> Jobs \cup {NoJob}]
    /\ bound \subseteq Jobs
    /\ calls \in [Threads -> Seq([pc : FramePc, job : Jobs, dep : Jobs \cup {NoJob},
                                  oneTime : BOOLEAN, word : 0 .. WordRange - 1])]
    /\ made \subseteq AllCalls
    /\ alive \subseteq Jobs
    /\ accessed \subseteq Jobs
    /\ submissions \in [Jobs -> Nat]
    /\ waiting \subseteq Jobs /\ running \subseteq Jobs /\ finished \subseteq Jobs

\* Execute of job p has returned.
Executed(p) ==
    \/ p \in finished
    \/ \E t \in Threads : \E i \in DOMAIN calls[t] :
           calls[t][i].job = p /\ calls[t][i].pc \in {"signal", "delete"}

\* Job.h:83-84 and 91-93: a job reaches the scheduler only after the call that
\* schedules it, with its m_pScheduler assigned, and after Execute of every parent
\* has returned, however the parents' completions and that call interleave.
StartsAfterParents ==
    \A j \in Jobs : submissions[j] > 0 =>
        /\ Scheduled(j)
        /\ j \in bound \cup OneTimeJobs
        /\ \A p \in Parents(j) : Executed(p)

\* Only one of the threads that decrement the counter sees it reach zero: a job is
\* handed to the scheduler once (twice would put one Job object in two queues).
SubmittedOnce == \A j \in Jobs : submissions[j] <= 1

\* No job is stranded: when the clients and the scheduler are done, all were
\* executed, also one with as many parents as GetMaxDependencyCount() allows.
AllRan == Quiet => finished = Jobs

WantedPriorities(j) ==
    LET set == {p \in 0 .. 3 : <<"priority", j, p>> \in made}
    IN  IF set = {} THEN {InitialPriority[j]} ELSE set

\* While the scheduler sorts by it, a job's priority is one that was set, or that of
\* its constructor: the counter's carries into the priority bits are gone when the
\* job is queued, and no load and store of the word has undone a SetPriority.
QueuedPriorityIntact == \A j \in waiting : PriorityOf(flags[j]) \in WantedPriorities(j)

\* No thread touches a job after it was deleted as a one-time job or destroyed
\* with the coroutine frame it lives in: neither ExecuteInternal after Execute,
\* nor a parent that completes, nor the thread that awaits the operation.
NoUseAfterDestroy == accessed = {}
=============================================================================
