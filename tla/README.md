# UraniumAsync in TLA+

TLA+ models of UraniumAsync, a C++20 library of coroutines (`Task`, `WhenAll`,
`SyncWait`), a work-stealing job scheduler, jobs with dependencies, an async
event, a pipe and the sequences of buffers it is read through. Paths below are relative to `src/UraniumAsync/UnAsync/`.
`PROJECT.json` maps every definition that models code to its lines.

## 1. The system

| component | state it keeps | operations | talks to |
|---|---|---|---|
| `Jobs/JobScheduler.{h,cpp}` | global queue, a queue, semaphore and `IsSleeping` mark per worker, `m_SleepingWorkerCount`, `m_ShouldExit`, `m_Semaphore`, `m_Threads` | constructor, `ScheduleJob`, worker loop (`ProcessJobs`, `SelfSteal`, `TryStealJob`), `NotifyWorker`, destructor | executes `Job`s, which call `ScheduleJob` again on the same thread |
| `Jobs/Job.h` | one 16-bit word `m_Flags` (13-bit counter, priority, one-time bit), `m_Dependent`, `m_pScheduler` | `AttachParent`, `Schedule`, `SetPriority`, `RunOneTime`, `Job::Run` (awaitable), `ExecuteInternal` | the scheduler, through `IJobScheduler`; resumes coroutines |
| `AsyncEvent.{h,cpp}` | `m_State`: null, set, or a lock-free list of awaiting operations | `Set`, `Reset`, `IsSet`, `co_await` | resumes coroutines inside `Set` |
| `Task.h`, `TaskMap.h`, `WhenAll.h`, `SyncWait.h`, `Internal/*` | a flag, a continuation and a result or exception per promise, the counter of `WhenAll`, the futex byte of `ManualResetEvent` | `co_await` of a task, of its `WhenReady()`, of `WhenAll` and `WhenAllReady`; `SyncWait` | each other, by symmetric use of `resume()`; jobs |
| `Pipes/*` | a list of buffer segments, a segment pool, counts of bytes, two `AsyncEvent`s, completion flags | `GetMemory`, `Advance`, `FlushAsync`, `ReadAsync`, `AdvanceReader`, completion of both ends | sets events through one-time jobs |
| `Buffers/ReadOnlySequence.h`, `SequenceReader.h` | two positions in a list of segments; a reader's buffer, index, next position and count | seeking, slicing, copying, iteration; `Advance`, `Rewind`, `AdvancePast`, `TryReadTo`, `Peek`, ... | read the pipe's segments |
| `Jobs/JobTree.h`, `Internal/BoolPointer.h` | first child and cancelled flag of a node, in one word | `AddChild`, `Cancel`, `IsCancelled` | nothing yet |
| `Parallel/*` | a counting semaphore, a spin lock | `Release`, `Acquire` | the scheduler |


What is hard: the scheduler's sleep protocol is a count, a mark and a semaphore
updated in separate steps by any number of notifiers; a job moves between
queues and threads; a job may destroy the object it lives in; several parents
decrement one counter that shares a word with other fields; a coroutine may be
finished by one thread while another is still suspending it; an event's list
nodes are reused; a pipe wakes its two ends through jobs that run late; the borders of
segments, empty ones among them, must not show in what is read. The list
of hazards in `PROJECT.json` gives each at its line.

What makes each component correct: the *scheduler* runs every scheduled job once,
on one thread, loses no wake-up and shuts down; a *job* starts once, after its
parents, with the priority it was given, and is not touched after it is gone; an
*event* resumes each waiter once and forgets none; a *coroutine* is continued once
and only when what it awaits is done; a *pipe* delivers the bytes in order, frees
no memory that is in use, and lets neither end wait for ever; a *sequence* behaves as if
its elements lay side by side; a *cancelled* node stays cancelled.

## 2. The modules

| module | models | abstract specification |
|---|---|---|
| `JobPool` | what a scheduler promises (`IJobScheduler`) | |
| `JobScheduler` | the scheduler; one action per atomic access, semaphore operation or critical section | implements `JobPool` (`ImplementsPool`) |
| `JobScheduler_proofs`, `Job_proofs`, `AsyncEvent_proofs`, `Coroutines_proofs`, `Pipe_proofs`, `SequenceReader_proofs` | theorems about these modules (section 5) | |
| `Pipe_lemmas`, `Pipe_steps` | what `Pipe_proofs` rests on: lists of segments and their bytes; what each critical section does to them | |
| `Job` | jobs, over a scheduler whose state is `JobPool`'s | uses `JobPool`'s actions |
| `EventPromise` | a manual-reset event | |
| `AsyncEvent` | the lock-free list, pointer by pointer | implements `EventPromise` (`ImplementsEvent`) |
| `Coroutines` | tasks, `WhenAll`, `SyncWait` and its futex, results and exceptions, with a call stack per thread | |
| `ByteStream` | a FIFO of bytes with a flush point | |
| `Pipe` | the pipe; one action per critical section and per step between them | implements `ByteStream` (`ImplementsStream`), relies on `EventPromise`'s behaviour |
| `ReadOnlySequence` | the window into a list of segments: pure operators, no state | |
| `FlatReader` | a reader of elements that lie side by side | |
| `SequenceReader` | the reader over segments; one action per public operation | implements `FlatReader` (`ImplementsFlatReader`) |
| `JobTree` | a tree node's word, each load and store of it a step | |
| `MC*` | small instances for TLC | |

**JobScheduler.** `pc[t]` names the next statement of thread `t`: the worker loop is
`check` (exit flag), `dequeue`, `self`, `again`, `steal`, then `empty1`,
`inc`, `setSleep`, `wait`, `woken`; `NotifyWorker` is `load`, `exchange`, `decrement`,
`post`, with `ret` as its return address. `stack[t]` holds the jobs a thread
executes, innermost last, because an empty job runs inside `ScheduleJob`.
`ownerPc`/`ownerIndex` walk the constructor and destructor. A critical section
is one step: each holds one mutex and calls nothing that blocks. The sixteen `try_lock` of a
thief may all fail while another thread is at a critical section of the same queue (`Touches`),
whatever the schedule of the holders. `priority[j]` is what `GetPriority` returns: any thread
may call `SetPriority`, also on a job in a queue, as often and whenever it likes (`Prioritize`; the
constant `Changes` says with which values). A queue need not be sorted then, and
`InsertionPoints` has every index at which `lower_bound` may stop in it. `disturbed` is a
history variable, read by the property `UndisturbedInOrder` alone: the jobs whose priority was changed in a
queue, and those pushed while such a one was in it.

**Job.** `flags[j]` is the real word, decoded by `%` and `\div`, so a counter that
overflows carries into the priority as in the code. `calls[t]` is a stack of
frames: `AttachParent` writes `m_Dependent` and increments in two steps (its frame keeps
the parent, its parameter, so that a caller can be said to know which of its calls have
returned), `SetPriority` loads and stores in two, `ExecuteInternal` reads (`capture`), runs
the body, signals, deletes. `CountRangeAssumption` restates for provers, which know
nothing of powers, that the counter has at least one bit.

**AsyncEvent.** It starts unset or set, as `initial` says. `state` and `next` are the pointers; `old` is `await_suspend`'s local;
`at`, `current`, `following` are where each `Set` is. `listed` and `taken` are auxiliary:
the lists the pointers stand for, and nothing reads them but the properties.

**Coroutines.** `status`, `step` and a script per coroutine stand for its body;
`linked` is the flag both sides exchange, `remaining` the `WhenAll` counter,
`value`/`neighbour` the futex word of which one byte is the event's. `thrown` is the
exception that leaves a body, `result` what the promise holds; a coroutine in `Fails`
throws after its last await, and everybody who awaits its value throws on
(`whenReady` and `allReady` read no value). `Released` says which frames their owners
may have destroyed, and `FramesOutlive` that no thread still acts on one of them.

**Pipe.** `p` is the record of everything `m_Mutex` guards, and the private
functions of `Pipe` are operators from record to record; `writer.at` and
`reader.at` are where each end is between critical sections; `pending` counts the
jobs that have still to call `Set`. Bytes are numbered by their place in the
stream, so a lost, repeated or reordered byte shows in the contents.

**ReadOnlySequence, SequenceReader.** A sequence is a list of segments and two positions
`At(segment, index)`, segments numbered from 1 and the null position `At(0, 0)`. `Seek`,
slicing and copying are operators, and `ViewsAreFlat` compares each with the
same question asked of the flat sequence, for all offsets. `IteratedBuffers` is the range-based
for, `operator++` by `operator++`; it is not flat, and `ViewsAreFlat` says how it differs (`OneBehind`). `reader` is the record of the class's members; private
functions go from reader to reader. `m_Length` is left out: the reader only keeps
`GetLength()` in it. The refinement maps the reader to the number of elements
before it, `at`; `counted` is `m_Consumed`, which is another number (see 6).

**JobTree.** `SetPointer` and `SetBool` are a load and a store of the word each, as
`BoolPointer` has them. One thread attaches children and others cancel.

Assertions (`UN_Assert`) are compiled out in the models, as in release builds,
unless a run is about one. The scheduler's atomics, `m_Flags`' updates and the event's are
sequentially consistent, and so are the models. The weaker orders elsewhere
(release and acquire of the futex byte, `acq_rel` of `WhenAllCounter` and
`BoolPointer`) are taken for stronger than they are: no property needs two
such words to be seen in one order.

## 3. The runs

| run | instance | what it shows |
|---|---|---|
| `JobScheduler` | 2 workers, 1 other thread, 5 jobs (one empty, with a dependent; 4 priorities; one of them given another at any time) | the safety of queues, sleeping, stealing, start and shutdown; the order in the queues; the refinement of `JobPool`; local jobs are taken, shutdown ends, a global job is taken unless all workers fall asleep |
| `JobScheduler_lost` | 2 workers, 1 job | **finding**: the lost wake-up |
| `Job` | 5 jobs, 3 parents of one, a 2-bit counter, 2 clients, 2 workers | start order, single submission, no stranded job, priority intact, no use after destruction |
| `Job_priority` | 13-bit counter, one child | **finding**: `SetPriority` loses a decrement |
| `Job_children` | two children of one parent | **finding**: the first child never runs |
| `AsyncEvent` | 3 coroutines awaiting twice, 2 setters, resets at any time | list integrity (ABA included), nobody resumed twice or forgotten, the refinement |
| `Coroutines` | the README's program, grown to 16 coroutines, 3 workers and the main thread; a second await of the same object, four tasks that throw | single continuation, nobody past an await that is not over, no frame used after its owner may destroy it, results and exceptions reach who awaits them, `SyncWait` returns |
| `Coroutines_futex` | as above, other bytes beside the event | **finding**: `SyncWait` returns early |
| `Pipe` | 4 bytes, segments of 2 or 3, pool of 1, equal thresholds of 3 | contents and order, no segment lost or freed while held, byte counts, back pressure, the refinement |
| `Pipe_pressure` | 4 bytes, thresholds 2 and 1, flushes of 1 | the writer is woken, the reader does not sleep over data or the end, both complete and all is freed |
| `SequenceReader` | every window into 1 to 3 segments of up to 2 elements, and the null sequence | positions, slices, lengths, copies and what the reader shows agree with the flat sequence, the iterator is one buffer behind; the reader implements `FlatReader` whatever is called in whatever order |
| `JobTree_cancel` | 3 nodes, 1 thread that cancels | **finding**: a cancelled node is no longer cancelled |

Why these bounds are enough for the cases they are meant for:

- Two workers and one external thread give every pair of roles of the sleep
  protocol (sleeper, notifier that is a worker, notifier that is not), a thief with
  a victim, and a victim that wraps; five jobs give a local queue of two with
  different priorities, an inline job inside a job, and a global queue that
  grows while workers fall asleep. One job's priority changes at any time, before, in and after
  its queue, so that jobs are pushed in front of it and behind it; a queue in which
  `lower_bound` has more than one place to choose from needs three jobs and one to push, and
  is left to the proof, as are more workers.
- A counter of two bits puts a job with three parents at `GetMaxDependencyCount`.
- Three coroutines give the event's list a middle; two awaits each reuse a node.
- Four bytes over segments of two fill one, split one, replace an empty one, reuse
  one from the pool, and cross the threshold twice in the pressure run.
- Three segments of at most two elements give the reader a first, a middle and a
  last one, empty ones in each place and in a row, and an element beside each
  border; two kinds of element suffice to find one, skip the other and meet
  neither. All elements outside of the window are delimiters, so whoever looks beyond
  it finds one; half of the windows have another segment behind them.
- In `Coroutines` one task of the first `WhenAllReady` ends at once, two on workers, and one
  of those awaits another; of the second `WhenAll` all three throw, one at once.
- Deadlock is checked in every run but `JobTree_cancel`, whose threads simply end; the
  other models have a step for their end.

## 4. Fairness

Every fairness condition is weak and on the steps of a thread or coroutine that
is *inside* the library: the operating system runs a thread that can run. Nothing
forces an external thread to call, the owner to destroy the scheduler, or
anybody to call `Set` or `Reset`; no fairness makes `try_lock` succeed. In
`Coroutines`, workers take what they are given, which `JobScheduler_lost` shows is
not always so: `SyncWaitReturns` is about the coroutine protocol alone. In `Pipe`
the jobs run, both ends go on when they can, and the writer completes
if it has control infinitely often (strong fairness: its loop ends); a reader that was
told the end of the stream consumes what is left. A reader may give up early,
and is not made to.

## 5. What is proved

The theorems of six components, each about every value of the constants. In each, the property
is not inductive as it stands; the strengthening `IInv` is, was checked by TLC on
the small instances first, and is proved by `Init => IInv` and one lemma per action.

### JobScheduler

`JobScheduler_proofs` proves, for every number of workers, every finite set of
external threads and every set of jobs, from `WorkerCountAssumption` (at least
one worker), `ThreadsAssumption` (external threads are finite and are no worker
indexes) and `JobsAssumption` (types of the jobs' data):

| theorem | states |
|---|---|
| `Inductive` | `Spec => []IInv` |
| `TypeCorrect` | `TypeOK`, victim and scan indexes included |
| `OnePlace` | `JobInOnePlace`: a scheduled job is in exactly one queue, activation or history |
| `ImplementsJobPool` | `Spec => ImplementsPool`, the refinement of `JobPool` |
| `Lifetime` | `WithinLifetime`, from `Registered` (no worker runs before all are registered), `StealTargets` (no thief locks its own queue or indexes past the workers) and `Quiescent` (`FreedIsQuiescent`: what the destructor frees is unused and holds no job of a worker) |
| `WakeUpsExact` | marks + permits + pending posts match parked workers exactly |
| `SleepersCounted` | `m_SleepingWorkerCount` never drifts |
| `Drained` | who sleeps, exits or steals has nothing left of its own |
| `KeepsOrder` | `UndisturbedInOrder`: jobs whose priority was not changed in a queue, nor pushed to one that holds such a job, stay in descending order, for any number of changes at any time |

The invariant is `IInv == TypeOK /\ ThiefOK /\ OwnerOK /\ SleepOK /\ DrainOK /\
UndisturbedInOrder /\ JoinedOK /\ KeptOK /\ PlacedOnce`.
None of the stated properties is inductive alone. `TypeOK` needs `ThiefOK`: the next
victim stays an index only because a thief never has itself as victim and a
lone worker never steals. `WakeTokens` needs to know which semaphores the destructor
has released, hence `OwnerOK` (exit flag and the owner's phase agree, and
before the constructor's post all workers are at their first statement); and it
needs `MarkedIsParked`, that a mark stands for a worker in `Acquire`, as does
`SleepAccounting`: the three are one invariant, `SleepOK`, because taking a mark,
deducting the count and posting are three steps between which all three change.
`DrainOK` adds that the thread that looks again after a stolen job holds none.
`UndisturbedInOrder` rests on the data-structure lemmas `InsertionPointExists` (the search
stops somewhere, in an unsorted queue too), `InsertElements` and `InsertOrdered` (a job inserted leaves
the order of the others), `SearchDetermined` (in a queue without disturbed jobs there is one place, and it is
right) and `TailOrdered`; `ChangeOrdered` is the step of `SetPriority`.
The proof of each part has one step per action, with lemmas for
the steps that touch none of its variables (`NeutralStep`, `StillStep`, `DrainStill`).

`JoinedOK` says that who has been joined has exited and that no external thread is in a
call once the destructor runs. `KeptOK` (a scheduled job is somewhere) and `PlacedOnce` (the
queues, stacks and `finished` hold scheduled jobs only, repeat none and share none) are
`JobInOnePlace` without its cardinalities; both need `DrainOK`, since a worker that takes a
job overwrites its stack, which must be empty. They rest on the range lemmas of
the four ways a job moves: `EnqueueRange`, `PopRange`, `CallRange`, `ReturnRange`.
`StepOfPool` maps each step to one of the pool's or a stutter.

### Job

`Job_proofs` is about every set of jobs, clients, workers and attachments and every width of
the counter, under `Limits`: a job has at most `GetMaxDependencyCount()` parents (the number
the class announces), and `SetPriority` is called on a job before anything else is done
with it (`Careful`; `Job_priority` shows what happens otherwise). `TypeCorrect` needs neither.

| theorem | states |
|---|---|
| `Inductive` | `Spec => []IInv` |
| `TypeCorrect` | `TypeOK`: the word keeps its width |
| `SubmittedByOne` | `SubmittedOnce`: one thread at most hands a job to the scheduler |
| `AfterParents` | `StartsAfterParents`: scheduled, bound, and Execute of all parents has returned |
| `NoneTouchedAfter` | `NoUseAfterDestroy` |
| `PriorityKept` | `QueuedPriorityIntact` |
| `NoneStranded` | `AllRan`, if a job is the parent of one other at most (`Job_children`) and attachments are not circular |
| `UsesPool` | `Spec => Pool!PoolSpec`: `Job` uses the scheduler as `JobPool` allows |

What makes it inductive is saying what the counter counts: `Count(j)` is the number of
parents that are attached and have not yet decremented it (`Owed`), and one for the call that
schedules the job (`Held`); `FlagsOK` says that `m_Flags` is exactly the word `Word(j, Count(j),
priority)`, and while a `SetPriority` is between its load and its store, that the priority is
the only thing it may change. `SettledOK` ties it to the scheduler: a job is submitted when, and only when, the
count is zero, so the thread whose decrement gets there is the only one. `StacksOK`, `OnceOK`
and `CallsOK` say which calls a thread can be in, who is in which once, and what its locals hold
(`dep` is still `m_Dependent`, the word of a store is the word of an untouched job);
`MadeOK` what the clients have done, `AliveOK` that only `Execute` destroys a job. The lemmas on stacks (`AfterPush`, `AfterReturn`,
`AfterReplace`, `AfterNested`) say once what each way of changing a stack does to the views
of it; `Fields`, `WordSteps` and `WordsTyped` are the arithmetic of the word. With as many parents as
allowed the counter reaches `CountRange`, which is not a number it can hold: it runs over into
the priority bits, and for the job with all flags set out of the word, and comes back;
`Word` and `Wrap` say so, and `WordSteps` shows that incrementing and
decrementing are inverse all the same.

### AsyncEvent

`AsyncEvent_proofs`, for every set of coroutines and threads, any number of awaits, sets and resets:
`TypeCorrect`, `PointersAreLists` (`ListsMatch`: the pointers are the lists they stand for, with no node in two),
`ResumedByOne` (`SuspendedOnce`) and `ImplementsPromise`, the refinement of `EventPromise`. The invariant
adds to the two properties where each suspended coroutine is (the event's list, or the
list one `Set` has taken, before or behind its current node), that `following` is the node behind the
current one although that node may be in use again, and that `old` in
`await_suspend`'s loop is a state the event has had. ABA does no harm because the compare-and-exchange
compares the head that the new node already points to.

### Coroutines

`Coroutines_proofs`, for every set of coroutines, every script, any set that throws and any number of
workers, from `ProgramAssumption` and `AwaitsAssumption`. The latter says what the types of the library see to: `WhenAll`
takes its tasks over by value and wraps each in a `WhenAllTask` of its own, and a `Task` is move-only with one continuation,
so two coroutines await it only one after the other.

| theorem | states |
|---|---|
| `Inductive` | `Spec => []IInv` |
| `TypeCorrect` | `TypeOK` |
| `ContinuedByOne` | `ResumedOnce`: the second to come of `TrySetContinuation` and the final awaiter, or whoever takes `WhenAllCounter`'s last share, continues the coroutine |
| `AwaitsEnded` | `AwaitedIsDone` |
| `FramesKept` | `FramesOutlive`, if the three bytes beside the futex byte are zero |
| `WaitsForRoot` | `ReturnsWhenDone`, under the same condition (`Coroutines_futex` shows that without it, it fails) |
| `ResultsReachAwaiters` | `ResultsDelivered`, if awaits are not circular |

The invariant says of each coroutine who runs it, and of each suspended one who will continue it: the
thread that is still inside `await_suspend`, the child that has its continuation, or the shares of the
counter that are out, which are the tasks not started and those not ended. `FramesKept` needs that who may
destroy a frame has been told of its end, hence that nobody acts on a frame whose
end was told. `Outcomes` is a recursive function over the awaits; that it is defined, and
agrees with the results, is proved without induction, by a least counterexample along the
well-founded awaits (`OutcomesDefined`).

### Pipe

`Pipe_proofs`, for every size of the segments, of the pool of segments and of what `GetMemory` is asked
for, all thresholds and any number of bytes and segments, from `SizesAssumption` (a segment holds
at least a byte; the resume threshold is at most the pause threshold).

| theorem | states |
|---|---|
| `Inductive` | `Spec => []IInv` |
| `TypeCorrect` | `TypeOK`: no count of bytes falls below zero |
| `KeepsSegments` | `SegmentsKept`: list and pool are all there is, and share nothing; who writes or reads, does so in the list |
| `ReaderReadsTheStream` | `ReadsTheStream`: the sequence that is read is the stream's, over any number of segments |
| `CountsBytes` | `BytesCounted` |
| `HoldsBack` | `BackPressure`, for equal thresholds (section 6) |
| `WriterWillResume` | `WriterResumable` |
| `ReaderWillWake` | `ReaderWoken`, if no flush alone reaches the pause threshold (`FlushesFit`: without it the pipe deadlocks, section 6) |
| `KeepsTheStream` | `Spec => ImplementsStream`, the refinement of `ByteStream` |

The invariant is `IInv == TypeOK /\ Holds /\ Control /\ Room /\ Pressure /\ Woken`. `Holds` is the data: there is
a list `L[lo], ..., L[hi]` of segments, linked by `next`, whose running indexes add up, and
`HasData(p, reader, h, m, written)`: byte `h` of the stream is where the reader stopped, byte `m` is where the
last flush stopped, and the segments hold the bytes from the list's first to `written`. `Control` ties
completion and the two events to where both ends are. `Room`, `Woken` and `Pressure` are about the
jobs that set the events late: while an event is not set and somebody needs it, a job is on its way; and for equal
thresholds there is one signal to the writer exactly when there is room, so that none is left over to void
the next pause.

`Pipe_lemmas` is about lists and bytes: which lists stay lists when a segment is appended, freed or changed,
and what `Chain` and `Bytes` return. Both are recursive functions over the list; no induction is needed,
since a function that solves their equation on the list is given and `ChainUnfolds` and `BytesUnfold` show
that it is what they return. `Pipe_steps` has one lemma per critical section, which says how it moves `h`, `m` and `written`:
that is also all `StreamSteps` needs, which maps each step to `ByteStream`'s `Put`, `Flush`, `Take`, `Abandon`
or `Discard`, or to a stutter.

### ReadOnlySequence and SequenceReader

`SequenceReader_proofs`, for every set of elements, every list of segments (empty ones
included), every window in it, the null sequence, and readers that were used in any way the contract
allows, from `InputsAssumption` (a sequence is null or lies between two positions of its
list, the end not before the begin, and holds at most `MaxLength` elements).

| theorem | states |
|---|---|
| `Inductive` | `Spec => []IInv` |
| `TypeCorrect` | `TypeOK`: no length minus index wraps, and `IsEnd()` tells what is left of the buffer |
| `ViewsAgree` | `ViewsAreFlat`: seeking, slices, lengths, copies and what the reader shows agree with the flat elements; the iterator is one buffer behind, for any number of segments |
| `ImplementsFlat` | `Spec => ImplementsFlatReader`, the refinement of `FlatReader` |

`Whole(s)` is the whole list, elements outside of the window included, with an edge after each
segment: a position has a place in it, a buffer is the part from a place to the next edge,
and what the operations do becomes arithmetic on places (`SegmentIs`, `BufferIs`, `CutIs`).
`TypeOK` is not inductive: nothing in it keeps `m_NextPosition` the segment behind the current one.
`IInv` says that the reader stands at some place `at` of the window (`StandsAt`): its current position and index
add up to `at`, its buffer is what the window has from the current position to the next edge, its next position
is the buffer after, data is left exactly when the index is before the buffer's end, at the end of the data `at` is the end of the window,
and `m_Consumed` is at most `at`. TLC checked `IInv` on the sequences of at most two
segments and four elements (2836 distinct states), with `Offset` for `at`.

Each operation gets a lemma that says where it takes a reader that stands at `at`
(`AdvancedIs`, `RewoundIs`, `AdvancedPastIs`, `TryReadToImplIs`), from which the action's lemma
follows for the invariant and for `FlatReader` at once. The loops of the reader (`AdvanceAcross`, `AdvancedPast`,
`AtDelimiter`), `RunningIndex` and `FlattenSeq` are recursive functions. That the equation of one has a
solution is shown first: by `LoopDefined` for the loops, whether or not they end, and by
`PrefixDefined` for functions on numbers. What they return then follows by `Upward` or
`FromBelow`, induction with a set in the place of the predicate, over the elements left.
`MaxLength` is any number: it bounds what `Advance` and `Rewind` are called with, no argument rests on its size.

### Only model-checked

The liveness of all components, and what a run shows to be violated (section 6). Out of
the prover's reach: liveness under fairness, and `ENABLED`.

## 6. Findings

1. **Lost wake-up** (`JobScheduler_lost`). A worker looks at the global queue before
   it counts itself as a sleeper; a job pushed in between is announced to
   nobody. If all workers do so, the job waits until somebody schedules another.
2. **`SetPriority` loses a decrement** (`Job_priority`): load and store of the word
   that holds the dependency counter.
3. **One child per parent** (`Job_children`): `AttachParent` overwrites the parent's
   dependent, whose counter is never decremented.
4. **The futex compares four bytes** (`Coroutines_futex`), of which the event owns one:
   `SyncWait` can return before its task is done.
5. **A cancelled node is revived** (`JobTree_cancel`): `SetPointer` on one thread and `SetBool` on
   another each load a part of `BoolPointer`'s word and store all of it, which the
   comment at `BoolPointer.h:41-43` takes to be safe.

Observations that contradict no comment, or one that the models do not contain:

- A flush that alone reaches `PauseWriterThreshold` deadlocks the pipe (`MaxUnflushed` is below
  the threshold in the runs; setting it to the threshold lets TLC show the deadlock).
- With a resume threshold below the pause threshold a late `Set` can void the
  back pressure (`BackPressure` is stated for equal thresholds; `Pipe_pressure` has
  different ones, and the liveness still holds).
- `GetMemory(1)` and then `GetMemory(3)`, with nothing written between, rents memory for a
  segment that has some (`Pipe.cpp:121-125`): the assertion in `RentMemory` (22) fails, the
  segment keeps the new memory.
- `SequenceReader::Advance` adds to `m_Consumed` only while it stays in a buffer, so that
  `Consumed()` is less than what was skipped, and a `Rewind` that leaves the buffer ends up
  further back than asked. `FlatReader` admits it: no document gives another meaning. While the
  count is the place, `Rewind` goes back by what was asked; afterwards the refinement does not
  forbid the farther target.
- The iterator of a sequence of several segments yields the first buffer twice and
  drops the last. `Tests/Buffers/ReadOnlySequence.cpp:128-137` expects the sum that
  this gives for its data. `ViewsAreFlat` states it (`OneBehind`), and `ViewsAgree` proves it for
  every window: whoever corrects the iterator has to correct them.
- `ReadOnlySequence::end()` converts to the null position, so that
  `reader.Advance(sequence.end())` of the pipe's sample consumes nothing.
- `BoolPointer::GetPointer` returns the word with the flag in it (`BoolPointer.h:50`). `Job.h:41`
  uses the class too, although its comment says that only `JobTree` does; that flag is
  set by the constructor alone.
- The futex wake of `ManualResetEvent::Set` may use the address of an event that `SyncWait`
  has already destroyed; a wake on a stale address does no harm, and `FramesOutlive`
  exempts it.
- A scheduler created after another one was destroyed finds the first one's record in the
  `m_CurrentThreadInfo` of a thread that used both (`JobScheduler.cpp:5`).

## 7. Abstractions and what is not modelled

- `JobScheduler`: registration of external threads in `m_Threads` by
  `GetCurrentThread`, one `thread_local` for several schedulers, the failure of
  `sem_wait` on a signal, thread priorities and names. `SetPriority` is one step (its load and
  store are `Job`'s matter, finding 2), and a push is one: a change of priority between two comparisons of
  the same `lower_bound`, of a job it looks at or of the one it is for, is left out.
- `Job`: attaching to a parent that already runs (the interface asks for it before);
  `AttachToTree`, whose pointer nothing reads.
- `Coroutines`: two coroutines that await one task or object at the same time (a promise
  has one continuation), `MapTask` with other functions than `WhenAll`'s, the concepts
  of `Traits.h` (types only), the Windows branch of the event. A task that is awaited is
  not empty (`Task.h:29` takes an empty one for ready, and `await_resume` then follows a null pointer).
- `SequenceReader`: the cached length. The caller keeps the contract of the assertions: it does not
  advance past the end nor rewind by more than `Consumed()`.
- `JobTree`: nothing in the library walks the tree, so neither does the model.
- `Pipe`: `MaxSegments` bounds the segments that exist at once (`GetMemory` does not find itself without
  one: `new` does not fail); the array pool gives exactly the size asked for; its own locking and the
  pipe's reference count are left out; the writer and the reader are one
  coroutine each, as the class requires. The callers keep to more than the code tests: `Advance`
  is called after `GetMemory` (`Pipe.h:104-115` does not look at the flag); the reader
  consumes a byte or examines everything, consumes no more than it examines (`MayAdvance`,
  stronger than the assertions at `Pipe.cpp:294-304`), and does not pass the null position for a
  sequence with elements, as the sample does (`Samples/PipesSample/main.cpp:89`): a reader that
  consumes nothing and examines a part may be handed the same bytes for ever. In the runs no flush reaches the pause
  threshold by itself (section 6); `PipeCompletes` is claimed under that condition.
- `SpinMutex.h` (nothing modelled uses it), the samples and tests (examples of use).

## 8. Plan

Done in order: `JobPool`, `JobScheduler` and its proofs, `Job`, `AsyncEvent`,
`Coroutines`, `Pipe`, `ReadOnlySequence` and `SequenceReader`, results, exceptions and
frames in `Coroutines`, `JobTree`, the refinement of `JobPool` proved, the proofs of `Job`,
`AsyncEvent`, `Coroutines`, `Pipe` and `SequenceReader`. Next: registration of external threads in `JobScheduler`, two
schedulers on one thread, interrupted semaphore waits.
