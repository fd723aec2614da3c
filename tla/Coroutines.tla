------------------------------ MODULE Coroutines ------------------------------
(***************************************************************************)
(* Tasks, WhenAll and SyncWait: how coroutines suspend, continue each      *)
(* other and wake the thread that waits for them.                          *)
(*                                                                         *)
(* A thread has a stack of calls, since resume() runs a coroutine inside   *)
(* the caller until it suspends: the call of await_suspend that started a  *)
(* child is completed only then, and by that time the child may have       *)
(* finished on another thread.  One action is one atomic operation with    *)
(* the local steps around it.  A script is the list of awaits of a         *)
(* coroutine:                                                              *)
(*   [op |-> "hop", on |-> <<>>]      co_await Job::Run(pScheduler)        *)
(*   [op |-> "task", on |-> <<c>>]    co_await of a Task                   *)
(*   [op |-> "whenReady", on |-> <<c>>]  of its WhenReady()                *)
(*   [op |-> "all", on |-> q]         co_await WhenAll(...): q are the     *)
(*                                    WhenAllTasks, each awaits its task   *)
(*   [op |-> "allReady", on |-> q]    co_await WhenAllReady(...)           *)
(* What a coroutine returns is "value"; an exception is named after the    *)
(* coroutine that threw it, and leaves every coroutine that awaits it.     *)
(***************************************************************************)
EXTENDS Integers, SequencesExt

CONSTANTS
    Coroutines,
    Kind,       \* [Coroutines -> {"task", "whenAll", "syncWait"}]: its promise
    Script,     \* [Coroutines -> Seq of awaits]
    Fails,      \* the coroutines that throw after their last await
    Root,       \* the coroutine of MakeSyncWaitTask
    Main,       \* the thread that calls SyncWait
    Workers,    \* the threads of the scheduler
    None,       \* no coroutine
    Neighbours  \* values of the three bytes after m_Value, which futex compares

ASSUME ProgramAssumption ==
    /\ Kind \in [Coroutines -> {"task", "whenAll", "syncWait"}]
    /\ Root \in Coroutines /\ Kind[Root] = "syncWait"
    /\ Fails \subseteq Coroutines
    /\ None \notin Coroutines /\ Main \notin Workers
    /\ {"empty", "value"} \cap Coroutines = {}
    /\ Neighbours \subseteq Nat

Awaits == [op : {"hop", "task", "whenReady", "all", "allReady"}, on : Seq(Coroutines)]

\* What coroutine c has awaited when it is at its await i.
Before(c, i) == UNION {ToSet(Script[c][k].on) : k \in 1 .. i - 1}

(***************************************************************************)
(* What the types see to, and what the caller does: WhenAll takes its      *)
(* tasks over, one WhenAllTask each, and a Task, which has one             *)
(* continuation, is not awaited by two coroutines at once.  A second one   *)
(* may await it when the first has ended.                                  *)
(***************************************************************************)
ASSUME AwaitsAssumption ==
    /\ Script \in [Coroutines -> Seq(Awaits)]
    /\ \A c \in Coroutines : \A i \in DOMAIN Script[c] :
        LET await == Script[c][i]
        IN  CASE await.op = "hop" -> await.on = <<>>
              [] await.op \in {"task", "whenReady"} -> Len(await.on) = 1 /\ Kind[Head(await.on)] = "task"
              [] OTHER -> IsInjective(await.on) /\ \A d \in ToSet(await.on) : Kind[d] = "whenAll"
    /\ \A c, d \in Coroutines : \A i \in DOMAIN Script[c], k \in DOMAIN Script[d] :
        \A x \in ToSet(Script[c][i].on) \cap ToSet(Script[d][k].on) :
            IF Kind[x] = "whenAll"
            THEN c = d /\ Script[c][i].on = Script[d][k].on
            ELSE c = d \/ c \in Before(d, k) \/ d \in Before(c, i)

Threads == Workers \cup {Main}

VARIABLES
    status,         \* created, running, suspended, done
    step,           \* the await of its script a coroutine is at
    linked,         \* TaskPromiseBase::m_State
    continuation,   \* TaskPromiseBase::m_Continuation
    counter,        \* the coroutine whose WhenAllCounter a WhenAllTask notifies
    remaining,      \* WhenAllCounter::m_Count of the coroutine that awaits
    thrown,         \* the exception that leaves a coroutine's body, or None
    result,         \* what its promise holds: "empty", "value" or an exception
    scheduled,      \* the coroutines whose SchedulerOperation is in the scheduler
    calls,          \* the calls each thread is in
    value,          \* ManualResetEvent::m_Value
    neighbour,      \* the bytes after it, not initialised by anybody
    main,           \* where SyncWait is
    misused         \* history: coroutines resumed while not suspended

resultVars == <<thrown, result>>
coroutineVars == <<status, step, linked, continuation, counter, remaining, misused, resultVars>>
eventVars == <<value, neighbour, main>>
vars == <<coroutineVars, scheduled, calls, eventVars>>

Init ==
    /\ status = [c \in Coroutines |-> "created"]
    /\ step = [c \in Coroutines |-> 1]
    /\ linked = [c \in Coroutines |-> FALSE]
    /\ continuation = [c \in Coroutines |-> None]
    /\ counter = [c \in Coroutines |-> None]
    /\ remaining = [c \in Coroutines |-> 0]
    /\ thrown = [c \in Coroutines |-> None]
    /\ result = [c \in Coroutines |-> "empty"]
    /\ scheduled = {}
    /\ calls = [t \in Threads |-> <<>>]
    /\ value = 0
    /\ neighbour \in Neighbours
    /\ main = "start"
    /\ misused = {}

-----------------------------------------------------------------------------
Call(op, c, on) == [op |-> op, co |-> c, on |-> on]
Idle(t) == calls[t] = <<>>
Top(t) == Last(calls[t])
In(t, op) == ~Idle(t) /\ Top(t).op = op

Replace(t, q) == calls' = [calls EXCEPT ![t] = Front(@) \o q]
Return(t) == Replace(t, <<>>)

Running(c) == Call("run", c, <<>>)

\* await_resume at the end of an await of c: GetResult of what it awaited,
\* which throws what a promise holds.  WhenAll reads the results of its tasks
\* as arguments of make_tuple, in any order; WhenReady and WhenAllReady read none.
AwaitResume(c, results) ==
    LET await == Script[c][step[c]]
        exceptions == {results[d] : d \in ToSet(await.on)} \cap Coroutines
    IN  IF await.op \in {"task", "all"} /\ exceptions # {}
        THEN \E e \in exceptions : thrown' = [thrown EXCEPT ![c] = e]
        ELSE UNCHANGED thrown

\* handle.resume() of c, whose present await is over if it was suspended in one.
Resumed(c) ==
    /\ IF status[c] = "suspended" THEN AwaitResume(c, result) ELSE UNCHANGED thrown
    /\ UNCHANGED result
    /\ status' = [status EXCEPT ![c] = "running"]
    /\ step' = [step EXCEPT ![c] = IF status[c] = "suspended" THEN @ + 1 ELSE @]
    /\ misused' = misused \cup (IF status[c] \in {"created", "suspended"} THEN {} ELSE {c})

\* The await that c, running on t, is at.
AwaitsAt(t, ops) ==
    /\ In(t, "run")
    /\ thrown[Top(t).co] = None
    /\ step[Top(t).co] <= Len(Script[Top(t).co])
    /\ Script[Top(t).co][step[Top(t).co]].op \in ops
Operand(t) == Script[Top(t).co][step[Top(t).co]].on

-----------------------------------------------------------------------------
(* Awaiting.                                                               *)

\* The coroutine is suspended when its job can be taken by a worker.
AwaitRun(t) ==
    /\ AwaitsAt(t, {"hop"})
    /\ status' = [status EXCEPT ![Top(t).co] = "suspended"]
    /\ scheduled' = scheduled \cup {Top(t).co}
    /\ Return(t)
    /\ UNCHANGED <<step, linked, continuation, counter, remaining, misused, resultVars, eventVars>>

\* SchedulerOperation::Execute
Take(w) ==
    /\ Idle(w)
    /\ \E c \in scheduled :
        /\ scheduled' = scheduled \ {c}
        /\ calls' = [calls EXCEPT ![w] = <<Running(c)>>]
        /\ Resumed(c)
    /\ UNCHANGED <<linked, continuation, counter, remaining, eventVars>>

\* await_ready: the task is done.
AwaitDone(t) ==
    /\ AwaitsAt(t, {"task", "whenReady"})
    /\ status[Head(Operand(t))] = "done"
    /\ step' = [step EXCEPT ![Top(t).co] = @ + 1]
    /\ AwaitResume(Top(t).co, result)
    /\ UNCHANGED <<result, status, linked, continuation, counter, remaining, misused, scheduled, calls, eventVars>>

\* await_suspend: resume the child in this call.
AwaitTask(t) ==
    /\ AwaitsAt(t, {"task", "whenReady"})
    /\ status[Head(Operand(t))] # "done"
    /\ LET c == Top(t).co
           child == Head(Operand(t))
       IN  /\ status' = [status EXCEPT ![c] = "suspended", ![child] = "running"]
           /\ misused' = misused \cup (IF status[child] = "created" THEN {} ELSE {child})
           /\ Replace(t, <<Call("link", c, <<child>>), Running(child)>>)
    /\ UNCHANGED <<step, linked, continuation, counter, remaining, scheduled, resultVars, eventVars>>

\* Mutant: the result of the exchange is not negated.
TrySetContinuationInverted(t) ==
    /\ In(t, "link")
    /\ LET c == Top(t).co
           child == Head(Top(t).on)
       IN  /\ continuation' = [continuation EXCEPT ![child] = c]
           /\ linked' = [linked EXCEPT ![child] = TRUE]
           /\ IF linked[child]
              THEN Return(t) /\ UNCHANGED <<status, step, misused, resultVars>>
              ELSE Resumed(c) /\ Replace(t, <<Running(c)>>)
    /\ UNCHANGED <<counter, remaining, scheduled, eventVars>>

\* TrySetContinuation after the child's resume() has returned: if the child is
\* already at its end, await_suspend returns false and the parent goes on here.
TrySetContinuation(t) ==
    /\ In(t, "link")
    /\ LET c == Top(t).co
           child == Head(Top(t).on)
       IN  /\ continuation' = [continuation EXCEPT ![child] = c]
           /\ linked' = [linked EXCEPT ![child] = TRUE]
           /\ IF linked[child]
              THEN Resumed(c) /\ Replace(t, <<Running(c)>>)
              ELSE Return(t) /\ UNCHANGED <<status, step, misused, resultVars>>
    /\ UNCHANGED <<counter, remaining, scheduled, eventVars>>

\* WhenAllCounter::IsReady: its m_AwaitingCoroutine is set, by an earlier await
\* of the same object.
AwaitedBefore(t) ==
    LET c == Top(t).co
    IN  \E i \in 1 .. step[c] - 1 : Script[c][i].op \in {"all", "allReady"} /\ Script[c][i].on = Operand(t)

\* await_ready of such an object: the coroutine goes on.
AwaitAllAgain(t) ==
    /\ AwaitsAt(t, {"all", "allReady"})
    /\ AwaitedBefore(t)
    /\ step' = [step EXCEPT ![Top(t).co] = @ + 1]
    /\ AwaitResume(Top(t).co, result)
    /\ UNCHANGED <<result, status, linked, continuation, counter, remaining, misused, scheduled, calls, eventVars>>

\* Mutant: the counter has no share for the awaiting coroutine.
AwaitAllNoExtra(t) ==
    /\ AwaitsAt(t, {"all", "allReady"})
    /\ ~AwaitedBefore(t)
    /\ LET c == Top(t).co
       IN  /\ status' = [status EXCEPT ![c] = "suspended"]
           /\ remaining' = [remaining EXCEPT ![c] = Len(Operand(t))]
           /\ Replace(t, <<Call("start", c, Operand(t))>>)
    /\ UNCHANGED <<step, linked, continuation, counter, misused, scheduled, resultVars, eventVars>>

\* WhenAllCounter is one more than the tasks: TryAwait takes the last one.
AwaitAll(t) ==
    /\ AwaitsAt(t, {"all", "allReady"})
    /\ ~AwaitedBefore(t)
    /\ LET c == Top(t).co
       IN  /\ status' = [status EXCEPT ![c] = "suspended"]
           /\ remaining' = [remaining EXCEPT ![c] = Len(Operand(t)) + 1]
           /\ Replace(t, <<Call("start", c, Operand(t))>>)
    /\ UNCHANGED <<step, linked, continuation, counter, misused, scheduled, resultVars, eventVars>>

\* StartTasks: one after the other, each until it suspends.
StartTask(t) ==
    /\ In(t, "start")
    /\ Top(t).on # <<>>
    /\ LET task == Head(Top(t).on)
       IN  /\ counter' = [counter EXCEPT ![task] = Top(t).co]
           /\ Replace(t, <<Call("start", Top(t).co, Tail(Top(t).on)), Running(task)>>)
           /\ Resumed(task)
    /\ UNCHANGED <<linked, continuation, remaining, scheduled, eventVars>>

\* Mutant: the awaiting coroutine is always suspended.
TryAwaitSuspends(t) ==
    /\ In(t, "start")
    /\ Top(t).on = <<>>
    /\ remaining' = [remaining EXCEPT ![Top(t).co] = @ - 1]
    /\ Return(t)
    /\ UNCHANGED <<status, step, misused, linked, continuation, counter, scheduled, resultVars, eventVars>>

\* WhenAllCounter::TryAwait: go on at once if all have completed meanwhile.
TryAwait(t) ==
    /\ In(t, "start")
    /\ Top(t).on = <<>>
    /\ LET c == Top(t).co
       IN  /\ remaining' = [remaining EXCEPT ![c] = @ - 1]
           /\ IF remaining[c] > 1
              THEN Return(t) /\ UNCHANGED <<status, step, misused, resultVars>>
              ELSE Resumed(c) /\ Replace(t, <<Running(c)>>)
    /\ UNCHANGED <<linked, continuation, counter, scheduled, eventVars>>

-----------------------------------------------------------------------------
(* Final suspension, by the kind of the promise.                           *)

AtEnd(t, kind) ==
    /\ In(t, "run")
    /\ thrown[Top(t).co] # None \/ step[Top(t).co] > Len(Script[Top(t).co])
    /\ Kind[Top(t).co] = kind

\* Mutant: an exception of an awaited coroutine does not leave this one.
OutcomeOfBody(c) == IF c \in Fails THEN c ELSE "value"

\* return_value, return_void or yield_value, or unhandled_exception.
Outcome(c) ==
    IF thrown[c] # None THEN thrown[c] ELSE IF c \in Fails THEN c ELSE "value"

\* The coroutine c ends here and its awaiter continues d, or nobody.
FinishInto(t, c, d) ==
    LET results == [result EXCEPT ![c] = Outcome(c)]
    IN  /\ result' = results
        /\ IF d = None
           THEN /\ status' = [status EXCEPT ![c] = "done"]
                /\ Return(t)
                /\ UNCHANGED <<step, misused, thrown>>
           ELSE /\ status' = [status EXCEPT ![c] = "done", ![d] = "running"]
                /\ step' = [step EXCEPT ![d] = @ + 1]
                /\ misused' = misused \cup (IF status[d] = "suspended" THEN {} ELSE {d})
                /\ AwaitResume(d, results)
                /\ Replace(t, <<Running(d)>>)

\* TaskPromiseBase::FinalAwaiter
FinishTask(t) ==
    /\ AtEnd(t, "task")
    /\ LET c == Top(t).co
       IN  /\ linked' = [linked EXCEPT ![c] = TRUE]
           /\ FinishInto(t, c, IF linked[c] THEN continuation[c] ELSE None)
    /\ UNCHANGED <<continuation, counter, remaining, scheduled, eventVars>>

\* WhenAllTaskPromise: NotifyAwaitableCompleted
FinishWhenAllTask(t) ==
    /\ AtEnd(t, "whenAll")
    /\ LET c == Top(t).co
           d == counter[c]
       IN  /\ remaining' = [remaining EXCEPT ![d] = @ - 1]
           /\ FinishInto(t, c, IF remaining[d] = 1 THEN d ELSE None)
    /\ UNCHANGED <<linked, continuation, counter, scheduled, eventVars>>

\* SyncWaitTaskPromise: ManualResetEvent::Set stores, then wakes.
FinishSyncWait(t) ==
    /\ AtEnd(t, "syncWait")
    /\ value' = 1
    /\ status' = [status EXCEPT ![Top(t).co] = "done"]
    /\ result' = [result EXCEPT ![Top(t).co] = Outcome(Top(t).co)]
    /\ Replace(t, <<Call("wake", Top(t).co, <<>>)>>)
    /\ UNCHANGED <<thrown, step, linked, continuation, counter, remaining, misused, scheduled, neighbour, main>>

FutexWake(t) ==
    /\ In(t, "wake")
    /\ main' = IF main = "asleep" THEN "load" ELSE main
    /\ Return(t)
    /\ UNCHANGED <<coroutineVars, scheduled, value, neighbour>>

-----------------------------------------------------------------------------
(* SyncWait and ManualResetEvent::Wait.                                    *)

StartRoot ==
    /\ main = "start"
    /\ calls' = [calls EXCEPT ![Main] = <<Running(Root)>>]
    /\ Resumed(Root)
    /\ main' = "load"
    /\ UNCHANGED <<linked, continuation, counter, remaining, scheduled, value, neighbour>>

LoadValue ==
    /\ main = "load" /\ Idle(Main)
    /\ main' = IF value = 0 THEN "futex" ELSE "returned"
    /\ UNCHANGED <<coroutineVars, scheduled, calls, value, neighbour>>

\* FUTEX_WAIT compares an int, of which m_Value is the first byte, with 0.  If
\* they differ it fails with EAGAIN, and Wait returns.
FutexWait ==
    /\ main = "futex"
    /\ main' = IF value = 0 /\ neighbour = 0 THEN "asleep" ELSE "returned"
    /\ UNCHANGED <<coroutineVars, scheduled, calls, value, neighbour>>

\* Mutant: Wait does not look at m_Value again.
FutexReturnsUnset ==
    /\ main = "asleep"
    /\ main' = "returned"
    /\ UNCHANGED <<coroutineVars, scheduled, calls, value, neighbour>>

\* A signal or a spurious wake-up ends the futex call: the loop loads again.
FutexReturns ==
    /\ main = "asleep"
    /\ main' = "load"
    /\ UNCHANGED <<coroutineVars, scheduled, calls, value, neighbour>>

SyncWait == StartRoot \/ LoadValue \/ FutexWait

Step(t) ==
    \/ AwaitRun(t) \/ AwaitDone(t) \/ AwaitTask(t) \/ TrySetContinuation(t)
    \/ AwaitAll(t) \/ AwaitAllAgain(t) \/ StartTask(t) \/ TryAwait(t)
    \/ FinishTask(t) \/ FinishWhenAllTask(t) \/ FinishSyncWait(t) \/ FutexWake(t)

Terminated == main = "returned" /\ (\A t \in Threads : Idle(t)) /\ scheduled = {} /\ UNCHANGED vars

Next == SyncWait \/ FutexReturns \/ Terminated \/ (\E t \in Threads : Step(t)) \/ (\E w \in Workers : Take(w))

Spec == Init /\ [][Next]_vars

(***************************************************************************)
(* Every thread runs, and the scheduler executes what it was given: this   *)
(* is what SyncWait relies on, and what JobScheduler does not always do    *)
(* (ScheduledJobRuns there).                                               *)
(***************************************************************************)
FairSpec ==
    /\ Spec
    /\ WF_vars(SyncWait)
    /\ \A t \in Threads : WF_vars(Step(t))
    /\ WF_vars(\E w \in Workers : Take(w))

-----------------------------------------------------------------------------
TypeOK ==
    /\ status \in [Coroutines -> {"created", "running", "suspended", "done"}]
    /\ step \in [Coroutines -> Nat]
    /\ linked \in [Coroutines -> BOOLEAN]
    /\ continuation \in [Coroutines -> Coroutines \cup {None}]
    /\ counter \in [Coroutines -> Coroutines \cup {None}]
    /\ remaining \in [Coroutines -> Nat]
    /\ thrown \in [Coroutines -> Coroutines \cup {None}]
    /\ result \in [Coroutines -> Coroutines \cup {"empty", "value"}]
    /\ scheduled \subseteq Coroutines
    /\ calls \in [Threads -> Seq([op : {"run", "link", "start", "wake"}, co : Coroutines, on : Seq(Coroutines)])]
    /\ value \in {0, 1} /\ neighbour \in Neighbours
    /\ main \in {"start", "load", "futex", "asleep", "returned"}
    /\ misused \subseteq Coroutines

Activations(c) ==
    UNION {{<<t, i>> : i \in {n \in DOMAIN calls[t] : calls[t][n] = Running(c)}} : t \in Threads}

\* No coroutine is resumed while it runs or after its end, and none runs on two
\* threads: of the thread that starts a child and the one that completes it
\* exactly one continues the parent, and of all that decrement a WhenAllCounter
\* exactly one.
ResumedOnce ==
    /\ misused = {}
    /\ \A c \in Coroutines : status[c] = "running" <=> \E a \in Activations(c) : Activations(c) = {a}
    /\ \A c \in Coroutines : status[c] # "running" => Activations(c) = {}

\* A coroutine is past an await only when what it awaited has ended: also when
\* the last task of a WhenAll ends while the others are still being started.
AwaitedIsDone ==
    \A c \in Coroutines : \A i \in 1 .. Len(Script[c]) :
        i < step[c] => \A d \in ToSet(Script[c][i].on) : status[d] = "done"

\* README.md:46 of the repository: "SyncWait(task); // Wait for the jobs to finish".
\* The result is read (GetResult) only when the coroutine has ended.
ReturnsWhenDone == main = "returned" => status[Root] = "done"

\* The frame of a coroutine may be destroyed, with the Task that owns it, once
\* everybody is past the awaits of it: the root's once SyncWait returns.
Released(c) ==
    LET awaits(d) == {i \in DOMAIN Script[d] : c \in ToSet(Script[d][i].on)}
    IN  IF c = Root THEN main = "returned"
        ELSE /\ \E d \in Coroutines : awaits(d) # {}
             /\ \A d \in Coroutines : \A i \in awaits(d) : i < step[d]

\* No frame goes away before its coroutine has ended, and none that a call still
\* uses: await_suspend looks at the child's promise after resume() has returned,
\* and StartTasks at the WhenAll object in the frame of the coroutine it has
\* suspended, while other threads already complete the tasks.
FramesOutlive ==
    /\ \A c \in Coroutines : Released(c) => status[c] = "done"
    /\ \A t \in Threads : \A i \in DOMAIN calls[t] :
        LET call == calls[t][i]
        IN  /\ call.op # "wake" => ~Released(call.co)
            /\ call.op \in {"link", "start"} =>
                  /\ status[call.co] = "suspended"
                  /\ \A d \in ToSet(call.on) : ~Released(d)

\* The exceptions that can leave await i of c, if those it awaits end as ends says.
Exceptions(ends, c, i) ==
    IF Script[c][i].op \in {"task", "all"}
    THEN (UNION {ends[d] : d \in ToSet(Script[c][i].on)}) \cap Coroutines
    ELSE {}

\* What c can end with then: the exception of one of those it awaits first that
\* fail, or its own, or its value.
EndsOf(ends, c) ==
    LET failing == {i \in DOMAIN Script[c] : Exceptions(ends, c, i) # {}}
    IN  IF failing # {} THEN Exceptions(ends, c, Min(failing))
        ELSE IF c \in Fails THEN {c} ELSE {"value"}

Outcomes[c \in Coroutines] == EndsOf(Outcomes, c)

\* Results reach those who await them, on whatever thread they are stored and
\* read: no exception is lost, swallowed, thrown where WhenReady forbids it, or
\* taken from a promise that is still empty.
ResultsDelivered ==
    \A c \in Coroutines :
        IF status[c] = "done" THEN result[c] \in Outcomes[c] ELSE result[c] = "empty"

\* SyncWait returns, if the scheduler runs what it is given: no completion is
\* lost between resume() and TrySetContinuation, between the start of the tasks
\* and TryAwait, or between the load of m_Value and the futex call.
SyncWaitReturns == <>(main = "returned")
=============================================================================
