------------------------ MODULE JobScheduler_proofs ------------------------
(***************************************************************************)
(* Theorems about JobScheduler for every number of workers, every finite   *)
(* set of external threads and every set of jobs, priorities and spawns.   *)
(***************************************************************************)
EXTENDS JobScheduler, FiniteSetTheorems, SequenceTheorems, TLAPS

-----------------------------------------------------------------------------
(* Facts about the operators of the model.                                 *)

\* lower_bound always has an index to return, whatever the order of the queue: the
\* first one that no higher priority is at.
LEMMA InsertionPointExists ==
    ASSUME NEW q \in Seq(Jobs), NEW j \in Jobs, priority \in [Jobs -> Priorities]
    PROVE  InsertionPoints(q, j) # {}
<1> DEFINE Stops == {i \in 1 .. Len(q) + 1 : i <= Len(q) => priority[q[i]] <= priority[j]}
<1>1. Len(q) \in Nat /\ \A i \in 1 .. Len(q) : q[i] \in Jobs
  BY LenProperties, ElementOfSeq
<1>2. Stops \subseteq Nat /\ Len(q) + 1 \in Stops
  BY <1>1
<1>3. PICK i \in Stops : \A k \in Stops : ~(k < i)
  <2> DEFINE Less == OpToRel(<, Nat)
  <2>1. \A x, y \in Nat : x < y => <<x, y>> \in Less
    BY Zenon DEF OpToRel
  <2>2. PICK i \in Stops : \A k \in Stops : ~(<<k, i>> \in Less)
    <3>1. Stops # {}
      BY <1>2
    <3> HIDE DEF Stops, Less
    <3> QED BY <1>2, <3>1, NatLessThanWellFounded, WFMin, Zenon DEF Less
  <2> HIDE DEF Less
  <2> QED BY <1>2, <2>1, <2>2
<1>4. i > 1 => priority[q[i - 1]] > priority[j]
  <2> SUFFICES ASSUME i > 1
               PROVE  priority[q[i - 1]] > priority[j]
    OBVIOUS
  <2>1. i - 1 \in 1 .. Len(q) /\ i - 1 < i
    BY <1>1
  <2>2. ~(priority[q[i - 1]] <= priority[j])
    BY <1>1, <1>3, <2>1
  <2>3. priority[q[i - 1]] \in Int /\ priority[j] \in Int
    BY <1>1, <2>1 DEF Priorities
  <2> QED BY <2>2, <2>3
<1>5. i \in InsertionPoints(q, j)
  BY <1>3, <1>4 DEF InsertionPoints
<1> QED BY <1>5

\* Enqueue puts the job at one of those indexes.
LEMMA EnqueuedAt ==
    ASSUME NEW q \in Seq(Jobs), NEW j \in Jobs, NEW r \in Enqueued(q, j)
    PROVE  \E i \in 1 .. Len(q) + 1 :
               /\ r = InsertAt(q, i, j)
               /\ i > 1 => priority[q[i - 1]] > priority[j]
               /\ i <= Len(q) => priority[q[i]] <= priority[j]
  BY DEF Enqueued, InsertionPoints

\* What insert puts where: the jobs before the position, the new job, the rest.
LEMMA InsertElements ==
    ASSUME NEW q \in Seq(Jobs), NEW j \in Jobs, NEW i \in 1 .. Len(q) + 1
    PROVE  /\ InsertAt(q, i, j) \in Seq(Jobs)
           /\ Len(InsertAt(q, i, j)) = Len(q) + 1
           /\ \A k \in 1 .. Len(q) + 1 :
                  InsertAt(q, i, j)[k] = IF k < i THEN q[k] ELSE IF k = i THEN j ELSE q[k - 1]
<1> DEFINE before == SubSeq(q, 1, i - 1)
           after == SubSeq(q, i, Len(q))
<1>1. Len(q) \in Nat /\ i \in 1 .. Len(q) + 1 /\ \A k \in 1 .. Len(q) : q[k] \in Jobs
  BY LenProperties, ElementOfSeq
<1>2. InsertAt(q, i, j) = (before \o <<j>>) \o after
  BY DEF InsertAt
<1>3. /\ before \in Seq(Jobs) /\ Len(before) = i - 1
      /\ \A k \in 1 .. i - 1 : before[k] = q[k]
  <2>1. \A k \in 1 .. i - 1 : q[k] \in Jobs
    BY <1>1
  <2>2. /\ before \in Seq(Jobs) /\ Len(before) = IF 1 <= i - 1 THEN (i - 1) - 1 + 1 ELSE 0
        /\ \A k \in 1 .. (i - 1) - 1 + 1 : before[k] = q[1 + k - 1]
    BY <1>1, <2>1, SubSeqProperties
  <2> HIDE DEF before
  <2> QED BY <1>1, <2>2
<1>4. /\ after \in Seq(Jobs) /\ Len(after) = Len(q) - i + 1
      /\ \A k \in 1 .. Len(q) - i + 1 : after[k] = q[i + k - 1]
  <2>1. \A k \in i .. Len(q) : q[k] \in Jobs
    BY <1>1
  <2>2. /\ after \in Seq(Jobs) /\ Len(after) = IF i <= Len(q) THEN Len(q) - i + 1 ELSE 0
        /\ \A k \in 1 .. Len(q) - i + 1 : after[k] = q[i + k - 1]
    BY <1>1, <2>1, SubSeqProperties
  <2> HIDE DEF after
  <2>3. Len(after) = Len(q) - i + 1
    BY <1>1, <2>2
  <2> QED BY <2>2, <2>3
<1>5. <<j>> \in Seq(Jobs) /\ Len(<<j>>) = 1 /\ <<j>>[1] = j
  OBVIOUS
<1> DEFINE left == before \o <<j>>
<1> HIDE DEF before, after
<1>6. /\ left \in Seq(Jobs) /\ Len(left) = i
      /\ \A k \in 1 .. i : left[k] = IF k < i THEN q[k] ELSE j
  <2>1. /\ left \in Seq(Jobs) /\ Len(left) = Len(before) + Len(<<j>>)
        /\ \A k \in 1 .. Len(before) + Len(<<j>>) :
               left[k] = IF k <= Len(before) THEN before[k] ELSE <<j>>[k - Len(before)]
    BY <1>3, <1>5, ConcatProperties
  <2> HIDE DEF left
  <2>2. Len(before) = i - 1 /\ Len(before) + Len(<<j>>) = i
    BY <1>1, <1>3, <1>5
  <2>3. ASSUME NEW k \in 1 .. i PROVE left[k] = IF k < i THEN q[k] ELSE j
    <3>1. left[k] = IF k <= i - 1 THEN before[k] ELSE <<j>>[k - (i - 1)]
      BY <2>1, <2>2, <2>3
    <3>2. CASE k < i
      BY <1>1, <1>3, <2>3, <3>1, <3>2
    <3>3. CASE k = i
      <4>1. ~(k <= i - 1) /\ k - (i - 1) = 1
        BY <1>1, <3>3
      <4> QED BY <1>5, <3>1, <3>3, <4>1
    <3> QED BY <1>1, <2>3, <3>2, <3>3
  <2> QED BY <2>1, <2>2, <2>3
<1> HIDE DEF left
<1>7. /\ left \o after \in Seq(Jobs)
      /\ Len(left \o after) = Len(left) + Len(after)
      /\ \A k \in 1 .. Len(left) + Len(after) :
             (left \o after)[k] = IF k <= Len(left) THEN left[k] ELSE after[k - Len(left)]
  BY <1>4, <1>6, ConcatProperties
<1>8. InsertAt(q, i, j) = left \o after
  BY <1>2 DEF left
<1> DEFINE r == InsertAt(q, i, j)
<1>9. /\ r \in Seq(Jobs) /\ Len(r) = Len(q) + 1
      /\ \A k \in 1 .. Len(q) + 1 : r[k] = IF k <= i THEN left[k] ELSE after[k - i]
  BY <1>1, <1>4, <1>6, <1>7, <1>8
<1> HIDE DEF r
<1>10. \A k \in 1 .. Len(q) + 1 : r[k] = IF k < i THEN q[k] ELSE IF k = i THEN j ELSE q[k - 1]
  <2> SUFFICES ASSUME NEW k \in 1 .. Len(q) + 1
               PROVE  r[k] = IF k < i THEN q[k] ELSE IF k = i THEN j ELSE q[k - 1]
    OBVIOUS
  <2>1. CASE k <= i
    BY <1>1, <1>6, <1>9, <2>1
  <2>2. CASE k > i
    <3>1. k - i \in 1 .. Len(q) - i + 1 /\ i + (k - i) - 1 = k - 1
      BY <1>1, <2>2
    <3>2. after[k - i] = q[k - 1]
      BY <1>4, <3>1
    <3> QED BY <1>1, <1>9, <2>2, <3>2
  <2> QED BY <1>1, <2>1, <2>2
<1> QED BY <1>9, <1>10 DEF r

\* Enqueue keeps the queue a sequence of jobs.
LEMMA EnqueuedType ==
    ASSUME NEW q \in Seq(Jobs), NEW j \in Jobs, NEW r \in Enqueued(q, j)
    PROVE  r \in Seq(Jobs)
  BY EnqueuedAt, InsertElements

\* The victim index stays an index, and never the thief's own.
LEMMA NextVictimIndex ==
    ASSUME NEW w \in Workers, NEW v \in 0 .. WorkerCount
    PROVE  /\ NextVictim(w, v) \in Workers
           /\ WorkerCount # 1 => NextVictim(w, v) # w
<1> DEFINE n == (v + 1) % WorkerCount
<1>1. WorkerCount \in Nat /\ WorkerCount > 0 /\ v \in Nat /\ w \in Nat /\ w < WorkerCount
  BY WorkerCountAssumption DEF Workers
<1>2. n \in Nat /\ n < WorkerCount
  BY <1>1
<1>3. (n + 1) % WorkerCount \in Nat /\ (n + 1) % WorkerCount < WorkerCount
  BY <1>1, <1>2
<1>4. CASE n # w
  BY <1>1, <1>2, <1>4 DEF NextVictim, Workers
<1>5. CASE n = w
  <2>1. (n + 1) % WorkerCount = IF n + 1 = WorkerCount THEN 0 ELSE n + 1
    BY <1>1, <1>2
  <2>2. WorkerCount # 1 => (n + 1) % WorkerCount # w
    BY <1>1, <1>2, <1>5, <2>1
  <2> QED BY <1>1, <1>3, <1>5, <2>2 DEF NextVictim, Workers
<1> QED BY <1>4, <1>5

\* The workers are threads; no external thread is one; both sets are finite.
LEMMA ThreadKinds ==
    /\ Workers \subseteq Int /\ Workers \subseteq Threads /\ Externals \subseteq Threads
    /\ 0 \in Workers /\ \A w \in Workers : w + 1 < WorkerCount => w + 1 \in Workers
    /\ \A t \in Threads : t \in Externals <=> t \notin Workers
    /\ IsFiniteSet(Workers) /\ IsFiniteSet(Threads)
<1>1. IsFiniteSet(Workers)
  BY WorkerCountAssumption, FS_Interval DEF Workers
<1>2. IsFiniteSet(Threads)
  BY <1>1, ThreadsAssumption, FS_Union DEF Threads
<1>3. Workers \subseteq Int /\ 0 \in Workers
  BY WorkerCountAssumption DEF Workers
<1>4. \A w \in Workers : w + 1 < WorkerCount => w + 1 \in Workers
  BY WorkerCountAssumption DEF Workers
<1>5. \A t \in Threads : t \in Externals <=> t \notin Workers
  BY <1>3, ThreadsAssumption DEF Threads
<1> QED BY <1>1, <1>2, <1>3, <1>4, <1>5 DEF Threads

-----------------------------------------------------------------------------
(* Type correctness.                                                       *)

\* What the steps change most: where a thread is.
PcType ==
    /\ pc \in [Threads -> WorkerPc \cup NotifyPc \cup {"run"}]
    /\ \A e \in Externals : pc[e] \in NotifyPc \cup {"run"}

\* A thread that moves to a place its kind has keeps every thread at such a place.
LEMMA GotoType ==
    ASSUME PcType, NEW t \in Threads, NEW label,
           \/ label \in NotifyPc \cup {"run"}
           \/ label \in WorkerPc /\ t \in Workers,
           Goto(t, label)
    PROVE  PcType'
  BY ThreadKinds DEF PcType, Goto

\* NotifyWorker's scan index stays an index of m_Threads, and the scan goes on or starts over.
LEMMA ScanType ==
    ASSUME scan \in [Threads -> Workers], NEW t \in Threads, NextScan(t)
    PROVE  /\ scan' \in [Threads -> Workers]
           /\ \/ Goto(t, "exchange")
              \/ Goto(t, "load")
  BY ThreadKinds DEF NextScan

\* A scheduler about to be constructed is well typed.
LEMMA TypeInit == Init => TypeOK
<1> SUFFICES ASSUME Init PROVE TypeOK
  OBVIOUS
<1>1. <<>> \in Seq(Jobs)
  BY EmptySeq
<1>2. WorkerCount \in Nat /\ WorkerCount > 0
  BY WorkerCountAssumption
<1>3. victim \in [Workers -> 0 .. WorkerCount] /\ attempt \in [Workers -> 0 .. 2 * WorkerCount - 1]
  BY <1>2 DEF Init
<1>4. PcType /\ ret \in [Threads -> ReturnPc] /\ \A e \in Externals : ret[e] = "run"
  BY ThreadKinds DEF Init, PcType, WorkerPc, NotifyPc, ReturnPc
<1>5. stack \in [Threads -> Seq(Jobs)] /\ localQueue \in [Workers -> Seq(Jobs)]
  BY <1>1 DEF Init
<1>6. priority \in [Jobs -> Priorities]
  BY JobsAssumption DEF Init
<1> QED BY <1>1, <1>3, <1>4, <1>5, <1>6, ThreadKinds DEF Init, TypeOK, PcType, OwnerPc

\* With one worker there is no thief; otherwise every victim index is another
\* worker's.  Without it StealHit could index past the queues: TypeOK alone is
\* not inductive.
ThiefOK ==
    \A w \in Workers :
        /\ WorkerCount # 1 => victim[w] \in Workers \ {w}
        /\ pc[w] = "steal" => WorkerCount # 1

\* ProcessJobs starts with the victim 1 for worker 0 and 0 for the others.
LEMMA ThiefInit == Init => ThiefOK
<1> SUFFICES ASSUME Init, NEW w \in Workers
             PROVE  /\ WorkerCount # 1 => victim[w] \in Workers \ {w}
                    /\ pc[w] = "steal" => WorkerCount # 1
  BY DEF ThiefOK
<1>1. WorkerCount # 1 => 1 \in Workers /\ 0 \in Workers
  BY WorkerCountAssumption DEF Workers
<1>2. victim[w] = IF w = 0 THEN 1 ELSE 0
  BY DEF Init
<1>3. pc[w] = "unborn"
  BY ThreadKinds DEF Init
<1> QED BY <1>1, <1>2, <1>3

\* A worker moves to "steal" or changes its victim by NoLocalJob or StealMiss only.
LEMMA ThiefNext == TypeOK /\ ThiefOK /\ [Next]_vars => ThiefOK'
<1> SUFFICES ASSUME TypeOK, ThiefOK, [Next]_vars PROVE ThiefOK'
  OBVIOUS
<1>0. pc \in [Threads -> WorkerPc \cup NotifyPc \cup {"run"}] /\ victim \in [Workers -> 0 .. WorkerCount]
  BY DEF TypeOK
<1>1. ASSUME NEW t \in Threads, NEW label, Goto(t, label), label = "steal" => WorkerCount # 1,
             UNCHANGED victim
      PROVE  ThiefOK'
  BY <1>0, <1>1, ThreadKinds DEF Goto, ThiefOK
<1>2. ASSUME UNCHANGED <<pc, victim>> PROVE ThiefOK'
  BY <1>2 DEF ThiefOK
<1>3. ASSUME Construct \/ Stop \/ Destroy \/ Freed PROVE ThiefOK'
  BY <1>1, <1>2, <1>3, ThreadKinds
  DEF Construct, SpawnThread, PushThread, PostStart, Stop, Destroy, ReleaseWorker, Join, Freed,
      vars, steal, TypeOK
<1>4. ASSUME NEW t \in Threads, NotifyWorker(t) PROVE ThiefOK'
  <2>1. ret[t] # "steal"
    BY DEF TypeOK, ReturnPc
  <2> QED BY <1>1, <1>4, <2>1
    DEF NotifyWorker, NotifyLoad, NotifyExchange, NotifyDecrement, NotifyPost, NextScan, steal
<1>5. ASSUME NEW t \in Threads, Running(t) PROVE ThiefOK'
  BY <1>1, <1>2, <1>5
  DEF Running, ScheduleEmpty, ScheduleLocal, ScheduleGlobal, CallNotify, Finish, AfterExecute, steal
<1>6. ASSUME NEW w \in Workers, StealMiss(w) PROVE ThiefOK'
  <2>1. WorkerCount # 1 => NextVictim(w, victim[w]) \in Workers \ {w}
    BY <1>0, NextVictimIndex
  <2> QED BY <1>0, <1>6, <2>1, ThreadKinds DEF StealMiss, Goto, ThiefOK
<1>7. ASSUME NEW w \in Workers, SelfSteal(w) PROVE ThiefOK'
  BY <1>1, <1>7, ThreadKinds DEF SelfSteal, NoLocalJob, TakeLocalJob, CallNotify, steal
<1>8. ASSUME NEW w \in Workers,
             Start(w) \/ ExitCheck(w) \/ FirstEmpty(w) \/ SecondEmpty(w) \/ CountSleeper(w)
             \/ MarkSleeping(w) \/ Acquire(w) \/ DequeueGlobal(w) \/ StealHit(w)
      PROVE  ThiefOK'
  BY <1>1, <1>8, ThreadKinds
  DEF Start, ExitCheck, FirstEmpty, SecondEmpty, CountSleeper, MarkSleeping, Acquire,
      DequeueGlobal, StealHit, CallNotify, steal
<1>9. CASE Prioritize \/ UNCHANGED vars
  BY <1>2, <1>9 DEF Prioritize, SetPriority, vars, steal
<1> QED
  BY <1>3, <1>4, <1>5, <1>6, <1>7, <1>8, <1>9, ThreadKinds DEF Next, Worker, External

\* Every step keeps the types; stealing needs a victim that is a worker.
LEMMA TypeNext == TypeOK /\ ThiefOK /\ [Next]_vars => TypeOK'
<1> SUFFICES ASSUME TypeOK, ThiefOK, [Next]_vars PROVE TypeOK'
  OBVIOUS
<1> USE DEF TypeOK, queues, order, sleep, owner, notify, steal, history
<1>0. PcType /\ ThiefOK
  BY DEF PcType
<1>1. ASSUME SpawnThread PROVE TypeOK'
  <2>1. PcType'
    BY <1>0, <1>1, GotoType, ThreadKinds DEF SpawnThread, WorkerPc
  <2> QED BY <1>1, <2>1 DEF SpawnThread, OwnerPc, PcType
<1>2. ASSUME PushThread PROVE TypeOK'
  BY <1>2, ThreadKinds DEF PushThread, OwnerLoop, OwnerPc
<1>3. ASSUME PostStart PROVE TypeOK'
  <2>1. startPermits' \in Nat
    BY <1>3, WorkerCountAssumption DEF PostStart
  <2> QED BY <1>3, <2>1 DEF PostStart, OwnerPc
<1>4. ASSUME Stop PROVE TypeOK'
  BY <1>4 DEF Stop, OwnerPc
<1>5. ASSUME ReleaseWorker PROVE TypeOK'
  BY <1>5 DEF ReleaseWorker, OwnerPc
<1>6. ASSUME Join PROVE TypeOK'
  BY <1>6, ThreadKinds DEF Join, OwnerLoop, OwnerPc
<1>7. ASSUME NEW t \in Threads, NotifyLoad(t) PROVE TypeOK'
  <2>1. PcType'
    BY <1>0, <1>7, GotoType, ThreadKinds DEF NotifyLoad, NotifyPc, ReturnPc, WorkerPc
  <2>2. ret' \in [Threads -> ReturnPc] /\ \A e \in Externals : ret'[e] = "run"
    BY <1>7, ThreadKinds DEF NotifyLoad, ReturnPc
  <2> QED BY <1>7, <2>1, <2>2 DEF NotifyLoad, PcType
<1>8. ASSUME NEW t \in Threads, NotifyExchange(t) PROVE TypeOK'
  <2>1. PcType' /\ scan' \in [Threads -> Workers]
    BY <1>0, <1>8, GotoType, ScanType DEF NotifyExchange, NotifyPc
  <2>2. isSleeping' \in [Workers -> BOOLEAN]
    BY <1>8 DEF NotifyExchange
  <2>3. UNCHANGED <<queues, sleepingCount, permits, owner, ret, steal, stack, history>>
    BY <1>8 DEF NotifyExchange
  <2> QED BY <2>1, <2>2, <2>3 DEF PcType
<1>9. ASSUME NEW t \in Threads, NotifyDecrement(t) PROVE TypeOK'
  <2>1. PcType'
    BY <1>0, <1>9, GotoType DEF NotifyDecrement, NotifyPc
  <2>2. sleepingCount' \in Int
    BY <1>9 DEF NotifyDecrement
  <2>3. UNCHANGED <<queues, isSleeping, permits, owner, notify, steal, stack, history>>
    BY <1>9 DEF NotifyDecrement
  <2> QED BY <2>1, <2>2, <2>3 DEF PcType
<1>10. ASSUME NEW t \in Threads, NotifyPost(t) PROVE TypeOK'
  <2>1. PcType' /\ scan' \in [Threads -> Workers]
    BY <1>0, <1>10, GotoType, ScanType DEF NotifyPost, NotifyPc
  <2>2. permits' \in [Workers -> Nat]
    BY <1>10 DEF NotifyPost
  <2> QED BY <1>10, <2>1, <2>2 DEF NotifyPost, PcType
<1>11. ASSUME NEW t \in Threads, NEW k \in Jobs, ScheduleEmpty(t, k) PROVE TypeOK'
  <2>1. stack' \in [Threads -> Seq(Jobs)]
    BY <1>11, AppendProperties DEF ScheduleEmpty
  <2> QED BY <1>11, <2>1 DEF ScheduleEmpty
<1>12. ASSUME NEW t \in Threads, NEW k \in Jobs, ScheduleLocal(t, k) PROVE TypeOK'
  <2>1. PICK q \in Seq(Jobs) : localQueue' = [localQueue EXCEPT ![t] = q]
    BY <1>12, EnqueuedType DEF ScheduleLocal
  <2>2. PcType'
    BY <1>0, <1>12, GotoType DEF ScheduleLocal, CallNotify, NotifyPc
  <2>3. ret' \in [Threads -> ReturnPc] /\ \A e \in Externals : ret'[e] = "run"
    BY <1>12, ThreadKinds DEF ScheduleLocal, CallNotify, ReturnPc
  <2>4. localQueue' \in [Workers -> Seq(Jobs)]
    BY <2>1
  <2>5. disturbed' \subseteq Jobs /\ UNCHANGED priority
    BY <1>12 DEF ScheduleLocal, NoteDisturbed
  <2> QED BY <1>12, <2>2, <2>3, <2>4, <2>5 DEF ScheduleLocal, CallNotify, PcType
<1>13. ASSUME NEW t \in Threads, NEW k \in Jobs, ScheduleGlobal(t, k) PROVE TypeOK'
  <2>1. globalQueue' \in Seq(Jobs) /\ disturbed' \subseteq Jobs /\ UNCHANGED priority
    BY <1>13, EnqueuedType DEF ScheduleGlobal, NoteDisturbed
  <2>2. PcType'
    BY <1>0, <1>13, GotoType DEF ScheduleGlobal, CallNotify, NotifyPc
  <2>3. ret' \in [Threads -> ReturnPc] /\ \A e \in Externals : ret'[e] = "run"
    BY <1>13, ThreadKinds DEF ScheduleGlobal, CallNotify, ReturnPc
  <2> QED BY <1>13, <2>1, <2>2, <2>3 DEF ScheduleGlobal, CallNotify, PcType
<1>14. ASSUME NEW t \in Threads, Finish(t) PROVE TypeOK'
  <2>1. Len(stack[t]) \in Nat \ {0} /\ \A i \in 1 .. Len(stack[t]) : stack[t][i] \in Jobs
    BY <1>14, EmptySeq, ElementOfSeq DEF Finish, Idle
  <2>2. Last(stack[t]) \in Jobs
    BY <2>1 DEF Last
  <2>3. Front(stack[t]) \in Seq(Jobs)
    <3>1. \A i \in 1 .. Len(stack[t]) - 1 : stack[t][i] \in Jobs
      BY <2>1
    <3>2. Len(stack[t]) - 1 \in Int
      BY <2>1
    <3> QED BY <3>1, <3>2, SubSeqProperties DEF Front
  <2>4. PcType'
    BY <1>0, <1>14, GotoType DEF Finish, AfterExecute, WorkerPc
  <2> QED BY <1>14, <2>2, <2>3, <2>4 DEF Finish, PcType
<1>15. ASSUME NEW w \in Workers, Start(w) PROVE TypeOK'
  <2>1. PcType'
    BY <1>0, <1>15, GotoType, ThreadKinds DEF Start, WorkerPc, NotifyPc
  <2>2. startPermits' \in Nat
    BY <1>15 DEF Start
  <2> QED BY <1>15, <2>1, <2>2 DEF Start, PcType
<1>16. ASSUME NEW w \in Workers, ExitCheck(w) PROVE TypeOK'
  <2>1. PcType'
    BY <1>0, <1>16, GotoType, ThreadKinds DEF ExitCheck, WorkerPc, NotifyPc
  <2> QED BY <1>16, <2>1, ThreadKinds DEF ExitCheck, PcType
<1>17. ASSUME NEW w \in Workers, FirstEmpty(w) PROVE TypeOK'
  <2>1. PcType'
    BY <1>0, <1>17, GotoType, ThreadKinds DEF FirstEmpty, WorkerPc, NotifyPc, CallNotify
  <2> QED BY ZenonT(30), <1>17, <2>1, ThreadKinds DEF FirstEmpty, PcType, CallNotify, ReturnPc
<1>18. ASSUME NEW w \in Workers, SecondEmpty(w) PROVE TypeOK'
  <2>1. PcType'
    BY <1>0, <1>18, GotoType, ThreadKinds DEF SecondEmpty, WorkerPc, NotifyPc
  <2> QED BY <1>18, <2>1, ThreadKinds DEF SecondEmpty, PcType
<1>19. ASSUME NEW w \in Workers, CountSleeper(w) PROVE TypeOK'
  <2>1. PcType'
    BY <1>0, <1>19, GotoType, ThreadKinds DEF CountSleeper, WorkerPc, NotifyPc
  <2>2. sleepingCount' \in Int
    BY <1>19 DEF CountSleeper
  <2> QED BY <1>19, <2>1, <2>2 DEF CountSleeper, PcType
<1>20. ASSUME NEW w \in Workers, MarkSleeping(w) PROVE TypeOK'
  <2>1. PcType'
    BY <1>0, <1>20, GotoType, ThreadKinds DEF MarkSleeping, WorkerPc, NotifyPc
  <2> QED BY <1>20, <2>1, ThreadKinds DEF MarkSleeping, PcType
<1>21. ASSUME NEW w \in Workers, Acquire(w) PROVE TypeOK'
  <2>1. PcType'
    BY <1>0, <1>21, GotoType, ThreadKinds DEF Acquire, WorkerPc, NotifyPc
  <2>2. permits' \in [Workers -> Nat]
    BY SMTT(30), <1>21 DEF Acquire
  <2> QED BY <1>21, <2>1, <2>2 DEF Acquire, PcType
<1>22. ASSUME NEW w \in Workers, DequeueGlobal(w) PROVE TypeOK'
  <2>1. globalQueue # <<>> => Tail(globalQueue) \in Seq(Jobs) /\ Head(globalQueue) \in Jobs
    BY HeadTailProperties
  <2>2. PcType'
    BY <1>0, <1>22, GotoType, ThreadKinds DEF DequeueGlobal, WorkerPc
  <2>3. globalQueue' \in Seq(Jobs)
    BY <1>22, <2>1 DEF DequeueGlobal
  <2>4. stack' \in [Threads -> Seq(Jobs)]
    <3>1. globalQueue # <<>> => <<Head(globalQueue)>> \in Seq(Jobs)
      BY <2>1
    <3> QED BY ZenonT(30), <1>22, <3>1, ThreadKinds DEF DequeueGlobal
  <2> QED BY <1>22, <2>2, <2>3, <2>4 DEF DequeueGlobal, PcType
<1>23. ASSUME NEW w \in Workers, SelfSteal(w) PROVE TypeOK'
  <2>1. ASSUME TakeLocalJob(w)
        PROVE  localQueue' \in [Workers -> Seq(Jobs)] /\ stack' \in [Threads -> Seq(Jobs)]
    <3>1. Tail(localQueue[w]) \in Seq(Jobs) /\ <<Head(localQueue[w])>> \in Seq(Jobs)
      BY <2>1, HeadTailProperties DEF TakeLocalJob
    <3> QED BY <2>1, <3>1, ThreadKinds DEF TakeLocalJob
  <2>2. CASE NoLocalJob(w)
    <3>1. PcType'
      BY <1>0, <2>2, GotoType, ThreadKinds DEF NoLocalJob, WorkerPc
    <3> QED BY <1>23, <2>2, <3>1 DEF SelfSteal, NoLocalJob, PcType
  <2>3. CASE TakeLocalJob(w) /\ Goto(w, "run") /\ UNCHANGED notify
    <3>1. PcType'
      BY <1>0, <2>3, GotoType, ThreadKinds
    <3> QED BY <1>23, <2>1, <2>3, <3>1 DEF SelfSteal, PcType
  <2>4. CASE TakeLocalJob(w) /\ CallNotify(w, "run")
    <3>1. PcType'
      BY <1>0, <2>4, GotoType, ThreadKinds DEF CallNotify, NotifyPc
    <3>2. ret' \in [Threads -> ReturnPc] /\ \A e \in Externals : ret'[e] = "run"
      BY <2>4, ThreadKinds DEF CallNotify, ReturnPc
    <3> QED BY <1>23, <2>1, <2>4, <3>1, <3>2 DEF SelfSteal, CallNotify, PcType
  <2> QED BY <1>23, <2>2, <2>3, <2>4 DEF SelfSteal
<1>24. ASSUME NEW w \in Workers, StealHit(w) PROVE TypeOK'
  <2> DEFINE v == victim[w]
  <2>1. PcType'
    BY <1>0, <1>24, GotoType, ThreadKinds DEF StealHit
  <2>2. attempt' \in [Workers -> 0 .. 2 * WorkerCount - 1]
    <3>1. 0 \in 0 .. 2 * WorkerCount - 1
      BY WorkerCountAssumption
    <3> QED BY <1>24, <3>1 DEF StealHit
  <2>3. v \in Workers
    BY <1>24, <1>0 DEF StealHit, ThiefOK
  <2>4. Tail(localQueue[v]) \in Seq(Jobs) /\ Head(localQueue[v]) \in Jobs
    BY <1>24, <2>3, HeadTailProperties DEF StealHit
  <2>5. stack' \in [Threads -> Seq(Jobs)] /\ localQueue' \in [Workers -> Seq(Jobs)]
    <3>1. <<Head(localQueue[v])>> \in Seq(Jobs)
      BY <2>4
    <3> QED BY <1>24, <2>3, <2>4, <3>1, ThreadKinds DEF StealHit
  <2> QED BY <1>24, <2>1, <2>2, <2>5 DEF StealHit, PcType
<1>25. ASSUME NEW w \in Workers, StealMiss(w) PROVE TypeOK'
  <2>1. NextVictim(w, victim[w]) \in 0 .. WorkerCount
    <3>1. NextVictim(w, victim[w]) \in Workers
      BY NextVictimIndex
    <3> QED BY <3>1, WorkerCountAssumption DEF Workers
  <2>2. (attempt[w] + 1) % (2 * WorkerCount) \in 0 .. 2 * WorkerCount - 1
    <3>1. 2 * WorkerCount \in Nat /\ 2 * WorkerCount > 0 /\ attempt[w] + 1 \in Nat
      BY WorkerCountAssumption
    <3>2. \A a, n \in Nat : n > 0 => a % n \in 0 .. n - 1
      OBVIOUS
    <3> QED BY <3>1, <3>2
  <2>3. PcType'
    BY <1>0, <1>25, GotoType, ThreadKinds DEF StealMiss, WorkerPc
  <2> QED BY <1>25, <2>1, <2>2, <2>3 DEF StealMiss, PcType
<1>26. CASE UNCHANGED vars
  BY <1>26 DEF vars
<1>27. ASSUME Prioritize PROVE TypeOK'
  BY <1>27 DEF Prioritize, SetPriority
<1> QED
  BY <1>1, <1>2, <1>3, <1>4, <1>5, <1>6, <1>7, <1>8, <1>9, <1>10, <1>11, <1>12, <1>13, <1>14,
     <1>15, <1>16, <1>17, <1>18, <1>19, <1>20, <1>21, <1>22, <1>23, <1>24, <1>25, <1>26, <1>27, ThreadKinds
  DEF Next, Construct, Destroy, Freed, Worker, External, NotifyWorker, Running

-----------------------------------------------------------------------------
(* The owner: the constructor comes before the workers, the destructor     *)
(* after m_ShouldExit.                                                     *)

OwnerOK ==
    /\ shouldExit <=> ownerPc \in {"release", "join", "freed"}
    /\ ownerPc \in {"postStart", "alive", "freed"} => ownerIndex = 0
    /\ ownerPc \in {"spawn", "push", "postStart"} =>
           startPermits = 0 /\ \A w \in Workers : pc[w] \in {"unborn", "start"}

\* The constructor starts with no worker spawned and m_ShouldExit false.
LEMMA OwnerInit == Init => OwnerOK
  BY ThreadKinds DEF Init, OwnerOK

\* Before the constructor posts m_Semaphore a worker can do nothing at all.
LEMMA OwnerNext == TypeOK /\ OwnerOK /\ [Next]_vars => OwnerOK'
<1> SUFFICES ASSUME TypeOK, OwnerOK, [Next]_vars PROVE OwnerOK'
  OBVIOUS
<1>0. pc \in [Threads -> WorkerPc \cup NotifyPc \cup {"run"}] /\ ownerIndex \in Workers
  BY DEF TypeOK
<1>1. ASSUME SpawnThread PROVE OwnerOK'
  BY <1>0, <1>1, ThreadKinds DEF SpawnThread, OwnerOK, Goto
<1>2. ASSUME PushThread \/ PostStart \/ Stop \/ ReleaseWorker \/ Join \/ UNCHANGED vars PROVE OwnerOK'
  BY <1>2 DEF PushThread, PostStart, Stop, ReleaseWorker, Join, OwnerLoop, OwnerOK, vars, owner
<1>3. ASSUME UNCHANGED <<shouldExit, ownerPc, ownerIndex>>, ownerPc \notin {"spawn", "push", "postStart"}
      PROVE  OwnerOK'
  BY <1>3 DEF OwnerOK
<1>4. ASSUME UNCHANGED owner, NEW e \in Externals, NEW label, Goto(e, label) PROVE OwnerOK'
  BY <1>0, <1>4, ThreadKinds DEF owner, Goto, OwnerOK
<1>5. ASSUME UNCHANGED <<owner, pc>> PROVE OwnerOK'
  BY <1>5 DEF owner, OwnerOK
<1>6. ASSUME NEW w \in Workers, Worker(w) PROVE OwnerOK'
  <2>1. ownerPc \notin {"spawn", "push", "postStart"}
    BY <1>6, ThreadKinds
    DEF OwnerOK, Worker, Start, ExitCheck, FirstEmpty, SecondEmpty, CountSleeper, MarkSleeping, Acquire,
        DequeueGlobal, SelfSteal, StealHit, StealMiss, NotifyWorker, NotifyLoad, NotifyExchange,
        NotifyDecrement, NotifyPost, Running, ScheduleEmpty, ScheduleLocal, ScheduleGlobal,
        MaySchedule, Finish
  <2>2. UNCHANGED <<shouldExit, ownerPc, ownerIndex>>
    BY <1>6
    DEF owner, Worker, Start, ExitCheck, FirstEmpty, SecondEmpty, CountSleeper, MarkSleeping, Acquire,
        DequeueGlobal, SelfSteal, StealHit, StealMiss, NotifyWorker, NotifyLoad, NotifyExchange,
        NotifyDecrement, NotifyPost, Running, ScheduleEmpty, ScheduleLocal, ScheduleGlobal, Finish
  <2> QED BY <1>3, <2>1, <2>2
<1>7. ASSUME NEW e \in Externals, External(e) PROVE OwnerOK'
  BY <1>4, <1>5, <1>7
  DEF External, NotifyWorker, NotifyLoad, NotifyExchange, NotifyDecrement, NotifyPost, NextScan, Running,
      ScheduleEmpty, ScheduleLocal, ScheduleGlobal, CallNotify, Finish, AfterExecute
<1>8. ASSUME Prioritize PROVE OwnerOK'
  BY <1>5, <1>8 DEF Prioritize, SetPriority
<1> QED BY <1>1, <1>2, <1>6, <1>7, <1>8 DEF Next, Construct, Destroy, Freed

-----------------------------------------------------------------------------
(* Sleeping and waking.  WakeTokens and SleepAccounting each need to know  *)
(* that a mark is on a parked worker (or one that is leaving for good),    *)
(* and that needs WakeTokens: the three are inductive together.            *)

MarkedIsParked ==
    \A w \in Workers :
        isSleeping[w] => pc[w] = "wait" \/ (shouldExit /\ pc[w] \in {"woken", "exited"})

SleepOK == MarkedIsParked /\ WakeTokens /\ SleepAccounting

\* At first nobody sleeps, nobody is counted and every semaphore is empty.
LEMMA SleepInit == Init => SleepOK
<1> SUFFICES ASSUME Init PROVE SleepOK
  OBVIOUS
<1>1. MarkedIsParked
  BY DEF Init, MarkedIsParked
<1>2. \A t \in Threads : pc[t] \in {"unborn", "run"}
  BY DEF Init
<1>3. \A w \in Workers : Wakers(w) = {}
  BY <1>2 DEF Wakers
<1>4. Counted = {} /\ Uncounting = {}
  BY <1>2, ThreadKinds DEF Counted, Uncounting, Init
<1>5. WakeTokens
  BY <1>2, <1>3, ThreadKinds, FS_EmptySet DEF WakeTokens, Init, Count, Released
<1>6. SleepAccounting
  BY <1>4, FS_EmptySet DEF SleepAccounting, Init
<1> QED BY <1>1, <1>5, <1>6 DEF SleepOK

\* The sets the two counts are taken over are finite.
LEMMA SleepSetsFinite ==
    /\ \A w \in Workers : IsFiniteSet(Wakers(w)) /\ Cardinality(Wakers(w)) \in Nat
    /\ IsFiniteSet(Counted) /\ Cardinality(Counted) \in Nat
    /\ IsFiniteSet(Uncounting) /\ Cardinality(Uncounting) \in Nat
<1>1. \A w \in Workers : Wakers(w) \in SUBSET Threads
  BY DEF Wakers
<1>2. Counted \in SUBSET Workers /\ Uncounting \in SUBSET Threads
  BY DEF Counted, Uncounting
<1> QED BY <1>1, <1>2, ThreadKinds, FS_Subset, FS_CardinalityType

\* WakeTokens for one worker.
Balanced(w) ==
    Count(isSleeping[w]) + permits[w] + Cardinality(Wakers(w)) = Count(pc[w] = "wait") + Count(Released(w))

\* A step that takes a thread between two places of no account: not marking, not
\* parked, not holding a mark.
LEMMA NeutralStep ==
    ASSUME TypeOK, SleepOK, NEW t \in Threads, NEW label, Goto(t, label),
           UNCHANGED sleep, shouldExit => shouldExit',
           \A w \in Workers : Released(w)' <=> Released(w),
           \A u \in Threads \ {t} : scan'[u] = scan[u],
           pc[t] \notin {"setSleep", "wait", "decrement", "post"},
           label \notin {"setSleep", "wait", "decrement", "post"},
           pc[t] = "exited" => label = "exited",
           pc[t] = "woken" /\ shouldExit => label = "exited"
    PROVE  SleepOK'
<1>1. /\ pc'[t] = label
      /\ \A u \in Threads \ {t} : pc'[u] = pc[u]
  BY DEF Goto, TypeOK
<1>2. \A w \in Workers : Wakers(w)' = Wakers(w)
  BY <1>1 DEF Wakers
<1>3. Counted' = Counted
  BY <1>1, ThreadKinds DEF Counted, sleep
<1>4. Uncounting' = Uncounting
  BY <1>1 DEF Uncounting
<1>5. WakeTokens'
  BY <1>1, <1>2, ThreadKinds DEF SleepOK, WakeTokens, sleep, Count
<1>6. SleepAccounting'
  BY <1>3, <1>4 DEF SleepOK, SleepAccounting, sleep
<1>7. MarkedIsParked'
  BY <1>1, ThreadKinds DEF SleepOK, MarkedIsParked, sleep
<1> QED BY <1>5, <1>6, <1>7 DEF SleepOK

\* A step of a thread that stays where it is.
LEMMA StillStep ==
    ASSUME TypeOK, SleepOK, UNCHANGED <<sleep, pc, scan>>, shouldExit => shouldExit',
           \A w \in Workers : Released(w)' <=> Released(w)
    PROVE  SleepOK'
<1>1. (\A w \in Workers : Wakers(w)' = Wakers(w)) /\ Counted' = Counted /\ Uncounting' = Uncounting
  BY DEF Wakers, Counted, Uncounting, sleep
<1> QED BY <1>1 DEF SleepOK, MarkedIsParked, WakeTokens, SleepAccounting, Count, sleep

\* Every step keeps the marks, the counter and the semaphores in balance.
LEMMA SleepNext == TypeOK /\ OwnerOK /\ SleepOK /\ [Next]_vars => SleepOK'
<1> SUFFICES ASSUME TypeOK, OwnerOK, SleepOK, [Next]_vars PROVE SleepOK'
  OBVIOUS
<1>0. /\ pc \in [Threads -> WorkerPc \cup NotifyPc \cup {"run"}] /\ scan \in [Threads -> Workers]
      /\ isSleeping \in [Workers -> BOOLEAN] /\ permits \in [Workers -> Nat]
      /\ sleepingCount \in Int /\ ownerIndex \in Workers
      /\ MarkedIsParked /\ WakeTokens /\ SleepAccounting
  BY DEF TypeOK, SleepOK

(* The owner. *)
<1>1. ASSUME SpawnThread PROVE SleepOK'
  <2>1. pc[ownerIndex] \in {"unborn", "start"} /\ ownerIndex \in Threads
    BY <1>0, <1>1, ThreadKinds DEF SpawnThread, OwnerOK
  <2>2. \A w \in Workers : Released(w)' <=> Released(w)
    BY <1>1 DEF SpawnThread, Released
  <2> QED BY <1>1, <2>1, <2>2, NeutralStep DEF SpawnThread, notify
<1>2. ASSUME PushThread \/ PostStart \/ Stop \/ Join PROVE SleepOK'
  <2>1. \A w \in Workers : Released(w)' <=> Released(w)
    <3>1. CASE PushThread
      BY <3>1 DEF PushThread, OwnerLoop, Released
    <3>2. CASE PostStart
      BY <3>2 DEF PostStart, Released
    <3>3. CASE Stop
      BY <3>3 DEF Stop, OwnerOK, Released, Workers
    <3>4. CASE Join
      BY <1>0, <3>4, WorkerCountAssumption DEF Join, OwnerLoop, Released, Workers
    <3> QED BY <1>2, <3>1, <3>2, <3>3, <3>4
  <2> QED BY <1>2, <2>1, StillStep DEF PushThread, PostStart, Stop, Join, notify, sleep
<1>3. ASSUME ReleaseWorker PROVE SleepOK'
  <2>1. UNCHANGED <<sleepingCount, isSleeping, pc, scan, shouldExit>>
    BY <1>3 DEF ReleaseWorker, notify
  <2>2. (\A w \in Workers : Wakers(w)' = Wakers(w)) /\ Counted' = Counted /\ Uncounting' = Uncounting
    BY <2>1 DEF Wakers, Counted, Uncounting
  <2>3. \A w \in Workers : permits'[w] + Count(Released(w)) = permits[w] + Count(Released(w)')
    BY <1>0, <1>3 DEF ReleaseWorker, Released, Count, Workers
  <2>4. WakeTokens'
    <3> SUFFICES ASSUME NEW v \in Workers PROVE Balanced(v)'
      BY DEF WakeTokens, Balanced
    <3>1. Balanced(v) /\ permits[v] \in Nat /\ permits'[v] \in Nat /\ Cardinality(Wakers(v)) \in Nat
      BY <1>0, <1>3, SleepSetsFinite DEF WakeTokens, Balanced, ReleaseWorker
    <3> QED BY <2>1, <2>2, <2>3, <3>1 DEF Balanced, Count
  <2> QED BY <1>0, <2>1, <2>2, <2>4 DEF SleepOK, MarkedIsParked, SleepAccounting

(* NotifyWorker. *)
<1>4. ASSUME UNCHANGED owner PROVE (shouldExit => shouldExit') /\ \A w \in Workers : Released(w)' <=> Released(w)
  BY <1>4 DEF owner, Released
<1>5. ASSUME NEW t \in Threads, NotifyLoad(t) PROVE SleepOK'
  <2>1. ret[t] \in ReturnPc
    BY DEF TypeOK
  <2> QED BY <1>4, <1>5, <2>1, NeutralStep DEF NotifyLoad, ReturnPc
<1>6. ASSUME NEW t \in Threads, NotifyExchange(t), ~isSleeping[scan[t]] PROVE SleepOK'
  <2>1. UNCHANGED sleep
    BY <1>0, <1>6 DEF NotifyExchange, sleep
  <2>2. \A u \in Threads \ {t} : scan'[u] = scan[u]
    BY <1>0, <1>6 DEF NotifyExchange, NextScan
  <2> QED BY <1>4, <1>6, <2>1, <2>2, NeutralStep DEF NotifyExchange, NextScan
<1>7. ASSUME NEW t \in Threads, NotifyExchange(t), isSleeping[scan[t]] PROVE SleepOK'
  <2>0. PICK s \in Workers : s = scan[t]
    BY <1>0
  <2>1. s = scan[t] /\ pc[t] = "exchange" /\ UNCHANGED <<scan, sleepingCount, permits, shouldExit>>
    BY <1>7, <2>0 DEF NotifyExchange, owner
  <2>2. pc' = [pc EXCEPT ![t] = "decrement"] /\ isSleeping' = [isSleeping EXCEPT ![s] = FALSE]
    BY <1>7, <2>0 DEF NotifyExchange, Goto
  <2>3. pc[s] \in {"wait", "woken", "exited"}
    BY <1>0, <1>7, <2>1 DEF MarkedIsParked
  <2>4. Counted' = Counted \ {s} /\ s \in Counted
    BY <1>0, <1>7, <2>1, <2>2, <2>3, ThreadKinds DEF Counted
  <2>5. Uncounting' = Uncounting \cup {t} /\ t \notin Uncounting
    BY <1>0, <2>1, <2>2 DEF Uncounting
  <2>6. Wakers(s)' = Wakers(s) \cup {t} /\ t \notin Wakers(s)
    BY <1>0, <2>1, <2>2 DEF Wakers
  <2>7. \A w \in Workers \ {s} : Wakers(w)' = Wakers(w)
    BY <1>0, <2>1, <2>2 DEF Wakers
  <2>8. SleepAccounting'
    <3>1. Cardinality(Counted') = Cardinality(Counted) - 1
      BY <2>4, SleepSetsFinite, FS_RemoveElement
    <3>2. Cardinality(Uncounting') = Cardinality(Uncounting) + 1
      BY <2>5, SleepSetsFinite, FS_AddElement
    <3> QED BY <1>0, <2>1, <3>1, <3>2, SleepSetsFinite DEF SleepAccounting
  <2>9. Cardinality(Wakers(s)') = Cardinality(Wakers(s)) + 1
    BY <2>1, <2>6, SleepSetsFinite, FS_AddElement
  <2>10. \A w \in Workers : (pc'[w] = "wait" <=> pc[w] = "wait") /\ (Released(w)' <=> Released(w))
    BY <1>0, <1>4, <1>7, <2>1, <2>2, ThreadKinds DEF NotifyExchange
  <2>11. WakeTokens'
    <3>1. isSleeping[s] /\ ~isSleeping'[s] /\ \A w \in Workers \ {s} : isSleeping'[w] = isSleeping[w]
      BY <1>0, <1>7, <2>1, <2>2
    <3> SUFFICES ASSUME NEW v \in Workers PROVE Balanced(v)'
      BY DEF WakeTokens, Balanced
    <3>2. Balanced(v) /\ permits[v] \in Nat /\ Cardinality(Wakers(v)) \in Nat
      BY <1>0, SleepSetsFinite DEF WakeTokens, Balanced
    <3>3. CASE v = s
      BY <2>1, <2>9, <2>10, <3>1, <3>2, <3>3 DEF Balanced, Count
    <3>4. CASE v # s
      BY <2>1, <2>7, <2>10, <3>1, <3>2, <3>4 DEF Balanced, Count
    <3> QED BY <3>3, <3>4
  <2>12. MarkedIsParked'
    BY <1>0, <2>1, <2>2, ThreadKinds DEF MarkedIsParked
  <2> QED BY <2>8, <2>11, <2>12 DEF SleepOK
<1>8. ASSUME NEW t \in Threads, NotifyDecrement(t) PROVE SleepOK'
  <2>1. pc[t] = "decrement" /\ UNCHANGED <<scan, isSleeping, permits, shouldExit>>
        /\ sleepingCount' = sleepingCount - 1 /\ pc' = [pc EXCEPT ![t] = "post"]
    BY <1>8 DEF NotifyDecrement, notify, owner, Goto
  <2>2. Uncounting' = Uncounting \ {t} /\ t \in Uncounting
    BY <1>0, <2>1 DEF Uncounting
  <2>3. Counted' = Counted
    BY <1>0, <2>1, ThreadKinds DEF Counted
  <2>4. \A w \in Workers : Wakers(w)' = Wakers(w)
    BY <1>0, <2>1 DEF Wakers
  <2>5. SleepAccounting'
    <3>1. Cardinality(Uncounting') = Cardinality(Uncounting) - 1
      BY <2>2, SleepSetsFinite, FS_RemoveElement
    <3> QED BY <1>0, <2>1, <2>3, <3>1, SleepSetsFinite DEF SleepAccounting
  <2>6. \A w \in Workers : (pc'[w] = "wait" <=> pc[w] = "wait") /\ (Released(w)' <=> Released(w))
    BY <1>0, <1>4, <1>8, <2>1, ThreadKinds DEF NotifyDecrement
  <2>7. WakeTokens'
    BY <1>0, <2>1, <2>4, <2>6 DEF WakeTokens, Count
  <2>8. MarkedIsParked'
    BY <1>0, <2>1, ThreadKinds DEF MarkedIsParked
  <2> QED BY <2>5, <2>7, <2>8 DEF SleepOK
<1>9. ASSUME NEW t \in Threads, NotifyPost(t) PROVE SleepOK'
  <2>0. PICK s \in Workers : s = scan[t]
    BY <1>0
  <2>1. s = scan[t] /\ pc[t] = "post" /\ UNCHANGED <<isSleeping, sleepingCount, shouldExit>>
        /\ permits' = [permits EXCEPT ![s] = @ + 1]
    BY <1>9, <2>0 DEF NotifyPost, owner
  <2>2. PICK label \in {"exchange", "load"} : pc' = [pc EXCEPT ![t] = label]
    BY <1>9 DEF NotifyPost, NextScan, Goto
  <2>3. \A u \in Threads \ {t} : scan'[u] = scan[u]
    BY <1>0, <1>9 DEF NotifyPost, NextScan
  <2>4. Wakers(s)' = Wakers(s) \ {t} /\ t \in Wakers(s)
    BY <1>0, <2>1, <2>2, <2>3 DEF Wakers
  <2>5. \A w \in Workers \ {s} : Wakers(w)' = Wakers(w)
    BY <1>0, <2>1, <2>2, <2>3 DEF Wakers
  <2>6. Counted' = Counted /\ Uncounting' = Uncounting
    BY <1>0, <2>1, <2>2, ThreadKinds DEF Counted, Uncounting
  <2>7. Cardinality(Wakers(s)') = Cardinality(Wakers(s)) - 1
    BY <2>1, <2>4, SleepSetsFinite, FS_RemoveElement
  <2>8. \A w \in Workers : (pc'[w] = "wait" <=> pc[w] = "wait") /\ (Released(w)' <=> Released(w))
    BY <1>0, <1>4, <1>9, <2>1, <2>2, ThreadKinds DEF NotifyPost
  <2>9. WakeTokens'
    <3>1. permits'[s] = permits[s] + 1 /\ \A w \in Workers \ {s} : permits'[w] = permits[w]
      BY <1>0, <2>1
    <3> SUFFICES ASSUME NEW v \in Workers PROVE Balanced(v)'
      BY DEF WakeTokens, Balanced
    <3>2. Balanced(v) /\ permits[v] \in Nat /\ Cardinality(Wakers(v)) \in Nat
      BY <1>0, SleepSetsFinite DEF WakeTokens, Balanced
    <3>3. CASE v = s
      <4>1. /\ permits'[v] = permits[v] + 1
            /\ Cardinality(Wakers(v)') = Cardinality(Wakers(v)) - 1
            /\ isSleeping' = isSleeping
        BY <2>1, <2>7, <3>1, <3>3
      <4>2. (pc'[v] = "wait" <=> pc[v] = "wait") /\ (Released(v)' <=> Released(v))
        BY <2>8
      <4> QED BY <3>2, <4>1, <4>2 DEF Balanced, Count
    <3>4. CASE v # s
      BY <2>1, <2>5, <2>8, <3>1, <3>2, <3>4 DEF Balanced, Count
    <3> QED BY <3>3, <3>4
  <2>10. MarkedIsParked'
    BY <1>0, <2>1, <2>2, ThreadKinds DEF MarkedIsParked
  <2> QED BY <1>0, <2>1, <2>6, <2>9, <2>10 DEF SleepOK, SleepAccounting

(* The worker goes to sleep and wakes up. *)
<1>10. ASSUME NEW w \in Workers, CountSleeper(w) PROVE SleepOK'
  <2>1. pc[w] = "inc" /\ UNCHANGED <<scan, isSleeping, permits, shouldExit>>
        /\ sleepingCount' = sleepingCount + 1 /\ pc' = [pc EXCEPT ![w] = "setSleep"] /\ w \in Threads
    BY <1>10, ThreadKinds DEF CountSleeper, notify, owner, Goto
  <2>2. ~isSleeping[w]
    BY <1>0, <2>1 DEF MarkedIsParked
  <2>3. Counted' = Counted \cup {w} /\ w \notin Counted
    BY <1>0, <2>1, <2>2, ThreadKinds DEF Counted
  <2>4. Uncounting' = Uncounting /\ \A v \in Workers : Wakers(v)' = Wakers(v)
    BY <1>0, <2>1 DEF Uncounting, Wakers
  <2>5. SleepAccounting'
    <3>1. Cardinality(Counted') = Cardinality(Counted) + 1
      BY <2>3, SleepSetsFinite, FS_AddElement
    <3> QED BY <1>0, <2>1, <2>4, <3>1, SleepSetsFinite DEF SleepAccounting
  <2>6. \A v \in Workers : (pc'[v] = "wait" <=> pc[v] = "wait") /\ (Released(v)' <=> Released(v))
    BY <1>0, <1>4, <1>10, <2>1, ThreadKinds DEF CountSleeper
  <2>7. WakeTokens'
    BY <1>0, <2>1, <2>4, <2>6 DEF WakeTokens, Count
  <2>8. MarkedIsParked'
    BY <1>0, <2>1, <2>2, ThreadKinds DEF MarkedIsParked
  <2> QED BY <2>5, <2>7, <2>8 DEF SleepOK
<1>11. ASSUME NEW w \in Workers, MarkSleeping(w) PROVE SleepOK'
  <2>1. pc[w] = "setSleep" /\ UNCHANGED <<scan, sleepingCount, permits, shouldExit>> /\ w \in Threads
        /\ isSleeping' = [isSleeping EXCEPT ![w] = TRUE] /\ pc' = [pc EXCEPT ![w] = "wait"]
    BY <1>11, ThreadKinds DEF MarkSleeping, notify, owner, Goto
  <2>2. ~isSleeping[w]
    BY <1>0, <2>1 DEF MarkedIsParked
  <2>3. Counted' = Counted
    BY <1>0, <2>1, ThreadKinds DEF Counted
  <2>4. Uncounting' = Uncounting /\ \A v \in Workers : Wakers(v)' = Wakers(v)
    BY <1>0, <2>1 DEF Uncounting, Wakers
  <2>5. \A v \in Workers : Released(v)' <=> Released(v)
    BY <1>4, <1>11 DEF MarkSleeping
  <2>6. \A v \in Workers \ {w} : pc'[v] = pc[v] /\ isSleeping'[v] = isSleeping[v]
    BY <1>0, <2>1, ThreadKinds
  <2>7. WakeTokens'
    <3>1. isSleeping'[w] /\ pc'[w] = "wait"
      BY <1>0, <2>1
    <3> SUFFICES ASSUME NEW v \in Workers PROVE Balanced(v)'
      BY DEF WakeTokens, Balanced
    <3>2. Balanced(v) /\ permits[v] \in Nat /\ Cardinality(Wakers(v)) \in Nat
      BY <1>0, SleepSetsFinite DEF WakeTokens, Balanced
    <3>3. CASE v = w
      BY <2>1, <2>2, <2>4, <2>5, <3>1, <3>2, <3>3 DEF Balanced, Count
    <3>4. CASE v # w
      BY <2>1, <2>4, <2>5, <2>6, <3>2, <3>4 DEF Balanced, Count
    <3> QED BY <3>3, <3>4
  <2>8. MarkedIsParked'
    <3>1. pc'[w] = "wait"
      BY <1>0, <2>1
    <3> SUFFICES ASSUME NEW v \in Workers, isSleeping'[v]
                 PROVE  pc'[v] = "wait" \/ (shouldExit' /\ pc'[v] \in {"woken", "exited"})
      BY DEF MarkedIsParked
    <3>2. CASE v # w
      BY <1>0, <2>1, <2>6, <3>2 DEF MarkedIsParked
    <3>3. CASE v = w
      BY <3>1, <3>3
    <3> QED BY <3>2, <3>3
  <2> QED BY <1>0, <2>1, <2>3, <2>4, <2>7, <2>8 DEF SleepOK, SleepAccounting
<1>12. ASSUME NEW w \in Workers, Acquire(w) PROVE SleepOK'
  <2>1. pc[w] = "wait" /\ UNCHANGED <<scan, sleepingCount, isSleeping, shouldExit>> /\ w \in Threads
        /\ permits[w] > 0 /\ permits' = [permits EXCEPT ![w] = @ - 1] /\ pc' = [pc EXCEPT ![w] = "woken"]
    BY <1>12, ThreadKinds DEF Acquire, notify, owner, Goto
  <2>2. isSleeping[w] => Released(w)
    BY <1>0, <2>1, SleepSetsFinite DEF WakeTokens, Count
  <2>3. Released(w) => shouldExit
    BY DEF OwnerOK, Released
  <2>4. Counted' = Counted
    BY <1>0, <2>1, ThreadKinds DEF Counted
  <2>5. Uncounting' = Uncounting /\ \A v \in Workers : Wakers(v)' = Wakers(v)
    BY <1>0, <2>1 DEF Uncounting, Wakers
  <2>6. \A v \in Workers : Released(v)' <=> Released(v)
    BY <1>4, <1>12 DEF Acquire
  <2>7. \A v \in Workers \ {w} : pc'[v] = pc[v] /\ permits'[v] = permits[v]
    BY <1>0, <2>1, ThreadKinds
  <2>8. WakeTokens'
    BY <1>0, <2>1, <2>5, <2>6, <2>7, SleepSetsFinite DEF WakeTokens, Count
  <2>9. MarkedIsParked'
    BY <1>0, <2>1, <2>2, <2>3, <2>7 DEF MarkedIsParked
  <2> QED BY <1>0, <2>1, <2>4, <2>5, <2>8, <2>9 DEF SleepOK, SleepAccounting

(* The other steps touch none of this. *)
<1>13. ASSUME NEW w \in Workers, Start(w) PROVE SleepOK'
  <2>1. \A v \in Workers : Released(v)' <=> Released(v)
    BY <1>13 DEF Start, Released
  <2> QED BY <1>13, <2>1, ThreadKinds, NeutralStep DEF Start, notify
<1>14. ASSUME NEW w \in Workers,
              ExitCheck(w) \/ FirstEmpty(w) \/ SecondEmpty(w) \/ DequeueGlobal(w)
       PROVE  SleepOK'
  BY <1>4, <1>14, ThreadKinds, NeutralStep
  DEF ExitCheck, FirstEmpty, SecondEmpty, DequeueGlobal, CallNotify, notify
<1>15. ASSUME NEW w \in Workers, SelfSteal(w) \/ StealHit(w) \/ StealMiss(w) PROVE SleepOK'
  BY <1>4, <1>15, ThreadKinds, NeutralStep
  DEF SelfSteal, NoLocalJob, TakeLocalJob, StealHit, StealMiss, CallNotify, notify
<1>16. ASSUME NEW t \in Threads, Running(t) PROVE SleepOK'
  BY <1>4, <1>16, NeutralStep, StillStep
  DEF Running, ScheduleEmpty, ScheduleLocal, ScheduleGlobal, MaySchedule, CallNotify, Finish,
      AfterExecute, notify, sleep
<1>17. CASE Prioritize \/ UNCHANGED vars
  BY <1>4, <1>17, StillStep DEF Prioritize, SetPriority, vars, notify
<1> QED
  BY <1>1, <1>2, <1>3, <1>5, <1>6, <1>7, <1>8, <1>9, <1>10, <1>11, <1>12, <1>13, <1>14, <1>15,
     <1>16, <1>17, ThreadKinds
  DEF Next, Construct, Destroy, Freed, Worker, External, NotifyWorker

-----------------------------------------------------------------------------
(* The local queues.                                                       *)

\* A worker asks for another job of its own only when it executes none.
DrainOK == LocalQueueDrained /\ \A w \in Workers : pc[w] = "again" => Idle(w)

\* The local queues start empty.
LEMMA DrainInit == Init => DrainOK
  BY ThreadKinds DEF Init, DrainOK, LocalQueueDrained, Idle

\* What a step of thread t owes the invariant: its own state, and that it gives
\* no other worker a job.
LEMMA DrainStep ==
    ASSUME DrainOK, NEW t \in Threads,
           \A w \in Workers \ {t} :
               /\ pc'[w] = pc[w] /\ ret'[w] = ret[w] /\ stack'[w] = stack[w]
               /\ localQueue[w] = <<>> => localQueue'[w] = <<>>,
           t \in Workers =>
               /\ OutOfWork(t)' => localQueue'[t] = <<>> /\ stack'[t] = <<>>
               /\ pc'[t] = "again" => stack'[t] = <<>>
    PROVE  DrainOK'
<1>1. \A w \in Workers \ {t} : OutOfWork(w)' <=> OutOfWork(w)
  BY DEF OutOfWork
<1> QED BY <1>1 DEF DrainOK, LocalQueueDrained, Idle

\* A step that leaves the queues and the places alone keeps DrainOK.
LEMMA DrainStill ==
    ASSUME DrainOK, UNCHANGED <<localQueue, pc, ret, stack>>
    PROVE  DrainOK'
  BY DEF DrainOK, LocalQueueDrained, Idle, OutOfWork

\* Only a worker with a job on its stack fills its own queue, and a thief takes
\* jobs away: every step keeps DrainOK.
LEMMA DrainNext == TypeOK /\ ThiefOK /\ OwnerOK /\ DrainOK /\ [Next]_vars => DrainOK'
<1> SUFFICES ASSUME TypeOK, ThiefOK, OwnerOK, DrainOK, [Next]_vars PROVE DrainOK'
  OBVIOUS
<1>0. /\ pc \in [Threads -> WorkerPc \cup NotifyPc \cup {"run"}] /\ ret \in [Threads -> ReturnPc]
      /\ localQueue \in [Workers -> Seq(Jobs)] /\ stack \in [Threads -> Seq(Jobs)] /\ ownerIndex \in Workers
  BY DEF TypeOK
<1>0a. \A w \in Workers : /\ OutOfWork(w) => localQueue[w] = <<>> /\ stack[w] = <<>>
                          /\ pc[w] = "again" => stack[w] = <<>>
  BY DEF DrainOK, LocalQueueDrained, Idle
<1>1. ASSUME SpawnThread PROVE DrainOK'
  <2>1. pc[ownerIndex] \in {"unborn", "start"} /\ ownerIndex \in Threads
    BY <1>0, <1>1, ThreadKinds DEF SpawnThread, OwnerOK
  <2>2. UNCHANGED <<localQueue, stack, ret>> /\ pc' = [pc EXCEPT ![ownerIndex] = "start"]
    BY <1>1 DEF SpawnThread, queues, notify, Goto
  <2>3. OutOfWork(ownerIndex)
    BY <2>1 DEF OutOfWork
  <2> QED BY <1>0, <1>0a, <2>1, <2>2, <2>3, DrainStep
<1>2. ASSUME PushThread \/ PostStart \/ Stop \/ ReleaseWorker \/ Join \/ Prioritize \/ UNCHANGED vars
      PROVE  DrainOK'
  BY <1>2, DrainStill
  DEF PushThread, PostStart, Stop, ReleaseWorker, Join, Prioritize, SetPriority, vars, queues, notify
<1>3. ASSUME NEW t \in Threads, NotifyLoad(t) PROVE DrainOK'
  <2>1. UNCHANGED <<localQueue, stack>> /\ pc[t] = "load"
    BY <1>3 DEF NotifyLoad, queues
  <2>2. CASE sleepingCount = 0
    <3>1. pc' = [pc EXCEPT ![t] = ret[t]] /\ ret' = [ret EXCEPT ![t] = "run"] /\ ret[t] \in {"empty2", "run"}
      BY <1>0, <1>3, <2>2 DEF NotifyLoad, Goto, ReturnPc
    <3>2. t \in Workers /\ ret[t] = "empty2" => OutOfWork(t)
      BY <2>1 DEF OutOfWork, NotifyPc
    <3>3. OutOfWork(t)' => ret[t] = "empty2"
      BY <1>0, <3>1 DEF OutOfWork, NotifyPc
    <3> QED BY <1>0, <1>0a, <2>1, <3>1, <3>2, <3>3, DrainStep
  <2>3. CASE sleepingCount # 0
    <3>1. pc' = [pc EXCEPT ![t] = "exchange"] /\ UNCHANGED ret
      BY <1>3, <2>3 DEF NotifyLoad, Goto
    <3>2. OutOfWork(t)' <=> OutOfWork(t)
      BY <1>0, <2>1, <3>1 DEF OutOfWork, NotifyPc
    <3> QED BY <1>0, <1>0a, <2>1, <3>1, <3>2, DrainStep
  <2> QED BY <2>2, <2>3
<1>4. ASSUME NEW t \in Threads, NotifyExchange(t) \/ NotifyDecrement(t) \/ NotifyPost(t) PROVE DrainOK'
  <2>1. UNCHANGED <<localQueue, stack, ret>> /\ pc[t] \in NotifyPc
    BY <1>4 DEF NotifyExchange, NotifyDecrement, NotifyPost, queues, notify, NotifyPc
  <2>2. PICK label \in NotifyPc : pc' = [pc EXCEPT ![t] = label]
    BY <1>4 DEF NotifyExchange, NotifyDecrement, NotifyPost, NextScan, Goto, NotifyPc
  <2>3. OutOfWork(t)' <=> OutOfWork(t)
    BY <1>0, <2>1, <2>2 DEF OutOfWork, NotifyPc
  <2> QED BY <1>0, <1>0a, <2>1, <2>2, <2>3, DrainStep DEF NotifyPc
<1>5. ASSUME NEW t \in Threads, NEW k \in Jobs, ScheduleEmpty(t, k) PROVE DrainOK'
  <2>1. UNCHANGED <<localQueue, pc, ret>> /\ pc[t] = "run" /\ stack' = [stack EXCEPT ![t] = Append(@, k)]
    BY <1>5 DEF ScheduleEmpty, MaySchedule, queues, notify
  <2> QED BY <1>0, <2>1, ThreadKinds, DrainStep DEF OutOfWork, NotifyPc
<1>6. ASSUME NEW t \in Threads, NEW k \in Jobs, ScheduleLocal(t, k) \/ ScheduleGlobal(t, k) PROVE DrainOK'
  <2>1. UNCHANGED stack /\ pc' = [pc EXCEPT ![t] = "load"] /\ ret' = [ret EXCEPT ![t] = "run"]
    BY <1>6 DEF ScheduleLocal, ScheduleGlobal, CallNotify, Goto
  <2>2. \A w \in Workers \ {t} : localQueue'[w] = localQueue[w]
    BY <1>0, <1>6 DEF ScheduleLocal, ScheduleGlobal
  <2> QED BY <1>0, <2>1, <2>2, ThreadKinds, DrainStep DEF OutOfWork, NotifyPc
<1>7. ASSUME NEW t \in Threads, Finish(t) PROVE DrainOK'
  <2>1. UNCHANGED <<localQueue, ret>> /\ stack' = [stack EXCEPT ![t] = Front(@)]
    BY <1>7 DEF Finish, queues, notify
  <2>2. PICK label \in {"again", "run"} :
            pc' = [pc EXCEPT ![t] = label] /\ (label = "again" => Len(stack[t]) = 1)
    BY <1>7 DEF Finish, AfterExecute, Goto
  <2>3. Len(stack[t]) = 1 => Front(stack[t]) = <<>>
    BY SubSeqEmpty DEF Front
  <2> QED BY <1>0, <2>1, <2>2, <2>3, DrainStep DEF OutOfWork, NotifyPc
<1>8. ASSUME NEW w \in Workers,
             \/ Start(w) \/ ExitCheck(w) \/ SecondEmpty(w) \/ CountSleeper(w) \/ MarkSleeping(w) \/ Acquire(w)
             \/ StealMiss(w) \/ FirstEmpty(w)
      PROVE  DrainOK'
  <2>1. UNCHANGED <<localQueue, stack>> /\ OutOfWork(w)
    BY <1>8
    DEF Start, ExitCheck, SecondEmpty, CountSleeper, MarkSleeping, Acquire, StealMiss, FirstEmpty, queues, OutOfWork
  <2>2. PICK label \in (WorkerPc \cup NotifyPc) \ {"again"} : pc' = [pc EXCEPT ![w] = label]
    BY <1>8
    DEF Start, ExitCheck, SecondEmpty, CountSleeper, MarkSleeping, Acquire, StealMiss, FirstEmpty, CallNotify,
        Goto, WorkerPc, NotifyPc
  <2>3. \A v \in Workers \ {w} : ret'[v] = ret[v]
    BY <1>0, <1>8, ThreadKinds
    DEF Start, ExitCheck, SecondEmpty, CountSleeper, MarkSleeping, Acquire, StealMiss, FirstEmpty, CallNotify, notify
  <2> QED BY <1>0, <1>0a, <2>1, <2>2, <2>3, ThreadKinds, DrainStep
<1>9. ASSUME NEW w \in Workers, DequeueGlobal(w) PROVE DrainOK'
  <2>1. UNCHANGED <<localQueue, ret>> /\ OutOfWork(w)
    BY <1>9 DEF DequeueGlobal, notify, OutOfWork
  <2>2. CASE globalQueue = <<>>
    BY <1>0, <1>0a, <1>9, <2>1, <2>2, ThreadKinds, DrainStep DEF DequeueGlobal, Goto
  <2>3. CASE globalQueue # <<>>
    <3>1. pc' = [pc EXCEPT ![w] = "run"] /\ \A v \in Workers \ {w} : stack'[v] = stack[v]
      BY <1>0, <1>9, <2>3, ThreadKinds DEF DequeueGlobal, Goto
    <3> QED BY <1>0, <2>1, <3>1, ThreadKinds, DrainStep DEF OutOfWork, NotifyPc
  <2> QED BY <2>2, <2>3
<1>10. ASSUME NEW w \in Workers, SelfSteal(w) PROVE DrainOK'
  <2>1. CASE NoLocalJob(w)
    <3>1. UNCHANGED <<localQueue, stack, ret>> /\ localQueue[w] = <<>>
      BY <2>1 DEF NoLocalJob, notify
    <3>2. stack[w] = <<>>
      BY <1>0a, <1>10 DEF SelfSteal, OutOfWork
    <3>3. PICK label \in {"check", "steal"} : pc' = [pc EXCEPT ![w] = label]
      BY <2>1 DEF NoLocalJob, Goto
    <3> QED BY <1>0, <3>1, <3>2, <3>3, ThreadKinds, DrainStep
  <2>2. CASE TakeLocalJob(w) /\ ((Goto(w, "run") /\ UNCHANGED notify) \/ CallNotify(w, "run"))
    <3>1. \A v \in Workers \ {w} : localQueue'[v] = localQueue[v] /\ stack'[v] = stack[v] /\ ret'[v] = ret[v]
      BY <1>0, <2>2, ThreadKinds DEF TakeLocalJob, CallNotify, notify
    <3>2. /\ \/ pc' = [pc EXCEPT ![w] = "run"]
             \/ pc' = [pc EXCEPT ![w] = "load"] /\ ret' = [ret EXCEPT ![w] = "run"]
          /\ w \in Threads
      BY <2>2, ThreadKinds DEF Goto, CallNotify
    <3>3. ~OutOfWork(w)' /\ pc'[w] # "again"
      BY <1>0, <3>2 DEF OutOfWork, NotifyPc
    <3>4. \A v \in Workers \ {w} : pc'[v] = pc[v]
      BY <1>0, <3>2, ThreadKinds
    <3> QED BY <3>1, <3>2, <3>3, <3>4, DrainStep
  <2> QED BY <1>10, <2>1, <2>2 DEF SelfSteal
<1>11. ASSUME NEW w \in Workers, StealHit(w) PROVE DrainOK'
  <2>1. PICK v \in Workers : v = victim[w] /\ v # w
    BY <1>11 DEF StealHit, ThiefOK
  <2>2. localQueue[v] # <<>> /\ \A u \in Workers \ {v} : localQueue'[u] = localQueue[u]
    BY <1>0, <1>11, <2>1 DEF StealHit
  <2>3. UNCHANGED ret /\ pc' = [pc EXCEPT ![w] = "run"] /\ \A u \in Workers \ {w} : stack'[u] = stack[u]
    BY <1>0, <1>11 DEF StealHit, notify, Goto
  <2> QED BY <1>0, <2>2, <2>3, ThreadKinds, DrainStep DEF OutOfWork, NotifyPc
<1> QED
  BY <1>1, <1>2, <1>3, <1>4, <1>5, <1>6, <1>7, <1>8, <1>9, <1>10, <1>11, ThreadKinds
  DEF Next, Construct, Destroy, Freed, Worker, External, NotifyWorker, Running

-----------------------------------------------------------------------------
(* The order of the queues, for any priorities p and disturbed jobs d.     *)

Ordered(q, p, d) ==
    \A i, k \in DOMAIN q : i < k /\ q[i] \notin d /\ q[k] \notin d => p[q[i]] >= p[q[k]]

\* A job goes behind the higher priorities and in front of the others if the
\* queue was sorted; if it holds a disturbed job the new one counts as disturbed,
\* and the others stay in the order they had.
LEMMA InsertOrdered ==
    ASSUME NEW q \in Seq(Jobs), NEW j \in Jobs, NEW r \in Enqueued(q, j), NEW d, NEW e,
           priority \in [Jobs -> Priorities], Ordered(q, priority, d),
           e = IF Range(q) \cap d = {} THEN d ELSE d \cup {j}
    PROVE  Ordered(r, priority, e)
<1>1. PICK i \in 1 .. Len(q) + 1 : /\ r = InsertAt(q, i, j)
                                   /\ i > 1 => priority[q[i - 1]] > priority[j]
                                   /\ i <= Len(q) => priority[q[i]] <= priority[j]
  BY EnqueuedAt
<1>2. Len(q) \in Nat /\ DOMAIN q = 1 .. Len(q)
  BY LenProperties
<1>3. \A k \in 1 .. Len(q) : priority[q[k]] \in Int /\ q[k] \in Range(q)
  BY <1>2, ElementOfSeq DEF Priorities, Range
<1>4. priority[j] \in Int
  BY DEF Priorities
<1>5. /\ DOMAIN r = 1 .. Len(q) + 1
      /\ \A k \in 1 .. Len(q) + 1 : r[k] = IF k < i THEN q[k] ELSE IF k = i THEN j ELSE q[k - 1]
  <2>1. /\ r \in Seq(Jobs) /\ Len(r) = Len(q) + 1
        /\ \A k \in 1 .. Len(q) + 1 : r[k] = IF k < i THEN q[k] ELSE IF k = i THEN j ELSE q[k - 1]
    <3>1. r = InsertAt(q, i, j)
      BY <1>1
    <3> QED BY <3>1, InsertElements, SMTT(30)
  <2> QED BY <2>1, LenProperties
<1> DEFINE From(k) == IF k < i THEN k ELSE k - 1
<1>6. \A k \in 1 .. Len(q) + 1 : k # i => From(k) \in 1 .. Len(q) /\ r[k] = q[From(k)]
  BY <1>2, <1>5
<1>7. \A k, m \in 1 .. Len(q) + 1 : k < m /\ k # i /\ m # i => From(k) < From(m)
  BY <1>2
<1>8. r[i] = j
  BY <1>2, <1>5
<1> HIDE DEF From
<1> SUFFICES ASSUME NEW k \in 1 .. Len(q) + 1, NEW m \in 1 .. Len(q) + 1, k < m, r[k] \notin e, r[m] \notin e
             PROVE  priority[r[k]] >= priority[r[m]]
  <2>1. \A k, m \in DOMAIN r : k < m /\ r[k] \notin e /\ r[m] \notin e => priority[r[k]] >= priority[r[m]]
    BY <1>5
  <2> QED BY <2>1 DEF Ordered
<1>9. CASE k # i /\ m # i
  <2>1. q[From(k)] \notin d /\ q[From(m)] \notin d
    BY <1>6, <1>9
  <2> QED BY <1>2, <1>6, <1>7, <1>9, <2>1 DEF Ordered
<1>10. CASE k = i \/ m = i
  <2>1. \A a, b \in 1 .. Len(q) : a < b => priority[q[a]] >= priority[q[b]]
    <3>1. Range(q) \cap d = {}
      BY <1>8, <1>10
    <3> QED BY <1>2, <1>3, <3>1 DEF Ordered
  <2>2. CASE m = i
    <3>1. k \in 1 .. Len(q) /\ i - 1 \in 1 .. Len(q) /\ r[k] = q[k]
      BY <1>2, <1>5, <2>2
    <3>2. k = i - 1 \/ k < i - 1
      BY <2>2
    <3>3. priority[q[k]] >= priority[q[i - 1]] /\ priority[q[i - 1]] > priority[j]
      BY <1>1, <1>3, <2>1, <2>2, <3>1, <3>2
    <3> QED BY <1>3, <1>4, <1>8, <2>2, <3>1, <3>3
  <2>3. CASE k = i
    <3>1. i \in 1 .. Len(q) /\ m - 1 \in 1 .. Len(q) /\ r[m] = q[m - 1]
      BY <1>2, <1>5, <2>3
    <3>2. m - 1 = i \/ i < m - 1
      BY <2>3
    <3>3. priority[q[i]] <= priority[j] /\ priority[q[m - 1]] <= priority[q[i]]
      BY <1>1, <1>3, <2>1, <2>3, <3>1, <3>2
    <3> QED BY <1>3, <1>4, <1>8, <2>3, <3>1, <3>3
  <2> QED BY <1>10, <2>2, <2>3
<1> QED BY <1>9, <1>10

\* In a queue that holds no disturbed job lower_bound has exactly one index to
\* return: the choice in Enqueued is there only after a SetPriority in the queue.
LEMMA SearchDetermined ==
    ASSUME NEW q \in Seq(Jobs), NEW j \in Jobs, priority \in [Jobs -> Priorities], InOrder(q),
           Range(q) \cap disturbed = {}
    PROVE  \E i \in 1 .. Len(q) + 1 : InsertionPoints(q, j) = {i}
<1>1. Len(q) \in Nat /\ DOMAIN q = 1 .. Len(q)
  BY LenProperties
<1>2. \A k \in 1 .. Len(q) : priority[q[k]] \in Int /\ q[k] \in Range(q)
  BY <1>1, ElementOfSeq DEF Priorities, Range
<1>3. \A k, m \in 1 .. Len(q) : k < m => priority[q[k]] >= priority[q[m]]
  BY <1>1, <1>2 DEF InOrder
<1>4. priority[j] \in Int
  BY DEF Priorities
<1>5. ASSUME NEW a \in InsertionPoints(q, j), NEW b \in InsertionPoints(q, j), a < b
      PROVE  FALSE
  <2>1. /\ a \in 1 .. Len(q) /\ b - 1 \in 1 .. Len(q) /\ a <= b - 1
        /\ priority[q[a]] <= priority[j] /\ priority[q[b - 1]] > priority[j]
    BY <1>1, <1>5 DEF InsertionPoints
  <2>2. priority[q[a]] >= priority[q[b - 1]]
    BY <1>2, <1>3, <2>1
  <2> QED BY <1>2, <1>4, <2>1, <2>2
<1>6. PICK i \in 1 .. Len(q) + 1 : i \in InsertionPoints(q, j)
  BY InsertionPointExists DEF InsertionPoints
<1>7. \A a \in InsertionPoints(q, j) : a \in Int
  BY <1>1 DEF InsertionPoints
<1>8. \A a \in InsertionPoints(q, j) : a = i
  BY <1>5, <1>6, <1>7
<1> QED BY <1>6, <1>8

\* pop_front leaves the others in the order they had.
LEMMA TailOrdered ==
    ASSUME NEW q \in Seq(Jobs), q # <<>>, NEW p, NEW d, Ordered(q, p, d)
    PROVE  Ordered(Tail(q), p, d)
<1>1. Len(q) \in Nat \ {0} /\ DOMAIN q = 1 .. Len(q)
  BY EmptySeq, LenProperties
<1>2. /\ DOMAIN Tail(q) = 1 .. Len(q) - 1
      /\ \A k \in 1 .. Len(q) - 1 : Tail(q)[k] = q[k + 1]
  BY HeadTailProperties, LenProperties
<1> SUFFICES ASSUME NEW k \in 1 .. Len(q) - 1, NEW m \in 1 .. Len(q) - 1, k < m,
                    Tail(q)[k] \notin d, Tail(q)[m] \notin d
             PROVE  p[Tail(q)[k]] >= p[Tail(q)[m]]
  BY <1>2 DEF Ordered
<1>3. k + 1 \in 1 .. Len(q) /\ m + 1 \in 1 .. Len(q) /\ k + 1 < m + 1
  BY <1>1
<1> QED BY <1>1, <1>2, <1>3 DEF Ordered

\* SetPriority disturbs the job it changes if that is in a queue, and no other.
LEMMA ChangeOrdered ==
    ASSUME NEW q \in Seq(Jobs), NEW j \in Jobs, NEW n, NEW p \in [Jobs -> Priorities],
           NEW d, NEW e, Ordered(q, p, d), d \subseteq e, j \in e \/ j \notin Range(q)
    PROVE  Ordered(q, [p EXCEPT ![j] = n], e)
<1>1. \A i \in DOMAIN q : q[i] \in Jobs /\ q[i] \in Range(q)
  BY LenProperties, ElementOfSeq DEF Range
<1> QED BY <1>1 DEF Ordered

\* Both kinds of queue start empty.
LEMMA OrderInit == Init => UndisturbedInOrder
<1>1. InOrder(<<>>)
  BY DEF InOrder
<1> QED BY <1>1 DEF Init, UndisturbedInOrder

\* A queue changes by Enqueue and by popping its front only; priorities change by
\* SetPriority only.
LEMMA OrderNext == TypeOK /\ ThiefOK /\ UndisturbedInOrder /\ [Next]_vars => UndisturbedInOrder'
<1> SUFFICES ASSUME TypeOK, ThiefOK, UndisturbedInOrder, [Next]_vars PROVE UndisturbedInOrder'
  OBVIOUS
<1>0. /\ globalQueue \in Seq(Jobs) /\ localQueue \in [Workers -> Seq(Jobs)]
      /\ priority \in [Jobs -> Priorities]
  BY DEF TypeOK
<1>a. /\ Ordered(globalQueue, priority, disturbed)
      /\ \A w \in Workers : Ordered(localQueue[w], priority, disturbed)
  BY DEF UndisturbedInOrder, InOrder, Ordered
<1>b. SUFFICES /\ Ordered(globalQueue', priority', disturbed')
               /\ \A w \in Workers : Ordered(localQueue'[w], priority', disturbed')
  BY DEF UndisturbedInOrder, InOrder, Ordered
<1> DEFINE Kept == /\ Ordered(globalQueue', priority', disturbed')
                   /\ \A w \in Workers : Ordered(localQueue'[w], priority', disturbed')
<1> SUFFICES Kept
  OBVIOUS
<1>1. ASSUME UNCHANGED queues PROVE Kept
  BY <1>1, <1>a DEF queues, order
<1>c. ASSUME NEW q \in Seq(Jobs), NEW k \in Jobs, NoteDisturbed(q, k), Ordered(q, priority, disturbed)
      PROVE  /\ \A x \in Enqueued(q, k) : Ordered(x, priority', disturbed')
             /\ \A x : Ordered(x, priority, disturbed) => Ordered(x, priority', disturbed')
  <2>1. /\ priority' = priority /\ disturbed \subseteq disturbed'
        /\ disturbed' = IF Range(q) \cap disturbed = {} THEN disturbed ELSE disturbed \cup {k}
    BY <1>c DEF NoteDisturbed
  <2>2. \A x \in Enqueued(q, k) : Ordered(x, priority, disturbed')
    BY <1>0, <1>c, <2>1, InsertOrdered
  <2>3. \A x : Ordered(x, priority, disturbed) => Ordered(x, priority, disturbed')
    BY <2>1 DEF Ordered
  <2> QED BY <2>1, <2>2, <2>3
<1>4. ASSUME NEW t \in Threads, NEW k \in Jobs, ScheduleLocal(t, k) PROVE Kept
  <2>1. PICK q \in Enqueued(localQueue[t], k) : localQueue' = [localQueue EXCEPT ![t] = q]
    BY <1>4 DEF ScheduleLocal
  <2>2. t \in Workers /\ globalQueue' = globalQueue /\ NoteDisturbed(localQueue[t], k)
    BY <1>4 DEF ScheduleLocal
  <2>3. /\ Ordered(q, priority', disturbed')
        /\ \A x : Ordered(x, priority, disturbed) => Ordered(x, priority', disturbed')
    BY <1>0, <1>a, <1>c, <2>2
  <2>4. \A w \in Workers : localQueue'[w] = IF w = t THEN q ELSE localQueue[w]
    BY <1>0, <2>1
  <2> QED BY <1>a, <2>2, <2>3, <2>4
<1>5. ASSUME NEW t \in Threads, NEW k \in Jobs, ScheduleGlobal(t, k) PROVE Kept
  <2>1. globalQueue' \in Enqueued(globalQueue, k) /\ localQueue' = localQueue /\ NoteDisturbed(globalQueue, k)
    BY <1>5 DEF ScheduleGlobal
  <2>2. /\ Ordered(globalQueue', priority', disturbed')
        /\ \A x : Ordered(x, priority, disturbed) => Ordered(x, priority', disturbed')
    BY <1>0, <1>a, <1>c, <2>1
  <2> QED BY <1>a, <2>1, <2>2
<1>6. ASSUME NEW w \in Workers, DequeueGlobal(w) PROVE Kept
  <2>1. CASE globalQueue = <<>>
    BY <1>1, <1>6, <2>1 DEF DequeueGlobal, queues
  <2>2. CASE globalQueue # <<>>
    <3>1. Ordered(Tail(globalQueue), priority, disturbed)
      BY <1>0, <1>a, <2>2, TailOrdered
    <3>2. globalQueue' = Tail(globalQueue) /\ UNCHANGED <<localQueue, priority, disturbed>>
      BY <1>6, <2>2 DEF DequeueGlobal, order
    <3> QED BY <1>a, <3>1, <3>2
  <2> QED BY <2>1, <2>2
<1>7. ASSUME NEW v \in Workers, localQueue[v] # <<>>, UNCHANGED <<globalQueue, order>>,
             localQueue' = [localQueue EXCEPT ![v] = Tail(@)]
      PROVE  Kept
  <2>1. Ordered(Tail(localQueue[v]), priority, disturbed)
    BY <1>0, <1>a, <1>7, TailOrdered
  <2>2. \A w \in Workers : localQueue'[w] = IF w = v THEN Tail(localQueue[v]) ELSE localQueue[w]
    BY <1>0, <1>7
  <2> QED BY <1>a, <1>7, <2>1, <2>2 DEF order
<1>8. ASSUME NEW w \in Workers, SelfSteal(w) PROVE Kept
  <2>1. CASE NoLocalJob(w)
    BY <1>1, <1>8, <2>1 DEF SelfSteal, NoLocalJob, queues
  <2>2. CASE TakeLocalJob(w)
    BY <1>7, <1>8, <2>2 DEF SelfSteal, TakeLocalJob
  <2> QED BY <1>8, <2>1, <2>2 DEF SelfSteal
<1>9. ASSUME NEW w \in Workers, StealHit(w) PROVE Kept
  <2>1. victim[w] \in Workers
    BY <1>9 DEF StealHit, ThiefOK
  <2> QED BY <1>7, <1>9, <2>1 DEF StealHit
<1>10. ASSUME NEW j \in Jobs, NEW n \in Priorities, SetPriority(j, n) PROVE Kept
  <2>1. /\ UNCHANGED <<globalQueue, localQueue>> /\ priority' = [priority EXCEPT ![j] = n]
        /\ disturbed \subseteq disturbed'
        /\ j \in disturbed' \/ ~Queued(j)
    BY <1>10 DEF SetPriority
  <2>2. Ordered(globalQueue, [priority EXCEPT ![j] = n], disturbed')
    <3>1. j \in disturbed' \/ j \notin Range(globalQueue)
      BY <2>1 DEF Queued
    <3> QED BY Zenon, <1>0, <1>a, <2>1, <3>1, ChangeOrdered
  <2>3. ASSUME NEW w \in Workers PROVE Ordered(localQueue[w], [priority EXCEPT ![j] = n], disturbed')
    <3>1. j \in disturbed' \/ j \notin Range(localQueue[w])
      BY <2>1 DEF Queued
    <3>2. localQueue[w] \in Seq(Jobs)
      BY <1>0
    <3> QED BY Zenon, <1>0, <1>a, <2>1, <3>1, <3>2, ChangeOrdered
  <2> QED BY <2>1, <2>2, <2>3
<1>11. ASSUME Construct \/ Stop \/ Destroy \/ Freed \/ UNCHANGED vars PROVE Kept
  BY <1>1, <1>11
  DEF Construct, SpawnThread, PushThread, PostStart, Stop, Destroy, ReleaseWorker, Join, Freed, vars
<1>12. ASSUME NEW t \in Threads, NotifyWorker(t) PROVE Kept
  BY <1>1, <1>12 DEF NotifyWorker, NotifyLoad, NotifyExchange, NotifyDecrement, NotifyPost
<1>13. ASSUME NEW t \in Threads, Running(t) PROVE Kept
  BY <1>1, <1>4, <1>5, <1>13 DEF Running, ScheduleEmpty, Finish
<1>14. ASSUME NEW w \in Workers,
              \/ Start(w) \/ ExitCheck(w) \/ FirstEmpty(w) \/ SecondEmpty(w) \/ CountSleeper(w)
              \/ MarkSleeping(w) \/ Acquire(w) \/ StealMiss(w)
       PROVE  Kept
  BY <1>1, <1>14
  DEF Start, ExitCheck, FirstEmpty, SecondEmpty, CountSleeper, MarkSleeping, Acquire, StealMiss
<1> HIDE DEF Kept
<1> QED
  BY <1>6, <1>8, <1>9, <1>10, <1>11, <1>12, <1>13, <1>14, ThreadKinds
  DEF Next, Worker, External, Prioritize

-----------------------------------------------------------------------------
(* The end: who has been joined has exited, and nobody calls any more.     *)

\* The destructor has joined w.
Joined(w) ==
    \/ ownerPc \in {"release", "join"} /\ w < ownerIndex
    \/ ownerPc = "freed"

JoinedOK ==
    /\ \A w \in Workers : Joined(w) => pc[w] = "exited"
    /\ ownerPc \in {"release", "join", "freed"} => \A e \in Externals : Idle(e) /\ pc[e] = "run"

\* Nobody has been joined before the scheduler exists.
LEMMA JoinedInit == Init => JoinedOK
  BY DEF Init, JoinedOK, Joined

\* The destructor joins in the order of m_Threads; a worker that has exited takes no
\* step, and an external thread begins no call once the destructor runs.
LEMMA JoinedNext == TypeOK /\ OwnerOK /\ JoinedOK /\ [Next]_vars => JoinedOK'
<1> SUFFICES ASSUME TypeOK, OwnerOK, JoinedOK, [Next]_vars PROVE JoinedOK'
  OBVIOUS
<1>0. /\ pc \in [Threads -> WorkerPc \cup NotifyPc \cup {"run"}] /\ ownerIndex \in Workers
      /\ stack \in [Threads -> Seq(Jobs)]
  BY DEF TypeOK
<1>1. ASSUME Construct PROVE JoinedOK'
  BY <1>1 DEF Construct, SpawnThread, PushThread, PostStart, OwnerLoop, JoinedOK, Joined
<1>2. ASSUME Stop PROVE JoinedOK'
  <2>1. ownerIndex = 0 /\ \A w \in Workers : ~(w < 0)
    BY <1>2, WorkerCountAssumption DEF Stop, OwnerOK, Workers
  <2> QED BY <1>2, <2>1 DEF Stop, JoinedOK, Joined, Idle
<1>3. ASSUME ReleaseWorker \/ Prioritize \/ UNCHANGED vars PROVE JoinedOK'
  BY <1>3 DEF ReleaseWorker, Prioritize, SetPriority, vars, owner, JoinedOK, Joined, Idle
<1>4. ASSUME Join PROVE JoinedOK'
  <2>1. \A w \in Workers : w < ownerIndex \/ w = ownerIndex => pc[w] = "exited"
    BY <1>4 DEF Join, JoinedOK, Joined
  <2>2. \A w \in Workers : Joined(w)' => w < ownerIndex \/ w = ownerIndex
    BY <1>0, <1>4, WorkerCountAssumption DEF Join, OwnerLoop, Joined, Workers
  <2> QED BY <1>4, <2>1, <2>2 DEF Join, OwnerLoop, JoinedOK, Idle
<1>5. ASSUME NEW w \in Workers, Worker(w) PROVE JoinedOK'
  <2>1. UNCHANGED <<ownerPc, ownerIndex>> /\ pc[w] # "exited"
    BY <1>5
    DEF owner, Worker, Start, ExitCheck, FirstEmpty, SecondEmpty, CountSleeper, MarkSleeping, Acquire,
        DequeueGlobal, SelfSteal, StealHit, StealMiss, NotifyWorker, NotifyLoad, NotifyExchange,
        NotifyDecrement, NotifyPost, Running, ScheduleEmpty, ScheduleLocal, ScheduleGlobal, MaySchedule, Finish
  <2>2. \A u \in Threads \ {w} : pc'[u] = pc[u]
    BY <1>0, <1>5
    DEF Worker, Start, ExitCheck, FirstEmpty, SecondEmpty, CountSleeper, MarkSleeping, Acquire,
        DequeueGlobal, SelfSteal, NoLocalJob, TakeLocalJob, StealHit, StealMiss, NotifyWorker, NotifyLoad,
        NotifyExchange, NotifyDecrement, NotifyPost, NextScan, CallNotify, Goto, Running, ScheduleEmpty,
        ScheduleLocal, ScheduleGlobal, Finish
  <2>3. \A u \in Threads \ {w} : stack'[u] = stack[u]
    BY <1>0, <1>5
    DEF Worker, Start, ExitCheck, FirstEmpty, SecondEmpty, CountSleeper, MarkSleeping, Acquire,
        DequeueGlobal, SelfSteal, NoLocalJob, TakeLocalJob, StealHit, StealMiss, NotifyWorker, NotifyLoad,
        NotifyExchange, NotifyDecrement, NotifyPost, Running, ScheduleEmpty,
        ScheduleLocal, ScheduleGlobal, Finish
  <2> QED BY <2>1, <2>2, <2>3, ThreadKinds DEF JoinedOK, Joined, Idle
<1>6. ASSUME NEW e \in Externals, External(e) PROVE JoinedOK'
  <2>1. UNCHANGED <<ownerPc, ownerIndex>>
    BY <1>6
    DEF owner, External, NotifyWorker, NotifyLoad, NotifyExchange, NotifyDecrement, NotifyPost, Running,
        ScheduleEmpty, ScheduleLocal, ScheduleGlobal, Finish
  <2>2. ownerPc \notin {"release", "join", "freed"}
    BY <1>6
    DEF JoinedOK, External, NotifyWorker, NotifyLoad, NotifyExchange, NotifyDecrement, NotifyPost, Running,
        ScheduleEmpty, ScheduleLocal, ScheduleGlobal, MaySchedule, Finish
  <2> QED BY <2>1, <2>2 DEF JoinedOK, Joined
<1> QED BY <1>1, <1>2, <1>3, <1>4, <1>5, <1>6 DEF Next, Destroy, Freed

-----------------------------------------------------------------------------
(* No job gets lost between the queues and the threads.                    *)

\* Where a job can be once ScheduleJob was called with it.
Held(j) ==
    \/ j \in finished
    \/ j \in Range(globalQueue)
    \/ \E w \in Workers : j \in Range(localQueue[w])
    \/ \E t \in Threads : j \in Range(stack[t])

KeptOK == \A j \in submitted : Held(j)

\* No job is twice in a sequence; two sequences have no job in common.
NoRepeat(q) == \A i, k \in DOMAIN q : q[i] = q[k] => i = k
Apart(p, q) == \A j \in Range(p) : j \notin Range(q)

\* An insertion keeps what the queue had and adds the job.
LEMMA EnqueuedRange ==
    ASSUME NEW q \in Seq(Jobs), NEW j \in Jobs, NEW r \in Enqueued(q, j)
    PROVE  /\ Range(r) = Range(q) \cup {j}
           /\ NoRepeat(q) /\ j \notin Range(q) => NoRepeat(r)
<1>0. PICK i \in 1 .. Len(q) + 1 : r = InsertAt(q, i, j)
  BY EnqueuedAt
<1>1. Len(q) \in Nat /\ DOMAIN q = 1 .. Len(q) /\ i \in 1 .. Len(q) + 1
  BY LenProperties
<1>2. /\ DOMAIN r = 1 .. Len(q) + 1
      /\ \A k \in 1 .. Len(q) + 1 : r[k] = IF k < i THEN q[k] ELSE IF k = i THEN j ELSE q[k - 1]
  BY <1>0, InsertElements, LenProperties
<1>3. j \in Range(r)
  <2>1. r[i] = j
    BY <1>1, <1>2
  <2> QED BY <1>1, <1>2, <2>1 DEF Range
<1>4. ASSUME NEW k \in 1 .. Len(q) PROVE q[k] \in Range(r)
  <2>1. CASE k < i
    BY <1>1, <1>2, <2>1 DEF Range
  <2>2. CASE ~(k < i)
    <3>1. k + 1 \in 1 .. Len(q) + 1 /\ r[k + 1] = q[k]
      BY <1>1, <1>2, <2>2
    <3> QED BY <1>2, <3>1 DEF Range
  <2> QED BY <2>1, <2>2
<1>5. ASSUME NEW k \in 1 .. Len(q) + 1, k # i
      PROVE  \E m \in 1 .. Len(q) : r[k] = q[m] /\ m = IF k < i THEN k ELSE k - 1
  <2>1. CASE k < i
    BY <1>1, <1>2, <2>1
  <2>2. CASE k > i
    <3>1. k - 1 \in 1 .. Len(q) /\ r[k] = q[k - 1]
      BY <1>1, <1>2, <2>2
    <3> QED BY <1>1, <2>2, <3>1
  <2> QED BY <1>1, <1>5, <2>1, <2>2
<1>6. Range(r) = Range(q) \cup {j}
  <2>1. \A k \in 1 .. Len(q) + 1 : r[k] \in Range(q) \cup {j}
    BY <1>1, <1>2, <1>5 DEF Range
  <2> QED BY <1>1, <1>2, <1>3, <1>4, <2>1 DEF Range
<1>7. ASSUME NoRepeat(q), j \notin Range(q) PROVE NoRepeat(r)
  <2>1. \A k \in 1 .. Len(q) + 1 : k # i => r[k] # j
    BY <1>1, <1>5, <1>7 DEF Range
  <2>2. r[i] = j
    BY <1>1, <1>2
  <2>3. ASSUME NEW k \in 1 .. Len(q) + 1, NEW m \in 1 .. Len(q) + 1, k # i, m # i, r[k] = r[m]
        PROVE  k = m
    <3>1. PICK a \in 1 .. Len(q) : r[k] = q[a] /\ a = IF k < i THEN k ELSE k - 1
      BY <1>5, <2>3
    <3>2. PICK b \in 1 .. Len(q) : r[m] = q[b] /\ b = IF m < i THEN m ELSE m - 1
      BY <1>5, <2>3
    <3>3. a = b
      BY <1>1, <1>7, <2>3, <3>1, <3>2 DEF NoRepeat
    <3> QED BY <1>1, <2>3, <3>1, <3>2, <3>3
  <2> QED BY <1>1, <1>2, <2>1, <2>2, <2>3 DEF NoRepeat
<1> QED BY <1>6, <1>7

\* A job taken from the front of a queue is the only one that leaves it.
LEMMA PopRange ==
    ASSUME NEW q \in Seq(Jobs), q # <<>>
    PROVE  /\ Head(q) \in Jobs
           /\ Range(q) = Range(Tail(q)) \cup {Head(q)}
           /\ NoRepeat(q) => NoRepeat(Tail(q)) /\ Head(q) \notin Range(Tail(q))
<1>1. Len(q) \in Nat \ {0} /\ DOMAIN q = 1 .. Len(q)
  BY EmptySeq, LenProperties
<1>2. /\ DOMAIN Tail(q) = 1 .. Len(q) - 1
      /\ \A k \in 1 .. Len(q) - 1 : Tail(q)[k] = q[k + 1]
  BY HeadTailProperties, LenProperties
<1>3. Head(q) = q[1] /\ Head(q) \in Jobs
  BY HeadTailProperties
<1>4. ASSUME NEW k \in 1 .. Len(q), k # 1 PROVE q[k] \in Range(Tail(q))
  <2>1. k - 1 \in 1 .. Len(q) - 1 /\ Tail(q)[k - 1] = q[k]
    BY <1>1, <1>2, <1>4
  <2> QED BY <1>2, <2>1 DEF Range
<1>5. \A k \in 1 .. Len(q) - 1 : k + 1 \in 1 .. Len(q)
  BY <1>1
<1>6. Range(q) = Range(Tail(q)) \cup {Head(q)}
  BY SMTT(30), <1>1, <1>2, <1>3, <1>4, <1>5 DEF Range
<1>7. ASSUME NoRepeat(q) PROVE NoRepeat(Tail(q)) /\ Head(q) \notin Range(Tail(q))
  <2>1. \A k \in 1 .. Len(q) - 1 : k + 1 # 1 /\ q[k + 1] # q[1]
    BY <1>1, <1>5, <1>7 DEF NoRepeat
  <2>2. \A k, m \in 1 .. Len(q) - 1 : q[k + 1] = q[m + 1] => k = m
    BY <1>1, <1>5, <1>7 DEF NoRepeat
  <2> QED BY <1>2, <1>3, <2>1, <2>2 DEF NoRepeat, Range
<1> QED BY <1>3, <1>6, <1>7

\* A call is added to the jobs a thread executes.
LEMMA CallRange ==
    ASSUME NEW q \in Seq(Jobs), NEW j \in Jobs
    PROVE  /\ Range(Append(q, j)) = Range(q) \cup {j}
           /\ NoRepeat(q) /\ j \notin Range(q) => NoRepeat(Append(q, j))
<1>1. Len(q) \in Nat /\ DOMAIN q = 1 .. Len(q) /\ DOMAIN Append(q, j) = 1 .. Len(q) + 1
  BY AppendProperties, LenProperties
<1>2. Append(q, j)[Len(q) + 1] = j /\ \A k \in 1 .. Len(q) : Append(q, j)[k] = q[k]
  BY AppendProperties
<1>3. \A k \in 1 .. Len(q) + 1 : k \in 1 .. Len(q) \/ k = Len(q) + 1
  BY <1>1
<1>4. Range(Append(q, j)) = Range(q) \cup {j}
  BY <1>1, <1>2, <1>3 DEF Range
<1>5. ASSUME NoRepeat(q), j \notin Range(q) PROVE NoRepeat(Append(q, j))
  <2>1. \A k \in 1 .. Len(q) : q[k] # j
    BY <1>1, <1>5 DEF Range
  <2> QED BY <1>1, <1>2, <1>3, <1>5, <2>1 DEF NoRepeat
<1> QED BY <1>4, <1>5

\* A return takes the innermost job away and no other.
LEMMA ReturnRange ==
    ASSUME NEW q \in Seq(Jobs), q # <<>>
    PROVE  /\ Last(q) \in Jobs
           /\ Range(q) = Range(Front(q)) \cup {Last(q)}
           /\ NoRepeat(q) => NoRepeat(Front(q)) /\ Last(q) \notin Range(Front(q))
<1>1. Len(q) \in Nat \ {0} /\ DOMAIN q = 1 .. Len(q) /\ \A k \in 1 .. Len(q) : q[k] \in Jobs
  BY EmptySeq, LenProperties, ElementOfSeq
<1> DEFINE n == Len(q) - 1
<1>2. Front(q) \in Seq(Jobs) /\ Len(Front(q)) = n /\ \A k \in 1 .. n : Front(q)[k] = q[k]
  <2>1. \A k \in 1 .. n : q[k] \in Jobs
    BY <1>1
  <2>2. /\ SubSeq(q, 1, n) \in Seq(Jobs) /\ Len(SubSeq(q, 1, n)) = IF 1 <= n THEN n - 1 + 1 ELSE 0
        /\ \A k \in 1 .. n - 1 + 1 : SubSeq(q, 1, n)[k] = q[1 + k - 1]
    BY <1>1, <2>1, SubSeqProperties
  <2>3. Front(q) = SubSeq(q, 1, n)
    BY DEF Front
  <2> QED BY <1>1, <2>2, <2>3
<1>3. DOMAIN Front(q) = 1 .. n
  BY <1>2, LenProperties
<1>4. Last(q) = q[Len(q)] /\ Last(q) \in Jobs
  BY <1>1 DEF Last
<1>5. \A m \in Nat \ {0} : /\ m \in 1 .. m
                           /\ \A k \in 1 .. m : k \in 1 .. m - 1 \/ k = m
                           /\ \A k \in 1 .. m - 1 : k \in 1 .. m /\ k # m
  OBVIOUS
<1>6. /\ Len(q) \in 1 .. Len(q)
      /\ \A k \in 1 .. Len(q) : k \in 1 .. n \/ k = Len(q)
      /\ \A k \in 1 .. n : k \in 1 .. Len(q) /\ k # Len(q)
  BY <1>1, <1>5
<1> HIDE DEF n
<1>7. Range(q) = Range(Front(q)) \cup {Last(q)}
  BY <1>1, <1>2, <1>3, <1>4, <1>6 DEF Range
<1>8. ASSUME NoRepeat(q) PROVE NoRepeat(Front(q)) /\ Last(q) \notin Range(Front(q))
  BY <1>1, <1>2, <1>3, <1>4, <1>6, <1>8 DEF NoRepeat, Range
<1> QED BY <1>4, <1>7, <1>8

\* What an idle thread executes, and one that has just taken a job.
LEMMA ShortRange ==
    /\ Range(<<>>) = {} /\ NoRepeat(<<>>)
    /\ \A j : Range(<<j>>) = {j} /\ NoRepeat(<<j>>)
  BY DEF Range, NoRepeat

\* What a step owes the invariant: what it takes from one place it puts in another.
LEMMA KeptStep ==
    ASSUME KeptOK, \A j : Held(j) => Held(j)', \A j \in submitted' : j \in submitted \/ Held(j)'
    PROVE  KeptOK'
  BY DEF KeptOK

\* Nothing has been scheduled at first.
LEMMA KeptInit == Init => KeptOK
  BY DEF Init, KeptOK

\* Enqueue, dequeue, steal, an inline call and a return move a job and drop none:
\* a worker takes a job only when its stack is empty, so it overwrites none either.
LEMMA KeptNext == TypeOK /\ ThiefOK /\ DrainOK /\ KeptOK /\ [Next]_vars => KeptOK'
<1> SUFFICES ASSUME TypeOK, ThiefOK, DrainOK, KeptOK, [Next]_vars PROVE KeptOK'
  OBVIOUS
<1>0. /\ globalQueue \in Seq(Jobs) /\ localQueue \in [Workers -> Seq(Jobs)]
      /\ stack \in [Threads -> Seq(Jobs)]
  BY DEF TypeOK
<1>1. ASSUME UNCHANGED <<globalQueue, localQueue, stack, history>> PROVE KeptOK'
  BY <1>1 DEF history, KeptOK, Held
<1>2. ASSUME NEW t \in Threads, NEW k \in Jobs, ScheduleEmpty(t, k) PROVE KeptOK'
  <2>1. /\ UNCHANGED <<globalQueue, localQueue, finished>> /\ submitted' = submitted \cup {k}
        /\ stack' = [stack EXCEPT ![t] = Append(@, k)]
    BY <1>2 DEF ScheduleEmpty, queues
  <2>2. Range(stack[t]) \cup {k} \subseteq Range(stack'[t]) /\ \A u \in Threads \ {t} : stack'[u] = stack[u]
    BY <1>0, <2>1, CallRange
  <2>3. \A j : Held(j) \/ j = k => Held(j)'
    BY <2>1, <2>2 DEF Held
  <2> QED BY <2>1, <2>3, KeptStep
<1>3. ASSUME NEW t \in Threads, NEW k \in Jobs, ScheduleLocal(t, k) PROVE KeptOK'
  <2>1. PICK q \in Enqueued(localQueue[t], k) :
        /\ UNCHANGED <<globalQueue, stack, finished>> /\ submitted' = submitted \cup {k} /\ t \in Workers
        /\ localQueue' = [localQueue EXCEPT ![t] = q]
    BY <1>3 DEF ScheduleLocal
  <2>2. /\ Range(localQueue[t]) \cup {k} \subseteq Range(localQueue'[t])
        /\ \A u \in Workers \ {t} : localQueue'[u] = localQueue[u]
    BY <1>0, <2>1, EnqueuedRange
  <2>3. \A j : Held(j) \/ j = k => Held(j)'
    BY <2>1, <2>2 DEF Held
  <2> QED BY <2>1, <2>3, KeptStep
<1>4. ASSUME NEW t \in Threads, NEW k \in Jobs, ScheduleGlobal(t, k) PROVE KeptOK'
  <2>1. /\ UNCHANGED <<localQueue, stack, finished>> /\ submitted' = submitted \cup {k}
        /\ globalQueue' \in Enqueued(globalQueue, k)
    BY <1>4 DEF ScheduleGlobal
  <2>2. Range(globalQueue) \cup {k} \subseteq Range(globalQueue')
    BY <1>0, <2>1, EnqueuedRange
  <2>3. \A j : Held(j) \/ j = k => Held(j)'
    BY <2>1, <2>2 DEF Held
  <2> QED BY <2>1, <2>3, KeptStep
<1>5. ASSUME NEW t \in Threads, Finish(t) PROVE KeptOK'
  <2>1. /\ UNCHANGED <<globalQueue, localQueue, submitted>> /\ finished' = finished \cup {Last(stack[t])}
        /\ stack' = [stack EXCEPT ![t] = Front(@)] /\ stack[t] # <<>>
    BY <1>5 DEF Finish, queues, Idle
  <2>2. /\ Range(stack[t]) \subseteq Range(stack'[t]) \cup {Last(stack[t])}
        /\ \A u \in Threads \ {t} : stack'[u] = stack[u]
    BY <1>0, <2>1, ReturnRange
  <2>3. \A j : Held(j) => Held(j)'
    BY <2>1, <2>2 DEF Held
  <2> QED BY <2>1, <2>3, KeptStep
<1>6. ASSUME NEW w \in Workers, DequeueGlobal(w) PROVE KeptOK'
  <2>1. CASE globalQueue = <<>>
    BY <1>1, <1>6, <2>1 DEF DequeueGlobal, queues
  <2>2. CASE globalQueue # <<>>
    <3>1. /\ UNCHANGED <<localQueue, submitted, finished>> /\ globalQueue' = Tail(globalQueue)
          /\ stack' = [stack EXCEPT ![w] = <<Head(globalQueue)>>] /\ stack[w] = <<>>
      BY <1>6, <2>2 DEF DequeueGlobal, history, DrainOK, LocalQueueDrained, OutOfWork, Idle
    <3>2. /\ Range(globalQueue) \subseteq Range(globalQueue') \cup Range(stack'[w])
          /\ \A u \in Threads \ {w} : stack'[u] = stack[u]
      BY <1>0, <2>2, <3>1, PopRange, ShortRange, ThreadKinds
    <3>3. \A j : j \notin Range(stack[w])
      BY <3>1 DEF Range
    <3>4. \A j : Held(j) => Held(j)'
      BY <3>1, <3>2, <3>3, ThreadKinds DEF Held
    <3> QED BY <3>1, <3>4, KeptStep
  <2> QED BY <2>1, <2>2
<1>7. ASSUME NEW w \in Workers, NEW v \in Workers, localQueue[v] # <<>>, stack[w] = <<>>,
             UNCHANGED <<globalQueue, submitted, finished>>,
             localQueue' = [localQueue EXCEPT ![v] = Tail(@)],
             stack' = [stack EXCEPT ![w] = <<Head(localQueue[v])>>]
      PROVE  KeptOK'
  <2>1. /\ Range(localQueue[v]) \subseteq Range(localQueue'[v]) \cup Range(stack'[w])
        /\ \A u \in Threads \ {w} : stack'[u] = stack[u]
        /\ \A u \in Workers \ {v} : localQueue'[u] = localQueue[u]
    BY <1>0, <1>7, PopRange, ShortRange, ThreadKinds
  <2>2. \A j : j \notin Range(stack[w])
    BY <1>7 DEF Range
  <2>3. \A j : Held(j) => Held(j)'
    BY <1>7, <2>1, <2>2, ThreadKinds DEF Held
  <2> QED BY <1>7, <2>3, KeptStep
<1>8. ASSUME NEW w \in Workers, SelfSteal(w) PROVE KeptOK'
  <2>1. CASE NoLocalJob(w)
    BY <1>1, <1>8, <2>1 DEF SelfSteal, NoLocalJob, queues
  <2>2. CASE TakeLocalJob(w)
    <3>1. stack[w] = <<>>
      BY <1>8 DEF SelfSteal, DrainOK, LocalQueueDrained, OutOfWork, Idle
    <3> QED BY <1>7, <1>8, <2>2, <3>1 DEF SelfSteal, TakeLocalJob, history
  <2> QED BY <1>8, <2>1, <2>2 DEF SelfSteal
<1>9. ASSUME NEW w \in Workers, StealHit(w) PROVE KeptOK'
  <2>1. victim[w] \in Workers
    BY <1>9 DEF StealHit, ThiefOK
  <2>2. stack[w] = <<>>
    BY <1>9 DEF StealHit, DrainOK, LocalQueueDrained, OutOfWork, Idle
  <2> QED BY <1>7, <1>9, <2>1, <2>2 DEF StealHit, history
<1>10. ASSUME Construct \/ Stop \/ Destroy \/ Freed \/ Prioritize \/ UNCHANGED vars
       PROVE  KeptOK'
  BY <1>1, <1>10
  DEF Construct, SpawnThread, PushThread, PostStart, Stop, Destroy, ReleaseWorker, Join, Freed,
      Prioritize, SetPriority, vars, queues
<1>11. ASSUME NEW t \in Threads, NotifyWorker(t) PROVE KeptOK'
  BY <1>1, <1>11 DEF NotifyWorker, NotifyLoad, NotifyExchange, NotifyDecrement, NotifyPost, queues
<1>12. ASSUME NEW w \in Workers,
              \/ Start(w) \/ ExitCheck(w) \/ FirstEmpty(w) \/ SecondEmpty(w) \/ CountSleeper(w)
              \/ MarkSleeping(w) \/ Acquire(w) \/ StealMiss(w)
       PROVE  KeptOK'
  BY <1>1, <1>12
  DEF Start, ExitCheck, FirstEmpty, SecondEmpty, CountSleeper, MarkSleeping, Acquire, StealMiss, queues
<1> QED
  BY <1>2, <1>3, <1>4, <1>5, <1>6, <1>8, <1>9, <1>10, <1>11, <1>12, ThreadKinds
  DEF Next, Worker, External, Running

-----------------------------------------------------------------------------
(* No job is in two places.                                                *)

\* Everything that holds a job holds one that was scheduled, and no other
\* queue, thread or entry holds it too.
PlacedOnce ==
    /\ \A j : Held(j) => j \in submitted
    /\ NoRepeat(globalQueue)
    /\ \A w \in Workers : NoRepeat(localQueue[w])
    /\ \A t \in Threads : NoRepeat(stack[t])
    /\ \A w \in Workers : Apart(globalQueue, localQueue[w])
    /\ \A t \in Threads : Apart(globalQueue, stack[t])
    /\ \A w \in Workers, t \in Threads : Apart(localQueue[w], stack[t])
    /\ \A v, w \in Workers : v # w => Apart(localQueue[v], localQueue[w])
    /\ \A t, u \in Threads : t # u => Apart(stack[t], stack[u])
    /\ \A j \in finished : /\ j \notin Range(globalQueue)
                           /\ \A w \in Workers : j \notin Range(localQueue[w])
                           /\ \A t \in Threads : j \notin Range(stack[t])

\* Nothing holds a job at first.
LEMMA PlacedInit == Init => PlacedOnce
<1> SUFFICES ASSUME Init PROVE PlacedOnce
  OBVIOUS
<1>1. /\ globalQueue = <<>> /\ finished = {}
      /\ \A w \in Workers : localQueue[w] = <<>>
      /\ \A t \in Threads : stack[t] = <<>>
  BY DEF Init
<1> QED BY <1>1, ShortRange DEF PlacedOnce, Held, Apart

\* A job that enters a queue or a stack is new; one that leaves a queue enters the
\* empty stack of the worker that took it, and one that leaves a stack is finished.
LEMMA PlacedNext == TypeOK /\ ThiefOK /\ DrainOK /\ PlacedOnce /\ [Next]_vars => PlacedOnce'
<1> SUFFICES ASSUME TypeOK, ThiefOK, DrainOK, PlacedOnce, [Next]_vars PROVE PlacedOnce'
  OBVIOUS
<1>0. /\ globalQueue \in Seq(Jobs) /\ localQueue \in [Workers -> Seq(Jobs)]
      /\ stack \in [Threads -> Seq(Jobs)]
  BY DEF TypeOK
<1>1. ASSUME UNCHANGED <<globalQueue, localQueue, stack, history>> PROVE PlacedOnce'
  BY <1>1 DEF history, PlacedOnce, Held, NoRepeat, Apart
<1>2. ASSUME NEW t \in Threads, NEW k \in Jobs, ScheduleEmpty(t, k) PROVE PlacedOnce'
  <2>1. /\ UNCHANGED <<globalQueue, localQueue, finished>> /\ submitted' = submitted \cup {k}
        /\ stack' = [stack EXCEPT ![t] = Append(@, k)] /\ ~Held(k)
    BY <1>2 DEF ScheduleEmpty, MaySchedule, queues, PlacedOnce
  <2>2. /\ Range(stack'[t]) = Range(stack[t]) \cup {k} /\ NoRepeat(stack'[t])
        /\ \A u \in Threads \ {t} : stack'[u] = stack[u]
    BY <1>0, <2>1, CallRange DEF PlacedOnce, Held
  <2>3. \A j : Held(j)' => Held(j) \/ j = k
    BY <2>1, <2>2 DEF Held
  <2>4. \A u \in Threads : NoRepeat(stack'[u])
    BY <2>2 DEF PlacedOnce
  <2>5. /\ \A u \in Threads : Apart(globalQueue', stack'[u])
        /\ \A w \in Workers, u \in Threads : Apart(localQueue'[w], stack'[u])
    <3>1. k \notin Range(globalQueue) /\ \A w \in Workers : k \notin Range(localQueue[w])
      BY <2>1 DEF Held
    <3>2. \A u \in Threads : Apart(globalQueue, stack[u])
      BY DEF PlacedOnce
    <3>3. \A w \in Workers, u \in Threads : Apart(localQueue[w], stack[u])
      BY DEF PlacedOnce
    <3>4. \A u \in Threads : Apart(globalQueue', stack'[u])
      BY <2>1, <2>2, <3>1, <3>2 DEF Apart
    <3>5. \A w \in Workers, u \in Threads : Apart(localQueue'[w], stack'[u])
      BY <2>1, <2>2, <3>1, <3>3 DEF Apart
    <3> QED BY <3>4, <3>5
  <2>6. \A u, v \in Threads : u # v => Apart(stack'[u], stack'[v])
    BY <2>1, <2>2 DEF PlacedOnce, Held, Apart
  <2>7. \A j \in finished', u \in Threads : j \notin Range(stack'[u])
    BY <2>1, <2>2 DEF PlacedOnce, Held
  <2> QED BY <2>1, <2>3, <2>4, <2>5, <2>6, <2>7 DEF PlacedOnce
<1>3. ASSUME NEW t \in Threads, NEW k \in Jobs, ScheduleLocal(t, k) PROVE PlacedOnce'
  <2>1. PICK q \in Enqueued(localQueue[t], k) :
        /\ UNCHANGED <<globalQueue, stack, finished>> /\ submitted' = submitted \cup {k} /\ t \in Workers
        /\ localQueue' = [localQueue EXCEPT ![t] = q] /\ ~Held(k)
    BY <1>3 DEF ScheduleLocal, MaySchedule, PlacedOnce
  <2>2. /\ Range(localQueue'[t]) = Range(localQueue[t]) \cup {k} /\ NoRepeat(localQueue'[t])
        /\ \A u \in Workers \ {t} : localQueue'[u] = localQueue[u]
    BY <1>0, <2>1, EnqueuedRange DEF PlacedOnce, Held
  <2> QED BY SMTT(30), <2>1, <2>2 DEF PlacedOnce, Held, Apart
<1>4. ASSUME NEW t \in Threads, NEW k \in Jobs, ScheduleGlobal(t, k) PROVE PlacedOnce'
  <2>1. /\ UNCHANGED <<localQueue, stack, finished>> /\ submitted' = submitted \cup {k}
        /\ globalQueue' \in Enqueued(globalQueue, k) /\ ~Held(k)
    BY <1>4 DEF ScheduleGlobal, MaySchedule, PlacedOnce
  <2>2. Range(globalQueue') = Range(globalQueue) \cup {k} /\ NoRepeat(globalQueue')
    BY <1>0, <2>1, EnqueuedRange DEF PlacedOnce, Held
  <2> QED BY <2>1, <2>2 DEF PlacedOnce, Held, Apart
<1>5. ASSUME NEW t \in Threads, Finish(t) PROVE PlacedOnce'
  <2>1. /\ UNCHANGED <<globalQueue, localQueue, submitted>> /\ finished' = finished \cup {Last(stack[t])}
        /\ stack' = [stack EXCEPT ![t] = Front(@)] /\ stack[t] # <<>>
    BY <1>5 DEF Finish, queues, Idle
  <2>2. /\ Range(stack[t]) = Range(stack'[t]) \cup {Last(stack[t])}
        /\ NoRepeat(stack'[t]) /\ Last(stack[t]) \notin Range(stack'[t])
        /\ \A u \in Threads \ {t} : stack'[u] = stack[u]
    BY <1>0, <2>1, ReturnRange DEF PlacedOnce
  <2> QED BY <2>1, <2>2 DEF PlacedOnce, Held, Apart
<1>6. ASSUME NEW w \in Workers, DequeueGlobal(w) PROVE PlacedOnce'
  <2>1. CASE globalQueue = <<>>
    BY <1>1, <1>6, <2>1 DEF DequeueGlobal, queues
  <2>2. CASE globalQueue # <<>>
    <3>1. /\ UNCHANGED <<localQueue, submitted, finished>> /\ globalQueue' = Tail(globalQueue)
          /\ stack' = [stack EXCEPT ![w] = <<Head(globalQueue)>>] /\ stack[w] = <<>>
      BY <1>6, <2>2 DEF DequeueGlobal, history, DrainOK, LocalQueueDrained, OutOfWork, Idle
    <3>2. /\ Range(globalQueue) = Range(globalQueue') \cup {Head(globalQueue)}
          /\ NoRepeat(globalQueue') /\ Head(globalQueue) \notin Range(globalQueue')
      BY <1>0, <2>2, <3>1, PopRange DEF PlacedOnce
    <3>3. /\ Range(stack'[w]) = {Head(globalQueue)} /\ NoRepeat(stack'[w])
          /\ \A u \in Threads \ {w} : stack'[u] = stack[u]
      BY <1>0, <3>1, ShortRange, ThreadKinds
    <3> QED BY <3>1, <3>2, <3>3, ThreadKinds DEF PlacedOnce, Held, Apart
  <2> QED BY <2>1, <2>2
<1>7. ASSUME NEW w \in Workers, NEW v \in Workers, localQueue[v] # <<>>, stack[w] = <<>>,
             UNCHANGED <<globalQueue, submitted, finished>>,
             localQueue' = [localQueue EXCEPT ![v] = Tail(@)],
             stack' = [stack EXCEPT ![w] = <<Head(localQueue[v])>>]
      PROVE  PlacedOnce'
  <2> DEFINE j == Head(localQueue[v])
  <2>1. /\ Range(localQueue[v]) = Range(localQueue'[v]) \cup {j}
        /\ NoRepeat(localQueue'[v]) /\ j \notin Range(localQueue'[v])
        /\ \A u \in Workers \ {v} : localQueue'[u] = localQueue[u]
    BY <1>0, <1>7, PopRange DEF PlacedOnce
  <2>2. /\ Range(stack'[w]) = {j} /\ NoRepeat(stack'[w])
        /\ \A u \in Threads \ {w} : stack'[u] = stack[u]
    BY <1>0, <1>7, ShortRange, ThreadKinds
  <2> HIDE DEF j
  <2>3. ASSUME NEW k PROVE Held(k)' => Held(k)
    BY <1>7, <2>1, <2>2, ThreadKinds DEF Held
  <2>4. \A u \in Threads : NoRepeat(stack'[u])
    BY <2>2 DEF PlacedOnce
  <2>5. \A u \in Workers : NoRepeat(localQueue'[u])
    BY <2>1 DEF PlacedOnce
  <2>6. \A u \in Workers : Range(localQueue'[u]) \subseteq Range(localQueue[u]) /\ j \notin Range(localQueue'[u])
    BY <2>1 DEF PlacedOnce, Apart
  <2>7. /\ j \notin Range(globalQueue) /\ j \notin finished
        /\ \A u \in Threads \ {w} : j \notin Range(stack'[u])
    BY <2>1, <2>2 DEF PlacedOnce, Apart
  <2>8. /\ \A u \in Threads : Apart(globalQueue', stack'[u])
        /\ \A u \in Workers : Apart(globalQueue', localQueue'[u])
    <3>1. /\ \A u \in Threads : Apart(globalQueue, stack[u])
          /\ \A u \in Workers : Apart(globalQueue, localQueue[u])
      BY DEF PlacedOnce
    <3>2. globalQueue' = globalQueue
      BY <1>7
    <3>3. \A u \in Threads : Apart(globalQueue', stack'[u])
      BY <2>2, <2>7, <3>1, <3>2 DEF Apart
    <3>4. \A u \in Workers : Apart(globalQueue', localQueue'[u])
      BY <2>6, <3>1, <3>2 DEF Apart
    <3> QED BY <3>3, <3>4
  <2>9. /\ \A u \in Workers, t \in Threads : Apart(localQueue'[u], stack'[t])
        /\ \A u, t \in Workers : u # t => Apart(localQueue'[u], localQueue'[t])
        /\ \A u, t \in Threads : u # t => Apart(stack'[u], stack'[t])
    <3>1. /\ \A u \in Workers, t \in Threads : Apart(localQueue[u], stack[t])
          /\ \A u, t \in Workers : u # t => Apart(localQueue[u], localQueue[t])
          /\ \A u, t \in Threads : u # t => Apart(stack[u], stack[t])
      BY DEF PlacedOnce
    <3>2. \A u \in Workers, t \in Threads : Apart(localQueue'[u], stack'[t])
      BY <2>2, <2>6, <2>7, <3>1 DEF Apart
    <3>3. \A u, t \in Workers : u # t => Apart(localQueue'[u], localQueue'[t])
      BY <2>6, <3>1 DEF Apart
    <3>4. \A u, t \in Threads : u # t => Apart(stack'[u], stack'[t])
      BY <2>2, <2>7, <3>1 DEF Apart
    <3> QED BY <3>2, <3>3, <3>4
  <2>10. \A k \in finished' : /\ k \notin Range(globalQueue')
                              /\ \A u \in Workers : k \notin Range(localQueue'[u])
                              /\ \A u \in Threads : k \notin Range(stack'[u])
    <3>1. \A k \in finished : /\ k \notin Range(globalQueue)
                              /\ \A u \in Workers : k \notin Range(localQueue[u])
                              /\ \A u \in Threads : k \notin Range(stack[u])
      BY DEF PlacedOnce
    <3>2. finished' = finished /\ globalQueue' = globalQueue
      BY <1>7
    <3> QED BY <2>2, <2>6, <2>7, <3>1, <3>2
  <2> QED BY <1>7, <2>3, <2>4, <2>5, <2>8, <2>9, <2>10 DEF PlacedOnce
<1>8. ASSUME NEW w \in Workers, SelfSteal(w) PROVE PlacedOnce'
  <2>1. CASE NoLocalJob(w)
    BY <1>1, <1>8, <2>1 DEF SelfSteal, NoLocalJob, queues
  <2>2. CASE TakeLocalJob(w)
    <3>1. stack[w] = <<>>
      BY <1>8 DEF SelfSteal, DrainOK, LocalQueueDrained, OutOfWork, Idle
    <3> QED BY <1>7, <1>8, <2>2, <3>1 DEF SelfSteal, TakeLocalJob, history
  <2> QED BY <1>8, <2>1, <2>2 DEF SelfSteal
<1>9. ASSUME NEW w \in Workers, StealHit(w) PROVE PlacedOnce'
  <2>1. victim[w] \in Workers
    BY <1>9 DEF StealHit, ThiefOK
  <2>2. stack[w] = <<>>
    BY <1>9 DEF StealHit, DrainOK, LocalQueueDrained, OutOfWork, Idle
  <2> QED BY <1>7, <1>9, <2>1, <2>2 DEF StealHit, history
<1>10. ASSUME Construct \/ Stop \/ Destroy \/ Freed \/ Prioritize \/ UNCHANGED vars
       PROVE  PlacedOnce'
  BY <1>1, <1>10
  DEF Construct, SpawnThread, PushThread, PostStart, Stop, Destroy, ReleaseWorker, Join, Freed,
      Prioritize, SetPriority, vars, queues
<1>11. ASSUME NEW t \in Threads, NotifyWorker(t) PROVE PlacedOnce'
  BY <1>1, <1>11 DEF NotifyWorker, NotifyLoad, NotifyExchange, NotifyDecrement, NotifyPost, queues
<1>12. ASSUME NEW w \in Workers,
              \/ Start(w) \/ ExitCheck(w) \/ FirstEmpty(w) \/ SecondEmpty(w) \/ CountSleeper(w)
              \/ MarkSleeping(w) \/ Acquire(w) \/ StealMiss(w)
       PROVE  PlacedOnce'
  BY <1>1, <1>12
  DEF Start, ExitCheck, FirstEmpty, SecondEmpty, CountSleeper, MarkSleeping, Acquire, StealMiss, queues
<1> QED
  BY <1>2, <1>3, <1>4, <1>5, <1>6, <1>8, <1>9, <1>10, <1>11, <1>12, ThreadKinds
  DEF Next, Worker, External, Running

-----------------------------------------------------------------------------
(* The theorems, from one inductive invariant.                             *)

\* What every reachable state satisfies; TypeOK is needed for every part.
IInv ==
    /\ TypeOK /\ ThiefOK /\ OwnerOK /\ SleepOK /\ DrainOK /\ UndisturbedInOrder
    /\ JoinedOK /\ KeptOK /\ PlacedOnce

\* IInv holds in every reachable state: the constructor's first state satisfies it
\* and every step of the owner, a worker or an external thread keeps it.
THEOREM Inductive == Spec => []IInv
<1>1. Init => IInv
  BY TypeInit, ThiefInit, OwnerInit, SleepInit, DrainInit, OrderInit, JoinedInit, KeptInit, PlacedInit
  DEF IInv
<1>2. IInv /\ [Next]_vars => IInv'
  BY TypeNext, ThiefNext, OwnerNext, SleepNext, DrainNext, OrderNext, JoinedNext, KeptNext, PlacedNext
  DEF IInv
<1> QED BY <1>1, <1>2, PTL DEF Spec

\* Every variable keeps its type: the counts, indexes and queues the code
\* indexes m_Threads and the queues with are what it takes them for.
THEOREM TypeCorrect == Spec => []TypeOK
<1>1. IInv => TypeOK
  BY DEF IInv
<1> QED BY <1>1, Inductive, PTL

\* TryStealJob never locks the thief's own queue, which would deadlock a worker
\* against itself, and never indexes m_Threads past the last worker.
THEOREM StealTargets == Spec => []StealTargetsAnother
<1>1. IInv => StealTargetsAnother
  BY DEF IInv, ThiefOK, StealTargetsAnother
<1> QED BY <1>1, Inductive, PTL

\* No worker reads m_Threads before the constructor has filled it.
THEOREM Registered == Spec => []AllRegistered
<1>1. IInv => AllRegistered
  BY DEF IInv, OwnerOK, AllRegistered
<1> QED BY <1>1, Inductive, PTL

\* NotifyWorker, MarkSleeping and the destructor's Release neither lose the
\* wake-up of a marked worker nor produce one too many.
THEOREM WakeUpsExact == Spec => []WakeTokens
<1>1. IInv => WakeTokens
  BY DEF IInv, SleepOK
<1> QED BY <1>1, Inductive, PTL

\* m_SleepingWorkerCount is, at every step, the number of workers it stands for.
THEOREM SleepersCounted == Spec => []SleepAccounting
<1>1. IInv => SleepAccounting
  BY DEF IInv, SleepOK
<1> QED BY <1>1, Inductive, PTL

\* A worker that parks, exits or steals leaves no job in its own queue.
THEOREM Drained == Spec => []LocalQueueDrained
<1>1. IInv => LocalQueueDrained
  BY DEF IInv, DrainOK
<1> QED BY <1>1, Inductive, PTL

\* Whoever calls SetPriority and when, jobs that were not changed in a queue, nor pushed
\* into one that holds such a job, are handed out the more urgent one first.
THEOREM KeepsOrder == Spec => []UndisturbedInOrder
<1>1. IInv => UndisturbedInOrder
  BY DEF IInv
<1> QED BY <1>1, Inductive, PTL

\* When the destructor returns every worker has been joined and is gone, no
\* external thread is inside a call, and each job that never ran is still in the
\* global queue: none is left in a worker's queue or half executed.
THEOREM Quiescent == Spec => []FreedIsQuiescent
<1>1. IInv => FreedIsQuiescent
  <2> SUFFICES ASSUME IInv, ownerPc = "freed"
               PROVE  /\ \A w \in Workers : pc[w] = "exited"
                      /\ \A e \in Externals : Idle(e) /\ pc[e] = "run"
                      /\ submitted \subseteq finished \cup Range(globalQueue)
    BY DEF FreedIsQuiescent
  <2>1. \A w \in Workers : pc[w] = "exited"
    BY DEF IInv, JoinedOK, Joined
  <2>2. \A e \in Externals : Idle(e) /\ pc[e] = "run"
    BY DEF IInv, JoinedOK
  <2>3. \A w \in Workers : localQueue[w] = <<>> /\ stack[w] = <<>>
    BY <2>1 DEF IInv, DrainOK, LocalQueueDrained, OutOfWork, Idle
  <2>4. \A t \in Threads : stack[t] = <<>>
    BY <2>2, <2>3 DEF Threads, Idle
  <2>5. \A j : j \notin Range(<<>>)
    BY DEF Range
  <2>6. \A j \in submitted : j \in finished \/ j \in Range(globalQueue)
    BY <2>3, <2>4, <2>5 DEF IInv, KeptOK, Held
  <2> QED BY <2>1, <2>2, <2>6
<1> QED BY <1>1, Inductive, PTL

\* A thread uses a thread record or a queue only between the end of the constructor and
\* its own join, only another worker's when it steals, and what is freed is unused.
THEOREM Lifetime == Spec => []WithinLifetime
<1>1. AllRegistered /\ StealTargetsAnother /\ FreedIsQuiescent => WithinLifetime
  BY DEF WithinLifetime
<1> QED BY <1>1, Registered, StealTargets, Quiescent, PTL

\* Every element of Places names a queue entry, an activation or the end of the job.
LEMMA PlacesOf ==
    ASSUME NEW j
    PROVE  \A x : x \in Places(j) <=>
               \/ \E i \in DOMAIN globalQueue : globalQueue[i] = j /\ x = <<"global", 0, i>>
               \/ \E w \in Workers : \E i \in DOMAIN localQueue[w] : localQueue[w][i] = j /\ x = <<"local", w, i>>
               \/ \E t \in Threads : \E i \in DOMAIN stack[t] : stack[t][i] = j /\ x = <<"running", t, i>>
               \/ j \in finished /\ x = <<"finished", 0, 0>>
<1> DEFINE global == {<<"global", 0, i>> : i \in {n \in DOMAIN globalQueue : globalQueue[n] = j}}
           local(w) == {<<"local", w, i>> : i \in {n \in DOMAIN localQueue[w] : localQueue[w][n] = j}}
           run(t) == {<<"running", t, i>> : i \in {n \in DOMAIN stack[t] : stack[t][n] = j}}
           end == {<<"finished", 0, 0>> : n \in {j} \cap finished}
           locals == UNION {local(w) : w \in Workers}
           runs == UNION {run(t) : t \in Threads}
<1>1. Places(j) = global \cup locals \cup runs \cup end
  BY Zenon DEF Places
<1>2. \A x : x \in Places(j) <=> \/ x \in global
                                 \/ \E w \in Workers : x \in local(w)
                                 \/ \E t \in Threads : x \in run(t)
                                 \/ x \in end
  <2> HIDE DEF global, local, run, end
  <2>1. \A x : x \in UNION {local(w) : w \in Workers} <=> \E w \in Workers : x \in local(w)
    OBVIOUS
  <2>2. \A x : x \in UNION {run(t) : t \in Threads} <=> \E t \in Threads : x \in run(t)
    OBVIOUS
  <2>3. \A x : x \in Places(j) <=> x \in global \/ x \in locals \/ x \in runs \/ x \in end
    <3> HIDE DEF locals, runs
    <3> QED BY <1>1, Zenon
  <2> QED BY <2>1, <2>2, <2>3, Zenon
<1>3. \A w, x : x \in local(w) <=> \E i \in DOMAIN localQueue[w] : localQueue[w][i] = j /\ x = <<"local", w, i>>
  OBVIOUS
<1>4. \A t, x : x \in run(t) <=> \E i \in DOMAIN stack[t] : stack[t][i] = j /\ x = <<"running", t, i>>
  OBVIOUS
<1>5. \A x : /\ x \in global <=> \E i \in DOMAIN globalQueue : globalQueue[i] = j /\ x = <<"global", 0, i>>
             /\ x \in end <=> j \in finished /\ x = <<"finished", 0, 0>>
  OBVIOUS
<1> HIDE DEF global, local, run, end
<1> QED
  <2> SUFFICES ASSUME NEW x
               PROVE  x \in Places(j) <=>
                   \/ \E i \in DOMAIN globalQueue : globalQueue[i] = j /\ x = <<"global", 0, i>>
                   \/ \E w \in Workers : \E i \in DOMAIN localQueue[w] : localQueue[w][i] = j /\ x = <<"local", w, i>>
                   \/ \E t \in Threads : \E i \in DOMAIN stack[t] : stack[t][i] = j /\ x = <<"running", t, i>>
                   \/ j \in finished /\ x = <<"finished", 0, 0>>
    BY Zenon
  <2>1. /\ x \in global <=> \E i \in DOMAIN globalQueue : globalQueue[i] = j /\ x = <<"global", 0, i>>
        /\ x \in end <=> j \in finished /\ x = <<"finished", 0, 0>>
    BY <1>5, Zenon
  <2>2. (\E w \in Workers : x \in local(w)) <=>
            \E w \in Workers : \E i \in DOMAIN localQueue[w] : localQueue[w][i] = j /\ x = <<"local", w, i>>
    BY <1>3, Zenon
  <2>3. (\E t \in Threads : x \in run(t)) <=>
            \E t \in Threads : \E i \in DOMAIN stack[t] : stack[t][i] = j /\ x = <<"running", t, i>>
    BY <1>4, Zenon
  <2> QED BY <1>2, <2>1, <2>2, <2>3, Zenon

\* ScheduleJob hands a job to exactly one place, and every dequeue, steal, inline
\* execution and return moves it to one other: no job is lost or executed twice.
THEOREM OnePlace == Spec => []JobInOnePlace
<1>1. IInv => JobInOnePlace
  <2> SUFFICES ASSUME IInv, NEW j \in Jobs
               PROVE  Cardinality(Places(j)) = Count(j \in submitted)
    BY DEF JobInOnePlace
  <2>0. PlacedOnce /\ (j \in submitted <=> Held(j))
    BY DEF IInv, PlacedOnce, KeptOK
  <2>1. \A q : j \in Range(q) <=> \E i \in DOMAIN q : q[i] = j
    BY DEF Range
  <2>2. CASE ~Held(j)
    <3>1. Places(j) = {}
      BY <2>1, <2>2, PlacesOf DEF Held
    <3> QED BY <2>0, <2>2, <3>1, FS_EmptySet DEF Count
  <2>3. CASE Held(j)
    <3> SUFFICES \E x : Places(j) = {x}
      BY <2>0, <2>3, FS_Singleton DEF Count
    <3>1. CASE j \in finished
      <4>1. Places(j) = {<<"finished", 0, 0>>}
        BY <2>0, <2>1, <3>1, PlacesOf DEF PlacedOnce
      <4> QED BY <4>1
    <3>2. CASE j \in Range(globalQueue)
      <4>1. PICK i \in DOMAIN globalQueue : globalQueue[i] = j
        BY <2>1, <3>2
      <4>2. \A k \in DOMAIN globalQueue : globalQueue[k] = j => k = i
        BY <2>0, <4>1 DEF PlacedOnce, NoRepeat
      <4>3. /\ j \notin finished
            /\ \A w \in Workers : j \notin Range(localQueue[w])
            /\ \A t \in Threads : j \notin Range(stack[t])
        BY <2>0, <3>2 DEF PlacedOnce, Apart
      <4>4. Places(j) = {<<"global", 0, i>>}
        BY <2>1, <4>1, <4>2, <4>3, PlacesOf
      <4> QED BY <4>4
    <3>3. ASSUME NEW w \in Workers, j \in Range(localQueue[w])
          PROVE  \E x : Places(j) = {x}
      <4>1. PICK i \in DOMAIN localQueue[w] : localQueue[w][i] = j
        BY <2>1, <3>3
      <4>2. \A k \in DOMAIN localQueue[w] : localQueue[w][k] = j => k = i
        BY <2>0, <4>1 DEF PlacedOnce, NoRepeat
      <4>3. /\ j \notin finished /\ j \notin Range(globalQueue)
            /\ \A v \in Workers : v # w => j \notin Range(localQueue[v])
            /\ \A t \in Threads : j \notin Range(stack[t])
        BY <2>0, <3>3 DEF PlacedOnce, Apart
      <4>4. Places(j) = {<<"local", w, i>>}
        BY <2>1, <4>1, <4>2, <4>3, PlacesOf
      <4> QED BY <4>4
    <3>4. ASSUME NEW t \in Threads, j \in Range(stack[t])
          PROVE  \E x : Places(j) = {x}
      <4>1. PICK i \in DOMAIN stack[t] : stack[t][i] = j
        BY <2>1, <3>4
      <4>2. \A k \in DOMAIN stack[t] : stack[t][k] = j => k = i
        BY <2>0, <4>1 DEF PlacedOnce, NoRepeat
      <4>3. /\ j \notin finished /\ j \notin Range(globalQueue)
            /\ \A w \in Workers : j \notin Range(localQueue[w])
            /\ \A u \in Threads : u # t => j \notin Range(stack[u])
        BY <2>0, <3>4 DEF PlacedOnce, Apart
      <4>4. Places(j) = {<<"running", t, i>>}
        BY <2>1, <4>1, <4>2, <4>3, PlacesOf
      <4> QED BY <4>4
    <3> QED BY <2>3, <3>1, <3>2, <3>3, <3>4 DEF Held
  <2> QED BY <2>2, <2>3
<1> QED BY <1>1, Inductive, PTL

-----------------------------------------------------------------------------
(* The scheduler implements the pool its users see.                        *)

Executing(j) == \E t \in Threads : j \in Range(stack[t])

\* The pool's state: the sets ImplementsPool substitutes for its variables.
Waiting == {j \in Jobs : Queued(j)}
Active  == {j \in Jobs : Executing(j)}

\* A step of the pool, spelt out for those sets.
PoolStep ==
    \/ \E k \in Jobs :
           \/ /\ ~Held(k) /\ Waiting' = Waiting \cup {k} /\ Active' = Active /\ finished' = finished
           \/ /\ ~Held(k) /\ Active' = Active \cup {k} /\ Waiting' = Waiting /\ finished' = finished
           \/ /\ k \in Waiting /\ Waiting' = Waiting \ {k} /\ Active' = Active \cup {k}
              /\ finished' = finished
           \/ /\ k \in Active /\ Active' = Active \ {k} /\ finished' = finished \cup {k}
              /\ Waiting' = Waiting
    \/ Waiting' = Waiting /\ Active' = Active /\ finished' = finished

\* Every step that moves no job is a stutter of the pool, every other one moves
\* one job as the pool does.
LEMMA StepOfPool == TypeOK /\ ThiefOK /\ DrainOK /\ PlacedOnce /\ [Next]_vars => PoolStep
<1> SUFFICES ASSUME TypeOK, ThiefOK, DrainOK, PlacedOnce, [Next]_vars PROVE PoolStep
  OBVIOUS
<1>0. /\ globalQueue \in Seq(Jobs) /\ localQueue \in [Workers -> Seq(Jobs)]
      /\ stack \in [Threads -> Seq(Jobs)]
  BY DEF TypeOK
<1>1. ASSUME UNCHANGED <<globalQueue, localQueue, stack, history>> PROVE PoolStep
  BY <1>1 DEF history, PoolStep, Waiting, Active, Queued, Executing
<1>2. ASSUME NEW t \in Threads, NEW k \in Jobs, ScheduleEmpty(t, k) PROVE PoolStep
  <2>1. /\ UNCHANGED <<globalQueue, localQueue, finished>>
        /\ stack' = [stack EXCEPT ![t] = Append(@, k)] /\ ~Held(k)
    BY <1>2 DEF ScheduleEmpty, MaySchedule, queues, PlacedOnce
  <2>2. /\ Range(stack'[t]) = Range(stack[t]) \cup {k}
        /\ \A u \in Threads \ {t} : stack'[u] = stack[u]
    BY <1>0, <2>1, CallRange
  <2>3. \A j : Executing(j)' <=> Executing(j) \/ j = k
    BY <2>2 DEF Executing
  <2>4. Active' = Active \cup {k} /\ Waiting' = Waiting
    BY <2>1, <2>3 DEF Active, Waiting, Queued
  <2> QED BY <2>1, <2>4 DEF PoolStep
<1>3. ASSUME NEW t \in Threads, NEW k \in Jobs, ScheduleLocal(t, k) PROVE PoolStep
  <2>1. PICK q \in Enqueued(localQueue[t], k) :
        /\ UNCHANGED <<globalQueue, stack, finished>> /\ t \in Workers
        /\ localQueue' = [localQueue EXCEPT ![t] = q] /\ ~Held(k)
    BY <1>3 DEF ScheduleLocal, MaySchedule, PlacedOnce
  <2>2. /\ Range(localQueue'[t]) = Range(localQueue[t]) \cup {k}
        /\ \A u \in Workers \ {t} : localQueue'[u] = localQueue[u]
    BY <1>0, <2>1, EnqueuedRange
  <2>3. \A j : Queued(j)' <=> Queued(j) \/ j = k
    BY <2>1, <2>2 DEF Queued
  <2>4. Waiting' = Waiting \cup {k} /\ Active' = Active
    BY <2>1, <2>3 DEF Active, Waiting, Executing
  <2> QED BY <2>1, <2>4 DEF PoolStep
<1>4. ASSUME NEW t \in Threads, NEW k \in Jobs, ScheduleGlobal(t, k) PROVE PoolStep
  <2>1. /\ UNCHANGED <<localQueue, stack, finished>>
        /\ globalQueue' \in Enqueued(globalQueue, k) /\ ~Held(k)
    BY <1>4 DEF ScheduleGlobal, MaySchedule, PlacedOnce
  <2>2. Range(globalQueue') = Range(globalQueue) \cup {k}
    BY <1>0, <2>1, EnqueuedRange
  <2>3. \A j : Queued(j)' <=> Queued(j) \/ j = k
    BY <2>1, <2>2 DEF Queued
  <2>4. Waiting' = Waiting \cup {k} /\ Active' = Active
    BY <2>1, <2>3 DEF Active, Waiting, Executing
  <2> QED BY <2>1, <2>4 DEF PoolStep
<1>5. ASSUME NEW t \in Threads, Finish(t) PROVE PoolStep
  <2>1. /\ UNCHANGED <<globalQueue, localQueue>> /\ finished' = finished \cup {Last(stack[t])}
        /\ stack' = [stack EXCEPT ![t] = Front(@)] /\ stack[t] # <<>>
    BY <1>5 DEF Finish, queues, Idle
  <2>2. /\ Range(stack[t]) = Range(stack'[t]) \cup {Last(stack[t])}
        /\ Last(stack[t]) \notin Range(stack'[t]) /\ Last(stack[t]) \in Jobs
        /\ \A u \in Threads \ {t} : stack'[u] = stack[u]
    BY <1>0, <2>1, ReturnRange DEF PlacedOnce
  <2>3. \A u \in Threads \ {t} : Last(stack[t]) \notin Range(stack[u])
    <3>1. \A u \in Threads \ {t} : Apart(stack[t], stack[u])
      BY DEF PlacedOnce
    <3> QED BY <2>2, <3>1 DEF Apart
  <2>4. \A j : Executing(j)' <=> Executing(j) /\ j # Last(stack[t])
    BY <2>2, <2>3 DEF Executing
  <2>5. Last(stack[t]) \in Active
    BY <2>2 DEF Active, Executing
  <2>6. Active' = Active \ {Last(stack[t])} /\ Waiting' = Waiting
    BY <2>1, <2>4 DEF Active, Waiting, Queued
  <2> QED BY <2>1, <2>2, <2>5, <2>6 DEF PoolStep
<1>6. ASSUME NEW w \in Workers, NEW j \in Jobs, Queued(j), stack[w] = <<>>,
             stack' = [stack EXCEPT ![w] = <<j>>], finished' = finished,
             \A k : Queued(k)' <=> Queued(k) /\ k # j
      PROVE  PoolStep
  <2>1. /\ Range(stack'[w]) = {j} /\ Range(stack[w]) = {}
        /\ \A u \in Threads \ {w} : stack'[u] = stack[u]
    BY <1>0, <1>6, ShortRange, ThreadKinds
  <2>2. \A k : Executing(k)' <=> Executing(k) \/ k = j
    BY <2>1, ThreadKinds DEF Executing
  <2>3. j \in Waiting /\ Waiting' = Waiting \ {j} /\ Active' = Active \cup {j}
    BY <1>6, <2>2 DEF Waiting, Active
  <2> QED BY <1>6, <2>3 DEF PoolStep
<1>7. ASSUME NEW w \in Workers, DequeueGlobal(w) PROVE PoolStep
  <2>1. CASE globalQueue = <<>>
    BY <1>1, <1>7, <2>1 DEF DequeueGlobal, queues
  <2>2. CASE globalQueue # <<>>
    <3>1. /\ UNCHANGED <<localQueue, finished>> /\ globalQueue' = Tail(globalQueue)
          /\ stack' = [stack EXCEPT ![w] = <<Head(globalQueue)>>] /\ stack[w] = <<>>
      BY <1>7, <2>2 DEF DequeueGlobal, history, DrainOK, LocalQueueDrained, OutOfWork, Idle
    <3>2. /\ Range(globalQueue) = Range(globalQueue') \cup {Head(globalQueue)}
          /\ Head(globalQueue) \notin Range(globalQueue') /\ Head(globalQueue) \in Jobs
      BY <1>0, <2>2, <3>1, PopRange DEF PlacedOnce
    <3>3. \A v \in Workers : Head(globalQueue) \notin Range(localQueue[v])
      <4>1. \A v \in Workers : Apart(globalQueue, localQueue[v])
        BY DEF PlacedOnce
      <4> QED BY <3>2, <4>1 DEF Apart
    <3>4. Queued(Head(globalQueue)) /\ \A k : Queued(k)' <=> Queued(k) /\ k # Head(globalQueue)
      BY <3>1, <3>2, <3>3 DEF Queued
    <3> QED BY <1>6, <3>1, <3>2, <3>4
  <2> QED BY <2>1, <2>2
<1>8. ASSUME NEW w \in Workers, NEW v \in Workers, localQueue[v] # <<>>, stack[w] = <<>>,
             UNCHANGED <<globalQueue, finished>>,
             localQueue' = [localQueue EXCEPT ![v] = Tail(@)],
             stack' = [stack EXCEPT ![w] = <<Head(localQueue[v])>>]
      PROVE  PoolStep
  <2> DEFINE j == Head(localQueue[v])
  <2>1. /\ Range(localQueue[v]) = Range(localQueue'[v]) \cup {j}
        /\ j \notin Range(localQueue'[v]) /\ j \in Jobs
        /\ \A u \in Workers \ {v} : localQueue'[u] = localQueue[u]
    BY <1>0, <1>8, PopRange DEF PlacedOnce
  <2>2. stack' = [stack EXCEPT ![w] = <<j>>]
    BY <1>8
  <2> HIDE DEF j
  <2>3. j \notin Range(globalQueue) /\ \A u \in Workers \ {v} : j \notin Range(localQueue[u])
    <3>1. Apart(globalQueue, localQueue[v]) /\ \A u \in Workers \ {v} : Apart(localQueue[v], localQueue[u])
      BY DEF PlacedOnce
    <3> QED BY <2>1, <3>1 DEF Apart
  <2>4. Queued(j) /\ \A k : Queued(k)' <=> Queued(k) /\ k # j
    BY <1>8, <2>1, <2>3 DEF Queued
  <2> QED BY <1>6, <1>8, <2>1, <2>2, <2>4
<1>9. ASSUME NEW w \in Workers, SelfSteal(w) PROVE PoolStep
  <2>1. CASE NoLocalJob(w)
    BY <1>1, <1>9, <2>1 DEF SelfSteal, NoLocalJob, queues
  <2>2. CASE TakeLocalJob(w)
    <3>1. stack[w] = <<>>
      BY <1>9 DEF SelfSteal, DrainOK, LocalQueueDrained, OutOfWork, Idle
    <3> QED BY <1>8, <1>9, <2>2, <3>1 DEF SelfSteal, TakeLocalJob, history
  <2> QED BY <1>9, <2>1, <2>2 DEF SelfSteal
<1>10. ASSUME NEW w \in Workers, StealHit(w) PROVE PoolStep
  <2>1. victim[w] \in Workers
    BY <1>10 DEF StealHit, ThiefOK
  <2>2. stack[w] = <<>>
    BY <1>10 DEF StealHit, DrainOK, LocalQueueDrained, OutOfWork, Idle
  <2> QED BY <1>8, <1>10, <2>1, <2>2 DEF StealHit, history
<1>11. ASSUME Construct \/ Stop \/ Destroy \/ Freed \/ Prioritize \/ UNCHANGED vars
       PROVE  PoolStep
  BY <1>1, <1>11
  DEF Construct, SpawnThread, PushThread, PostStart, Stop, Destroy, ReleaseWorker, Join, Freed,
      Prioritize, SetPriority, vars, queues
<1>12. ASSUME NEW t \in Threads, NotifyWorker(t) PROVE PoolStep
  BY <1>1, <1>12 DEF NotifyWorker, NotifyLoad, NotifyExchange, NotifyDecrement, NotifyPost, queues
<1>13. ASSUME NEW w \in Workers,
              \/ Start(w) \/ ExitCheck(w) \/ FirstEmpty(w) \/ SecondEmpty(w) \/ CountSleeper(w)
              \/ MarkSleeping(w) \/ Acquire(w) \/ StealMiss(w)
       PROVE  PoolStep
  BY <1>1, <1>13
  DEF Start, ExitCheck, FirstEmpty, SecondEmpty, CountSleeper, MarkSleeping, Acquire, StealMiss, queues
<1> QED
  BY <1>2, <1>3, <1>4, <1>5, <1>7, <1>9, <1>10, <1>11, <1>12, <1>13, ThreadKinds
  DEF Next, Worker, External, Running

\* The scheduler is a pool: each job handed to ScheduleJob starts at most once, on one
\* thread, finishes once, and none runs that was not handed over, for every number of
\* workers and external threads.
THEOREM ImplementsJobPool == Spec => ImplementsPool
<1>1. Init => Pool!PoolInit
  <2>1. ASSUME Init PROVE finished = {} /\ \A j : ~Queued(j) /\ ~Executing(j)
    BY <2>1, ShortRange DEF Init, Queued, Executing
  <2> QED BY <2>1 DEF Pool!PoolInit, Executing
<1>2. IInv /\ PoolStep => [Pool!PoolNext]_(Pool!poolVars)
  <2> SUFFICES ASSUME IInv, PoolStep PROVE [Pool!PoolNext]_(Pool!poolVars)
    OBVIOUS
  <2>1. \A k \in Jobs : ~Held(k) <=> k \notin Waiting \cup Active \cup finished
    BY DEF Held, Waiting, Active, Queued, Executing
  <2> QED
    BY <2>1 DEF PoolStep, Waiting, Active, Executing, Pool!PoolNext, Pool!poolVars, Pool!Known,
                Pool!Submit, Pool!RunInline, Pool!Take, Pool!Done
<1>3. IInv /\ [Next]_vars => [Pool!PoolNext]_(Pool!poolVars)
  BY <1>2, StepOfPool DEF IInv
<1> QED BY <1>1, <1>3, Inductive, PTL DEF Spec, ImplementsPool, Pool!PoolSpec

=============================================================================
