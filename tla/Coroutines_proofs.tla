-------------------------- MODULE Coroutines_proofs --------------------------
(***************************************************************************)
(* Theorems about Coroutines for every program (any coroutines and awaits  *)
(* that AwaitsAssumption allows) on any set of threads.                    *)
(***************************************************************************)
EXTENDS Coroutines, FiniteSetTheorems, SequenceTheorems, WellFoundedInduction, TLAPS

-----------------------------------------------------------------------------
(* The calls of all threads, by their places in the stacks.                *)

CallType == [op : {"run", "link", "start", "wake"}, co : Coroutines, on : Seq(Coroutines)]

Frames == {x \in Threads \X Nat : x[2] \in DOMAIN calls[x[1]]}
FrameAt(x) == calls[x[1]][x[2]]

\* A call that runs or suspends its coroutine, as all but the futex wake do.
Acting(f) == f.op # "wake"

-----------------------------------------------------------------------------
(* The inductive invariant.                                                *)

\* The await a suspended coroutine is in.
Present(c) == Script[c][step[c]]
AwaitsTask(c, d) ==
    status[c] = "suspended" /\ Present(c).op \in {"task", "whenReady"} /\ Present(c).on = <<d>>
AwaitsAll(c) == status[c] = "suspended" /\ Present(c).op \in {"all", "allReady"}

Unfinished(c) == {d \in ToSet(Present(c).on) : status[d] # "done"}

\* A coroutine is in its script, and in an await while it is suspended.
StepOK ==
    \A c \in Coroutines :
        /\ step[c] \in 1 .. Len(Script[c]) + 1
        /\ status[c] = "suspended" => step[c] <= Len(Script[c])

\* A coroutine acts in one call at most.
OneCall ==
    \A x, y \in Frames :
        Acting(FrameAt(x)) /\ Acting(FrameAt(y)) /\ FrameAt(x).co = FrameAt(y).co => x = y

\* What a call knows of the coroutines it works on: await_suspend that of its
\* child, StartTasks that of the tasks it has still to start.
CallOK(f) ==
    /\ f.op = "run" => f.on = <<>> /\ status[f.co] = "running"
    /\ f.op = "link" =>
        \E d \in Coroutines :
            f.on = <<d>> /\ AwaitsTask(f.co, d) /\ status[d] # "created" /\ linked[d] = (status[d] = "done")
    /\ f.op = "start" =>
        /\ AwaitsAll(f.co)
        /\ IsInjective(f.on) /\ ToSet(f.on) \subseteq ToSet(Present(f.co).on)
        /\ \A d \in ToSet(f.on) : status[d] = "created"
    /\ f.op = "wake" => status[f.co] = "done"

CallsOK == \A x \in Frames : CallOK(FrameAt(x))

RunningOK == \A c \in Coroutines : status[c] = "running" => \E x \in Frames : FrameAt(x) = Running(c)

\* A coroutine between its start and its end, but the root, is awaited.
ActiveOK ==
    \A d \in Coroutines : status[d] \in {"running", "suspended"} /\ d # Root =>
        \E c \in Coroutines : status[c] = "suspended" /\ d \in ToSet(Present(c).on)

\* A WhenAllTask is started by the await it belongs to, and notifies its counter.
WhenAllOK ==
    \A c \in Coroutines : \A i \in DOMAIN Script[c] : \A d \in ToSet(Script[c][i].on) :
        Kind[d] = "whenAll" /\ status[d] # "created" =>
            /\ counter[d] = c
            /\ \/ d \in Before(c, step[c])
               \/ status[c] = "suspended" /\ d \in ToSet(Present(c).on)

\* m_State: exchanged by the child at its end or by who awaits it, whom the child
\* finds as its continuation.
LinkedOK ==
    \A d \in Coroutines : Kind[d] = "task" =>
        /\ status[d] = "done" => linked[d]
        /\ status[d] = "created" => ~linked[d]
        /\ linked[d] /\ status[d] # "done" => continuation[d] \in Coroutines /\ AwaitsTask(continuation[d], d)

\* WhenAllCounter is the number of tasks that have not ended, and one while they
\* are being started.
Starting(c) == \E x \in Frames : FrameAt(x).op = "start" /\ FrameAt(x).co = c
Counted(c) == remaining[c] = Cardinality(Unfinished(c)) + (IF Starting(c) THEN 1 ELSE 0)
CountOK == \A c \in Coroutines : AwaitsAll(c) => Counted(c)

ScheduledOK == \A c \in scheduled : status[c] = "suspended" /\ Present(c).op = "hop"

\* SyncWait has one coroutine, which sets the event at its end.
RootOK ==
    /\ \A c \in Coroutines : Kind[c] = "syncWait" /\ status[c] # "created" => c = Root
    /\ main = "start" => status[Root] = "created" /\ calls[Main] = <<>>
    /\ value = 1 => status[Root] = "done"

IInv ==
    /\ TypeOK /\ StepOK /\ OneCall /\ CallsOK /\ RunningOK /\ ActiveOK /\ WhenAllOK
    /\ LinkedOK /\ CountOK /\ ScheduledOK /\ RootOK /\ AwaitedIsDone /\ misused = {}

-----------------------------------------------------------------------------
(* Scripts.                                                                *)

\* The elements of a list of coroutines, and what is left without the first.
LEMMA ListElements ==
    ASSUME NEW q \in Seq(Coroutines)
    PROVE  /\ Len(q) \in Nat /\ DOMAIN q = 1 .. Len(q)
           /\ ToSet(q) \subseteq Coroutines
           /\ q # <<>> => /\ Len(q) > 0 /\ Head(q) \in ToSet(q)
                          /\ Tail(q) \in Seq(Coroutines) /\ Len(Tail(q)) = Len(q) - 1
                          /\ \A i \in 1 .. Len(q) - 1 : Tail(q)[i] = q[i + 1]
<1>1. Len(q) \in Nat /\ DOMAIN q = 1 .. Len(q) /\ \A i \in 1 .. Len(q) : q[i] \in Coroutines
  BY LenProperties, ElementOfSeq
<1>2. ToSet(q) \subseteq Coroutines
  BY <1>1 DEF ToSet
<1>3. ASSUME q # <<>>
      PROVE  /\ Len(q) > 0 /\ Head(q) \in ToSet(q)
             /\ Tail(q) \in Seq(Coroutines) /\ Len(Tail(q)) = Len(q) - 1
             /\ \A i \in 1 .. Len(q) - 1 : Tail(q)[i] = q[i + 1]
  <2>1. Len(q) > 0 /\ Head(q) = q[1]
    BY <1>1, <1>3, EmptySeq
  <2>2. /\ Tail(q) \in Seq(Coroutines) /\ Len(Tail(q)) = Len(q) - 1
        /\ \A i \in 1 .. Len(Tail(q)) : Tail(q)[i] = q[i + 1]
    BY <1>3, HeadTailProperties
  <2> QED BY <1>1, <2>1, <2>2 DEF ToSet
<1> QED BY <1>1, <1>2, <1>3

\* Without its first element an injective list is injective, and has not that element.
LEMMA InjectiveTail ==
    ASSUME NEW q \in Seq(Coroutines), q # <<>>, IsInjective(q)
    PROVE  IsInjective(Tail(q)) /\ ToSet(Tail(q)) = ToSet(q) \ {Head(q)}
<1> DEFINE r == Tail(q)
<1>1. /\ Len(q) \in Nat /\ DOMAIN q = 1 .. Len(q) /\ Len(q) > 0 /\ Head(q) = q[1]
      /\ r \in Seq(Coroutines) /\ Len(r) = Len(q) - 1 /\ \A i \in 1 .. Len(q) - 1 : r[i] = q[i + 1]
  BY ListElements
<1>2. DOMAIN r = 1 .. Len(q) - 1
  BY <1>1, LenProperties
<1> HIDE DEF r
<1>3. \A i \in DOMAIN r : i \in Int /\ i + 1 \in DOMAIN q /\ q[i + 1] = r[i] /\ i + 1 # 1
  BY <1>1, <1>2
<1>4. 1 \in DOMAIN q /\ \A i \in DOMAIN q : i = 1 \/ (i - 1 \in DOMAIN r /\ r[i - 1] = q[i])
  BY <1>1, <1>2
<1>5. \A i, k \in DOMAIN r : i + 1 = k + 1 => i = k
  BY <1>3
<1>6. \A i, k \in DOMAIN q : q[i] = q[k] => i = k
  BY DEF IsInjective
<1>7. IsInjective(r)
  BY <1>3, <1>5, <1>6 DEF IsInjective
<1>8. ToSet(r) = ToSet(q) \ {Head(q)}
  <2>1. \A i \in DOMAIN r : r[i] \in ToSet(q) /\ r[i] # Head(q)
    <3> SUFFICES ASSUME NEW i \in DOMAIN r PROVE r[i] \in ToSet(q) /\ r[i] # Head(q)
      OBVIOUS
    <3>1. i + 1 \in DOMAIN q /\ q[i + 1] = r[i] /\ i + 1 # 1
      BY <1>3
    <3>2. r[i] # q[1]
      BY <3>1, <1>4, <1>6
    <3>3. r[i] \in ToSet(q)
      BY <3>1 DEF ToSet
    <3> QED BY <1>1, <3>2, <3>3
  <2>2. \A i \in DOMAIN q : q[i] # Head(q) => q[i] \in ToSet(r)
    BY <1>1, <1>4 DEF ToSet
  <2> QED BY <2>1, <2>2 DEF ToSet
<1> QED BY <1>7, <1>8 DEF r

\* An injective list has as many elements as its length says.
LEMMA InjectiveLength ==
    ASSUME NEW q \in Seq(Coroutines), IsInjective(q)
    PROVE  IsFiniteSet(ToSet(q)) /\ Cardinality(ToSet(q)) = Len(q)
<1>1. Len(q) \in Nat /\ DOMAIN q = 1 .. Len(q) /\ q \in [1 .. Len(q) -> Coroutines]
  BY LenProperties
<1>2. q \in [1 .. Len(q) -> ToSet(q)]
  BY <1>1 DEF ToSet
<1>3. q \in Bijection(1 .. Len(q), ToSet(q))
  BY <1>1, <1>2 DEF Bijection, Injection, Surjection, ToSet, IsInjective
<1>4. IsFiniteSet(1 .. Len(q)) /\ Cardinality(1 .. Len(q)) = Len(q)
  BY <1>1, FS_Interval
<1> QED BY <1>3, <1>4, FS_Bijection DEF ExistsBijection

\* An await of a script: what is awaited, of which kind.
LEMMA AwaitOf ==
    ASSUME NEW c \in Coroutines, NEW i \in 1 .. Len(Script[c])
    PROVE  LET await == Script[c][i]
           IN  /\ await.op \in {"hop", "task", "whenReady", "all", "allReady"}
               /\ await.on \in Seq(Coroutines) /\ ToSet(await.on) \subseteq Coroutines
               /\ await.op = "hop" => ToSet(await.on) = {}
               /\ await.op \in {"task", "whenReady"} =>
                    \E d \in Coroutines :
                        await.on = <<d>> /\ ToSet(await.on) = {d} /\ Head(await.on) = d /\ Kind[d] = "task"
               /\ await.op \in {"all", "allReady"} =>
                    IsInjective(await.on) /\ \A d \in ToSet(await.on) : Kind[d] = "whenAll"
<1> DEFINE await == Script[c][i]
<1>1. Script[c] \in Seq(Awaits) /\ i \in DOMAIN Script[c] /\ await \in Awaits
  BY AwaitsAssumption, LenProperties, ElementOfSeq
<1>2. (CASE await.op = "hop" -> await.on = <<>>
         [] await.op \in {"task", "whenReady"} -> Len(await.on) = 1 /\ Kind[Head(await.on)] = "task"
         [] OTHER -> IsInjective(await.on) /\ \A d \in ToSet(await.on) : Kind[d] = "whenAll")
  BY <1>1, AwaitsAssumption
<1> HIDE DEF await
<1>3. /\ await.op \in {"hop", "task", "whenReady", "all", "allReady"} /\ await.on \in Seq(Coroutines)
      /\ ToSet(await.on) \subseteq Coroutines
  BY <1>1, ListElements DEF Awaits
<1>4. await.op = "hop" => ToSet(await.on) = {}
  BY <1>2, EmptySeq DEF ToSet
<1>5. ASSUME await.op \in {"task", "whenReady"}
      PROVE  \E d \in Coroutines :
                await.on = <<d>> /\ ToSet(await.on) = {d} /\ Head(await.on) = d /\ Kind[d] = "task"
  <2>1. Len(await.on) = 1 /\ Kind[Head(await.on)] = "task"
    BY <1>2, <1>5
  <2>2. await.on[1] \in Coroutines /\ DOMAIN await.on = 1 .. 1
    BY <1>3, <2>1, ElementOfSeq, LenProperties
  <2>3. await.on = <<await.on[1]>>
    BY <1>3, <2>1, <2>2
  <2>4. ToSet(await.on) = {await.on[1]}
    BY <2>2 DEF ToSet
  <2>5. Head(await.on) = await.on[1]
    BY <1>3, <2>1
  <2> QED BY <2>1, <2>2, <2>3, <2>4, <2>5
<1>6. await.op \in {"all", "allReady"} =>
        IsInjective(await.on) /\ \A d \in ToSet(await.on) : Kind[d] = "whenAll"
  BY <1>2
<1> QED BY <1>3, <1>4, <1>5, <1>6 DEF await

\* The await of a Task, and of WhenAllTasks.
LEMMA TaskAwait ==
    ASSUME NEW c \in Coroutines, NEW i \in 1 .. Len(Script[c]), Script[c][i].op \in {"task", "whenReady"}
    PROVE  \E d \in Coroutines : Script[c][i].on = <<d>> /\ ToSet(Script[c][i].on) = {d} /\ Kind[d] = "task"
BY AwaitOf

LEMMA AllAwait ==
    ASSUME NEW c \in Coroutines, NEW i \in 1 .. Len(Script[c]),
           NEW d \in ToSet(Script[c][i].on), Kind[d] = "whenAll"
    PROVE  Script[c][i].op \in {"all", "allReady"}
<1>1. Script[c][i].op \in {"hop", "task", "whenReady", "all", "allReady"} /\ Script[c][i].op # "hop"
  BY AwaitOf
<1>2. Script[c][i].op \in {"task", "whenReady"} => FALSE
  BY TaskAwait
<1> QED BY <1>1, <1>2

\* A coroutine is awaited by one other at a time.
LEMMA OneAwaiter ==
    ASSUME StepOK, AwaitedIsDone,
           NEW c \in Coroutines, NEW d \in Coroutines, NEW x,
           step[c] <= Len(Script[c]), step[d] <= Len(Script[d]),
           status[c] # "done", status[d] # "done",
           x \in ToSet(Present(c).on), x \in ToSet(Present(d).on)
    PROVE  c = d
<1>1. /\ Script[c] \in Seq(Awaits) /\ Script[d] \in Seq(Awaits)
      /\ Len(Script[c]) \in Nat /\ Len(Script[d]) \in Nat
      /\ DOMAIN Script[c] = 1 .. Len(Script[c]) /\ DOMAIN Script[d] = 1 .. Len(Script[d])
  BY AwaitsAssumption, LenProperties
<1>2. step[c] \in DOMAIN Script[c] /\ step[d] \in DOMAIN Script[d]
  BY <1>1 DEF StepOK
<1>3. x \in ToSet(Script[c][step[c]].on) \cap ToSet(Script[d][step[d]].on)
  BY DEF Present
<1>4. IF Kind[x] = "whenAll"
      THEN c = d /\ Script[c][step[c]].on = Script[d][step[d]].on
      ELSE c = d \/ c \in Before(d, step[d]) \/ d \in Before(c, step[c])
  BY <1>2, <1>3, AwaitsAssumption
<1>5. \A a \in Coroutines : \A b : StepOK /\ b \in Before(a, step[a]) => status[b] = "done"
  <2> SUFFICES ASSUME NEW a \in Coroutines, NEW k \in 1 .. step[a] - 1, NEW b \in ToSet(Script[a][k].on)
               PROVE  status[b] = "done"
    BY DEF Before
  <2>1. Len(Script[a]) \in Nat /\ step[a] \in 1 .. Len(Script[a]) + 1
    BY AwaitsAssumption, LenProperties DEF StepOK
  <2>2. k \in 1 .. Len(Script[a]) /\ k < step[a]
    BY <2>1
  <2> QED BY <2>2 DEF AwaitedIsDone
<1> QED BY <1>4, <1>5

-----------------------------------------------------------------------------
(* Stacks.                                                                 *)

Place(t) == <<t, Len(calls[t])>>
Above(t) == <<t, Len(calls[t]) + 1>>

\* The call a step leaves in a place of the present stacks.
FrameAfter(x) == calls'[x[1]][x[2]]

\* The calls in the places of S stay as they are.
Kept(S) == \A x \in S : x \in Frames' /\ FrameAfter(x) = FrameAt(x)

CallsTyped == calls \in [Threads -> Seq(CallType)]

\* What a call on thread t replaced by those of q does to the stacks.
LEMMA Replaced ==
    ASSUME CallsTyped, NEW t \in Threads, ~Idle(t), NEW q \in Seq(CallType), Replace(t, q)
    PROVE  /\ CallsTyped'
           /\ Place(t) \in Frames /\ FrameAt(Place(t)) = Top(t) /\ Top(t) \in CallType
           /\ Kept(Frames \ {Place(t)})
           /\ \A x \in Frames' : x \in Frames \ {Place(t)} \/ \E i \in 1 .. Len(q) : x = <<t, Len(calls[t]) - 1 + i>>
           /\ \A i \in 1 .. Len(q) : /\ <<t, Len(calls[t]) - 1 + i>> \in Frames'
                                     /\ FrameAfter(<<t, Len(calls[t]) - 1 + i>>) = q[i]
<1> DEFINE s == calls[t]
           n == Len(s)
           r == Front(s) \o q
<1>1. /\ s \in Seq(CallType) /\ n \in Nat /\ DOMAIN s = 1 .. n /\ n > 0
      /\ \A i \in 1 .. n : s[i] \in CallType
  BY LenProperties, EmptySeq, ElementOfSeq DEF CallsTyped, Idle
<1>2. /\ Front(s) \in Seq(CallType) /\ Len(Front(s)) = n - 1
      /\ \A i \in 1 .. n - 1 : Front(s)[i] = s[i]
  <2>1. /\ SubSeq(s, 1, n - 1) \in Seq(CallType)
        /\ Len(SubSeq(s, 1, n - 1)) = IF 1 <= n - 1 THEN n - 1 - 1 + 1 ELSE 0
        /\ \A i \in 1 .. n - 1 - 1 + 1 : SubSeq(s, 1, n - 1)[i] = s[1 + i - 1]
    <3>1. 1 \in Int /\ n - 1 \in Int /\ \A i \in 1 .. n - 1 : s[i] \in CallType
      BY <1>1
    <3> HIDE DEF n, s
    <3> QED BY <3>1, SubSeqProperties
  <2> QED BY <1>1, <2>1 DEF Front
<1>3. Len(q) \in Nat
  BY LenProperties
<1>4. /\ r \in Seq(CallType) /\ Len(r) = n - 1 + Len(q)
      /\ \A i \in 1 .. n - 1 : r[i] = s[i]
      /\ \A i \in 1 .. Len(q) : r[n - 1 + i] = q[i]
  <2>1. /\ r \in Seq(CallType) /\ Len(r) = n - 1 + Len(q)
        /\ \A i \in 1 .. n - 1 + Len(q) : r[i] = IF i <= n - 1 THEN Front(s)[i] ELSE q[i - (n - 1)]
    <3> DEFINE f == Front(s)
    <3> HIDE DEF n, s, f
    <3>1. f \in Seq(CallType) /\ Len(f) = n - 1
      BY <1>2 DEF f
    <3>2. /\ f \o q \in Seq(CallType) /\ Len(f \o q) = Len(f) + Len(q)
          /\ \A i \in 1 .. Len(f) + Len(q) : (f \o q)[i] = IF i <= Len(f) THEN f[i] ELSE q[i - Len(f)]
      BY <3>1, ConcatProperties
    <3> QED BY <3>1, <3>2 DEF f
  <2> HIDE DEF r, n
  <2>2. \A i \in 1 .. n - 1 : r[i] = s[i]
    BY <1>1, <1>2, <1>3, <2>1
  <2>3. \A i \in 1 .. Len(q) : r[n - 1 + i] = q[i]
    <3> SUFFICES ASSUME NEW i \in 1 .. Len(q) PROVE r[n - 1 + i] = q[i]
      OBVIOUS
    <3> DEFINE k == n - 1 + i
    <3>1. k \in 1 .. n - 1 + Len(q) /\ ~(k <= n - 1) /\ k - (n - 1) = i
      BY <1>1, <1>3
    <3> HIDE DEF k
    <3>2. r[k] = q[i]
      BY <2>1, <3>1
    <3> QED BY <3>2 DEF k
  <2> QED BY <2>1, <2>2, <2>3
<1>5. DOMAIN r = 1 .. n - 1 + Len(q)
  BY <1>4, LenProperties
<1>6. calls' = [calls EXCEPT ![t] = r]
  BY DEF Replace
<1> HIDE DEF r
<1>7. calls'[t] = r /\ \A u \in Threads \ {t} : calls'[u] = calls[u]
  BY <1>6 DEF CallsTyped
<1>8. CallsTyped'
  BY <1>4, <1>6 DEF CallsTyped
<1>9. Place(t) \in Frames /\ FrameAt(Place(t)) = Top(t) /\ Top(t) \in CallType
  <2>1. Top(t) = s[n]
    BY DEF Top, Last
  <2>2. n \in 1 .. n
    BY <1>1
  <2> QED BY <1>1, <2>1, <2>2 DEF Frames, FrameAt, Place
<1>10. Kept(Frames \ {Place(t)})
  <2> SUFFICES ASSUME NEW x \in Frames, x # Place(t) PROVE x \in Frames' /\ FrameAfter(x) = FrameAt(x)
    BY DEF Kept
  <2>1. x \in Threads \X Nat /\ x = <<x[1], x[2]>> /\ x[2] \in DOMAIN calls[x[1]]
    BY DEF Frames
  <2>2. CASE x[1] = t
    <3>1. x[2] \in 1 .. n /\ x[2] # n
      BY <1>1, <2>1, <2>2 DEF Place
    <3>2. x[2] \in 1 .. n - 1 /\ x[2] \in DOMAIN r
      BY <1>1, <1>3, <1>5, <3>1
    <3> QED BY <1>4, <1>7, <2>1, <2>2, <3>2 DEF Frames, FrameAt, FrameAfter
  <2>3. CASE x[1] # t
    BY <1>7, <2>1, <2>3 DEF Frames, FrameAt, FrameAfter
  <2> QED BY <2>2, <2>3
<1>11. ASSUME NEW x \in Frames'
       PROVE  x \in Frames \ {Place(t)} \/ \E i \in 1 .. Len(q) : x = <<t, n - 1 + i>>
  <2>1. x \in Threads \X Nat /\ x = <<x[1], x[2]>> /\ x[2] \in DOMAIN calls'[x[1]]
    BY <1>11 DEF Frames
  <2>2. CASE x[1] # t
    BY <1>7, <2>1, <2>2 DEF Frames, Place
  <2>3. CASE x[1] = t /\ x[2] \in 1 .. n - 1
    BY <1>1, <2>1, <2>3 DEF Frames, Place
  <2>4. CASE x[1] = t /\ ~(x[2] \in 1 .. n - 1)
    <3>1. x[2] \in 1 .. n - 1 + Len(q)
      BY <1>5, <1>7, <2>1, <2>4
    <3>2. x[2] - (n - 1) \in 1 .. Len(q) /\ x[2] = n - 1 + (x[2] - (n - 1))
      BY <1>1, <1>3, <2>4, <3>1
    <3> QED BY <2>1, <2>4, <3>2
  <2> QED BY <2>2, <2>3, <2>4
<1>12. ASSUME NEW i \in 1 .. Len(q)
       PROVE  <<t, n - 1 + i>> \in Frames' /\ FrameAfter(<<t, n - 1 + i>>) = q[i]
  <2> DEFINE k == n - 1 + i
  <2>1. k \in DOMAIN r /\ k \in Nat
    BY <1>1, <1>3, <1>5
  <2>2. r[k] = q[i]
    BY <1>4, Zenon
  <2> HIDE DEF k
  <2>3. <<t, k>> \in Frames' /\ FrameAfter(<<t, k>>) = q[i]
    <3> DEFINE x == <<t, k>>
    <3>1. x \in Threads \X Nat /\ x[1] = t /\ x[2] = k
      BY <2>1
    <3> HIDE DEF x
    <3>2. x \in Frames' /\ FrameAfter(x) = q[i]
      BY <1>7, <2>1, <2>2, <3>1 DEF Frames, FrameAt, FrameAfter
    <3> QED BY <3>2 DEF x
  <2> QED BY <2>3 DEF k
<1> QED BY <1>8, <1>9, <1>10, <1>11, <1>12

-----------------------------------------------------------------------------
(* What a step does to the stacks: the places of K are as before, those of *)
(* N are new or have a new call.                                           *)

Rearranged(K, N) ==
    /\ CallsTyped'
    /\ K \subseteq Frames /\ Frames' = K \cup N
    /\ \A x \in K : FrameAfter(x) = FrameAt(x)

LEMMA Popped ==
    ASSUME CallsTyped, NEW t \in Threads, ~Idle(t), Return(t)
    PROVE  Rearranged(Frames \ {Place(t)}, {})
<1>1. <<>> \in Seq(CallType) /\ Len(<<>>) = 0
  BY EmptySeq
<1> DEFINE q == <<>>
<1>2. q \in Seq(CallType) /\ Len(q) = 0 /\ Replace(t, q)
  BY <1>1 DEF Return
<1> HIDE DEF q
<1>3. /\ CallsTyped' /\ Kept(Frames \ {Place(t)})
      /\ \A x \in Frames' : x \in Frames \ {Place(t)} \/ \E i \in 1 .. Len(q) : x = <<t, Len(calls[t]) - 1 + i>>
  BY <1>2, Replaced
<1>4. 1 .. Len(q) = {}
  BY <1>2
<1> QED BY <1>3, <1>4 DEF Rearranged, Kept

LEMMA Swapped ==
    ASSUME CallsTyped, NEW t \in Threads, ~Idle(t), NEW f \in CallType, Replace(t, <<f>>)
    PROVE  Rearranged(Frames \ {Place(t)}, {Place(t)}) /\ FrameAfter(Place(t)) = f
<1> DEFINE n == Len(calls[t])
<1>1. <<f>> \in Seq(CallType) /\ Len(<<f>>) = 1 /\ <<f>>[1] = f /\ n \in Nat
  BY LenProperties DEF CallsTyped
<1>2. /\ CallsTyped' /\ Kept(Frames \ {Place(t)})
      /\ \A x \in Frames' : x \in Frames \ {Place(t)} \/ \E i \in 1 .. 1 : x = <<t, n - 1 + i>>
      /\ \A i \in 1 .. 1 : <<t, n - 1 + i>> \in Frames' /\ FrameAfter(<<t, n - 1 + i>>) = <<f>>[i]
  BY <1>1, Replaced
<1>3. <<t, n - 1 + 1>> = Place(t) /\ 1 \in 1 .. 1 /\ \A i \in 1 .. 1 : n - 1 + i = n
  BY <1>1 DEF Place
<1> HIDE DEF n
<1>4. /\ \A x \in Frames' : x \in Frames \ {Place(t)} \/ x = Place(t)
      /\ Place(t) \in Frames' /\ FrameAfter(Place(t)) = f
  BY <1>1, <1>2, <1>3
<1> QED BY <1>2, <1>4 DEF Rearranged, Kept

LEMMA Pushed ==
    ASSUME CallsTyped, NEW t \in Threads, ~Idle(t), NEW f \in CallType, NEW g \in CallType,
           Replace(t, <<f, g>>)
    PROVE  /\ Rearranged(Frames \ {Place(t)}, {Place(t), Above(t)})
           /\ FrameAfter(Place(t)) = f /\ FrameAfter(Above(t)) = g
           /\ Above(t) \notin Frames /\ Above(t) # Place(t)
<1> DEFINE n == Len(calls[t])
<1>1. /\ <<f, g>> \in Seq(CallType) /\ Len(<<f, g>>) = 2 /\ <<f, g>>[1] = f /\ <<f, g>>[2] = g
      /\ n \in Nat /\ DOMAIN calls[t] = 1 .. n
  BY LenProperties DEF CallsTyped
<1>2. /\ CallsTyped' /\ Kept(Frames \ {Place(t)})
      /\ \A x \in Frames' : x \in Frames \ {Place(t)} \/ \E i \in 1 .. 2 : x = <<t, n - 1 + i>>
      /\ \A i \in 1 .. 2 : <<t, n - 1 + i>> \in Frames' /\ FrameAfter(<<t, n - 1 + i>>) = <<f, g>>[i]
  BY <1>1, Replaced
<1>3. /\ <<t, n - 1 + 1>> = Place(t) /\ <<t, n - 1 + 2>> = Above(t) /\ 1 \in 1 .. 2 /\ 2 \in 1 .. 2
      /\ \A i \in 1 .. 2 : i = 1 \/ i = 2
  BY <1>1 DEF Place, Above
<1>4. Above(t) \notin Frames /\ Above(t) # Place(t)
  <2>1. n + 1 \notin 1 .. n /\ n + 1 # n
    BY <1>1
  <2> QED BY <1>1, <2>1 DEF Above, Place, Frames
<1> HIDE DEF n
<1>5. /\ \A x \in Frames' : x \in Frames \ {Place(t)} \/ x = Place(t) \/ x = Above(t)
      /\ Place(t) \in Frames' /\ FrameAfter(Place(t)) = f
      /\ Above(t) \in Frames' /\ FrameAfter(Above(t)) = g
  BY <1>1, <1>2, <1>3
<1> QED BY <1>2, <1>4, <1>5 DEF Rearranged, Kept

LEMMA Entered ==
    ASSUME CallsTyped, NEW t \in Threads, Idle(t), NEW f \in CallType,
           calls' = [calls EXCEPT ![t] = <<f>>]
    PROVE  /\ Rearranged(Frames, {<<t, 1>>}) /\ FrameAfter(<<t, 1>>) = f
           /\ <<t, 1>> \notin Frames
<1> DEFINE p == <<t, 1>>
           s == <<f>>
<1>1. s \in Seq(CallType) /\ DOMAIN s = 1 .. 1 /\ s[1] = f
  BY LenProperties
<1>2. calls[t] = <<>> /\ DOMAIN calls[t] = {}
  BY EmptySeq DEF Idle
<1> HIDE DEF s
<1>3. calls'[t] = s /\ \A u \in Threads \ {t} : calls'[u] = calls[u]
  BY DEF CallsTyped, s
<1>4. CallsTyped'
  BY <1>1 DEF CallsTyped, s
<1>5. p[1] = t /\ p[2] = 1 /\ p \in Threads \X Nat
  OBVIOUS
<1>6. p \notin Frames
  BY <1>2, <1>5 DEF Frames
<1>7. \A x \in Frames : x \in Frames' /\ FrameAfter(x) = FrameAt(x)
  BY <1>2, <1>3 DEF Frames, FrameAt, FrameAfter
<1>8. p \in Frames' /\ FrameAfter(p) = f
  <2> HIDE DEF p
  <2> QED BY <1>1, <1>3, <1>5 DEF Frames, FrameAfter
<1>9. \A x \in Frames' : x \in Frames \/ x = p
  <2> SUFFICES ASSUME NEW x \in Frames' PROVE x \in Frames \/ x = p
    OBVIOUS
  <2>1. x = <<x[1], x[2]>> /\ x \in Threads \X Nat /\ x[2] \in DOMAIN calls'[x[1]]
    BY DEF Frames
  <2>2. CASE x[1] = t
    <3>1. x[2] \in 1 .. 1
      BY <1>1, <1>3, <2>1, <2>2
    <3>2. x[2] = 1
      BY <3>1
    <3> QED BY <2>1, <2>2, <3>2
  <2>3. CASE x[1] # t
    BY <1>3, <2>1, <2>3 DEF Frames
  <2> QED BY <2>2, <2>3
<1> QED BY <1>4, <1>6, <1>7, <1>8, <1>9 DEF Rearranged

\* The parts of the invariant about calls, from what the step does to the places.
LEMMA OneCallKept ==
    ASSUME OneCall, NEW K, NEW N, Rearranged(K, N),
           \A x \in N, y \in K :
                Acting(FrameAfter(x)) /\ Acting(FrameAt(y)) => FrameAfter(x).co # FrameAt(y).co,
           \A x, y \in N : Acting(FrameAfter(x)) /\ Acting(FrameAfter(y)) /\ FrameAfter(x).co = FrameAfter(y).co
                => x = y
    PROVE  OneCall'
<1> SUFFICES ASSUME NEW x \in K \cup N, NEW y \in K \cup N,
                    Acting(FrameAfter(x)), Acting(FrameAfter(y)), FrameAfter(x).co = FrameAfter(y).co
             PROVE  x = y
  BY DEF OneCall, Acting, FrameAt, FrameAfter, Rearranged
<1>1. CASE x \in K /\ y \in K
  BY <1>1 DEF OneCall, Rearranged
<1>2. CASE x \in N /\ y \in N
  BY <1>2
<1>3. CASE x \in N /\ y \in K
  BY <1>3 DEF Rearranged
<1>4. CASE x \in K /\ y \in N
  BY <1>4 DEF Rearranged
<1> QED BY <1>1, <1>2, <1>3, <1>4

LEMMA RunningKept ==
    ASSUME RunningOK, NEW K, NEW N, Rearranged(K, N),
           \A c \in Coroutines : status'[c] = "running" =>
                \/ \E x \in N : FrameAfter(x) = Running(c)
                \/ status[c] = "running" /\ \A x \in Frames \ K : FrameAt(x) # Running(c)
    PROVE  RunningOK'
<1> SUFFICES ASSUME NEW c \in Coroutines, status'[c] = "running"
             PROVE  \E x \in Frames' : FrameAfter(x) = Running(c)
  BY DEF RunningOK, FrameAt, FrameAfter, Running, Call
<1>1. CASE \E x \in N : FrameAfter(x) = Running(c)
  BY <1>1 DEF Rearranged
<1>2. CASE status[c] = "running" /\ \A x \in Frames \ K : FrameAt(x) # Running(c)
  <2>1. PICK x \in Frames : FrameAt(x) = Running(c)
    BY <1>2 DEF RunningOK
  <2> QED BY <1>2, <2>1 DEF Rearranged
<1> QED BY <1>1, <1>2

\* What a step does to coroutines: it goes on with one only when what it awaits
\* has ended, starts only what somebody awaits, and resumes nobody after its end.
Advance ==
    /\ \A c \in Coroutines : status[c] = "suspended" =>
        \/ status'[c] = "suspended" /\ step'[c] = step[c]
        \/ /\ status'[c] = "running" /\ step'[c] = step[c] + 1
           /\ \A d \in ToSet(Present(c).on) : status'[d] = "done"
    /\ \A c \in Coroutines : status[c] # "suspended" =>
        \/ step'[c] = step[c] /\ (status'[c] = "suspended" => step[c] <= Len(Script[c]))
        \/ /\ status'[c] = "running" /\ step'[c] = step[c] + 1 /\ step[c] <= Len(Script[c])
           /\ \A d \in ToSet(Present(c).on) : status'[d] = "done"
    /\ \A d \in Coroutines : status[d] = "created" =>
        \/ status'[d] = "created" \/ d = Root
        \/ \E c \in Coroutines :
                /\ status'[c] = "suspended" /\ step'[c] = step[c] /\ d \in ToSet(Present(c).on)
                /\ Kind[d] = "whenAll" => counter'[d] = c
    /\ \A d \in Coroutines : status[d] # "created" => status'[d] # "created" /\ counter'[d] = counter[d]
    /\ \A d \in Coroutines : status[d] = "done" => status'[d] = "done"

LEMMA ScriptLength == \A c \in Coroutines : Len(Script[c]) \in Nat /\ DOMAIN Script[c] = 1 .. Len(Script[c])
  BY AwaitsAssumption, LenProperties

LEMMA StepKept == ASSUME StepOK, Advance PROVE StepOK'
<1> SUFFICES ASSUME NEW c \in Coroutines
             PROVE  /\ step'[c] \in 1 .. Len(Script[c]) + 1
                    /\ status'[c] = "suspended" => step'[c] <= Len(Script[c])
  BY DEF StepOK
<1>1. Len(Script[c]) \in Nat /\ step[c] \in 1 .. Len(Script[c]) + 1
  BY ScriptLength DEF StepOK
<1>2. status[c] = "suspended" => step[c] <= Len(Script[c])
  BY DEF StepOK
<1>3. \/ step'[c] = step[c] /\ (status'[c] = "suspended" => step[c] <= Len(Script[c]))
      \/ status'[c] = "running" /\ step'[c] = step[c] + 1 /\ step[c] <= Len(Script[c])
  BY <1>2 DEF Advance
<1> QED BY <1>1, <1>3

LEMMA AwaitedKept == ASSUME StepOK, AwaitedIsDone, Advance PROVE AwaitedIsDone'
<1> SUFFICES ASSUME NEW c \in Coroutines, NEW i \in 1 .. Len(Script[c]), i < step'[c],
                    NEW d \in ToSet(Script[c][i].on)
             PROVE  status'[d] = "done"
  BY DEF AwaitedIsDone
<1>1. Len(Script[c]) \in Nat /\ step[c] \in 1 .. Len(Script[c]) + 1 /\ d \in Coroutines
  BY ScriptLength, AwaitOf DEF StepOK
<1>2. i < step[c] => status'[d] = "done"
  BY <1>1 DEF AwaitedIsDone, Advance
<1>3. \/ step'[c] = step[c]
      \/ step'[c] = step[c] + 1 /\ \A b \in ToSet(Present(c).on) : status'[b] = "done"
  BY DEF Advance
<1>4. i < step[c] \/ (i = step[c] /\ \A b \in ToSet(Present(c).on) : status'[b] = "done")
  BY <1>1, <1>3
<1> QED BY <1>2, <1>4 DEF Present

LEMMA ActiveKept == ASSUME TypeOK, StepOK, ActiveOK, Advance PROVE ActiveOK'
<1> SUFFICES ASSUME NEW d \in Coroutines, status'[d] \in {"running", "suspended"}, d # Root
             PROVE  \E c \in Coroutines : status'[c] = "suspended" /\ d \in ToSet(Script[c][step'[c]].on)
  BY DEF ActiveOK, Present
<1>1. status[d] \in {"created", "running", "suspended"}
  BY DEF TypeOK, Advance
<1>2. CASE status[d] = "created"
  BY <1>2 DEF Advance, Present
<1>3. CASE status[d] \in {"running", "suspended"}
  <2>1. PICK c \in Coroutines : status[c] = "suspended" /\ d \in ToSet(Present(c).on)
    BY <1>3 DEF ActiveOK
  <2>2. status'[d] # "done"
    OBVIOUS
  <2> QED BY <2>1, <2>2 DEF Advance, Present
<1> QED BY <1>1, <1>2, <1>3

LEMMA WhenAllKept == ASSUME StepOK, WhenAllOK, Advance PROVE WhenAllOK'
<1> SUFFICES ASSUME NEW c \in Coroutines, NEW i \in DOMAIN Script[c], NEW d \in ToSet(Script[c][i].on),
                    Kind[d] = "whenAll", status'[d] # "created"
             PROVE  /\ counter'[d] = c
                    /\ \/ d \in Before(c, step'[c])
                       \/ status'[c] = "suspended" /\ d \in ToSet(Script[c][step'[c]].on)
  BY DEF WhenAllOK, Present
<1>1. /\ Len(Script[c]) \in Nat /\ i \in 1 .. Len(Script[c]) /\ step[c] \in 1 .. Len(Script[c]) + 1
      /\ d \in Coroutines
  BY ScriptLength, AwaitOf DEF StepOK
<1>2. CASE status[d] = "created"
  <2>1. d # Root
    BY ProgramAssumption
  <2>2. PICK a \in Coroutines : /\ status'[a] = "suspended" /\ step'[a] = step[a]
                                /\ d \in ToSet(Present(a).on) /\ counter'[d] = a
    BY <1>1, <1>2, <2>1 DEF Advance
  <2>3. StepOK'
    BY StepKept
  <2>4. step[a] \in DOMAIN Script[a]
    BY <2>2, <2>3, ScriptLength DEF StepOK
  <2>5. d \in ToSet(Script[c][i].on) \cap ToSet(Script[a][step[a]].on)
    BY <2>2 DEF Present
  <2>6. c = a
    BY <2>4, <2>5, AwaitsAssumption
  <2> QED BY <2>2, <2>6 DEF Present
<1>3. CASE status[d] # "created"
  <2>1. /\ counter[d] = c
        /\ d \in Before(c, step[c]) \/ (status[c] = "suspended" /\ d \in ToSet(Present(c).on))
    BY <1>3 DEF WhenAllOK
  <2>2. counter'[d] = c
    BY <1>1, <1>3, <2>1 DEF Advance
  <2>3. step'[c] = step[c] \/ step'[c] = step[c] + 1
    BY DEF Advance
  <2>4. d \in Before(c, step[c]) => d \in Before(c, step'[c])
    BY <1>1, <2>3 DEF Before
  <2>5. ASSUME status[c] = "suspended", d \in ToSet(Present(c).on), status'[c] # "suspended"
        PROVE  d \in Before(c, step'[c])
    <3>1. step'[c] = step[c] + 1 /\ step[c] \in 1 .. step'[c] - 1
      BY <1>1, <2>5 DEF Advance
    <3> QED BY <2>5, <3>1 DEF Before, Present
  <2>6. status[c] = "suspended" /\ status'[c] = "suspended" => step'[c] = step[c]
    BY DEF Advance
  <2> QED BY <2>1, <2>2, <2>4, <2>5, <2>6 DEF Present
<1> QED BY <1>2, <1>3

\* A step leaves the call f alone: its coroutine, and what it knows of the others.
LeftAlone(f) ==
    /\ Acting(f) => status'[f.co] = status[f.co] /\ step'[f.co] = step[f.co]
    /\ f.op = "link" => \A d \in Coroutines :
            /\ f.on = <<d>> /\ Kind[d] = "task" /\ status[d] # "created"
            /\ linked[d] = (status[d] = "done")
            => linked'[d] = (status'[d] = "done")
    /\ f.op = "start" => \A d \in ToSet(f.on) :
            Kind[d] = "whenAll" /\ status[d] = "created" => status'[d] = "created"

\* The call a step leaves in the place x is as it should be.
SoundAfter(x) == \A f \in CallType : f = FrameAfter(x) => CallOK(f)'

\* What a call relies on stays, if the step leaves its coroutine alone.
LEMMA CallsKept ==
    ASSUME CallsTyped, StepOK, CallsOK, Advance, NEW K, NEW N, Rearranged(K, N),
           \A x \in K : LeftAlone(FrameAt(x)), \A x \in N : SoundAfter(x)
    PROVE  CallsOK'
<1>1. ASSUME NEW x \in K PROVE \A f \in CallType : f = FrameAt(x) => CallOK(f)'
  <2> SUFFICES ASSUME NEW f \in CallType, f = FrameAt(x) PROVE CallOK(f)'
    OBVIOUS
  <2>1. CallOK(f) /\ f.co \in Coroutines
    BY <1>1 DEF CallsOK, Rearranged, CallType
  <2>2. Acting(f) => status'[f.co] = status[f.co] /\ step'[f.co] = step[f.co]
    BY <1>1 DEF LeftAlone
  <2>3. status[f.co] = "suspended" => step[f.co] \in 1 .. Len(Script[f.co])
    BY <2>1, ScriptLength DEF StepOK
  <2>4. f.op = "run" => f.on = <<>> /\ status'[f.co] = "running"
    BY <2>1, <2>2 DEF CallOK, Acting
  <2>5. ASSUME f.op = "link"
        PROVE  \E d \in Coroutines : /\ f.on = <<d>> /\ AwaitsTask(f.co, d)'
                                     /\ status'[d] # "created" /\ linked'[d] = (status'[d] = "done")
    <3>1. PICK d \in Coroutines : /\ f.on = <<d>> /\ AwaitsTask(f.co, d)
                                  /\ status[d] # "created" /\ linked[d] = (status[d] = "done")
      BY <2>1, <2>5 DEF CallOK
    <3>2. AwaitsTask(f.co, d)'
      BY <2>2, <2>5, <3>1 DEF Acting, AwaitsTask, Present
    <3>3. Kind[d] = "task"
      <4>1. step[f.co] \in 1 .. Len(Script[f.co]) /\ d \in ToSet(Script[f.co][step[f.co]].on)
        BY <2>3, <3>1 DEF AwaitsTask, Present, ToSet
      <4> QED BY <2>1, <3>1, <4>1, AwaitOf DEF AwaitsTask, Present
    <3>4. status'[d] # "created"
      BY <3>1 DEF Advance
    <3>5. linked'[d] = (status'[d] = "done")
      BY <1>1, <2>5, <3>1, <3>3 DEF LeftAlone
    <3> QED BY <3>1, <3>2, <3>4, <3>5
  <2>6. ASSUME f.op = "start"
        PROVE  /\ AwaitsAll(f.co)' /\ IsInjective(f.on)
               /\ ToSet(f.on) \subseteq ToSet(Script[f.co][step'[f.co]].on)
               /\ \A d \in ToSet(f.on) : status'[d] = "created"
    <3>1. /\ AwaitsAll(f.co) /\ IsInjective(f.on) /\ ToSet(f.on) \subseteq ToSet(Present(f.co).on)
          /\ \A d \in ToSet(f.on) : status[d] = "created"
      BY <2>1, <2>6 DEF CallOK
    <3>2. AwaitsAll(f.co)' /\ step'[f.co] = step[f.co]
      BY <2>2, <2>6, <3>1 DEF Acting, AwaitsAll, Present
    <3>3. \A d \in ToSet(f.on) : Kind[d] = "whenAll"
      BY <2>1, <2>3, <3>1, AwaitOf DEF AwaitsAll, Present
    <3>4. \A d \in ToSet(f.on) : status'[d] = "created"
      BY <1>1, <2>6, <3>1, <3>3 DEF LeftAlone
    <3> QED BY <3>1, <3>2, <3>4 DEF Present
  <2>7. f.op = "wake" => status'[f.co] = "done"
    BY <2>1 DEF CallOK, Advance
  <2> QED BY <2>4, <2>5, <2>6, <2>7 DEF CallOK, Present
<1> SUFFICES ASSUME NEW x \in Frames', NEW f, f = FrameAfter(x) PROVE CallOK(f)'
  BY DEF CallsOK, FrameAt, FrameAfter
<1>2. f \in CallType
  BY DEF Rearranged, CallsTyped, Frames, FrameAfter
<1>3. CASE x \in K
  BY <1>1, <1>2, <1>3 DEF Rearranged
<1>4. CASE x \in N
  BY <1>2, <1>4 DEF SoundAfter
<1> QED BY <1>3, <1>4 DEF Rearranged

\* The count stays right for those whose tasks and calls the step leaves alone.
LEMMA CountKept ==
    ASSUME CountOK, StepOK, Advance,
           \A c \in Coroutines : AwaitsAll(c)' =>
                \/ Counted(c)'
                \/ /\ status[c] = "suspended" /\ remaining'[c] = remaining[c] /\ Starting(c)' = Starting(c)
                   /\ \A d \in Coroutines : d \in ToSet(Present(c).on) /\ Kind[d] = "whenAll" =>
                        (status'[d] = "done" => status[d] = "done")
    PROVE  CountOK'
<1> SUFFICES ASSUME NEW c \in Coroutines, AwaitsAll(c)',
                    status[c] = "suspended", remaining'[c] = remaining[c], Starting(c)' = Starting(c),
                    \A d \in Coroutines : d \in ToSet(Present(c).on) /\ Kind[d] = "whenAll" =>
                        (status'[d] = "done" => status[d] = "done")
             PROVE  Counted(c)'
  BY DEF CountOK
<1>1. step'[c] = step[c] /\ AwaitsAll(c)
  BY DEF AwaitsAll, Present, Advance
<1>2. step[c] \in 1 .. Len(Script[c])
  BY ScriptLength DEF StepOK
<1>3. \A d \in ToSet(Present(c).on) : d \in Coroutines /\ Kind[d] = "whenAll"
  BY <1>1, <1>2, AwaitOf DEF AwaitsAll, Present
<1>4. \A d \in ToSet(Present(c).on) : status'[d] = "done" <=> status[d] = "done"
  BY <1>3 DEF Advance
<1>5. Unfinished(c)' = Unfinished(c)
  BY <1>1, <1>4 DEF Unfinished, Present
<1> QED BY <1>1, <1>5 DEF CountOK, Counted

\* Who starts tasks after the step.
LEMMA StartingAfter ==
    ASSUME NEW K, NEW N, Rearranged(K, N), NEW c
    PROVE  /\ Starting(c)' <=> \/ \E x \in K : FrameAt(x).op = "start" /\ FrameAt(x).co = c
                               \/ \E x \in N : FrameAfter(x).op = "start" /\ FrameAfter(x).co = c
           /\ Starting(c) <=> \E x \in K \cup (Frames \ K) : FrameAt(x).op = "start" /\ FrameAt(x).co = c
<1>1. Starting(c)' <=> \E x \in K \cup N : FrameAfter(x).op = "start" /\ FrameAfter(x).co = c
  BY DEF Starting, Rearranged, FrameAt, FrameAfter
<1>2. Starting(c) <=> \E x \in K \cup (Frames \ K) : FrameAt(x).op = "start" /\ FrameAt(x).co = c
  BY DEF Starting, Rearranged
<1> QED BY <1>1, <1>2 DEF Rearranged

\* It stays, if no call of StartTasks begins or ends.
LEMMA StartingKept ==
    ASSUME NEW K, NEW N, Rearranged(K, N),
           \A x \in Frames \ K : FrameAt(x).op # "start", \A x \in N : FrameAfter(x).op # "start"
    PROVE  \A c \in Coroutines : Starting(c)' = Starting(c)
<1> SUFFICES ASSUME NEW c \in Coroutines PROVE Starting(c)' = Starting(c)
  OBVIOUS
<1>1. Starting(c)' <=> Starting(c)
  BY StartingAfter
<1> QED BY <1>1 DEF Starting

\* A coroutine that is at its start or its end acts in no call, one in an await
\* in those of this await.
LEMMA ActingCalls ==
    ASSUME CallsTyped, CallsOK, NEW x \in Frames
    PROVE  /\ FrameAt(x) \in CallType
           /\ FrameAt(x).op = "run" => status[FrameAt(x).co] = "running"
           /\ FrameAt(x).op \in {"link", "start"} => status[FrameAt(x).co] = "suspended"
           /\ FrameAt(x).op = "link" => Present(FrameAt(x).co).op \in {"task", "whenReady"}
           /\ FrameAt(x).op = "start" => Present(FrameAt(x).co).op \in {"all", "allReady"}
           /\ Acting(FrameAt(x)) => FrameAt(x).op \in {"run", "link", "start"}
<1>1. FrameAt(x) \in CallType
  BY DEF Frames, FrameAt, CallsTyped
<1>2. CallOK(FrameAt(x))
  BY DEF CallsOK
<1> QED BY <1>1, <1>2 DEF CallOK, CallType, AwaitsTask, AwaitsAll, Acting

\* The call on top of a stack, and what its coroutine is at.
LEMMA TopCall ==
    ASSUME CallsTyped, CallsOK, StepOK, OneCall, NEW t \in Threads, NEW op \in {"run", "link", "start", "wake"}, In(t, op)
    PROVE  /\ ~Idle(t) /\ Place(t) \in Frames /\ FrameAt(Place(t)) = Top(t)
           /\ Top(t) \in CallType /\ Top(t).co \in Coroutines /\ Top(t).on \in Seq(Coroutines)
           /\ Top(t).op = op /\ CallOK(Top(t))
           /\ op = "run" => Top(t) = Running(Top(t).co) /\ status[Top(t).co] = "running"
           /\ op # "wake" => \A x \in Frames \ {Place(t)} : Acting(FrameAt(x)) => FrameAt(x).co # Top(t).co
<1>1. ~Idle(t) /\ Top(t).op = op
  BY DEF In
<1>2. Place(t) \in Frames /\ FrameAt(Place(t)) = Top(t) /\ Top(t) \in CallType
  <2> DEFINE s == calls[t]
  <2>1. s \in Seq(CallType) /\ s # <<>>
    BY <1>1 DEF CallsTyped, Idle
  <2>2. Len(s) \in Nat /\ DOMAIN s = 1 .. Len(s) /\ Len(s) > 0 /\ s[Len(s)] \in CallType
    BY <2>1, LenProperties, EmptySeq, ElementOfSeq
  <2> QED BY <2>2 DEF Frames, FrameAt, Place, Top, Last
<1>3. Top(t).co \in Coroutines /\ Top(t).on \in Seq(Coroutines)
  BY <1>2 DEF CallType
<1>4. CallOK(Top(t))
  BY <1>2 DEF CallsOK
<1>5. ASSUME op = "run" PROVE Top(t) = Running(Top(t).co) /\ status[Top(t).co] = "running"
  <2>1. Top(t).op = "run" /\ Top(t).on = <<>> /\ status[Top(t).co] = "running"
    BY <1>1, <1>4, <1>5 DEF CallOK
  <2> QED BY <1>2, <2>1 DEF CallType, Running, Call
<1>6. ASSUME op # "wake", NEW x \in Frames \ {Place(t)}, Acting(FrameAt(x)) PROVE FrameAt(x).co # Top(t).co
  BY <1>1, <1>2, <1>6 DEF OneCall, Acting
<1> QED BY <1>1, <1>2, <1>3, <1>4, <1>5, <1>6

\* m_State and the continuation stay right if only a child at its end exchanges it.
LEMMA LinkedKept ==
    ASSUME LinkedOK, Advance,
           \A d \in Coroutines : Kind[d] = "task" =>
                IF status'[d] = "done" THEN linked'[d]
                ELSE linked'[d] = linked[d] /\ continuation'[d] = continuation[d]
    PROVE  LinkedOK'
<1> SUFFICES ASSUME NEW d \in Coroutines, Kind[d] = "task"
             PROVE  /\ status'[d] = "done" => linked'[d]
                    /\ status'[d] = "created" => ~linked'[d]
                    /\ linked'[d] /\ status'[d] # "done" =>
                        \E a \in Coroutines : a = continuation'[d] /\ AwaitsTask(a, d)'
  BY DEF LinkedOK, AwaitsTask, Present
<1>1. status'[d] = "created" => ~linked'[d]
  BY DEF LinkedOK, Advance
<1>2. ASSUME linked'[d], status'[d] # "done"
      PROVE  \E a \in Coroutines : a = continuation'[d] /\ AwaitsTask(a, d)'
  <2>1. PICK a \in Coroutines : a = continuation[d] /\ AwaitsTask(a, d)
    BY <1>2 DEF LinkedOK, Advance
  <2>2. d \in ToSet(Present(a).on)
    BY <2>1 DEF AwaitsTask, ToSet
  <2>3. status'[a] = "suspended" /\ step'[a] = step[a]
    BY <1>2, <2>1, <2>2 DEF AwaitsTask, Advance
  <2>4. AwaitsTask(a, d)'
    BY <2>1, <2>3 DEF AwaitsTask, Present
  <2> QED BY <1>2, <2>1, <2>4
<1> QED BY <1>1, <1>2

\* SyncWait is where it was, if the step neither starts its coroutine nor ends it.
LEMMA RootKept ==
    ASSUME RootOK, Advance, main' = main, value' = value,
           calls[Main] = <<>> => calls'[Main] = <<>>,
           \A d \in Coroutines : Kind[d] = "syncWait" /\ status[d] = "created" => status'[d] = "created"
    PROVE  RootOK'
BY ProgramAssumption DEF RootOK, Advance

LEMMA MainKept ==
    ASSUME CallsTyped, NEW t \in Threads, ~Idle(t), NEW q, Replace(t, q)
    PROVE  calls[Main] = <<>> => calls'[Main] = <<>>
BY DEF CallsTyped, Idle, Replace, Threads

LEMMA Together ==
    ASSUME IInv, Advance, TypeOK', OneCall', CallsOK', RunningOK', LinkedOK', CountOK', ScheduledOK', RootOK',
           misused' = {}
    PROVE  IInv'
BY StepKept, AwaitedKept, ActiveKept, WhenAllKept DEF IInv

LEMMA Typed == ASSUME TypeOK PROVE CallsTyped
BY DEF TypeOK, CallsTyped, CallType

-----------------------------------------------------------------------------
(* The steps.                                                              *)

\* The await a running coroutine is at.
LEMMA AtAwait ==
    ASSUME IInv, NEW t \in Threads, NEW ops, AwaitsAt(t, ops)
    PROVE  \E c \in Coroutines :
            /\ c = Top(t).co /\ Top(t) = Running(c) /\ In(t, "run") /\ ~Idle(t)
            /\ Place(t) \in Frames /\ FrameAt(Place(t)) = Running(c)
            /\ status[c] = "running" /\ step[c] \in 1 .. Len(Script[c]) /\ step[c] \in Nat
            /\ Present(c).op \in ops /\ Operand(t) = Present(c).on
            /\ \A x \in Frames \ {Place(t)} : Acting(FrameAt(x)) => FrameAt(x).co # c
<1>1. CallsTyped /\ CallsOK /\ StepOK /\ OneCall
  BY Typed DEF IInv
<1>2. In(t, "run")
  BY DEF AwaitsAt
<1>3. /\ ~Idle(t) /\ Place(t) \in Frames /\ FrameAt(Place(t)) = Top(t) /\ Top(t).co \in Coroutines
      /\ Top(t) = Running(Top(t).co) /\ status[Top(t).co] = "running"
      /\ \A x \in Frames \ {Place(t)} : Acting(FrameAt(x)) => FrameAt(x).co # Top(t).co
  BY <1>1, <1>2, TopCall
<1>4. step[Top(t).co] \in 1 .. Len(Script[Top(t).co]) /\ step[Top(t).co] \in Nat
  BY <1>1, <1>3, ScriptLength DEF StepOK, AwaitsAt
<1> QED BY <1>2, <1>3, <1>4 DEF AwaitsAt, Operand, Present

LEMMA AwaitRunKeeps == ASSUME IInv, NEW t \in Threads, AwaitRun(t) PROVE IInv'
<1>1. PICK c \in Coroutines :
        /\ c = Top(t).co /\ Top(t) = Running(c) /\ ~Idle(t)
        /\ Place(t) \in Frames /\ FrameAt(Place(t)) = Running(c)
        /\ status[c] = "running" /\ step[c] \in 1 .. Len(Script[c])
        /\ Present(c).op = "hop"
        /\ \A x \in Frames \ {Place(t)} : Acting(FrameAt(x)) => FrameAt(x).co # c
  BY AtAwait DEF AwaitRun
<1>2. /\ status' = [status EXCEPT ![c] = "suspended"] /\ scheduled' = scheduled \cup {c} /\ Return(t)
      /\ UNCHANGED <<step, linked, continuation, counter, remaining, misused, thrown, result, value, neighbour, main>>
  BY <1>1 DEF AwaitRun, resultVars, eventVars
<1>3. TypeOK /\ CallsTyped /\ status'[c] = "suspended" /\ \A d \in Coroutines \ {c} : status'[d] = status[d]
  BY <1>2, Typed DEF IInv, TypeOK
<1>4. PICK p \in Frames : p = Place(t)
  BY <1>1
<1>5. Rearranged(Frames \ {p}, {}) /\ CallsTyped'
  BY <1>1, <1>2, <1>3, <1>4, Popped DEF Rearranged
<1>6. TypeOK'
  BY <1>2, <1>3, <1>5 DEF TypeOK, CallsTyped, CallType
<1>7. Advance
  BY <1>1, <1>2, <1>3, ScriptLength DEF Advance
<1>8. OneCall'
  BY <1>5, OneCallKept DEF IInv
<1>9. CallsOK'
  <2>1. \A x \in Frames \ {p} : Acting(FrameAt(x)) => FrameAt(x).co \in Coroutines \ {c}
    BY <1>1, <1>3, <1>4, ActingCalls DEF IInv, CallType
  <2>2. \A d \in Coroutines : status[d] = "created" => status'[d] = "created"
    BY <1>1, <1>2, <1>3
  <2>3. \A x \in Frames \ {p} : \A d \in ToSet(FrameAt(x).on) : d \in Coroutines
    <3>1. \A x \in Frames \ {p} : FrameAt(x) \in CallType
      BY <1>3, ActingCalls DEF IInv
    <3> QED BY <3>1, ListElements DEF CallType
  <2>4. \A x \in Frames \ {p} : LeftAlone(FrameAt(x))
    BY <1>1, <1>2, <1>3, <2>1, <2>2, <2>3 DEF LeftAlone
  <2>5. StepOK /\ CallsOK
    BY DEF IInv
  <2> QED BY <1>3, <1>5, <1>7, <2>4, <2>5, CallsKept
<1>10. RunningOK'
  BY <1>1, <1>3, <1>4, <1>5, RunningKept DEF IInv, Running, Call
<1>11. LinkedOK'
  BY <1>1, <1>2, <1>3, <1>7, LinkedKept DEF IInv, LinkedOK
<1>12. CountOK'
  <2>1. \A a \in Coroutines : Starting(a)' = Starting(a)
    BY <1>1, <1>4, <1>5, StartingKept DEF Running, Call
  <2>2. \A a \in Coroutines : AwaitsAll(a)' => a # c /\ status[a] = "suspended"
    BY <1>1, <1>2, <1>3 DEF AwaitsAll, Present
  <2>3. \A d \in Coroutines : status'[d] = "done" => status[d] = "done"
    BY <1>3
  <2> QED BY <1>2, <1>7, <2>1, <2>2, <2>3, CountKept DEF IInv
<1>13. ScheduledOK'
  BY <1>1, <1>2, <1>3 DEF IInv, ScheduledOK, Present
<1>14. RootOK'
  BY <1>1, <1>2, <1>3, <1>7, RootKept, MainKept DEF IInv, Return
<1> QED BY <1>2, <1>6, <1>7, <1>8, <1>9, <1>10, <1>11, <1>12, <1>13, <1>14, Together DEF IInv

\* What GetResult throws is an exception.
LEMMA ThrownTyped ==
    ASSUME TypeOK, NEW c \in Coroutines, NEW r, AwaitResume(c, r) \/ UNCHANGED thrown
    PROVE  thrown' \in [Coroutines -> Coroutines \cup {None}]
BY DEF TypeOK, AwaitResume

\* A step that leaves the stacks alone.
LEMMA Unmoved ==
    ASSUME CallsTyped, calls' = calls, NEW p \in Frames
    PROVE  Rearranged(Frames \ {p}, {p}) /\ FrameAfter(p) = FrameAt(p)
BY DEF CallsTyped, Rearranged, Frames, FrameAt, FrameAfter

\* await_ready of what has ended: the coroutine goes on in its call.
LEMMA GoesOnKeeps ==
    ASSUME IInv, NEW t \in Threads, NEW c \in Coroutines, c = Top(t).co, AwaitsAt(t, {"task", "whenReady", "all", "allReady"}),
           \A d \in ToSet(Present(c).on) : status[d] = "done",
           step' = [step EXCEPT ![c] = @ + 1], AwaitResume(c, result),
           UNCHANGED <<result, status, linked, continuation, counter, remaining, misused, scheduled, calls, eventVars>>
    PROVE  IInv'
<1>1. /\ Place(t) \in Frames /\ FrameAt(Place(t)) = Running(c)
      /\ status[c] = "running" /\ step[c] \in 1 .. Len(Script[c]) /\ step[c] \in Nat
      /\ \A x \in Frames \ {Place(t)} : Acting(FrameAt(x)) => FrameAt(x).co # c
  BY AtAwait
<1>2. UNCHANGED <<result, status, linked, continuation, counter, remaining, misused, scheduled, calls, value, neighbour, main>>
  BY DEF eventVars
<1>3. TypeOK /\ CallsTyped /\ step'[c] = step[c] + 1 /\ \A d \in Coroutines \ {c} : step'[d] = step[d]
  BY Typed DEF IInv, TypeOK
<1>4. PICK p \in Frames : p = Place(t)
  BY <1>1
<1>5. Rearranged(Frames \ {p}, {p}) /\ FrameAfter(p) = Running(c) /\ CallsTyped'
  BY <1>1, <1>2, <1>3, <1>4, Unmoved DEF Rearranged
<1>6. TypeOK'
  <2>1. step' \in [Coroutines -> Nat]
    BY <1>1, <1>3 DEF TypeOK
  <2> QED BY ZenonT(30), <1>2, <1>3, <2>1, ThrownTyped DEF TypeOK
<1>7. Advance
  BY <1>1, <1>2, <1>3 DEF Advance, IInv, StepOK
<1>8. OneCall'
  BY <1>1, <1>4, <1>5, OneCallKept DEF IInv, Running, Call
<1>9. CallsOK'
  <2>1. \A x \in Frames \ {p} : Acting(FrameAt(x)) => FrameAt(x).co \in Coroutines \ {c}
    BY <1>1, <1>3, <1>4, ActingCalls DEF IInv, CallType
  <2>2. \A f \in CallType : f = Running(c) => CallOK(f)'
    BY <1>1, <1>2 DEF CallOK, Running, Call
  <2>3. \A x \in Frames \ {p} : LeftAlone(FrameAt(x))
    BY <1>2, <1>3, <2>1 DEF LeftAlone
  <2>4. \A x \in {p} : SoundAfter(x)
    BY <1>5, <2>2 DEF SoundAfter
  <2>5. StepOK /\ CallsOK
    BY DEF IInv
  <2> QED BY <1>3, <1>5, <1>7, <2>3, <2>4, <2>5, CallsKept
<1>10. RunningOK'
  BY <1>1, <1>2, <1>4, <1>5, RunningKept DEF IInv, Running, Call
<1>11. LinkedOK'
  BY <1>2, <1>7, LinkedKept DEF IInv, LinkedOK
<1>12. CountOK'
  <2>1. \A a \in Coroutines : Starting(a)' = Starting(a)
    BY <1>1, <1>4, <1>5, StartingKept DEF Running, Call
  <2>2. \A a \in Coroutines : AwaitsAll(a)' => status[a] = "suspended"
    BY <1>2 DEF AwaitsAll, Present
  <2> QED BY <1>2, <1>7, <2>1, <2>2, CountKept DEF IInv
<1>13. ScheduledOK'
  BY <1>1, <1>2, <1>3 DEF IInv, ScheduledOK, Present
<1>14. RootOK'
  BY <1>2, <1>7, RootKept DEF IInv
<1> QED BY <1>2, <1>6, <1>7, <1>8, <1>9, <1>10, <1>11, <1>12, <1>13, <1>14, Together DEF IInv

LEMMA AwaitDoneKeeps == ASSUME IInv, NEW t \in Threads, AwaitDone(t) PROVE IInv'
<1>1. PICK c \in Coroutines : /\ c = Top(t).co /\ step[c] \in 1 .. Len(Script[c])
                              /\ Present(c).op \in {"task", "whenReady"} /\ Operand(t) = Present(c).on
  BY AtAwait DEF AwaitDone
<1>2. \A d \in ToSet(Present(c).on) : status[d] = "done"
  <2>1. status[Head(Present(c).on)] = "done"
    BY <1>1 DEF AwaitDone
  <2>2. ToSet(Present(c).on) = {Head(Present(c).on)}
    BY <1>1, AwaitOf DEF Present
  <2> QED BY <2>1, <2>2
<1>3. AwaitsAt(t, {"task", "whenReady", "all", "allReady"})
  BY DEF AwaitDone, AwaitsAt
<1> QED BY <1>1, <1>2, <1>3, GoesOnKeeps DEF AwaitDone

LEMMA AwaitAllAgainKeeps == ASSUME IInv, NEW t \in Threads, AwaitAllAgain(t) PROVE IInv'
<1>1. PICK c \in Coroutines : /\ c = Top(t).co /\ step[c] \in 1 .. Len(Script[c])
                              /\ Operand(t) = Present(c).on
  BY AtAwait DEF AwaitAllAgain
<1>2. PICK i \in 1 .. step[c] - 1 : Script[c][i].on = Present(c).on
  BY <1>1 DEF AwaitAllAgain, AwaitedBefore
<1>3. i \in 1 .. Len(Script[c]) /\ i < step[c]
  BY <1>1, ScriptLength
<1>4. \A d \in ToSet(Present(c).on) : status[d] = "done"
  BY <1>2, <1>3 DEF IInv, AwaitedIsDone
<1>5. AwaitsAt(t, {"task", "whenReady", "all", "allReady"})
  BY DEF AwaitAllAgain, AwaitsAt
<1> QED BY <1>1, <1>4, <1>5, GoesOnKeeps DEF AwaitAllAgain

\* What somebody at his await is about to start has not been started.
LEMMA NotStarted ==
    ASSUME IInv, NEW c \in Coroutines, status[c] = "running", step[c] \in 1 .. Len(Script[c]),
           NEW d \in ToSet(Present(c).on), Kind[d] # "syncWait", status[d] # "done"
    PROVE  d \in Coroutines /\ status[d] = "created"
<1>1. d \in Coroutines
  BY AwaitOf DEF Present
<1>2. ASSUME status[d] \in {"running", "suspended"} PROVE FALSE
  <2>1. d # Root
    BY ProgramAssumption
  <2>2. PICK a \in Coroutines : status[a] = "suspended" /\ d \in ToSet(Present(a).on)
    BY <1>1, <1>2, <2>1 DEF IInv, ActiveOK
  <2>3. step[c] <= Len(Script[c]) /\ step[a] <= Len(Script[a])
    BY <2>2, ScriptLength DEF IInv, StepOK
  <2>4. c = a
    BY <2>2, <2>3, OneAwaiter DEF IInv
  <2> QED BY <2>2, <2>4
<1> QED BY <1>1, <1>2 DEF IInv, TypeOK

LEMMA AwaitTaskKeeps == ASSUME IInv, NEW t \in Threads, AwaitTask(t) PROVE IInv'
<1>1. PICK c \in Coroutines :
        /\ c = Top(t).co /\ ~Idle(t)
        /\ Place(t) \in Frames /\ FrameAt(Place(t)) = Running(c)
        /\ status[c] = "running" /\ step[c] \in 1 .. Len(Script[c])
        /\ Present(c).op \in {"task", "whenReady"} /\ Operand(t) = Present(c).on
        /\ \A x \in Frames \ {Place(t)} : Acting(FrameAt(x)) => FrameAt(x).co # c
  BY AtAwait DEF AwaitTask
<1>2. PICK child \in Coroutines :
        /\ Present(c).on = <<child>> /\ child \in ToSet(Present(c).on)
        /\ Head(Present(c).on) = child /\ Kind[child] = "task"
  BY ZenonT(30), <1>1, AwaitOf DEF Present
<1>3. /\ status[child] # "done"
      /\ status' = [status EXCEPT ![c] = "suspended", ![child] = "running"]
      /\ misused' = misused \cup (IF status[child] = "created" THEN {} ELSE {child})
      /\ Replace(t, <<Call("link", c, <<child>>), Running(child)>>)
      /\ UNCHANGED <<step, linked, continuation, counter, remaining, scheduled, thrown, result, value, neighbour, main>>
  BY <1>1, <1>2 DEF AwaitTask, resultVars, eventVars
<1>4. status[child] = "created" /\ c # child /\ ~linked[child]
  BY <1>1, <1>2, <1>3, NotStarted DEF IInv, LinkedOK
<1>5. /\ TypeOK /\ CallsTyped /\ status'[c] = "suspended" /\ status'[child] = "running" /\ misused' = {}
      /\ \A d \in Coroutines \ {c, child} : status'[d] = status[d]
  BY <1>3, <1>4, Typed DEF IInv, TypeOK
<1>6. PICK p \in Frames : p = Place(t)
  BY <1>1
<1>7. PICK q : q = Above(t)
  OBVIOUS
<1>8. /\ Rearranged(Frames \ {p}, {p, q}) /\ CallsTyped'
      /\ FrameAfter(p) = Call("link", c, <<child>>) /\ FrameAfter(q) = Running(child)
  <2>1. Call("link", c, <<child>>) \in CallType /\ Running(child) \in CallType
    BY DEF CallType, Call, Running
  <2> QED BY <1>1, <1>3, <1>5, <1>6, <1>7, <2>1, Pushed DEF Rearranged
<1>9. TypeOK'
  BY <1>3, <1>5, <1>8 DEF TypeOK, CallsTyped, CallType
<1>10. Advance
  <2>1. \A a \in Coroutines : status[a] = "suspended" => status'[a] = "suspended" /\ step'[a] = step[a]
    BY <1>1, <1>3, <1>4, <1>5
  <2>2. \A a \in Coroutines : step'[a] = step[a] /\ counter'[a] = counter[a]
    BY <1>3
  <2>3. \A a \in Coroutines : status[a] # "suspended" /\ status'[a] = "suspended" => a = c
    BY <1>5
  <2>4. step[c] <= Len(Script[c])
    BY <1>1, ScriptLength
  <2>5. \A d \in Coroutines : status[d] = "created" /\ status'[d] # "created" => d = child
    BY <1>1, <1>5
  <2>6. \A d \in Coroutines : /\ status[d] # "created" => status'[d] # "created"
                              /\ status[d] = "done" => status'[d] = "done"
    BY <1>1, <1>4, <1>5
  <2> QED BY <1>2, <1>5, <2>1, <2>2, <2>3, <2>4, <2>5, <2>6 DEF Advance
<1>11. \A x \in Frames \ {p} : Acting(FrameAt(x)) => FrameAt(x).co \in Coroutines \ {c, child}
  BY <1>1, <1>4, <1>5, <1>6, ActingCalls DEF IInv, CallType
<1>12. OneCall'
  BY <1>4, <1>8, <1>11, OneCallKept DEF IInv, Running, Call
<1>13. CallsOK'
  <2>1. \A f \in CallType : f = Call("link", c, <<child>>) => CallOK(f)'
    <3>1. AwaitsTask(c, child)'
      BY <1>1, <1>2, <1>3, <1>5 DEF AwaitsTask, Present
    <3>2. status'[child] # "created" /\ linked'[child] = (status'[child] = "done")
      BY <1>3, <1>4, <1>5 DEF TypeOK
    <3> QED BY <3>1, <3>2 DEF CallOK, Call
  <2>2. \A f \in CallType : f = Running(child) => CallOK(f)'
    BY <1>5 DEF CallOK, Running, Call
  <2>3. \A d \in Coroutines : Kind[d] = "whenAll" /\ status[d] = "created" => status'[d] = "created"
    BY <1>1, <1>2, <1>5
  <2>4. \A d \in Coroutines : status[d] # "created" =>
            linked'[d] = linked[d] /\ (status'[d] = "done") = (status[d] = "done")
    BY <1>1, <1>3, <1>4, <1>5
  <2>5. \A x \in Frames \ {p} : FrameAt(x) \in CallType
    BY <1>5, ActingCalls DEF IInv
  <2>6. \A x \in Frames \ {p} : \A d \in ToSet(FrameAt(x).on) : d \in Coroutines
    BY <2>5, ListElements DEF CallType
  <2>7. \A x \in Frames \ {p} : LeftAlone(FrameAt(x))
    BY <1>3, <1>5, <1>11, <2>3, <2>4, <2>6 DEF LeftAlone
  <2>8. \A x \in {p, q} : SoundAfter(x)
    BY <1>8, <2>1, <2>2 DEF SoundAfter
  <2> QED BY <1>5, <1>8, <1>10, <2>7, <2>8, CallsKept DEF IInv
<1>14. RunningOK'
  BY <1>1, <1>5, <1>6, <1>8, RunningKept DEF IInv, Running, Call
<1>15. LinkedOK'
  BY ZenonT(30), <1>1, <1>3, <1>5, <1>10, LinkedKept DEF IInv, LinkedOK
<1>16. CountOK'
  <2>1. \A a \in Coroutines : Starting(a)' = Starting(a)
    BY <1>1, <1>6, <1>8, StartingKept DEF Running, Call
  <2>2. \A a \in Coroutines : AwaitsAll(a)' => status[a] = "suspended"
    BY <1>1, <1>3, <1>5 DEF AwaitsAll, Present
  <2>3. \A d \in Coroutines : status'[d] = "done" => status[d] = "done"
    BY <1>5
  <2> QED BY <1>3, <1>10, <2>1, <2>2, <2>3, CountKept DEF IInv
<1>17. ScheduledOK'
  <2>1. \A a \in scheduled : status[a] = "suspended" /\ Present(a).op = "hop" /\ a \in Coroutines \ {c, child}
    BY <1>1, <1>4, <1>5 DEF IInv, ScheduledOK, TypeOK
  <2> QED BY <1>3, <1>5, <2>1 DEF ScheduledOK, Present
<1>18. RootOK'
  BY <1>1, <1>2, <1>3, <1>5, <1>10, RootKept, MainKept DEF IInv
<1> QED BY <1>5, <1>9, <1>10, <1>12, <1>13, <1>14, <1>15, <1>16, <1>17, <1>18, Together DEF IInv

\* The call of await_suspend that TrySetContinuation ends.
LEMMA AtLink ==
    ASSUME IInv, NEW t \in Threads, In(t, "link")
    PROVE  \E c, child \in Coroutines :
            /\ c = Top(t).co /\ Top(t).on = <<child>> /\ Head(Top(t).on) = child /\ ~Idle(t)
            /\ Place(t) \in Frames /\ FrameAt(Place(t)).op = "link"
            /\ AwaitsTask(c, child) /\ child \in ToSet(Present(c).on) /\ Kind[child] = "task"
            /\ status[child] # "created" /\ linked[child] = (status[child] = "done")
            /\ step[c] \in 1 .. Len(Script[c])
            /\ \A x \in Frames \ {Place(t)} : Acting(FrameAt(x)) => FrameAt(x).co # c
            /\ \A x \in Frames \ {Place(t)} : FrameAt(x).op = "link" => FrameAt(x).on # <<child>>
<1>1. CallsTyped /\ CallsOK /\ StepOK /\ OneCall /\ AwaitedIsDone
  BY Typed DEF IInv
<1>2. /\ ~Idle(t) /\ Place(t) \in Frames /\ FrameAt(Place(t)) = Top(t) /\ Top(t).co \in Coroutines
      /\ Top(t).op = "link" /\ CallOK(Top(t))
      /\ \A x \in Frames \ {Place(t)} : Acting(FrameAt(x)) => FrameAt(x).co # Top(t).co
  BY <1>1, TopCall
<1>3. PICK c \in Coroutines, child \in Coroutines :
        /\ c = Top(t).co /\ Top(t).on = <<child>> /\ AwaitsTask(c, child)
        /\ status[child] # "created" /\ linked[child] = (status[child] = "done")
  BY <1>2 DEF CallOK
<1>4. Head(Top(t).on) = child
  BY <1>3
<1>5. \A a \in Coroutines : AwaitsTask(a, child) =>
        step[a] \in 1 .. Len(Script[a]) /\ child \in ToSet(Present(a).on)
  BY <1>1, ScriptLength DEF StepOK, AwaitsTask, ToSet
<1>6. Kind[child] = "task"
  BY <1>3, <1>5, AwaitOf DEF AwaitsTask, Present
<1>7. ASSUME NEW x \in Frames \ {Place(t)}, FrameAt(x).op = "link", FrameAt(x).on = <<child>>
      PROVE  FALSE
  <2>1. PICK a \in Coroutines : a = FrameAt(x).co /\ AwaitsTask(a, child)
    <3>1. FrameAt(x) \in CallType /\ CallOK(FrameAt(x))
      BY <1>1, ActingCalls DEF CallsOK
    <3>2. PICK d \in Coroutines : FrameAt(x).on = <<d>> /\ AwaitsTask(FrameAt(x).co, d)
      BY <1>7, <3>1 DEF CallOK
    <3>3. d = child
      BY <1>7, <3>2
    <3> QED BY <3>1, <3>2, <3>3 DEF CallType
  <2>2. a # c
    BY <1>2, <1>3, <1>7, <2>1 DEF Acting
  <2>3. step[a] <= Len(Script[a]) /\ step[c] <= Len(Script[c])
    BY <1>3, <1>5, <2>1, ScriptLength
  <2> QED BY <1>1, <1>3, <1>5, <2>1, <2>2, <2>3, OneAwaiter DEF AwaitsTask
<1> QED BY <1>2, <1>3, <1>4, <1>5, <1>6, <1>7

\* A suspended coroutine goes on in the call that was to suspend it, since what
\* it awaits has ended.
LEMMA ContinuesKeeps ==
    ASSUME IInv, NEW t \in Threads, NEW c \in Coroutines, c = Top(t).co,
           In(t, "link") \/ In(t, "start"),
           \A d \in ToSet(Present(c).on) : status[d] = "done",
           Resumed(c), Replace(t, <<Running(c)>>),
           linked' \in [Coroutines -> BOOLEAN],
           continuation' \in [Coroutines -> Coroutines \cup {None}],
           remaining' \in [Coroutines -> Nat],
           \A d \in Coroutines : linked'[d] = linked[d],
           \A d \in Coroutines : status[d] # "done" => continuation'[d] = continuation[d],
           \A a \in Coroutines \ {c} : remaining'[a] = remaining[a],
           UNCHANGED <<counter, scheduled, value, neighbour, main>>
    PROVE  IInv'
<1>1. /\ ~Idle(t) /\ Place(t) \in Frames
      /\ FrameAt(Place(t)).op \in {"link", "start"} /\ FrameAt(Place(t)).co = c
      /\ status[c] = "suspended" /\ Present(c).op # "hop"
      /\ \A x \in Frames \ {Place(t)} : Acting(FrameAt(x)) => FrameAt(x).co # c
  <2>1. /\ ~Idle(t) /\ Place(t) \in Frames /\ FrameAt(Place(t)) = Top(t)
        /\ Top(t).op \in {"link", "start"} /\ CallOK(Top(t))
        /\ \A x \in Frames \ {Place(t)} : Acting(FrameAt(x)) => FrameAt(x).co # Top(t).co
    BY Typed, TopCall DEF IInv
  <2> QED BY <2>1 DEF CallOK, AwaitsTask, AwaitsAll
<1>2. /\ AwaitResume(c, result) /\ UNCHANGED result
      /\ status' = [status EXCEPT ![c] = "running"] /\ step' = [step EXCEPT ![c] = @ + 1]
      /\ misused' = misused
  BY <1>1 DEF Resumed
<1>3. /\ TypeOK /\ CallsTyped /\ status'[c] = "running" /\ step'[c] = step[c] + 1
      /\ \A d \in Coroutines \ {c} : status'[d] = status[d] /\ step'[d] = step[d]
  BY <1>2, Typed DEF IInv, TypeOK
<1>4. PICK p \in Frames : p = Place(t)
  BY <1>1
<1>5. Rearranged(Frames \ {p}, {p}) /\ FrameAfter(p) = Running(c) /\ CallsTyped'
  <2>1. Running(c) \in CallType
    BY DEF CallType, Call, Running
  <2> QED BY <1>1, <1>3, <1>4, <2>1, Swapped DEF Rearranged
<1>6. TypeOK'
  <2>1. /\ status' \in [Coroutines -> {"created", "running", "suspended", "done"}]
        /\ step' \in [Coroutines -> Nat] /\ thrown' \in [Coroutines -> Coroutines \cup {None}]
    <3>1. status' \in [Coroutines -> {"created", "running", "suspended", "done"}]
      BY <1>2, <1>3 DEF TypeOK
    <3>2. step' \in [Coroutines -> Nat]
      BY <1>2, <1>3 DEF TypeOK
    <3> QED BY <1>2, <1>3, <3>1, <3>2, ThrownTyped
  <2>2. /\ result' = result /\ counter' = counter /\ scheduled' = scheduled /\ misused' = misused
        /\ value' = value /\ neighbour' = neighbour /\ main' = main
    BY <1>2
  <2>3. calls' \in [Threads -> Seq(CallType)]
    BY <1>5 DEF CallsTyped
  <2>4. /\ linked' \in [Coroutines -> BOOLEAN] /\ continuation' \in [Coroutines -> Coroutines \cup {None}]
        /\ counter' \in [Coroutines -> Coroutines \cup {None}] /\ remaining' \in [Coroutines -> Nat]
    BY <1>3, <2>2 DEF TypeOK
  <2>5. /\ result' \in [Coroutines -> Coroutines \cup {"empty", "value"}] /\ scheduled' \subseteq Coroutines
        /\ misused' \subseteq Coroutines
    BY <1>3, <2>2 DEF TypeOK
  <2>6. /\ value' \in {0, 1} /\ neighbour' \in Neighbours
        /\ main' \in {"start", "load", "futex", "asleep", "returned"}
    BY <1>3, <2>2 DEF TypeOK
  <2> QED BY Zenon, <2>1, <2>3, <2>4, <2>5, <2>6 DEF TypeOK, CallType
<1>7. Advance
  <2>1. \A a \in Coroutines : a = c \/ (status'[a] = status[a] /\ step'[a] = step[a])
    BY <1>3
  <2>2. \A d \in ToSet(Present(c).on) : status'[d] = "done"
    BY <1>1, <1>2, <1>3 DEF TypeOK
  <2>3. \A a \in Coroutines : status[a] = "suspended" => step[a] <= Len(Script[a])
    BY DEF IInv, StepOK
  <2>4. \A a \in Coroutines : counter'[a] = counter[a]
    OBVIOUS
  <2> QED BY <1>1, <1>3, <2>1, <2>2, <2>3, <2>4 DEF Advance
<1>8. OneCall'
  BY <1>1, <1>4, <1>5, OneCallKept DEF IInv, Running, Call
<1>9. CallsOK'
  <2>1. \A x \in Frames \ {p} : Acting(FrameAt(x)) => FrameAt(x).co \in Coroutines \ {c}
    BY <1>1, <1>3, <1>4, ActingCalls DEF IInv, CallType
  <2>2. \A f \in CallType : f = Running(c) => CallOK(f)'
    BY <1>3 DEF CallOK, Running, Call
  <2>3. \A d \in Coroutines : (status'[d] = "done") = (status[d] = "done")
    BY <1>1, <1>3
  <2>4. \A d \in Coroutines : status[d] = "created" => status'[d] = "created"
    BY <1>1, <1>3
  <2>5. \A x \in Frames \ {p} : \A d \in ToSet(FrameAt(x).on) : d \in Coroutines
    <3>1. \A x \in Frames \ {p} : FrameAt(x) \in CallType
      BY <1>3, ActingCalls DEF IInv
    <3> QED BY <3>1, ListElements DEF CallType
  <2>6. \A x \in Frames \ {p} : LeftAlone(FrameAt(x))
    BY <1>3, <2>1, <2>3, <2>4, <2>5 DEF LeftAlone
  <2>7. \A x \in {p} : SoundAfter(x)
    BY <1>5, <2>2 DEF SoundAfter
  <2>8. CallsTyped /\ StepOK /\ CallsOK /\ Rearranged(Frames \ {p}, {p})
    BY <1>3, <1>5 DEF IInv
  <2> QED BY <1>7, <2>6, <2>7, <2>8, CallsKept
<1>10. RunningOK'
  <2>1. \A a \in Coroutines : FrameAt(p) # Running(a)
    BY <1>1, <1>4 DEF Running, Call
  <2>2. \A a \in Coroutines : status'[a] = "running" => a = c \/ status[a] = "running"
    BY <1>3
  <2> QED BY <1>5, <2>1, <2>2, RunningKept DEF IInv
<1>11. LinkedOK'
  BY <1>1, <1>2, <1>3, <1>7, LinkedKept DEF IInv, LinkedOK
<1>12. CountOK'
  <2>1. ASSUME NEW a \in Coroutines, a # c PROVE Starting(a)' = Starting(a)
    <3>1. Starting(a)' <=> Starting(a)
      BY <1>1, <1>4, <1>5, <2>1, StartingAfter DEF Running, Call
    <3> QED BY <3>1 DEF Starting
  <2>2. \A a \in Coroutines : AwaitsAll(a)' => a # c /\ status[a] = "suspended"
    BY <1>3 DEF AwaitsAll
  <2>3. \A d \in Coroutines : status'[d] = "done" => status[d] = "done"
    BY <1>3
  <2> QED BY <1>7, <2>1, <2>2, <2>3, CountKept DEF IInv
<1>13. ScheduledOK'
  <2>1. \A a \in scheduled : status[a] = "suspended" /\ Present(a).op = "hop" /\ a \in Coroutines \ {c}
    BY <1>1, <1>3 DEF IInv, ScheduledOK, TypeOK
  <2> QED BY <1>3, <2>1 DEF ScheduledOK, Present
<1>14. RootOK'
  BY <1>1, <1>3, <1>7, RootKept, MainKept DEF IInv
<1> QED BY <1>2, <1>6, <1>7, <1>8, <1>9, <1>10, <1>11, <1>12, <1>13, <1>14, Together DEF IInv

LEMMA TrySetContinuationKeeps == ASSUME IInv, NEW t \in Threads, TrySetContinuation(t) PROVE IInv'
<1>1. PICK c \in Coroutines, child \in Coroutines :
        /\ c = Top(t).co /\ Top(t).on = <<child>> /\ Head(Top(t).on) = child /\ ~Idle(t)
        /\ Place(t) \in Frames /\ FrameAt(Place(t)).op = "link"
        /\ AwaitsTask(c, child) /\ child \in ToSet(Present(c).on) /\ Kind[child] = "task"
        /\ status[child] # "created" /\ linked[child] = (status[child] = "done")
        /\ step[c] \in 1 .. Len(Script[c])
        /\ \A x \in Frames \ {Place(t)} : Acting(FrameAt(x)) => FrameAt(x).co # c
        /\ \A x \in Frames \ {Place(t)} : FrameAt(x).op = "link" => FrameAt(x).on # <<child>>
  BY AtLink DEF TrySetContinuation
<1>2. /\ continuation' = [continuation EXCEPT ![child] = c]
      /\ linked' = [linked EXCEPT ![child] = TRUE]
      /\ IF linked[child]
         THEN Resumed(c) /\ Replace(t, <<Running(c)>>)
         ELSE Return(t) /\ UNCHANGED <<status, step, misused, thrown, result>>
      /\ UNCHANGED <<counter, remaining, scheduled, value, neighbour, main>>
  BY <1>1 DEF TrySetContinuation, resultVars, eventVars
<1>3. TypeOK /\ CallsTyped
  BY Typed DEF IInv
<1>4. /\ linked' \in [Coroutines -> BOOLEAN] /\ continuation' \in [Coroutines -> Coroutines \cup {None}]
      /\ linked'[child] = TRUE /\ continuation'[child] = c
      /\ \A d \in Coroutines \ {child} : linked'[d] = linked[d] /\ continuation'[d] = continuation[d]
  BY <1>2, <1>3 DEF TypeOK
<1>5. CASE linked[child]
  <2>1. status[child] = "done" /\ \A d \in ToSet(Present(c).on) : d = child
    <3>1. status[child] = "done"
      BY <1>1, <1>5, Zenon
    <3>2. \A d \in ToSet(Present(c).on) : d = child
      <4>1. Present(c).op \in {"task", "whenReady"}
        BY <1>1 DEF AwaitsTask
      <4>2. PICK e \in Coroutines : ToSet(Present(c).on) = {e}
        BY <1>1, <4>1, AwaitOf DEF Present
      <4> QED BY <1>1, <4>2
    <3> QED BY <3>1, <3>2
  <2>2. \A d \in Coroutines : linked'[d] = linked[d]
    BY <1>3, <1>4, <1>5 DEF TypeOK
  <2>3. \A d \in Coroutines : status[d] # "done" => continuation'[d] = continuation[d]
    BY <1>4, <2>1
  <2>4. remaining' \in [Coroutines -> Nat] /\ \A a \in Coroutines \ {c} : remaining'[a] = remaining[a]
    BY <1>2, <1>3 DEF TypeOK
  <2>5. \A d \in ToSet(Present(c).on) : status[d] = "done"
    BY <2>1
  <2>6. /\ In(t, "link") /\ Resumed(c) /\ Replace(t, <<Running(c)>>)
        /\ UNCHANGED <<counter, scheduled, value, neighbour, main>>
    BY <1>2, <1>5 DEF TrySetContinuation
  <2> QED BY <1>1, <1>4, <2>2, <2>3, <2>4, <2>5, <2>6, ContinuesKeeps
<1>6. CASE ~linked[child]
  <2>1. PICK p \in Frames : p = Place(t)
    BY <1>1
  <2>2. Return(t) /\ UNCHANGED <<status, step, misused, thrown, result>>
    BY <1>2, <1>6
  <2>3. Rearranged(Frames \ {p}, {}) /\ CallsTyped'
    BY <1>1, <1>3, <2>1, <2>2, Popped DEF Rearranged
  <2>4. TypeOK'
    BY <1>2, <1>3, <1>4, <2>2, <2>3 DEF TypeOK, CallsTyped, CallType
  <2>5. Advance
    BY <1>2, <2>2 DEF Advance, IInv, StepOK
  <2>6. OneCall'
    BY <2>3, OneCallKept DEF IInv
  <2>7. CallsOK'
    <3>1. \A x \in Frames \ {p} : LeftAlone(FrameAt(x))
      BY <1>1, <1>4, <2>1, <2>2 DEF LeftAlone
    <3>2. StepOK /\ CallsOK
      BY DEF IInv
    <3> QED BY <1>3, <2>3, <2>5, <3>1, <3>2, CallsKept
  <2>8. RunningOK'
    <3>1. \A a \in Coroutines : FrameAt(p) # Running(a)
      BY <1>1, <2>1 DEF Running, Call
    <3> QED BY <2>2, <2>3, <3>1, RunningKept DEF IInv
  <2>9. LinkedOK'
    <3>1. AwaitsTask(c, child)' /\ status'[child] # "created"
      BY <1>1, <2>2 DEF AwaitsTask, Present
    <3>2. \A d \in Coroutines \ {child} : Kind[d] = "task" =>
            /\ status'[d] = "done" => linked'[d]
            /\ status'[d] = "created" => ~linked'[d]
            /\ linked'[d] /\ status'[d] # "done" =>
                \E a \in Coroutines : a = continuation'[d] /\ AwaitsTask(a, d)'
      BY <1>4, <2>2 DEF IInv, LinkedOK, AwaitsTask, Present
    <3> QED BY <1>4, <3>1, <3>2 DEF LinkedOK, AwaitsTask, Present
  <2>10. CountOK'
    <3>1. \A a \in Coroutines : Starting(a)' = Starting(a)
      BY <1>1, <2>1, <2>3, StartingKept
    <3>2. \A a \in Coroutines : AwaitsAll(a)' => status[a] = "suspended"
      BY <2>2 DEF AwaitsAll
    <3> QED BY <1>2, <2>2, <2>5, <3>1, <3>2, CountKept DEF IInv
  <2>11. ScheduledOK'
    BY <1>2, <2>2 DEF IInv, ScheduledOK, Present
  <2>12. RootOK'
    BY <1>1, <1>2, <1>3, <2>2, <2>5, RootKept, MainKept DEF IInv, Return
  <2> QED BY <2>2, <2>4, <2>5, <2>6, <2>7, <2>8, <2>9, <2>10, <2>11, <2>12, Together DEF IInv
<1> QED BY <1>5, <1>6

LEMMA AwaitAllKeeps == ASSUME IInv, NEW t \in Threads, AwaitAll(t) PROVE IInv'
<1>1. PICK c \in Coroutines :
        /\ c = Top(t).co /\ ~Idle(t)
        /\ Place(t) \in Frames /\ FrameAt(Place(t)) = Running(c)
        /\ status[c] = "running" /\ step[c] \in 1 .. Len(Script[c])
        /\ Present(c).op \in {"all", "allReady"} /\ Operand(t) = Present(c).on
        /\ \A x \in Frames \ {Place(t)} : Acting(FrameAt(x)) => FrameAt(x).co # c
  BY AtAwait DEF AwaitAll
<1>2. PICK on \in Seq(Coroutines) :
        /\ on = Present(c).on /\ IsInjective(on)
        /\ \A d \in ToSet(on) : d \in Coroutines /\ Kind[d] = "whenAll"
  BY <1>1, AwaitOf DEF Present
<1>3. /\ status' = [status EXCEPT ![c] = "suspended"]
      /\ remaining' = [remaining EXCEPT ![c] = Len(on) + 1]
      /\ Replace(t, <<Call("start", c, on)>>)
      /\ UNCHANGED <<step, linked, continuation, counter, misused, scheduled, thrown, result, value, neighbour, main>>
  BY <1>1, <1>2 DEF AwaitAll, resultVars, eventVars
<1>4. \A d \in ToSet(on) : status[d] = "created"
  <2> SUFFICES ASSUME NEW d \in ToSet(on), status[d] # "created" PROVE FALSE
    OBVIOUS
  <2>1. step[c] \in DOMAIN Script[c] /\ d \in ToSet(Script[c][step[c]].on)
    BY <1>1, <1>2, ScriptLength DEF Present
  <2>2. d \in Before(c, step[c])
    BY <1>1, <1>2, <2>1 DEF IInv, WhenAllOK
  <2>3. PICK k \in 1 .. step[c] - 1 : d \in ToSet(Script[c][k].on)
    BY <2>2 DEF Before
  <2>4. k \in 1 .. Len(Script[c]) /\ k \in DOMAIN Script[c]
    BY <1>1, ScriptLength
  <2>5. Script[c][k].on = Script[c][step[c]].on
    <3>1. d \in ToSet(Script[c][k].on) \cap ToSet(Script[c][step[c]].on) /\ Kind[d] = "whenAll"
      BY <1>2, <2>1, <2>3
    <3> QED BY <2>1, <2>4, <3>1, AwaitsAssumption
  <2>6. Script[c][k].op \in {"all", "allReady"}
    BY <1>2, <2>3, <2>4, AllAwait
  <2>7. AwaitedBefore(t)
    BY <1>1, <2>5, <2>6 DEF AwaitedBefore, Present
  <2> QED BY <2>7 DEF AwaitAll
<1>5. /\ TypeOK /\ CallsTyped /\ status'[c] = "suspended"
      /\ \A d \in Coroutines \ {c} : status'[d] = status[d] /\ remaining'[d] = remaining[d]
      /\ Len(on) \in Nat /\ remaining'[c] = Len(on) + 1
  BY <1>3, Typed, ListElements DEF IInv, TypeOK
<1>6. PICK p \in Frames : p = Place(t)
  BY <1>1
<1>7. Rearranged(Frames \ {p}, {p}) /\ FrameAfter(p) = Call("start", c, on) /\ CallsTyped'
  <2>1. Call("start", c, on) \in CallType
    BY DEF CallType, Call
  <2> QED BY <1>1, <1>3, <1>5, <1>6, <2>1, Swapped DEF Rearranged
<1>8. TypeOK'
  <2>1. remaining' \in [Coroutines -> Nat]
    BY <1>3, <1>5 DEF TypeOK
  <2> QED BY <1>3, <1>5, <1>7, <2>1 DEF TypeOK, CallsTyped, CallType
<1>9. Advance
  BY <1>1, <1>3, <1>5, ScriptLength DEF Advance
<1>10. OneCall'
  BY <1>1, <1>6, <1>7, OneCallKept DEF IInv, Call
<1>11. CallsOK'
  <2>1. \A x \in Frames \ {p} : Acting(FrameAt(x)) => FrameAt(x).co \in Coroutines \ {c}
    BY <1>1, <1>5, <1>6, ActingCalls DEF IInv, CallType
  <2>2. \A d \in Coroutines : /\ status[d] = "created" => status'[d] = "created"
                              /\ (status'[d] = "done") = (status[d] = "done")
    BY <1>1, <1>5
  <2>3. \A x \in Frames \ {p} : \A d \in ToSet(FrameAt(x).on) : d \in Coroutines
    <3>1. \A x \in Frames \ {p} : FrameAt(x) \in CallType
      BY <1>5, ActingCalls DEF IInv
    <3> QED BY <3>1, ListElements DEF CallType
  <2>4. \A x \in Frames \ {p} : LeftAlone(FrameAt(x))
    BY <1>3, <1>5, <2>1, <2>2, <2>3 DEF LeftAlone
  <2>5. \A f \in CallType : f = Call("start", c, on) => CallOK(f)'
    <3>1. AwaitsAll(c)' /\ ToSet(on) \subseteq ToSet(Script[c][step'[c]].on)
      BY <1>1, <1>2, <1>3, <1>5 DEF AwaitsAll, Present
    <3>2. \A d \in ToSet(on) : status'[d] = "created"
      BY <1>1, <1>2, <1>4, <1>5
    <3> QED BY <1>2, <3>1, <3>2 DEF CallOK, Call, Present
  <2>6. \A x \in {p} : SoundAfter(x)
    BY <1>7, <2>5 DEF SoundAfter
  <2>7. StepOK /\ CallsOK
    BY DEF IInv
  <2> QED BY <1>5, <1>7, <1>9, <2>4, <2>6, <2>7, CallsKept
<1>12. RunningOK'
  <2>1. \A a \in Coroutines \ {c} : FrameAt(p) # Running(a)
    BY <1>1, <1>6 DEF Running, Call
  <2>2. \A a \in Coroutines : status'[a] = "running" => a # c /\ status[a] = "running"
    BY <1>5
  <2> QED BY <1>7, <2>1, <2>2, RunningKept DEF IInv
<1>13. LinkedOK'
  BY <1>1, <1>3, <1>5, <1>9, LinkedKept DEF IInv, LinkedOK
<1>14. CountOK'
  <2>1. \A a \in Coroutines \ {c} : Starting(a)' = Starting(a)
    <3> SUFFICES ASSUME NEW a \in Coroutines \ {c} PROVE Starting(a)' = Starting(a)
      OBVIOUS
    <3>1. Starting(a)' <=> Starting(a)
      BY <1>1, <1>6, <1>7, StartingAfter DEF Running, Call
    <3> QED BY <3>1 DEF Starting
  <2>2. \A a \in Coroutines \ {c} : AwaitsAll(a)' => status[a] = "suspended"
    BY <1>5 DEF AwaitsAll
  <2>3. Counted(c)'
    <3>1. Starting(c)'
      BY <1>7, StartingAfter DEF Call
    <3>2. Unfinished(c)' = ToSet(on)
      <4>1. \A d \in ToSet(on) : status'[d] # "done"
        BY <1>1, <1>2, <1>4, <1>5
      <4> QED BY <1>2, <1>3, <4>1 DEF Unfinished, Present
    <3>3. Cardinality(ToSet(on)) = Len(on)
      BY <1>2, InjectiveLength
    <3> QED BY <1>5, <3>1, <3>2, <3>3 DEF Counted
  <2>4. \A d \in Coroutines : status'[d] = "done" => status[d] = "done"
    BY <1>5
  <2> QED BY <1>5, <1>9, <2>1, <2>2, <2>3, <2>4, CountKept DEF IInv
<1>15. ScheduledOK'
  <2>1. \A a \in scheduled : status[a] = "suspended" /\ Present(a).op = "hop" /\ a \in Coroutines \ {c}
    BY <1>1, <1>5 DEF IInv, ScheduledOK, TypeOK
  <2> QED BY <1>3, <1>5, <2>1 DEF ScheduledOK, Present
<1>16. RootOK'
  BY <1>1, <1>3, <1>5, <1>9, RootKept, MainKept DEF IInv
<1> QED BY <1>3, <1>8, <1>9, <1>10, <1>11, <1>12, <1>13, <1>14, <1>15, <1>16, Together DEF IInv

\* The call of StartTasks, and how many completions are still to come.
LEMMA AtStart ==
    ASSUME IInv, NEW t \in Threads, In(t, "start")
    PROVE  \E c \in Coroutines, on \in Seq(Coroutines) :
            /\ c = Top(t).co /\ on = Top(t).on /\ ~Idle(t)
            /\ Place(t) \in Frames /\ FrameAt(Place(t)).op = "start" /\ FrameAt(Place(t)).co = c
            /\ AwaitsAll(c) /\ step[c] \in 1 .. Len(Script[c])
            /\ IsInjective(on) /\ ToSet(on) \subseteq ToSet(Present(c).on)
            /\ \A d \in ToSet(on) : d \in Coroutines /\ status[d] = "created" /\ Kind[d] = "whenAll"
            /\ \A x \in Frames \ {Place(t)} : Acting(FrameAt(x)) => FrameAt(x).co # c
            /\ IsFiniteSet(Unfinished(c)) /\ remaining[c] = Cardinality(Unfinished(c)) + 1
<1>1. CallsTyped /\ CallsOK /\ StepOK /\ OneCall /\ CountOK
  BY Typed DEF IInv
<1>2. /\ ~Idle(t) /\ Place(t) \in Frames /\ FrameAt(Place(t)) = Top(t) /\ Top(t).co \in Coroutines
      /\ Top(t).op = "start" /\ Top(t).on \in Seq(Coroutines) /\ CallOK(Top(t))
      /\ \A x \in Frames \ {Place(t)} : Acting(FrameAt(x)) => FrameAt(x).co # Top(t).co
  BY <1>1, TopCall
<1>3. PICK c \in Coroutines, on \in Seq(Coroutines) :
        /\ c = Top(t).co /\ on = Top(t).on
        /\ AwaitsAll(c) /\ IsInjective(on) /\ ToSet(on) \subseteq ToSet(Present(c).on)
        /\ \A d \in ToSet(on) : status[d] = "created"
  BY <1>2 DEF CallOK
<1>4. step[c] \in 1 .. Len(Script[c])
  BY <1>1, <1>3, ScriptLength DEF StepOK, AwaitsAll
<1>5. Present(c).on \in Seq(Coroutines) /\ IsInjective(Present(c).on)
      /\ \A d \in ToSet(Present(c).on) : d \in Coroutines /\ Kind[d] = "whenAll"
  BY <1>3, <1>4, AwaitOf DEF AwaitsAll, Present
<1>6. IsFiniteSet(Unfinished(c))
  BY <1>5, InjectiveLength, FS_Subset DEF Unfinished
<1>7. remaining[c] = Cardinality(Unfinished(c)) + 1
  <2>1. Starting(c)
    BY <1>2, <1>3 DEF Starting
  <2> QED BY <1>1, <1>3, <2>1 DEF CountOK, Counted
<1> QED BY <1>2, <1>3, <1>4, <1>5, <1>6, <1>7

LEMMA StartTaskKeeps == ASSUME IInv, NEW t \in Threads, StartTask(t) PROVE IInv'
<1>1. PICK c \in Coroutines, on \in Seq(Coroutines) :
        /\ c = Top(t).co /\ on = Top(t).on /\ ~Idle(t)
        /\ Place(t) \in Frames /\ FrameAt(Place(t)).op = "start" /\ FrameAt(Place(t)).co = c
        /\ AwaitsAll(c) /\ step[c] \in 1 .. Len(Script[c])
        /\ IsInjective(on) /\ ToSet(on) \subseteq ToSet(Present(c).on)
        /\ \A d \in ToSet(on) : d \in Coroutines /\ status[d] = "created" /\ Kind[d] = "whenAll"
        /\ \A x \in Frames \ {Place(t)} : Acting(FrameAt(x)) => FrameAt(x).co # c
  BY AtStart DEF StartTask
<1>2. PICK task \in Coroutines :
        /\ task = Head(on) /\ task \in ToSet(on) /\ on # <<>>
        /\ Tail(on) \in Seq(Coroutines) /\ IsInjective(Tail(on)) /\ ToSet(Tail(on)) = ToSet(on) \ {task}
  <2>1. on # <<>>
    BY <1>1 DEF StartTask
  <2> QED BY <1>1, <2>1, ListElements, InjectiveTail
<1>3. status[task] = "created" /\ status[c] = "suspended" /\ Kind[task] = "whenAll"
  BY <1>1, <1>2 DEF AwaitsAll
<1>4. /\ counter' = [counter EXCEPT ![task] = c]
      /\ Replace(t, <<Call("start", c, Tail(on)), Running(task)>>)
      /\ status' = [status EXCEPT ![task] = "running"] /\ step' = [step EXCEPT ![task] = @]
      /\ misused' = misused
      /\ UNCHANGED <<thrown, result, linked, continuation, remaining, scheduled, value, neighbour, main>>
  BY <1>1, <1>2, <1>3 DEF StartTask, Resumed, eventVars
<1>5. /\ TypeOK /\ CallsTyped /\ status'[task] = "running" /\ step' = step /\ counter'[task] = c
      /\ \A d \in Coroutines \ {task} : status'[d] = status[d] /\ counter'[d] = counter[d]
  BY <1>4, Typed DEF IInv, TypeOK
<1>6. PICK p \in Frames : p = Place(t)
  BY <1>1
<1>7. PICK q : q = Above(t)
  OBVIOUS
<1>8. /\ Rearranged(Frames \ {p}, {p, q}) /\ CallsTyped'
      /\ FrameAfter(p) = Call("start", c, Tail(on)) /\ FrameAfter(q) = Running(task)
  <2>1. Call("start", c, Tail(on)) \in CallType /\ Running(task) \in CallType
    BY <1>2 DEF CallType, Call, Running
  <2> QED BY <1>1, <1>4, <1>5, <1>6, <1>7, <2>1, Pushed DEF Rearranged
<1>9. TypeOK'
  BY <1>4, <1>5, <1>8 DEF TypeOK, CallsTyped, CallType
<1>10. Advance
  <2>1. \A a \in Coroutines : step'[a] = step[a]
    BY <1>5
  <2>2. \A a \in Coroutines : status[a] = "suspended" => status'[a] = "suspended"
    BY <1>3, <1>5
  <2>3. \A a \in Coroutines : status'[a] = "suspended" => status[a] = "suspended"
    BY <1>5
  <2>4. \A d \in Coroutines : /\ status[d] # "created" => status'[d] = status[d] /\ counter'[d] = counter[d]
                              /\ status[d] = "created" => status'[d] = "created" \/ d = task
    BY <1>3, <1>5
  <2>5. status'[c] = "suspended" /\ task \in ToSet(Present(c).on)
    BY <1>1, <1>2, <1>3, <2>2
  <2> QED BY <1>5, <2>1, <2>2, <2>3, <2>4, <2>5 DEF Advance
<1>11. \A x \in Frames \ {p} : Acting(FrameAt(x)) => FrameAt(x).co \in Coroutines \ {c, task}
  BY <1>1, <1>3, <1>5, <1>6, ActingCalls DEF IInv, CallType
<1>12. OneCall'
  BY <1>3, <1>8, <1>11, OneCallKept DEF IInv, Running, Call
<1>13. CallsOK'
  <2>1. \A f \in CallType : f = Call("start", c, Tail(on)) => CallOK(f)'
    <3>1. AwaitsAll(c)' /\ ToSet(Tail(on)) \subseteq ToSet(Script[c][step'[c]].on)
      BY <1>1, <1>2, <1>3, <1>5 DEF AwaitsAll, Present
    <3>2. \A d \in ToSet(Tail(on)) : status'[d] = "created"
      BY <1>1, <1>2, <1>5
    <3> QED BY <1>2, <3>1, <3>2 DEF CallOK, Call, Present
  <2>2. \A f \in CallType : f = Running(task) => CallOK(f)'
    BY <1>5 DEF CallOK, Running, Call
  <2>3. \A x \in {p, q} : SoundAfter(x)
    BY <1>8, <2>1, <2>2 DEF SoundAfter
  <2>4. ASSUME NEW x \in Frames \ {p}, FrameAt(x).op = "start" PROVE task \notin ToSet(FrameAt(x).on)
    <3>1. PICK a \in Coroutines : /\ a = FrameAt(x).co /\ a # c /\ AwaitsAll(a)
                                  /\ ToSet(FrameAt(x).on) \subseteq ToSet(Present(a).on)
      <4>1. CallOK(FrameAt(x))
        BY DEF IInv, CallsOK
      <4> QED BY <1>11, <2>4, <4>1 DEF CallOK, Acting
    <3>2. step[a] <= Len(Script[a]) /\ step[c] <= Len(Script[c])
      BY <1>1, <3>1, ScriptLength DEF IInv, StepOK, AwaitsAll
    <3> QED BY <1>1, <1>2, <1>3, <3>1, <3>2, OneAwaiter DEF IInv, AwaitsAll
  <2>5. \A x \in Frames \ {p} : \A d \in ToSet(FrameAt(x).on) : d \in Coroutines
    <3>1. \A x \in Frames \ {p} : FrameAt(x) \in CallType
      BY <1>5, ActingCalls DEF IInv
    <3> QED BY <3>1, ListElements DEF CallType
  <2>6. \A d \in Coroutines : (status'[d] = "done") = (status[d] = "done")
    BY <1>3, <1>5
  <2>7. \A x \in Frames \ {p} : LeftAlone(FrameAt(x))
    BY <1>4, <1>5, <1>11, <2>4, <2>5, <2>6 DEF LeftAlone
  <2>8. StepOK /\ CallsOK
    BY DEF IInv
  <2> QED BY <1>5, <1>8, <1>10, <2>3, <2>7, <2>8, CallsKept
<1>14. RunningOK'
  <2>1. \A a \in Coroutines : FrameAt(p) # Running(a)
    BY <1>1, <1>6 DEF Running, Call
  <2>2. \A a \in Coroutines : status'[a] = "running" => a = task \/ status[a] = "running"
    BY <1>5
  <2> QED BY <1>8, <2>1, <2>2, RunningKept DEF IInv
<1>15. LinkedOK'
  BY <1>3, <1>4, <1>5, <1>10, LinkedKept DEF IInv, LinkedOK
<1>16. CountOK'
  <2>1. ASSUME NEW a \in Coroutines PROVE Starting(a)' = Starting(a)
    <3>1. Starting(a)' <=> Starting(a)
      BY <1>1, <1>6, <1>8, StartingAfter DEF Running, Call
    <3> QED BY <3>1 DEF Starting
  <2>2. \A a \in Coroutines : AwaitsAll(a)' => status[a] = "suspended"
    BY <1>5 DEF AwaitsAll
  <2>3. \A d \in Coroutines : status'[d] = "done" => status[d] = "done"
    BY <1>5
  <2> QED BY <1>4, <1>10, <2>1, <2>2, <2>3, CountKept DEF IInv
<1>17. ScheduledOK'
  <2>1. \A a \in scheduled : status[a] = "suspended" /\ Present(a).op = "hop" /\ a \in Coroutines \ {task}
    BY <1>3, <1>5 DEF IInv, ScheduledOK, TypeOK
  <2> QED BY <1>4, <1>5, <2>1 DEF ScheduledOK, Present
<1>18. RootOK'
  BY <1>1, <1>3, <1>4, <1>5, <1>10, RootKept, MainKept DEF IInv
<1> QED BY <1>4, <1>9, <1>10, <1>12, <1>13, <1>14, <1>15, <1>16, <1>17, <1>18, Together DEF IInv

LEMMA TryAwaitKeeps == ASSUME IInv, NEW t \in Threads, TryAwait(t) PROVE IInv'
<1>1. PICK c \in Coroutines, on \in Seq(Coroutines) :
        /\ c = Top(t).co /\ ~Idle(t)
        /\ Place(t) \in Frames /\ FrameAt(Place(t)).op = "start" /\ FrameAt(Place(t)).co = c
        /\ AwaitsAll(c) /\ step[c] \in 1 .. Len(Script[c])
        /\ \A x \in Frames \ {Place(t)} : Acting(FrameAt(x)) => FrameAt(x).co # c
        /\ IsFiniteSet(Unfinished(c)) /\ remaining[c] = Cardinality(Unfinished(c)) + 1
  BY AtStart DEF TryAwait
<1>2. /\ remaining' = [remaining EXCEPT ![c] = @ - 1]
      /\ IF remaining[c] > 1
         THEN Return(t) /\ UNCHANGED <<status, step, misused, thrown, result>>
         ELSE Resumed(c) /\ Replace(t, <<Running(c)>>)
      /\ UNCHANGED <<linked, continuation, counter, scheduled, value, neighbour, main>>
  BY <1>1 DEF TryAwait, resultVars, eventVars
<1>3. /\ TypeOK /\ CallsTyped /\ Cardinality(Unfinished(c)) \in Nat
      /\ remaining' \in [Coroutines -> Nat] /\ remaining'[c] = Cardinality(Unfinished(c))
      /\ \A a \in Coroutines \ {c} : remaining'[a] = remaining[a]
  <2>1. TypeOK /\ CallsTyped /\ Cardinality(Unfinished(c)) \in Nat
    BY <1>1, Typed, FS_CardinalityType DEF IInv
  <2>2. remaining[c] - 1 = Cardinality(Unfinished(c))
    BY <1>1, <2>1
  <2> QED BY <1>2, <2>1, <2>2 DEF TypeOK
<1>4. CASE ~(remaining[c] > 1)
  <2>1. Cardinality(Unfinished(c)) = 0
    BY <1>1, <1>3, <1>4
  <2>2. Unfinished(c) = {}
    BY <1>1, <2>1, FS_EmptySet
  <2>3. \A d \in ToSet(Present(c).on) : status[d] = "done"
    BY <2>2 DEF Unfinished
  <2>4. /\ In(t, "start") /\ Resumed(c) /\ Replace(t, <<Running(c)>>)
        /\ UNCHANGED <<counter, scheduled, value, neighbour, main>>
    BY <1>2, <1>4 DEF TryAwait
  <2>5. /\ linked' \in [Coroutines -> BOOLEAN] /\ continuation' \in [Coroutines -> Coroutines \cup {None}]
        /\ \A d \in Coroutines : linked'[d] = linked[d] /\ continuation'[d] = continuation[d]
    BY <1>2, <1>3 DEF TypeOK
  <2> QED BY <1>1, <1>3, <2>3, <2>4, <2>5, ContinuesKeeps
<1>5. CASE remaining[c] > 1
  <2>1. PICK p \in Frames : p = Place(t)
    BY <1>1
  <2>2. Return(t) /\ UNCHANGED <<status, step, misused, thrown, result>>
    BY <1>2, <1>5
  <2>3. Rearranged(Frames \ {p}, {}) /\ CallsTyped'
    BY <1>1, <1>3, <2>1, <2>2, Popped DEF Rearranged
  <2>4. TypeOK'
    BY <1>2, <1>3, <2>2, <2>3 DEF TypeOK, CallsTyped, CallType
  <2>5. Advance
    BY <1>2, <2>2 DEF Advance, IInv, StepOK
  <2>6. OneCall'
    BY <2>3, OneCallKept DEF IInv
  <2>7. CallsOK'
    <3>1. \A x \in Frames \ {p} : LeftAlone(FrameAt(x))
      BY <1>2, <2>2 DEF LeftAlone
    <3>2. CallsTyped /\ StepOK /\ CallsOK /\ Rearranged(Frames \ {p}, {})
      BY <1>3, <2>3 DEF IInv
    <3>3. \A x \in {} : SoundAfter(x)
      OBVIOUS
    <3> QED BY <2>5, <3>1, <3>2, <3>3, CallsKept
  <2>8. RunningOK'
    <3>1. \A a \in Coroutines : FrameAt(p) # Running(a)
      BY <1>1, <2>1 DEF Running, Call
    <3> QED BY <2>2, <2>3, <3>1, RunningKept DEF IInv
  <2>9. LinkedOK'
    BY <1>2, <2>2, <2>5, LinkedKept DEF IInv, LinkedOK
  <2>10. CountOK'
    <3>1. ASSUME NEW a \in Coroutines, a # c PROVE Starting(a)' = Starting(a)
      <4>1. Starting(a)' <=> Starting(a)
        BY <1>1, <2>1, <2>3, <3>1, StartingAfter
      <4> QED BY <4>1 DEF Starting
    <3>2. Counted(c)'
      <4>1. ~Starting(c)'
        BY <1>1, <2>1, <2>3, StartingAfter DEF Acting
      <4>2. Unfinished(c)' = Unfinished(c)
        BY <2>2 DEF Unfinished, Present
      <4> QED BY <1>3, <4>1, <4>2 DEF Counted
    <3>3. \A a \in Coroutines : AwaitsAll(a)' => status[a] = "suspended"
      BY <2>2 DEF AwaitsAll
    <3> QED BY <1>3, <2>2, <2>5, <3>1, <3>2, <3>3, CountKept DEF IInv
  <2>11. ScheduledOK'
    BY <1>2, <2>2 DEF IInv, ScheduledOK, Present
  <2>12. RootOK'
    BY <1>1, <1>2, <1>3, <2>2, <2>5, RootKept, MainKept DEF IInv, Return
  <2> QED BY <2>2, <2>4, <2>5, <2>6, <2>7, <2>8, <2>9, <2>10, <2>11, <2>12, Together DEF IInv
<1> QED BY <1>4, <1>5

\* The coroutine c ends, and its awaiter d, or nobody, goes on.
EndsInto(c, d) ==
    /\ \A a \in Coroutines : status'[a] = IF a = c THEN "done" ELSE IF a = d THEN "running" ELSE status[a]
    /\ \A a \in Coroutines : step'[a] = IF a = d THEN step[a] + 1 ELSE step[a]

\* The coroutine d can go on: c was the last that it awaits, and it is in no call.
Awakes(c, d) ==
    d # None => /\ d # c /\ status[d] = "suspended" /\ Present(d).op # "hop"
                /\ \A b \in ToSet(Present(d).on) : b = c \/ status[b] = "done"
                /\ \A x \in Frames : Acting(FrameAt(x)) => FrameAt(x).co # d

\* The calls of the places N, when the one of c is over.
GoesOnIn(N, c, d) ==
    /\ \A x \in N : (d # None /\ FrameAfter(x) = Running(d)) \/ FrameAfter(x) = Call("wake", c, <<>>)
    /\ d # None => \E x \in N : FrameAfter(x) = Running(d)

\* c exchanges its m_State, and is counted down where it is awaited with others.
Exchanges(c) == \A a \in Coroutines : IF a = c THEN Kind[c] = "task" => linked'[c] ELSE linked'[a] = linked[a]
CountsDown(c, d) ==
    \A a \in Coroutines : AwaitsAll(a) /\ a # d =>
        remaining'[a] = IF c \in ToSet(Present(a).on) THEN remaining[a] - 1 ELSE remaining[a]

LEMMA EndsKeeps ==
    ASSUME IInv, TypeOK', NEW p \in Frames, NEW c \in Coroutines, FrameAt(p) = Running(c),
           NEW d \in Coroutines \cup {None}, EndsInto(c, d), Awakes(c, d),
           NEW N \in SUBSET {p}, Rearranged(Frames \ {p}, N), GoesOnIn(N, c, d),
           Exchanges(c), CountsDown(c, d),
           misused' = {}, continuation' = continuation, counter' = counter, scheduled' = scheduled
    PROVE  Advance /\ (RootOK' => IInv')
<1> USE DEF EndsInto, Awakes, GoesOnIn, Exchanges, CountsDown
<1>1. /\ TypeOK /\ CallsTyped /\ StepOK /\ CallsOK /\ status[c] = "running"
      /\ \A x \in Frames \ {p} : Acting(FrameAt(x)) => FrameAt(x).co # c
  <2>1. TypeOK /\ CallsTyped /\ StepOK /\ CallsOK
    BY Typed DEF IInv
  <2>2. status[c] = "running"
    BY <2>1, ActingCalls DEF Running, Call
  <2>3. \A x \in Frames \ {p} : Acting(FrameAt(x)) => FrameAt(x).co # c
    BY DEF IInv, OneCall, Acting, Running, Call
  <2> QED BY <2>1, <2>2, <2>3
<1>2. None \notin Coroutines
  BY ProgramAssumption
<1>3. Advance
  <2>1. ASSUME NEW a \in Coroutines, status[a] = "suspended"
        PROVE  \/ status'[a] = "suspended" /\ step'[a] = step[a]
               \/ /\ status'[a] = "running" /\ step'[a] = step[a] + 1
                  /\ \A b \in ToSet(Present(a).on) : status'[b] = "done"
    <3>1. CASE a = d
      <4>1. \A b \in ToSet(Present(d).on) : b \in Coroutines
        <5>1. step[a] \in 1 .. Len(Script[a])
          BY <1>1, <2>1, ScriptLength DEF StepOK
        <5> QED BY <3>1, <5>1, AwaitOf DEF Present
      <4>2. \A b \in ToSet(Present(d).on) : status'[b] = "done"
        BY <1>2, <3>1, <4>1
      <4> QED BY <1>1, <1>2, <2>1, <3>1, <4>2
    <3>2. CASE a # d
      BY <1>1, <2>1, <3>2
    <3> QED BY <3>1, <3>2
  <2>2. \A a \in Coroutines : status[a] # "suspended" => step'[a] = step[a] /\ status'[a] # "suspended"
    BY <1>2
  <2>3. \A a \in Coroutines : /\ status[a] = "created" => status'[a] = "created"
                              /\ status[a] # "created" => status'[a] # "created" /\ counter'[a] = counter[a]
                              /\ status[a] = "done" => status'[a] = "done"
    BY <1>1, <1>2
  <2> QED BY <2>1, <2>2, <2>3 DEF Advance
<1>4. OneCall'
  <2>1. \A x \in N, y \in Frames \ {p} :
            Acting(FrameAfter(x)) /\ Acting(FrameAt(y)) => FrameAfter(x).co # FrameAt(y).co
    BY DEF Acting, Running, Call
  <2>2. OneCall /\ \A x, y \in N : x = y
    BY DEF IInv
  <2> QED BY <2>1, <2>2, OneCallKept
<1>5. CallsOK'
  <2>1. \A x \in Frames \ {p} : Acting(FrameAt(x)) => FrameAt(x).co \in Coroutines \ {c, d}
    <3>1. \A x \in Frames \ {p} : FrameAt(x) \in CallType
      BY <1>1, ActingCalls
    <3> QED BY <1>1, <1>2, <3>1 DEF CallType
  <2>2. \A x \in Frames \ {p} : \A b \in ToSet(FrameAt(x).on) : b \in Coroutines
    <3>1. \A x \in Frames \ {p} : FrameAt(x) \in CallType
      BY <1>1, ActingCalls
    <3> QED BY <3>1, ListElements DEF CallType
  <2>3. ASSUME NEW b \in Coroutines, Kind[b] = "task", status[b] # "created", linked[b] = (status[b] = "done")
        PROVE  linked'[b] = (status'[b] = "done")
    <3>1. CASE b = c
      <4>1. linked'[c] = TRUE /\ status'[c] = "done"
        BY <2>3, <3>1 DEF TypeOK
      <4> QED BY <2>3, <3>1, <4>1
    <3>2. CASE b # c
      BY <1>1, <1>2, <2>3, <3>2
    <3> QED BY <3>1, <3>2
  <2>4. \A b \in Coroutines : status[b] = "created" => status'[b] = "created"
    BY <1>1, <1>2
  <2>5. \A x \in Frames \ {p} : LeftAlone(FrameAt(x))
    BY <2>1, <2>2, <2>3, <2>4 DEF LeftAlone
  <2>6. \A x \in N : SoundAfter(x)
    <3>1. \A f \in CallType : d # None /\ f = Running(d) => CallOK(f)'
      BY <1>2 DEF CallOK, Running, Call
    <3>2. \A f \in CallType : f = Call("wake", c, <<>>) => CallOK(f)'
      BY DEF CallOK, Call
    <3> QED BY <3>1, <3>2 DEF SoundAfter
  <2> QED BY <1>1, <1>3, <2>5, <2>6, CallsKept
<1>6. RunningOK'
  <2>1. \A a \in Coroutines \ {c} : FrameAt(p) # Running(a)
    BY DEF Running, Call
  <2>2. \A a \in Coroutines : status'[a] = "running" => a # c /\ (a = d \/ status[a] = "running")
    OBVIOUS
  <2>3. d \in Coroutines => \E x \in N : FrameAfter(x) = Running(d)
    BY <1>2
  <2>4. RunningOK
    BY DEF IInv
  <2> QED BY <2>1, <2>2, <2>3, <2>4, RunningKept
<1>7. LinkedOK'
  <2>1. \A b \in Coroutines : Kind[b] = "task" =>
            IF status'[b] = "done" THEN linked'[b]
            ELSE linked'[b] = linked[b] /\ continuation'[b] = continuation[b]
    BY DEF IInv, LinkedOK
  <2> QED BY <1>3, <2>1, LinkedKept DEF IInv
<1>8. CountOK'
  <2>1. ASSUME NEW a \in Coroutines PROVE Starting(a)' = Starting(a)
    <3>1. /\ \A x \in Frames \ (Frames \ {p}) : FrameAt(x).op # "start"
          /\ \A x \in N : FrameAfter(x).op # "start"
      BY DEF Running, Call
    <3> QED BY <3>1, StartingKept
  <2>2. \A a \in Coroutines : AwaitsAll(a)' => /\ a # c /\ a # d /\ status[a] = "suspended"
                                               /\ step'[a] = step[a] /\ AwaitsAll(a)
    <3>1. \A a \in Coroutines : status'[a] = "suspended" =>
            a # c /\ a # d /\ status[a] = "suspended" /\ step'[a] = step[a]
      OBVIOUS
    <3> QED BY <3>1 DEF AwaitsAll, Present
  <2>3. ASSUME NEW a \in Coroutines, AwaitsAll(a)', c \in ToSet(Present(a).on) PROVE Counted(a)'
    <3>1. step[a] \in 1 .. Len(Script[a])
      BY <1>1, <2>2, <2>3, ScriptLength DEF StepOK
    <3>2. /\ \A e \in ToSet(Present(a).on) : e \in Coroutines
          /\ Present(a).on \in Seq(Coroutines) /\ IsInjective(Present(a).on)
      BY <2>2, <2>3, <3>1, AwaitOf DEF AwaitsAll, Present
    <3>3. \A e \in Coroutines \ {c} : status'[e] = "done" <=> status[e] = "done"
      BY <1>2
    <3>4. Unfinished(a)' = Unfinished(a) \ {c} /\ c \in Unfinished(a)
      BY <1>1, <2>2, <2>3, <3>2, <3>3 DEF Unfinished, Present
    <3>5. IsFiniteSet(Unfinished(a))
      BY <3>2, InjectiveLength, FS_Subset DEF Unfinished
    <3>6. Cardinality(Unfinished(a)') = Cardinality(Unfinished(a)) - 1 /\ Cardinality(Unfinished(a)) \in Nat
      BY <3>4, <3>5, FS_RemoveElement, FS_CardinalityType
    <3>7. Counted(a) /\ remaining'[a] = remaining[a] - 1
      BY <2>2, <2>3 DEF IInv, CountOK
    <3>8. (IF Starting(a)' THEN 1 ELSE 0) = (IF Starting(a) THEN 1 ELSE 0)
      BY <2>1
    <3> QED BY <3>6, <3>7, <3>8 DEF Counted
  <2>4. \A a \in Coroutines : AwaitsAll(a)' /\ c \notin ToSet(Present(a).on) =>
            /\ remaining'[a] = remaining[a]
            /\ \A e \in Coroutines : e \in ToSet(Present(a).on) => (status'[e] = "done" => status[e] = "done")
    BY <2>2
  <2> QED BY <1>1, <1>3, <2>1, <2>2, <2>3, <2>4, CountKept DEF IInv
<1>9. ScheduledOK'
  <2>1. \A a \in scheduled : status[a] = "suspended" /\ Present(a).op = "hop" /\ a \in Coroutines \ {c, d}
    BY <1>1, <1>2 DEF IInv, ScheduledOK, TypeOK
  <2> QED BY <2>1 DEF ScheduledOK, Present
<1> QED BY <1>3, <1>4, <1>5, <1>6, <1>7, <1>8, <1>9, Together

\* The call of a coroutine at its end.
LEMMA AtItsEnd ==
    ASSUME IInv, NEW t \in Threads, NEW kind, AtEnd(t, kind)
    PROVE  \E c \in Coroutines :
            /\ c = Top(t).co /\ ~Idle(t) /\ Kind[c] = kind
            /\ Place(t) \in Frames /\ FrameAt(Place(t)) = Running(c)
            /\ status[c] = "running" /\ Outcome(c) \in Coroutines \cup {"value"}
            /\ \A x \in Frames \ {Place(t)} : Acting(FrameAt(x)) => FrameAt(x).co # c
<1>1. CallsTyped /\ CallsOK /\ StepOK /\ OneCall /\ TypeOK
  BY Typed DEF IInv
<1>2. In(t, "run") /\ Kind[Top(t).co] = kind
  BY DEF AtEnd
<1>3. /\ ~Idle(t) /\ Place(t) \in Frames /\ FrameAt(Place(t)) = Top(t) /\ Top(t).co \in Coroutines
      /\ Top(t) = Running(Top(t).co) /\ status[Top(t).co] = "running"
      /\ \A x \in Frames \ {Place(t)} : Acting(FrameAt(x)) => FrameAt(x).co # Top(t).co
  BY <1>1, <1>2, TopCall
<1>4. Outcome(Top(t).co) \in Coroutines \cup {"value"}
  BY <1>1, <1>3 DEF TypeOK, Outcome
<1> QED BY <1>2, <1>3, <1>4

\* What final suspension does, for any promise that continues its awaiter d or nobody.
LEMMA FinishKeeps ==
    ASSUME IInv, NEW t \in Threads, NEW kind, AtEnd(t, kind), NEW c \in Coroutines, c = Top(t).co,
           kind # "syncWait",
           NEW d \in Coroutines \cup {None}, FinishInto(t, c, d),
           d # None => /\ status[d] = "suspended" /\ Present(d).op # "hop"
                       /\ \A b \in ToSet(Present(d).on) : b = c \/ status[b] = "done"
                       /\ \A x \in Frames : FrameAt(x).op \in {"link", "start"} => FrameAt(x).co # d,
           linked' \in [Coroutines -> BOOLEAN],
           remaining' \in [Coroutines -> Nat],
           Exchanges(c), CountsDown(c, d),
           UNCHANGED <<continuation, counter, scheduled, value, neighbour, main>>
    PROVE  IInv'
<1>1. /\ ~Idle(t) /\ Kind[c] = kind /\ Place(t) \in Frames /\ FrameAt(Place(t)) = Running(c)
      /\ status[c] = "running" /\ Outcome(c) \in Coroutines \cup {"value"}
  BY AtItsEnd
<1>2. TypeOK /\ CallsTyped /\ CallsOK /\ misused = {} /\ None \notin Coroutines
  BY Typed, ProgramAssumption DEF IInv
<1>3. PICK p \in Frames : p = Place(t)
  BY <1>1
<1>4. /\ result' = [result EXCEPT ![c] = Outcome(c)]
      /\ \E q : Replace(t, q)
      /\ d = None => /\ status' = [status EXCEPT ![c] = "done"] /\ Return(t)
                     /\ step' = step /\ misused' = misused /\ thrown' = thrown
      /\ d # None => /\ status' = [status EXCEPT ![c] = "done", ![d] = "running"]
                     /\ step' = [step EXCEPT ![d] = @ + 1] /\ misused' = misused
                     /\ AwaitResume(d, result') /\ Replace(t, <<Running(d)>>)
  BY DEF FinishInto, Return
<1>5. d # None => d # c /\ \A x \in Frames : Acting(FrameAt(x)) => FrameAt(x).co # d
  BY <1>1, <1>2, ActingCalls
<1>6. /\ status' \in [Coroutines -> {"created", "running", "suspended", "done"}]
      /\ \A a \in Coroutines : status'[a] = IF a = c THEN "done" ELSE IF a = d THEN "running" ELSE status[a]
  <2>1. CASE d = None
    BY <1>2, <1>4, <2>1 DEF TypeOK
  <2>2. CASE d # None
    BY <1>2, <1>4, <1>5, <2>2 DEF TypeOK
  <2> QED BY <2>1, <2>2
<1>7. /\ step' \in [Coroutines -> Nat]
      /\ \A a \in Coroutines : step'[a] = IF a = d THEN step[a] + 1 ELSE step[a]
  <2>1. CASE d = None
    BY <1>2, <1>4, <2>1 DEF TypeOK
  <2>2. CASE d # None
    <3>1. step \in [Coroutines -> Nat] /\ d \in Coroutines /\ step' = [step EXCEPT ![d] = @ + 1]
      BY <1>2, <1>4, <2>2 DEF TypeOK
    <3>2. step[d] + 1 \in Nat
      BY <3>1
    <3> QED BY <3>1, <3>2
  <2> QED BY <2>1, <2>2
<1>8. PICK N \in SUBSET {p} :
        /\ Rearranged(Frames \ {p}, N) /\ CallsTyped'
        /\ \A x \in N : d # None /\ FrameAfter(x) = Running(d)
        /\ d # None => \E x \in N : FrameAfter(x) = Running(d)
  <2>1. CASE d = None
    <3>1. Rearranged(Frames \ {p}, {})
      BY <1>1, <1>2, <1>3, <1>4, <2>1, Popped
    <3>2. CallsTyped' /\ {} \in SUBSET {p}
      BY <3>1 DEF Rearranged
    <3> QED BY <2>1, <3>1, <3>2
  <2>2. CASE d # None
    <3>1. Running(d) \in CallType
      BY <2>2 DEF Running, Call, CallType
    <3>2. Rearranged(Frames \ {p}, {p}) /\ FrameAfter(p) = Running(d)
      BY <1>1, <1>2, <1>3, <1>4, <2>2, <3>1, Swapped
    <3>3. CallsTyped' /\ {p} \in SUBSET {p}
      BY <3>2 DEF Rearranged
    <3> QED BY <2>2, <3>2, <3>3
  <2> QED BY <2>1, <2>2
<1>9. TypeOK'
  <2>1. thrown' \in [Coroutines -> Coroutines \cup {None}]
    BY <1>2, <1>4, ThrownTyped DEF TypeOK
  <2>2. result' \in [Coroutines -> Coroutines \cup {"empty", "value"}]
    BY <1>1, <1>2, <1>4 DEF TypeOK
  <2>3. misused' = misused
    BY <1>4
  <2>4. calls' \in [Threads -> Seq(CallType)]
    BY <1>8 DEF CallsTyped
  <2> QED BY <1>2, <1>6, <1>7, <2>1, <2>2, <2>3, <2>4 DEF TypeOK, CallType
<1>10. Advance /\ (RootOK' => IInv')
  <2>1. misused' = {}
    BY <1>2, <1>4
  <2>2. FrameAt(p) = Running(c)
    BY <1>1, <1>3
  <2>3. Awakes(c, d)
    BY <1>5 DEF Awakes
  <2>4. EndsInto(c, d)
    BY <1>6, <1>7 DEF EndsInto
  <2>5. Rearranged(Frames \ {p}, N) /\ GoesOnIn(N, c, d)
    BY <1>8 DEF GoesOnIn
  <2>6. continuation' = continuation /\ counter' = counter /\ scheduled' = scheduled
    OBVIOUS
  <2> QED BY <1>9, <2>1, <2>2, <2>3, <2>4, <2>5, <2>6, EndsKeeps
<1>11. RootOK'
  <2>1. calls[Main] = <<>> => calls'[Main] = <<>>
    BY <1>1, <1>2, <1>4, MainKept
  <2>2. \A a \in Coroutines : status[a] = "created" => status'[a] = "created"
    BY <1>1, <1>2, <1>6
  <2> QED BY <1>10, <2>1, <2>2, RootKept DEF IInv
<1> QED BY <1>10, <1>11

LEMMA FinishTaskKeeps == ASSUME IInv, NEW t \in Threads, FinishTask(t) PROVE IInv'
<1>1. PICK c \in Coroutines : /\ c = Top(t).co /\ Kind[c] = "task" /\ status[c] = "running"
  BY AtItsEnd DEF FinishTask
<1>2. PICK d \in Coroutines \cup {None} :
        /\ d = IF linked[c] THEN continuation[c] ELSE None
        /\ linked[c] => d \in Coroutines /\ AwaitsTask(d, c)
  <2>1. linked[c] => continuation[c] \in Coroutines /\ AwaitsTask(continuation[c], c)
    BY <1>1 DEF IInv, LinkedOK
  <2> QED BY <2>1
<1>3. /\ linked' = [linked EXCEPT ![c] = TRUE] /\ FinishInto(t, c, d)
      /\ UNCHANGED <<continuation, counter, remaining, scheduled, value, neighbour, main>>
  BY <1>1, <1>2 DEF FinishTask, eventVars
<1>4. TypeOK /\ CallsTyped /\ StepOK /\ CallsOK
  BY Typed DEF IInv
<1>5. ASSUME d # None
      PROVE  /\ status[d] = "suspended" /\ Present(d).op # "hop"
             /\ \A b \in ToSet(Present(d).on) : b = c \/ status[b] = "done"
             /\ \A x \in Frames : FrameAt(x).op \in {"link", "start"} => FrameAt(x).co # d
  <2>1. d \in Coroutines /\ linked[c] /\ AwaitsTask(d, c)
    BY <1>2, <1>5
  <2>2. \A b \in ToSet(Present(d).on) : b = c
    <3>1. step[d] \in 1 .. Len(Script[d]) /\ Present(d).op \in {"task", "whenReady"} /\ c \in ToSet(Present(d).on)
      BY <1>4, <2>1, ScriptLength DEF StepOK, AwaitsTask, ToSet
    <3>2. PICK e \in Coroutines : ToSet(Present(d).on) = {e}
      BY ZenonT(30), <2>1, <3>1, AwaitOf DEF Present
    <3> QED BY <3>1, <3>2
  <2>3. ASSUME NEW x \in Frames, FrameAt(x).op = "link", FrameAt(x).co = d PROVE FALSE
    <3>1. CallOK(FrameAt(x))
      BY <1>4 DEF CallsOK
    <3>2. PICK e \in Coroutines : AwaitsTask(d, e) /\ linked[e] = (status[e] = "done")
      BY <2>3, <3>1 DEF CallOK
    <3>3. e = c
      BY <2>1, <3>2 DEF AwaitsTask
    <3>4. linked[c] = (status[c] = "done")
      BY <3>2, <3>3
    <3> QED BY <1>1, <2>1, <3>4
  <2>4. \A x \in Frames : FrameAt(x).op = "start" => FrameAt(x).co # d
    BY <1>4, <2>1, ActingCalls DEF AwaitsTask
  <2> QED BY <2>1, <2>2, <2>3, <2>4 DEF AwaitsTask
<1>6. linked' \in [Coroutines -> BOOLEAN] /\ remaining' \in [Coroutines -> Nat] /\ Exchanges(c)
  BY <1>3, <1>4 DEF TypeOK, Exchanges
<1>7. CountsDown(c, d)
  <2> SUFFICES ASSUME NEW a \in Coroutines, AwaitsAll(a), c \in ToSet(Present(a).on) PROVE FALSE
    BY <1>3 DEF CountsDown
  <2>1. step[a] \in 1 .. Len(Script[a])
    BY <1>4, ScriptLength DEF StepOK, AwaitsAll
  <2> QED BY <1>1, <2>1, AwaitOf DEF AwaitsAll, Present
<1>8. AtEnd(t, "task") /\ UNCHANGED <<continuation, counter, scheduled, value, neighbour, main>>
  BY <1>3 DEF FinishTask
<1> QED BY <1>1, <1>3, <1>5, <1>6, <1>7, <1>8, FinishKeeps

LEMMA FinishWhenAllTaskKeeps == ASSUME IInv, NEW t \in Threads, FinishWhenAllTask(t) PROVE IInv'
<1>1. PICK c \in Coroutines : /\ c = Top(t).co /\ Kind[c] = "whenAll" /\ status[c] = "running"
  BY AtItsEnd DEF FinishWhenAllTask
<1>2. TypeOK /\ CallsTyped /\ StepOK /\ CallsOK /\ AwaitedIsDone /\ CountOK
  BY Typed DEF IInv
<1>3. PICK a \in Coroutines :
        /\ a = counter[c] /\ AwaitsAll(a) /\ c \in ToSet(Present(a).on) /\ step[a] \in 1 .. Len(Script[a])
  <2>1. c # Root
    BY <1>1, ProgramAssumption
  <2>2. PICK a \in Coroutines : status[a] = "suspended" /\ c \in ToSet(Present(a).on)
    BY <1>1, <2>1 DEF IInv, ActiveOK
  <2>3. step[a] \in 1 .. Len(Script[a]) /\ step[a] \in DOMAIN Script[a]
    BY <1>2, <2>2, ScriptLength DEF StepOK
  <2>4. counter[c] = a
    BY <1>1, <2>2, <2>3 DEF IInv, WhenAllOK, Present
  <2>5. Present(a).op \in {"all", "allReady"}
    BY <1>1, <2>2, <2>3, AllAwait DEF Present
  <2> QED BY <2>2, <2>3, <2>4, <2>5 DEF AwaitsAll
<1>4. IsFiniteSet(Unfinished(a)) /\ c \in Unfinished(a) /\ Cardinality(Unfinished(a)) \in Nat \ {0}
  <2>1. c \in Unfinished(a)
    BY <1>1, <1>3 DEF Unfinished
  <2>2. Present(a).on \in Seq(Coroutines) /\ IsInjective(Present(a).on)
    BY <1>3, AwaitOf DEF AwaitsAll, Present
  <2>3. IsFiniteSet(Unfinished(a))
    BY <2>2, InjectiveLength, FS_Subset DEF Unfinished
  <2> QED BY <2>1, <2>3, FS_CardinalityType, FS_EmptySet
<1>5. Counted(a)
  BY <1>2, <1>3 DEF CountOK
<1>6. PICK d \in Coroutines \cup {None} : d = IF remaining[a] = 1 THEN a ELSE None
  OBVIOUS
<1>7. /\ remaining' = [remaining EXCEPT ![a] = @ - 1] /\ FinishInto(t, c, d)
      /\ UNCHANGED <<linked, continuation, counter, scheduled, value, neighbour, main>>
  BY <1>1, <1>3, <1>6 DEF FinishWhenAllTask, eventVars
<1>8. ASSUME d # None
      PROVE  /\ status[d] = "suspended" /\ Present(d).op # "hop"
             /\ \A b \in ToSet(Present(d).on) : b = c \/ status[b] = "done"
             /\ \A x \in Frames : FrameAt(x).op \in {"link", "start"} => FrameAt(x).co # d
  <2>1. d = a /\ remaining[a] = 1
    BY <1>6, <1>8
  <2>2. Cardinality(Unfinished(a)) = 1 /\ ~Starting(a)
    BY <1>4, <1>5, <2>1 DEF Counted
  <2>3. Unfinished(a) = {c}
    BY <1>4, <2>2, FS_Singleton
  <2>4. \A b \in ToSet(Present(a).on) : b = c \/ status[b] = "done"
    BY <2>3 DEF Unfinished
  <2>5. \A x \in Frames : FrameAt(x).op = "start" => FrameAt(x).co # a
    BY <2>2 DEF Starting
  <2>6. \A x \in Frames : FrameAt(x).op = "link" => FrameAt(x).co # a
    BY <1>2, <1>3, ActingCalls DEF AwaitsAll
  <2> QED BY <1>3, <2>1, <2>4, <2>5, <2>6 DEF AwaitsAll
<1>9. /\ linked' \in [Coroutines -> BOOLEAN] /\ remaining' \in [Coroutines -> Nat]
      /\ remaining'[a] = remaining[a] - 1 /\ \A b \in Coroutines \ {a} : remaining'[b] = remaining[b]
  <2>1. remaining[a] \in Nat \ {0}
    BY <1>4, <1>5 DEF Counted
  <2> QED BY <1>2, <1>7, <2>1 DEF TypeOK
<1>10. Exchanges(c)
  BY <1>1, <1>7 DEF Exchanges
<1>11. CountsDown(c, d)
  <2> SUFFICES ASSUME NEW b \in Coroutines, AwaitsAll(b)
               PROVE  remaining'[b] = IF c \in ToSet(Present(b).on) THEN remaining[b] - 1 ELSE remaining[b]
    BY DEF CountsDown
  <2>1. ASSUME c \in ToSet(Present(b).on) PROVE b = a
    <3>1. step[b] <= Len(Script[b]) /\ step[a] <= Len(Script[a])
      BY <1>2, <1>3, ScriptLength DEF StepOK, AwaitsAll
    <3> QED BY <1>2, <1>3, <2>1, <3>1, OneAwaiter DEF AwaitsAll
  <2> QED BY <1>3, <1>9, <2>1
<1>12. AtEnd(t, "whenAll") /\ UNCHANGED <<continuation, counter, scheduled, value, neighbour, main>>
  BY <1>7 DEF FinishWhenAllTask
<1> QED BY <1>1, <1>7, <1>8, <1>9, <1>10, <1>11, <1>12, FinishKeeps

LEMMA FinishSyncWaitKeeps == ASSUME IInv, NEW t \in Threads, FinishSyncWait(t) PROVE IInv'
<1>1. PICK c \in Coroutines :
        /\ c = Top(t).co /\ ~Idle(t) /\ Kind[c] = "syncWait"
        /\ Place(t) \in Frames /\ FrameAt(Place(t)) = Running(c)
        /\ status[c] = "running" /\ Outcome(c) \in Coroutines \cup {"value"}
  BY AtItsEnd DEF FinishSyncWait
<1>2. TypeOK /\ CallsTyped /\ StepOK /\ misused = {} /\ None \notin Coroutines
  BY Typed, ProgramAssumption DEF IInv
<1>3. /\ value' = 1 /\ status' = [status EXCEPT ![c] = "done"] /\ result' = [result EXCEPT ![c] = Outcome(c)]
      /\ Replace(t, <<Call("wake", c, <<>>)>>)
      /\ UNCHANGED <<thrown, step, linked, continuation, counter, remaining, misused, scheduled, neighbour, main>>
  BY <1>1 DEF FinishSyncWait
<1>4. c = Root
  BY <1>1 DEF IInv, RootOK
<1>5. PICK p \in Frames : p = Place(t)
  BY <1>1
<1>6. Rearranged(Frames \ {p}, {p}) /\ FrameAfter(p) = Call("wake", c, <<>>) /\ CallsTyped'
  <2>1. Call("wake", c, <<>>) \in CallType
    BY EmptySeq DEF CallType, Call
  <2> QED BY <1>1, <1>2, <1>3, <1>5, <2>1, Swapped DEF Rearranged
<1>7. TypeOK'
  BY <1>1, <1>2, <1>3, <1>6 DEF TypeOK, CallsTyped, CallType
<1>8. EndsInto(c, None) /\ Awakes(c, None) /\ GoesOnIn({p}, c, None)
  BY <1>2, <1>3, <1>6 DEF EndsInto, Awakes, GoesOnIn, TypeOK
<1>9. Exchanges(c)
  BY <1>1, <1>3 DEF Exchanges
<1>10. CountsDown(c, None)
  <2> SUFFICES ASSUME NEW a \in Coroutines, AwaitsAll(a), c \in ToSet(Present(a).on) PROVE FALSE
    BY <1>3 DEF CountsDown
  <2>1. step[a] \in 1 .. Len(Script[a])
    BY <1>2, ScriptLength DEF StepOK, AwaitsAll
  <2> QED BY <1>1, <2>1, AwaitOf DEF AwaitsAll, Present
<1>11. Advance /\ (RootOK' => IInv')
  <2>1. FrameAt(p) = Running(c) /\ misused' = {} /\ {p} \in SUBSET {p}
    BY <1>1, <1>2, <1>3, <1>5
  <2>2. continuation' = continuation /\ counter' = counter /\ scheduled' = scheduled
    BY <1>3
  <2> QED BY <1>6, <1>7, <1>8, <1>9, <1>10, <2>1, <2>2, EndsKeeps
<1>12. RootOK'
  <2>1. status[Root] = "running" /\ status'[Root] = "done"
    BY <1>1, <1>2, <1>3, <1>4 DEF TypeOK
  <2>2. \A a \in Coroutines : status[a] = "created" => status'[a] = "created"
    BY <1>1, <1>2, <1>3 DEF TypeOK
  <2> QED BY <1>3, <2>1, <2>2 DEF IInv, RootOK
<1> QED BY <1>11, <1>12

\* A step that changes no coroutine and no call but one that wakes.
LEMMA QuietKeeps ==
    ASSUME IInv, UNCHANGED <<coroutineVars, scheduled>>, TypeOK', RootOK',
           NEW K, Rearranged(K, {}), \A x \in Frames \ K : FrameAt(x).op = "wake"
    PROVE  IInv'
<1>1. UNCHANGED <<status, step, linked, continuation, counter, remaining, misused, thrown, result, scheduled>>
  BY DEF coroutineVars, resultVars
<1>2. CallsTyped /\ StepOK /\ CallsOK
  BY Typed DEF IInv
<1>3. Advance
  BY <1>1 DEF Advance, IInv, StepOK
<1>4. OneCall'
  BY OneCallKept DEF IInv
<1>5. CallsOK'
  <2>1. \A x \in K : LeftAlone(FrameAt(x))
    BY <1>1 DEF LeftAlone
  <2>2. \A x \in {} : SoundAfter(x)
    OBVIOUS
  <2> QED BY <1>2, <1>3, <2>1, <2>2, CallsKept
<1>6. RunningOK'
  <2>1. \A a \in Coroutines, x \in Frames \ K : FrameAt(x) # Running(a)
    BY DEF Running, Call
  <2> QED BY <1>1, <2>1, RunningKept DEF IInv
<1>7. LinkedOK'
  BY <1>1, <1>3, LinkedKept DEF IInv, LinkedOK
<1>8. CountOK'
  <2>1. \A a \in Coroutines : Starting(a)' = Starting(a)
    <3>1. /\ \A x \in Frames \ K : FrameAt(x).op # "start"
          /\ \A x \in {} : FrameAfter(x).op # "start"
      OBVIOUS
    <3> QED BY <3>1, StartingKept
  <2>2. \A a \in Coroutines : AwaitsAll(a)' => status[a] = "suspended"
    BY <1>1 DEF AwaitsAll
  <2> QED BY <1>1, <1>3, <2>1, <2>2, CountKept DEF IInv
<1>9. ScheduledOK'
  BY <1>1 DEF IInv, ScheduledOK, Present
<1> QED BY <1>1, <1>3, <1>4, <1>5, <1>6, <1>7, <1>8, <1>9, Together DEF IInv

LEMMA FutexWakeKeeps == ASSUME IInv, NEW t \in Threads, FutexWake(t) PROVE IInv'
<1>1. /\ ~Idle(t) /\ Place(t) \in Frames /\ FrameAt(Place(t)).op = "wake" /\ CallsTyped /\ TypeOK
  BY Typed, TopCall DEF IInv, FutexWake
<1>2. /\ main' = (IF main = "asleep" THEN "load" ELSE main) /\ Return(t)
      /\ UNCHANGED <<coroutineVars, scheduled>> /\ UNCHANGED <<value, neighbour>>
  BY DEF FutexWake
<1>3. UNCHANGED <<status, step, linked, continuation, counter, remaining, misused, thrown, result, scheduled>>
  BY <1>2 DEF coroutineVars, resultVars
<1>4. PICK p \in Frames : p = Place(t)
  BY <1>1
<1>5. Rearranged(Frames \ {p}, {}) /\ CallsTyped'
  BY <1>1, <1>2, <1>4, Popped DEF Rearranged
<1>6. TypeOK'
  BY <1>1, <1>2, <1>3, <1>5 DEF TypeOK, CallsTyped, CallType
<1>7. RootOK'
  <2>1. calls[Main] = <<>> => calls'[Main] = <<>>
    BY <1>1, <1>2, MainKept DEF Return
  <2> QED BY <1>2, <1>3, <2>1 DEF IInv, RootOK
<1>8. \A x \in Frames \ (Frames \ {p}) : FrameAt(x).op = "wake"
  BY <1>1, <1>4
<1> QED BY <1>2, <1>5, <1>6, <1>7, <1>8, QuietKeeps

\* SyncWait looks at the event, sleeps and wakes.
LEMMA MainKeeps ==
    ASSUME IInv, UNCHANGED <<coroutineVars, scheduled, calls, value, neighbour>>,
           main' \in {"start", "load", "futex", "asleep", "returned"}, main' = "start" => main = "start"
    PROVE  IInv'
<1>1. UNCHANGED <<status, step, linked, continuation, counter, remaining, misused, thrown, result, scheduled>>
  BY DEF coroutineVars, resultVars
<1>2. Rearranged(Frames, {})
  BY Typed DEF IInv, CallsTyped, Rearranged, Frames, FrameAt, FrameAfter
<1>3. TypeOK'
  BY <1>1 DEF IInv, TypeOK
<1>4. RootOK'
  BY <1>1 DEF IInv, RootOK
<1> QED BY <1>2, <1>3, <1>4, QuietKeeps

\* A coroutine enters an empty stack: at its start, or at the end of an await of
\* Job::Run.
LEMMA EntersKeeps ==
    ASSUME IInv, NEW t \in Threads, Idle(t), NEW c \in Coroutines,
           calls' = [calls EXCEPT ![t] = <<Running(c)>>], Resumed(c),
           \/ status[c] = "suspended" /\ Present(c).op = "hop"
           \/ status[c] = "created" /\ c = Root,
           scheduled' \subseteq scheduled \ {c},
           UNCHANGED <<linked, continuation, counter, remaining, value, neighbour>>,
           main' \in {"start", "load", "futex", "asleep", "returned"},
           main' = "start" => main = "start" /\ t # Main /\ c # Root
    PROVE  IInv'
<1>1. TypeOK /\ CallsTyped /\ StepOK /\ CallsOK /\ misused = {}
  BY Typed DEF IInv
<1>2. /\ UNCHANGED result /\ status' = [status EXCEPT ![c] = "running"] /\ misused' = misused
      /\ step' = [step EXCEPT ![c] = IF status[c] = "suspended" THEN @ + 1 ELSE @]
      /\ AwaitResume(c, result) \/ UNCHANGED thrown
  BY DEF Resumed
<1>3. /\ status' \in [Coroutines -> {"created", "running", "suspended", "done"}]
      /\ status'[c] = "running" /\ \A a \in Coroutines \ {c} : status'[a] = status[a]
  BY <1>1, <1>2 DEF TypeOK
<1>4. /\ step' \in [Coroutines -> Nat] /\ \A a \in Coroutines \ {c} : step'[a] = step[a]
      /\ step'[c] = IF status[c] = "suspended" THEN step[c] + 1 ELSE step[c]
  <2>1. step \in [Coroutines -> Nat] /\ step[c] + 1 \in Nat
    BY <1>1 DEF TypeOK
  <2> QED BY <1>2, <2>1
<1>5. PICK p : p = <<t, 1>>
  OBVIOUS
<1>6. Rearranged(Frames, {p}) /\ FrameAfter(p) = Running(c) /\ p \notin Frames /\ CallsTyped'
  <2>1. Running(c) \in CallType
    BY EmptySeq DEF CallType, Call, Running
  <2> QED BY <1>1, <1>5, <2>1, Entered DEF Rearranged
<1>7. TypeOK'
  <2>1. thrown' \in [Coroutines -> Coroutines \cup {None}]
    BY <1>1, <1>2, ThrownTyped
  <2>2. calls' \in [Threads -> Seq(CallType)]
    BY <1>6 DEF CallsTyped
  <2>3. result' = result /\ misused' = misused
    BY <1>2
  <2> QED BY <1>1, <1>3, <1>4, <2>1, <2>2, <2>3 DEF TypeOK, CallType
<1>8. Advance
  <2>1. status[c] = "suspended" => \A b \in ToSet(Present(c).on) : FALSE
    <3> SUFFICES ASSUME status[c] = "suspended" PROVE ToSet(Present(c).on) = {}
      OBVIOUS
    <3>1. step[c] \in 1 .. Len(Script[c]) /\ Script[c][step[c]].op = "hop"
      BY <1>1, ScriptLength DEF StepOK, Present
    <3> QED BY <3>1, AwaitOf DEF Present
  <2>2. \A a \in Coroutines : status[a] = "suspended" => step[a] <= Len(Script[a])
    BY <1>1 DEF StepOK
  <2> QED BY <1>3, <1>4, <2>1, <2>2 DEF Advance
<1>9. \A x \in Frames : Acting(FrameAt(x)) => FrameAt(x).co \in Coroutines \ {c}
  BY <1>1, ActingCalls DEF CallType
<1>10. OneCall'
  <2>1. OneCall
    BY DEF IInv
  <2> QED BY <1>6, <1>9, <2>1, OneCallKept DEF Running, Call
<1>11. CallsOK'
  <2>1. \A x \in Frames : \A d \in ToSet(FrameAt(x).on) : d \in Coroutines
    <3>1. \A x \in Frames : FrameAt(x) \in CallType
      BY <1>1, ActingCalls
    <3> QED BY <3>1, ListElements DEF CallType
  <2>2. \A d \in Coroutines : (status'[d] = "done") = (status[d] = "done")
    BY <1>3
  <2>3. \A d \in Coroutines : Kind[d] = "whenAll" /\ status[d] = "created" => status'[d] = "created"
    BY <1>3, ProgramAssumption
  <2>4. \A x \in Frames : LeftAlone(FrameAt(x))
    BY <1>3, <1>4, <1>9, <2>1, <2>2, <2>3 DEF LeftAlone
  <2>5. \A x \in {p} : SoundAfter(x)
    BY <1>3, <1>6 DEF SoundAfter, CallOK, Running, Call
  <2> QED BY <1>1, <1>6, <1>8, <2>4, <2>5, CallsKept
<1>12. RunningOK'
  <2>1. \A a \in Coroutines : status'[a] = "running" => a = c \/ status[a] = "running"
    BY <1>3
  <2> QED BY <1>6, <2>1, RunningKept DEF IInv
<1>13. LinkedOK'
  BY <1>3, <1>8, LinkedKept DEF IInv, LinkedOK
<1>14. CountOK'
  <2>1. \A a \in Coroutines : Starting(a)' = Starting(a)
    <3>1. FrameAfter(p).op # "start"
      BY <1>6 DEF Running, Call
    <3> QED BY <1>6, <3>1, StartingKept
  <2>2. \A a \in Coroutines : AwaitsAll(a)' => status[a] = "suspended"
    BY <1>3 DEF AwaitsAll
  <2>3. \A d \in Coroutines : status'[d] = "done" => status[d] = "done"
    BY <1>3
  <2> QED BY <1>8, <2>1, <2>2, <2>3, CountKept DEF IInv
<1>15. ScheduledOK'
  <2>1. \A a \in scheduled' : status[a] = "suspended" /\ Present(a).op = "hop" /\ a \in Coroutines \ {c}
    BY <1>1 DEF IInv, ScheduledOK, TypeOK
  <2> QED BY <1>3, <1>4, <2>1 DEF ScheduledOK, Present
<1>16. RootOK'
  <2>1. \A a \in Coroutines : Kind[a] = "syncWait" /\ status'[a] # "created" => a = Root
    <3>1. status[c] = "created" => c = Root
      OBVIOUS
    <3> QED BY <1>3, <3>1 DEF IInv, RootOK
  <2>2. main' = "start" => status'[Root] = "created" /\ calls'[Main] = <<>>
    <3> SUFFICES ASSUME main' = "start" PROVE status'[Root] = "created" /\ calls'[Main] = <<>>
      OBVIOUS
    <3>1. status[Root] = "created" /\ calls[Main] = <<>> /\ Root \in Coroutines /\ Main \in Threads
      BY ProgramAssumption DEF IInv, RootOK, Threads
    <3> QED BY <1>1, <1>3, <3>1 DEF CallsTyped
  <2>3. value' = 1 => status'[Root] = "done"
    BY <1>3, ProgramAssumption DEF IInv, RootOK
  <2> QED BY <2>1, <2>2, <2>3 DEF RootOK
<1> QED BY <1>1, <1>2, <1>7, <1>8, <1>10, <1>11, <1>12, <1>13, <1>14, <1>15, <1>16, Together

LEMMA TakeKeeps == ASSUME IInv, NEW w \in Workers, Take(w) PROVE IInv'
<1>1. PICK c \in scheduled :
        /\ scheduled' = scheduled \ {c} /\ calls' = [calls EXCEPT ![w] = <<Running(c)>>] /\ Resumed(c)
  BY DEF Take
<1>2. c \in Coroutines /\ status[c] = "suspended" /\ Present(c).op = "hop"
  BY DEF IInv, TypeOK, ScheduledOK
<1>3. Idle(w) /\ UNCHANGED <<linked, continuation, counter, remaining, value, neighbour>> /\ main' = main
  BY DEF Take, eventVars
<1>4. w \in Threads /\ w # Main
  BY ProgramAssumption DEF Threads
<1>5. main' \in {"start", "load", "futex", "asleep", "returned"}
  BY <1>3 DEF IInv, TypeOK
<1>6. main = "start" => c # Root
  BY <1>2 DEF IInv, RootOK
<1> QED BY <1>1, <1>2, <1>3, <1>4, <1>5, <1>6, EntersKeeps

LEMMA StartRootKeeps == ASSUME IInv, StartRoot PROVE IInv'
<1>1. /\ main = "start" /\ calls' = [calls EXCEPT ![Main] = <<Running(Root)>>] /\ Resumed(Root)
      /\ main' = "load" /\ UNCHANGED <<linked, continuation, counter, remaining, scheduled, value, neighbour>>
  BY DEF StartRoot
<1>2. status[Root] = "created" /\ Idle(Main)
  BY <1>1 DEF IInv, RootOK, Idle
<1>3. Root \in Coroutines /\ Main \in Threads
  BY ProgramAssumption DEF Threads
<1>4. Root \notin scheduled
  BY <1>2 DEF IInv, ScheduledOK
<1> QED BY <1>1, <1>2, <1>3, <1>4, EntersKeeps

-----------------------------------------------------------------------------
(* Theorems.                                                               *)

LEMMA Initially == Init => IInv
<1> SUFFICES ASSUME Init PROVE IInv
  OBVIOUS
<1>1. TypeOK
  BY ProgramAssumption, EmptySeq DEF Init, TypeOK
<1>2. Frames = {}
  BY EmptySeq DEF Init, Frames
<1>3. StepOK
  BY ScriptLength DEF Init, StepOK
<1>4. OneCall /\ CallsOK
  BY <1>2 DEF OneCall, CallsOK
<1>5. \A c \in Coroutines : status[c] = "created" /\ ~linked[c] /\ step[c] = 1
  BY DEF Init
<1>6. RunningOK /\ ActiveOK /\ LinkedOK /\ CountOK
  BY <1>5 DEF RunningOK, ActiveOK, LinkedOK, CountOK, AwaitsAll
<1>7. WhenAllOK
  BY <1>5, AwaitOf, ScriptLength DEF WhenAllOK
<1>8. AwaitedIsDone
  BY <1>5 DEF AwaitedIsDone
<1>9. ScheduledOK /\ RootOK /\ misused = {}
  BY <1>5, ProgramAssumption DEF Init, ScheduledOK, RootOK, Threads
<1> QED BY <1>1, <1>3, <1>4, <1>6, <1>7, <1>8, <1>9 DEF IInv

\* The invariant is inductive: Init implies it, and every step of any thread keeps it.
LEMMA StepKeeps == IInv /\ [Next]_vars => IInv'
<1> SUFFICES ASSUME IInv, [Next]_vars PROVE IInv'
  OBVIOUS
<1>1. CASE UNCHANGED vars
  BY <1>1, MainKeeps DEF vars, eventVars, IInv, TypeOK
<1>2. ASSUME NEW t \in Threads, Step(t) PROVE IInv'
  BY <1>2, AwaitRunKeeps, AwaitDoneKeeps, AwaitTaskKeeps, TrySetContinuationKeeps, AwaitAllKeeps,
     AwaitAllAgainKeeps, StartTaskKeeps, TryAwaitKeeps, FinishTaskKeeps, FinishWhenAllTaskKeeps,
     FinishSyncWaitKeeps, FutexWakeKeeps DEF Step
<1>3. ASSUME NEW w \in Workers, Take(w) PROVE IInv'
  BY <1>3, TakeKeeps
<1>4. CASE StartRoot
  BY <1>4, StartRootKeeps
<1>5. CASE LoadValue
  BY <1>5, MainKeeps DEF LoadValue
<1>6. CASE FutexWait
  BY <1>6, MainKeeps DEF FutexWait
<1>7. CASE FutexReturns
  BY <1>7, MainKeeps DEF FutexReturns
<1> QED BY <1>1, <1>2, <1>3, <1>4, <1>5, <1>6, <1>7 DEF Next, SyncWait, Terminated

THEOREM Inductive == Spec => []IInv
<1>1. Init => IInv
  BY Initially
<1>2. IInv /\ [Next]_vars => IInv'
  BY StepKeeps
<1> QED BY <1>1, <1>2, PTL DEF Spec

\* Every call on a stack and every variable keeps its type: no coroutine is at an
\* await its script has not, and WhenAllCounter does not go below zero.
THEOREM TypeCorrect == Spec => []TypeOK
<1>1. IInv => TypeOK
  BY DEF IInv
<1> QED BY <1>1, Inductive, PTL

\* The activations of a coroutine are the places where its body runs.
LEMMA ActivationPlaces ==
    ASSUME CallsTyped, NEW c
    PROVE  Activations(c) = {x \in Frames : FrameAt(x) = Running(c)}
<1>1. \A t \in Threads : DOMAIN calls[t] \subseteq Nat
  BY LenProperties DEF CallsTyped
<1>2. ASSUME NEW x \in Activations(c) PROVE x \in Frames /\ FrameAt(x) = Running(c)
  <2>1. PICK t \in Threads : x \in {<<t, i>> : i \in {n \in DOMAIN calls[t] : calls[t][n] = Running(c)}}
    BY <1>2 DEF Activations
  <2>2. PICK i \in DOMAIN calls[t] : calls[t][i] = Running(c) /\ x = <<t, i>>
    BY <2>1
  <2> QED BY <1>1, <2>2 DEF Frames, FrameAt
<1>3. ASSUME NEW x \in Frames, FrameAt(x) = Running(c) PROVE x \in Activations(c)
  <2>1. x[1] \in Threads /\ x[2] \in DOMAIN calls[x[1]] /\ x = <<x[1], x[2]>>
    BY DEF Frames
  <2>2. x \in {<<x[1], i>> : i \in {n \in DOMAIN calls[x[1]] : calls[x[1]][n] = Running(c)}}
    BY <1>3, <2>1 DEF FrameAt
  <2> QED BY <2>1, <2>2 DEF Activations
<1> QED BY <1>2, <1>3

\* A coroutine is resumed only when it can be, and runs in one call of one thread:
\* whoever completes it last continues its awaiter, and nobody else does.
THEOREM ContinuedByOne == Spec => []ResumedOnce
<1>1. ASSUME IInv PROVE ResumedOnce
  <2>1. misused = {} /\ CallsTyped
    BY <1>1, Typed DEF IInv
  <2>2. ASSUME NEW c \in Coroutines, NEW x \in Activations(c)
        PROVE  status[c] = "running" /\ Activations(c) = {x}
    <3>1. x \in Frames /\ FrameAt(x) = Running(c)
      BY <2>1, <2>2, ActivationPlaces
    <3>2. status[c] = "running"
      BY <1>1, <3>1 DEF IInv, CallsOK, CallOK, Running, Call
    <3>3. \A y \in Activations(c) : y = x
      <4> SUFFICES ASSUME NEW y \in Activations(c) PROVE y = x
        OBVIOUS
      <4>1. y \in Frames /\ FrameAt(y) = Running(c)
        BY <2>1, ActivationPlaces
      <4> QED BY <1>1, <3>1, <4>1 DEF IInv, OneCall, Acting, Running, Call
    <3> QED BY <3>2, <3>3
  <2>3. ASSUME NEW c \in Coroutines, status[c] = "running" PROVE \E x : x \in Activations(c)
    <3>1. PICK x \in Frames : FrameAt(x) = Running(c)
      BY <1>1, <2>3 DEF IInv, RunningOK
    <3> QED BY <2>1, <3>1, ActivationPlaces
  <2> QED BY <2>1, <2>2, <2>3 DEF ResumedOnce
<1> QED BY <1>1, Inductive, PTL

\* Nobody is past an await of something that has not ended, whichever of the calls
\* that work on the await comes last.
THEOREM AwaitsEnded == Spec => []AwaitedIsDone
<1>1. IInv => AwaitedIsDone
  BY DEF IInv
<1> QED BY <1>1, Inductive, PTL

-----------------------------------------------------------------------------
(* SyncWait and the frames.  FUTEX_WAIT compares four bytes, so SyncWait   *)
(* may return early (Coroutines_futex) unless the other three are zero.    *)

\* SyncWait returns only after the event is set.
ReturnsSet == main = "returned" => value = 1

LEMMA ReturnsSetKept == ASSUME Neighbours \subseteq {0}, TypeOK, ReturnsSet, [Next]_vars PROVE ReturnsSet'
<1>1. value \in {0, 1} /\ neighbour = 0
  BY DEF TypeOK
<1>2. CASE UNCHANGED eventVars
  BY <1>2 DEF eventVars, ReturnsSet
<1>3. ASSUME NEW t \in Threads, FinishSyncWait(t) PROVE ReturnsSet'
  BY <1>3 DEF FinishSyncWait, ReturnsSet
<1>4. ASSUME NEW t \in Threads, FutexWake(t) PROVE ReturnsSet'
  BY <1>4 DEF FutexWake, ReturnsSet
<1>5. ASSUME NEW t \in Threads, Step(t) PROVE ReturnsSet'
  <2>1. UNCHANGED eventVars \/ FinishSyncWait(t) \/ FutexWake(t)
    BY <1>5 DEF Step, AwaitRun, AwaitDone, AwaitTask, TrySetContinuation, AwaitAll, AwaitAllAgain,
                StartTask, TryAwait, FinishTask, FinishWhenAllTask
  <2> QED BY <1>2, <1>3, <1>4, <2>1
<1>6. ASSUME NEW w \in Workers, Take(w) PROVE ReturnsSet'
  BY <1>2, <1>6 DEF Take
<1>7. CASE StartRoot
  BY <1>7 DEF StartRoot, ReturnsSet
<1>8. CASE LoadValue
  BY <1>1, <1>8 DEF LoadValue, ReturnsSet
<1>9. CASE FutexWait
  BY <1>1, <1>9 DEF FutexWait, ReturnsSet
<1>10. CASE FutexReturns
  BY <1>10 DEF FutexReturns, ReturnsSet
<1>11. CASE UNCHANGED vars
  BY <1>2, <1>11 DEF vars
<1> QED BY <1>5, <1>6, <1>7, <1>8, <1>9, <1>10, <1>11 DEF Next, SyncWait, Terminated

\* What one awaits, and is not past, is not yet given back to its owner.
LEMMA NotReleased ==
    ASSUME StepOK, NEW c \in Coroutines, status[c] = "suspended", NEW d \in ToSet(Present(c).on)
    PROVE  ~Released(d)
<1>1. step[c] \in DOMAIN Script[c] /\ step[c] \in 1 .. Len(Script[c])
  BY ScriptLength DEF StepOK
<1>2. d \in ToSet(Script[c][step[c]].on)
  BY DEF Present
<1>3. d # Root
  <2>1. Script[c][step[c]].op \in {"hop", "task", "whenReady", "all", "allReady"}
    BY <1>1, AwaitOf
  <2>2. Kind[d] \in {"task", "whenAll"}
    <3>1. CASE Script[c][step[c]].op = "hop"
      BY <1>1, <1>2, <3>1, AwaitOf
    <3>2. CASE Script[c][step[c]].op \in {"task", "whenReady"}
      BY <1>1, <1>2, <3>2, TaskAwait
    <3>3. CASE Script[c][step[c]].op \in {"all", "allReady"}
      BY <1>1, <1>2, <3>3, AwaitOf
    <3> QED BY <2>1, <3>1, <3>2, <3>3
  <2> QED BY <2>2, ProgramAssumption
<1>4. step[c] \in {i \in DOMAIN Script[c] : d \in ToSet(Script[c][i].on)} /\ ~(step[c] < step[c])
  BY <1>1, <1>2
<1> QED BY <1>3, <1>4 DEF Released

LEMMA ReleasedIsDone ==
    ASSUME IInv, ReturnsSet, NEW c \in Coroutines, Released(c)
    PROVE  status[c] = "done"
<1>1. CASE c = Root
  BY <1>1 DEF Released, ReturnsSet, IInv, RootOK
<1>2. CASE c # Root
  <2>1. PICK d \in Coroutines : \E i \in DOMAIN Script[d] : c \in ToSet(Script[d][i].on) /\ i < step[d]
    BY <1>2 DEF Released
  <2>2. DOMAIN Script[d] = 1 .. Len(Script[d])
    BY ScriptLength
  <2> QED BY <2>1, <2>2 DEF IInv, AwaitedIsDone
<1> QED BY <1>1, <1>2

\* No frame is destroyed before its coroutine has ended or while a call still uses
\* it, if SyncWait does not return early: the promise await_suspend looks at after
\* resume() is there, and so is the WhenAll object whose tasks are being started.
THEOREM FramesKept == ASSUME Neighbours \subseteq {0} PROVE Spec => []FramesOutlive
<1>1. Init => ReturnsSet
  BY DEF Init, ReturnsSet
<1>2. IInv /\ ReturnsSet /\ [Next]_vars => ReturnsSet'
  BY ReturnsSetKept DEF IInv
<1>3. ASSUME IInv, ReturnsSet PROVE FramesOutlive
  <2>1. \A c \in Coroutines : Released(c) => status[c] = "done"
    BY <1>3, ReleasedIsDone
  <2>2. ASSUME NEW t \in Threads, NEW i \in DOMAIN calls[t]
        PROVE  LET call == calls[t][i]
               IN  /\ call.op # "wake" => ~Released(call.co)
                   /\ call.op \in {"link", "start"} =>
                        /\ status[call.co] = "suspended"
                        /\ \A d \in ToSet(call.on) : ~Released(d)
    <3> DEFINE x == <<t, i>>
    <3>1. CallsTyped /\ calls[t] \in Seq(CallType) /\ i \in Nat
      BY <1>3, Typed, LenProperties DEF IInv, CallsTyped
    <3>2. x \in Frames /\ FrameAt(x) = calls[t][i]
      BY <3>1 DEF Frames, FrameAt
    <3> HIDE DEF x
    <3>3. /\ FrameAt(x) \in CallType
          /\ FrameAt(x).op = "run" => status[FrameAt(x).co] = "running"
          /\ FrameAt(x).op \in {"link", "start"} => status[FrameAt(x).co] = "suspended"
      BY <1>3, <3>1, <3>2, ActingCalls DEF IInv
    <3>4. FrameAt(x).co \in Coroutines /\ FrameAt(x).op \in {"run", "link", "start", "wake"}
      BY <3>3 DEF CallType
    <3>5. FrameAt(x).op # "wake" => ~Released(FrameAt(x).co)
      BY <2>1, <3>3, <3>4
    <3>6. ASSUME FrameAt(x).op \in {"link", "start"} PROVE \A d \in ToSet(FrameAt(x).on) : ~Released(d)
      <4>1. ToSet(FrameAt(x).on) \subseteq ToSet(Present(FrameAt(x).co).on)
        BY <1>3, <3>2, <3>6 DEF IInv, CallsOK, CallOK, AwaitsTask
      <4> QED BY <1>3, <3>3, <3>4, <3>6, <4>1, NotReleased DEF IInv
    <3> QED BY <3>2, <3>3, <3>5, <3>6
  <2> QED BY <2>1, <2>2 DEF FramesOutlive
<1> QED BY <1>1, <1>2, <1>3, Inductive, PTL DEF Spec

\* README.md:46: SyncWait returns when the root coroutine has ended, if the bytes
\* after m_Value are zero; Coroutines_futex shows that it may not otherwise.
THEOREM WaitsForRoot == ASSUME Neighbours \subseteq {0} PROVE Spec => []ReturnsWhenDone
<1>1. Init => ReturnsSet
  BY DEF Init, ReturnsSet
<1>2. IInv /\ ReturnsSet /\ [Next]_vars => ReturnsSet'
  BY ReturnsSetKept DEF IInv
<1>3. IInv /\ ReturnsSet => ReturnsWhenDone
  BY DEF IInv, RootOK, ReturnsSet, ReturnsWhenDone
<1> QED BY <1>1, <1>2, <1>3, Inductive, PTL DEF Spec

-----------------------------------------------------------------------------
(* Results and exceptions.                                                 *)

\* What has left a body that runs: nothing if none of the awaits before this one
\* can throw, otherwise an exception of the first that can, which is the last one.
ThrownOK ==
    \A c \in Coroutines :
        /\ status[c] \in {"created", "suspended"} => thrown[c] = None
        /\ thrown[c] = None => \A i \in DOMAIN Script[c] : i < step[c] => Exceptions(Outcomes, c, i) = {}
        /\ thrown[c] # None =>
            \E last \in DOMAIN Script[c] :
                /\ step[c] = last + 1 /\ thrown[c] \in Exceptions(Outcomes, c, last)
                /\ \A i \in DOMAIN Script[c] : i < last => Exceptions(Outcomes, c, i) = {}

\* A value is stored only by those that cannot end with an exception.
ResultOK ==
    \A c \in Coroutines :
        IF status[c] = "done"
        THEN /\ result[c] \in Outcomes[c] /\ result[c] \in Coroutines \cup {"value"}
             /\ result[c] = "value" => Outcomes[c] \cap Coroutines = {}
        ELSE result[c] = "empty"

\* c goes on behind its await, with what the promises hold after the step.
Reads(c) ==
    LET exceptions == {result'[d] : d \in ToSet(Present(c).on)} \cap Coroutines
    IN  /\ thrown[c] = None /\ step[c] \in DOMAIN Script[c] /\ step'[c] = step[c] + 1
        /\ IF Present(c).op \in {"task", "all"} /\ exceptions # {}
           THEN thrown'[c] \in exceptions
           ELSE thrown'[c] = None

Ends(c) ==
    /\ status[c] # "done" /\ status'[c] = "done" /\ result'[c] = Outcome(c)
    /\ step'[c] = step[c] /\ thrown'[c] = thrown[c]
    /\ thrown[c] # None \/ step[c] > Len(Script[c])

Stays(c) ==
    /\ result'[c] = result[c] /\ (status'[c] = "done" <=> status[c] = "done")
    /\ \/ step'[c] = step[c] /\ thrown'[c] = thrown[c]
       \/ Reads(c)
    /\ status'[c] \in {"created", "suspended"} => thrown'[c] = None

\* What a step does to what has been thrown and stored.
Delivers == \A c \in Coroutines : Ends(c) \/ Stays(c)

\* Outcomes is what its definition says.
OutcomesGiven == \A c \in Coroutines : Outcomes[c] = EndsOf(Outcomes, c)

\* What c ends with, if it throws behind its await i, or behind none.
LEMMA EndOfThrown ==
    ASSUME NEW ends, NEW c \in Coroutines, NEW i \in DOMAIN Script[c], Exceptions(ends, c, i) # {},
           \A k \in DOMAIN Script[c] : k < i => Exceptions(ends, c, k) = {}
    PROVE  EndsOf(ends, c) = Exceptions(ends, c, i)
<1> DEFINE failing == {k \in DOMAIN Script[c] : Exceptions(ends, c, k) # {}}
<1>1. \A k \in DOMAIN Script[c] : k \in Nat
  BY ScriptLength
<1>2. i \in failing /\ \A k \in failing : i <= k
  BY <1>1
<1>3. failing \subseteq Nat /\ failing # {}
  BY <1>1, <1>2
<1>4. EndsOf(ends, c) = Exceptions(ends, c, Min(failing))
  BY <1>3 DEF EndsOf
<1> HIDE DEF failing
<1>5. Min(failing) = i
  <2>1. Min(failing) \in failing /\ \A k \in failing : Min(failing) <= k
    BY <1>2 DEF Min
  <2>2. Min(failing) \in Nat /\ i \in Nat /\ Min(failing) <= i /\ i <= Min(failing)
    BY <1>2, <1>3, <2>1
  <2> QED BY <2>2
<1> QED BY <1>4, <1>5

LEMMA EndOfUnthrown ==
    ASSUME NEW ends, NEW c \in Coroutines, \A k \in DOMAIN Script[c] : Exceptions(ends, c, k) = {}
    PROVE  EndsOf(ends, c) = IF c \in Fails THEN {c} ELSE {"value"}
BY DEF EndsOf

\* The exception c reads, if any, is one that its await can throw.
LEMMA ReadsOK ==
    ASSUME TypeOK', ResultOK', AwaitedIsDone', NEW c \in Coroutines, Reads(c)
    PROVE  IF thrown'[c] = None
           THEN Exceptions(Outcomes, c, step[c]) = {}
           ELSE thrown'[c] \in Exceptions(Outcomes, c, step[c])
<1> DEFINE exceptions == {result'[d] : d \in ToSet(Present(c).on)} \cap Coroutines
<1>1. /\ step[c] \in 1 .. Len(Script[c]) /\ step[c] \in Nat /\ step'[c] = step[c] + 1
      /\ Present(c) = Script[c][step[c]] /\ ToSet(Present(c).on) \subseteq Coroutines
  BY ScriptLength, AwaitOf DEF Reads, Present
<1>2. \A d \in ToSet(Present(c).on) : status'[d] = "done"
  BY <1>1 DEF AwaitedIsDone
<1>3. \A d \in ToSet(Present(c).on) :
        /\ result'[d] \in Outcomes[d] /\ result'[d] \in Coroutines \cup {"value"}
        /\ result'[d] = "value" => Outcomes[d] \cap Coroutines = {}
  BY <1>1, <1>2 DEF ResultOK
<1>4. None \notin Coroutines
  BY ProgramAssumption
<1>5. IF Present(c).op \in {"task", "all"} /\ exceptions # {}
      THEN thrown'[c] \in exceptions
      ELSE thrown'[c] = None
  BY DEF Reads
<1>6. CASE Present(c).op \notin {"task", "all"}
  BY <1>1, <1>5, <1>6 DEF Exceptions
<1>7. ASSUME Present(c).op \in {"task", "all"}, exceptions # {}
      PROVE  thrown'[c] # None /\ thrown'[c] \in Exceptions(Outcomes, c, step[c])
  <2>1. PICK d \in ToSet(Present(c).on) : thrown'[c] = result'[d] /\ result'[d] \in Coroutines
    BY <1>5, <1>7
  <2>2. thrown'[c] \in Outcomes[d]
    BY <1>3, <2>1
  <2> QED BY <1>1, <1>4, <1>7, <2>1, <2>2 DEF Exceptions
<1>8. ASSUME Present(c).op \in {"task", "all"}, exceptions = {}
      PROVE  thrown'[c] = None /\ Exceptions(Outcomes, c, step[c]) = {}
  <2>1. \A d \in ToSet(Present(c).on) : Outcomes[d] \cap Coroutines = {}
    BY <1>3, <1>8
  <2>2. (UNION {Outcomes[d] : d \in ToSet(Present(c).on)}) \cap Coroutines = {}
    BY <2>1
  <2> QED BY <1>1, <1>5, <1>8, <2>2 DEF Exceptions
<1> QED BY <1>6, <1>7, <1>8

LEMMA ResultKept ==
    ASSUME OutcomesGiven, TypeOK, ThrownOK, ResultOK, Delivers
    PROVE  ResultOK'
<1> SUFFICES ASSUME NEW c \in Coroutines, Ends(c)
             PROVE  /\ result'[c] \in Outcomes[c] /\ result'[c] \in Coroutines \cup {"value"}
                    /\ result'[c] = "value" => Outcomes[c] \cap Coroutines = {}
  BY DEF ResultOK, Delivers, Stays, Ends
<1>1. /\ Outcomes[c] = EndsOf(Outcomes, c) /\ {"empty", "value"} \cap Coroutines = {}
      /\ thrown[c] \in Coroutines \cup {None} /\ None \notin Coroutines /\ result'[c] = Outcome(c)
  BY ProgramAssumption DEF OutcomesGiven, TypeOK, Ends
<1>2. CASE thrown[c] # None
  <2>1. PICK last \in DOMAIN Script[c] :
          /\ step[c] = last + 1 /\ thrown[c] \in Exceptions(Outcomes, c, last)
          /\ \A i \in DOMAIN Script[c] : i < last => Exceptions(Outcomes, c, i) = {}
    BY <1>2 DEF ThrownOK
  <2>2. Outcomes[c] = Exceptions(Outcomes, c, last)
    BY <1>1, <2>1, EndOfThrown
  <2>3. result'[c] = thrown[c]
    BY <1>1, <1>2 DEF Outcome
  <2> QED BY <1>1, <1>2, <2>1, <2>2, <2>3
<1>3. CASE thrown[c] = None
  <2>1. \A i \in DOMAIN Script[c] : Exceptions(Outcomes, c, i) = {}
    <3>1. step[c] > Len(Script[c]) /\ step[c] \in Nat
      BY <1>3 DEF Ends, TypeOK
    <3>2. \A i \in DOMAIN Script[c] : i < step[c]
      BY <3>1, ScriptLength
    <3> QED BY <1>3, <3>2 DEF ThrownOK
  <2>2. Outcomes[c] = IF c \in Fails THEN {c} ELSE {"value"}
    BY <1>1, <2>1, EndOfUnthrown
  <2>3. result'[c] = IF c \in Fails THEN c ELSE "value"
    BY <1>1, <1>3 DEF Outcome
  <2> QED BY <1>1, <2>2, <2>3
<1> QED BY <1>2, <1>3

LEMMA ThrownKept ==
    ASSUME TypeOK, TypeOK', ThrownOK, ResultOK', AwaitedIsDone', Delivers
    PROVE  ThrownOK'
<1> SUFFICES ASSUME NEW c \in Coroutines
             PROVE  /\ status'[c] \in {"created", "suspended"} => thrown'[c] = None
                    /\ thrown'[c] = None =>
                        \A i \in DOMAIN Script[c] : i < step'[c] => Exceptions(Outcomes, c, i) = {}
                    /\ thrown'[c] # None =>
                        \E last \in DOMAIN Script[c] :
                            /\ step'[c] = last + 1 /\ thrown'[c] \in Exceptions(Outcomes, c, last)
                            /\ \A i \in DOMAIN Script[c] : i < last => Exceptions(Outcomes, c, i) = {}
  BY DEF ThrownOK
<1>1. status'[c] \in {"created", "suspended"} => thrown'[c] = None
  BY DEF Delivers, Ends, Stays
<1>2. CASE step'[c] = step[c] /\ thrown'[c] = thrown[c]
  BY <1>1, <1>2 DEF ThrownOK
<1>3. CASE Reads(c)
  <2>1. IF thrown'[c] = None
        THEN Exceptions(Outcomes, c, step[c]) = {}
        ELSE thrown'[c] \in Exceptions(Outcomes, c, step[c])
    BY <1>3, ReadsOK
  <2>2. thrown[c] = None /\ step[c] \in DOMAIN Script[c] /\ step'[c] = step[c] + 1
    BY <1>3 DEF Reads
  <2>3. \A i \in DOMAIN Script[c] : i < step[c] => Exceptions(Outcomes, c, i) = {}
    BY <2>2 DEF ThrownOK
  <2>4. DOMAIN Script[c] \subseteq Nat
    BY ScriptLength
  <2>5. \A i \in DOMAIN Script[c] : i < step'[c] => i < step[c] \/ i = step[c]
    BY <2>2, <2>4
  <2> QED BY <1>1, <2>1, <2>2, <2>3, <2>5
<1> QED BY <1>2, <1>3 DEF Delivers, Ends, Stays

\* A step that neither reads nor stores a result.
LEMMA QuietDelivers ==
    ASSUME thrown' = thrown, result' = result, step' = step,
           \A c \in Coroutines : (status'[c] = "done" <=> status[c] = "done"),
           \A c \in Coroutines : status'[c] \in {"created", "suspended"} => thrown[c] = None
    PROVE  Delivers
BY DEF Delivers, Stays

\* await_resume of c, with the results that the step leaves.
LEMMA AwaitResumeReads ==
    ASSUME TypeOK, NEW c \in Coroutines, thrown[c] = None, step[c] \in DOMAIN Script[c],
           step'[c] = step[c] + 1, AwaitResume(c, result')
    PROVE  Reads(c) /\ \A d \in Coroutines \ {c} : thrown'[d] = thrown[d]
<1> DEFINE exceptions == {result'[d] : d \in ToSet(Present(c).on)} \cap Coroutines
<1>1. IF Present(c).op \in {"task", "all"} /\ exceptions # {}
      THEN \E e \in exceptions : thrown' = [thrown EXCEPT ![c] = e]
      ELSE UNCHANGED thrown
  BY DEF AwaitResume, Present
<1> HIDE DEF exceptions
<1>2. IF Present(c).op \in {"task", "all"} /\ exceptions # {}
      THEN thrown'[c] \in exceptions
      ELSE thrown'[c] = None
  BY <1>1 DEF TypeOK
<1>3. \A d \in Coroutines \ {c} : thrown'[d] = thrown[d]
  BY <1>1 DEF TypeOK
<1> QED BY <1>2, <1>3 DEF Reads, exceptions

LEMMA ResumedDelivers ==
    ASSUME TypeOK, StepOK, ThrownOK, misused' = {}, NEW c \in Coroutines, Resumed(c)
    PROVE  Delivers
<1>1. /\ result' = result /\ status' = [status EXCEPT ![c] = "running"]
      /\ step' = [step EXCEPT ![c] = IF status[c] = "suspended" THEN @ + 1 ELSE @]
      /\ IF status[c] = "suspended" THEN AwaitResume(c, result) ELSE UNCHANGED thrown
      /\ status[c] \in {"created", "suspended"}
  BY DEF Resumed
<1>2. /\ status'[c] = "running" /\ status[c] # "done"
      /\ \A d \in Coroutines \ {c} : status'[d] = status[d] /\ step'[d] = step[d]
  BY <1>1 DEF TypeOK
<1>3. \A d \in Coroutines : status[d] \in {"created", "suspended"} => thrown[d] = None
  BY DEF ThrownOK
<1>4. CASE status[c] = "suspended"
  <2>1. /\ step'[c] = step[c] + 1 /\ step[c] \in DOMAIN Script[c] /\ thrown[c] = None
        /\ AwaitResume(c, result')
    BY <1>1, <1>3, <1>4, ScriptLength DEF TypeOK, StepOK
  <2>2. Reads(c) /\ \A d \in Coroutines \ {c} : thrown'[d] = thrown[d]
    BY <2>1, AwaitResumeReads
  <2> QED BY <1>1, <1>2, <1>3, <2>2 DEF Delivers, Stays
<1>5. CASE status[c] # "suspended"
  <2>1. thrown' = thrown /\ step'[c] = step[c]
    BY <1>1, <1>5 DEF TypeOK
  <2> QED BY <1>1, <1>2, <1>3, <2>1 DEF Delivers, Stays
<1> QED BY <1>4, <1>5

\* await_ready is true: the coroutine reads the results at once.
LEMMA GoesOnDelivers ==
    ASSUME IInv, ThrownOK, NEW t \in Threads, NEW ops, AwaitsAt(t, ops),
           step' = [step EXCEPT ![Top(t).co] = @ + 1], AwaitResume(Top(t).co, result),
           UNCHANGED <<result, status>>
    PROVE  Delivers
<1>1. PICK c \in Coroutines : c = Top(t).co /\ status[c] = "running" /\ step[c] \in 1 .. Len(Script[c])
  BY AtAwait
<1>2. /\ thrown[c] = None /\ step[c] \in DOMAIN Script[c] /\ step'[c] = step[c] + 1
      /\ \A d \in Coroutines \ {c} : step'[d] = step[d]
  BY <1>1, ScriptLength DEF AwaitsAt, IInv, TypeOK
<1>3. Reads(c) /\ \A d \in Coroutines \ {c} : thrown'[d] = thrown[d]
  BY <1>1, <1>2, AwaitResumeReads DEF IInv
<1>4. \A d \in Coroutines : status[d] \in {"created", "suspended"} => thrown[d] = None
  BY DEF ThrownOK
<1> QED BY <1>1, <1>2, <1>3, <1>4 DEF Delivers, Stays

\* One coroutine ends, and its awaiter reads what it needs.
LEMMA FinishDelivers ==
    ASSUME IInv, misused' = {}, ThrownOK, NEW t \in Threads, NEW kind, AtEnd(t, kind),
           NEW d \in Coroutines \cup {None}, FinishInto(t, Top(t).co, d)
    PROVE  Delivers
<1>1. PICK c \in Coroutines : c = Top(t).co /\ status[c] = "running"
  BY AtItsEnd
<1>2. /\ TypeOK /\ StepOK /\ None \notin Coroutines
      /\ thrown[c] # None \/ step[c] > Len(Script[c])
  BY <1>1, ProgramAssumption DEF IInv, AtEnd
<1>3. \A a \in Coroutines : status[a] \in {"created", "suspended"} => thrown[a] = None
  BY DEF ThrownOK
<1>4. result' = [result EXCEPT ![c] = Outcome(c)]
  BY <1>1 DEF FinishInto
<1>5. result'[c] = Outcome(c) /\ \A a \in Coroutines \ {c} : result'[a] = result[a]
  BY <1>2, <1>4 DEF TypeOK
<1>6. CASE d = None
  <2>1. status' = [status EXCEPT ![c] = "done"] /\ step' = step /\ thrown' = thrown
    BY <1>1, <1>6 DEF FinishInto
  <2>2. status'[c] = "done" /\ \A a \in Coroutines \ {c} : status'[a] = status[a]
    BY <1>2, <2>1 DEF TypeOK
  <2>3. Ends(c)
    BY <1>1, <1>2, <1>5, <2>1, <2>2 DEF Ends
  <2>4. \A a \in Coroutines \ {c} : Stays(a)
    BY <1>3, <1>5, <2>1, <2>2 DEF Stays
  <2> QED BY <2>3, <2>4 DEF Delivers
<1>7. CASE d \in Coroutines
  <2>1. /\ status' = [status EXCEPT ![c] = "done", ![d] = "running"]
        /\ step' = [step EXCEPT ![d] = @ + 1]
        /\ misused' = misused \cup (IF status[d] = "suspended" THEN {} ELSE {d})
        /\ AwaitResume(d, result')
    BY <1>1, <1>2, <1>4, <1>7 DEF FinishInto
  <2>2. status[d] = "suspended" /\ d # c
    BY <1>1, <2>1
  <2>3. /\ status'[c] = "done" /\ status'[d] = "running" /\ step'[d] = step[d] + 1 /\ step'[c] = step[c]
        /\ \A a \in Coroutines \ {c, d} : status'[a] = status[a] /\ step'[a] = step[a]
    BY <1>2, <1>7, <2>1, <2>2 DEF TypeOK
  <2>4. step[d] \in DOMAIN Script[d] /\ thrown[d] = None
    BY <1>2, <1>3, <1>7, <2>2, ScriptLength DEF StepOK
  <2>5. Reads(d) /\ \A a \in Coroutines \ {d} : thrown'[a] = thrown[a]
    BY <1>2, <1>7, <2>1, <2>3, <2>4, AwaitResumeReads
  <2>6. Ends(c)
    BY <1>1, <1>2, <1>5, <2>2, <2>3, <2>5 DEF Ends
  <2>7. \A a \in Coroutines \ {c} : Stays(a)
    BY <1>3, <1>5, <2>2, <2>3, <2>5 DEF Stays
  <2> QED BY <2>6, <2>7 DEF Delivers
<1> QED BY <1>6, <1>7

LEMMA AwaitDelivers ==
    ASSUME IInv, ThrownOK, NEW t \in Threads, AwaitRun(t) \/ AwaitTask(t) \/ AwaitAll(t)
    PROVE  Delivers
<1>1. TypeOK /\ \A c \in Coroutines : status[c] \in {"created", "suspended"} => thrown[c] = None
  BY DEF IInv, ThrownOK
<1>2. thrown' = thrown /\ result' = result /\ step' = step
  BY DEF AwaitRun, AwaitTask, AwaitAll, resultVars
<1>3. PICK c \in Coroutines : c = Top(t).co /\ status[c] = "running" /\ thrown[c] = None
  <2>1. AwaitsAt(t, {"hop", "task", "whenReady", "all", "allReady"})
    BY DEF AwaitRun, AwaitTask, AwaitAll, AwaitsAt
  <2>2. thrown[Top(t).co] = None
    BY <2>1 DEF AwaitsAt
  <2> QED BY <2>1, <2>2, AtAwait
<1>4. CASE status' = [status EXCEPT ![c] = "suspended"]
  BY <1>1, <1>2, <1>3, <1>4, QuietDelivers DEF TypeOK
<1>5. CASE AwaitTask(t)
  <2>1. PICK child : status' = [status EXCEPT ![c] = "suspended", ![child] = "running"] /\ status[child] # "done"
    BY <1>3, <1>5 DEF AwaitTask
  <2>2. \A a \in Coroutines : status'[a] = IF a = child THEN "running" ELSE IF a = c THEN "suspended" ELSE status[a]
    BY <1>1, <2>1 DEF TypeOK
  <2>3. \A a \in Coroutines : (status'[a] = "done" <=> status[a] = "done")
    <3> SUFFICES ASSUME NEW a \in Coroutines PROVE status'[a] = "done" <=> status[a] = "done"
      OBVIOUS
    <3>1. CASE a = child
      <4>1. status[a] # "done"
        BY <2>1, <3>1
      <4>2. status'[a] = "running"
        BY <2>2, <3>1
      <4> QED BY <4>1, <4>2
    <3>2. CASE a # child
      BY <1>3, <2>2, <3>2
    <3> QED BY <3>1, <3>2
  <2>4. \A a \in Coroutines : status'[a] \in {"created", "suspended"} => thrown[a] = None
    BY <1>1, <1>3, <2>2
  <2> QED BY <1>2, <2>3, <2>4, QuietDelivers
<1>6. AwaitRun(t) \/ AwaitAll(t) => status' = [status EXCEPT ![c] = "suspended"]
  BY <1>3 DEF AwaitRun, AwaitAll
<1> QED BY <1>4, <1>5, <1>6

LEMMA FinishSyncWaitDelivers ==
    ASSUME IInv, ThrownOK, NEW t \in Threads, FinishSyncWait(t)
    PROVE  Delivers
<1>1. PICK c \in Coroutines : c = Top(t).co /\ status[c] = "running"
  BY AtItsEnd DEF FinishSyncWait
<1>2. /\ status' = [status EXCEPT ![c] = "done"] /\ result' = [result EXCEPT ![c] = Outcome(c)]
      /\ thrown' = thrown /\ step' = step /\ (thrown[c] # None \/ step[c] > Len(Script[c]))
  BY <1>1 DEF FinishSyncWait, AtEnd
<1>3. /\ status'[c] = "done" /\ result'[c] = Outcome(c)
      /\ \A a \in Coroutines \ {c} : status'[a] = status[a] /\ result'[a] = result[a]
  BY <1>2 DEF IInv, TypeOK
<1>4. Ends(c)
  BY <1>1, <1>2, <1>3 DEF Ends
<1>5. \A a \in Coroutines \ {c} : Stays(a)
  BY <1>2, <1>3 DEF Stays, ThrownOK
<1> QED BY <1>4, <1>5 DEF Delivers

\* Every step reads and stores as the promises do.
LEMMA StepDelivers == ASSUME IInv, IInv', ThrownOK, [Next]_vars PROVE Delivers
<1>1. TypeOK /\ StepOK /\ misused' = {} /\ CallsTyped
  BY Typed DEF IInv
<1>2. ASSUME UNCHANGED coroutineVars PROVE Delivers
  BY <1>2, QuietDelivers DEF coroutineVars, resultVars, ThrownOK
<1>3. \A c \in Coroutines : Resumed(c) => Delivers
  BY <1>1, ResumedDelivers
<1>4. ASSUME UNCHANGED <<status, step, misused, resultVars>> PROVE Delivers
  BY <1>4, QuietDelivers DEF resultVars, ThrownOK
<1>5. ASSUME NEW t \in Threads, TrySetContinuation(t) PROVE Delivers
  <2>1. Top(t).co \in Coroutines
    BY <1>5, AtLink DEF TrySetContinuation
  <2> QED BY <1>3, <1>4, <1>5, <2>1 DEF TrySetContinuation
<1>6. ASSUME NEW t \in Threads, TryAwait(t) PROVE Delivers
  <2>1. Top(t).co \in Coroutines
    BY <1>6, AtStart DEF TryAwait
  <2> QED BY <1>3, <1>4, <1>6, <2>1 DEF TryAwait
<1>7. ASSUME NEW t \in Threads, StartTask(t) PROVE Delivers
  <2>1. PICK on \in Seq(Coroutines) : on = Top(t).on /\ on # <<>>
    BY <1>7, AtStart DEF StartTask
  <2>2. Head(Top(t).on) \in Coroutines
    BY <2>1, ListElements
  <2> QED BY <1>3, <1>7, <2>2 DEF StartTask
<1>8. ASSUME NEW t \in Threads, AwaitDone(t) \/ AwaitAllAgain(t) PROVE Delivers
  <2>1. AwaitsAt(t, {"task", "whenReady", "all", "allReady"})
    BY <1>8 DEF AwaitDone, AwaitAllAgain, AwaitsAt
  <2> QED BY <1>8, <2>1, GoesOnDelivers DEF AwaitDone, AwaitAllAgain
<1>9. ASSUME NEW t \in Threads, FinishTask(t) PROVE Delivers
  <2> DEFINE d == IF linked[Top(t).co] THEN continuation[Top(t).co] ELSE None
  <2>1. AtEnd(t, "task") /\ FinishInto(t, Top(t).co, d)
    BY <1>9 DEF FinishTask
  <2>2. d \in Coroutines \cup {None}
    BY <1>1, <2>1, AtItsEnd DEF TypeOK
  <2> HIDE DEF d
  <2> QED BY <1>1, <2>1, <2>2, FinishDelivers
<1>10. ASSUME NEW t \in Threads, FinishWhenAllTask(t) PROVE Delivers
  <2> DEFINE a == counter[Top(t).co]
             d == IF remaining[a] = 1 THEN a ELSE None
  <2>1. AtEnd(t, "whenAll") /\ FinishInto(t, Top(t).co, d)
    BY <1>10 DEF FinishWhenAllTask
  <2>2. a \in Coroutines \cup {None}
    BY <1>1, <2>1, AtItsEnd DEF TypeOK
  <2> HIDE DEF a
  <2>3. d \in Coroutines \cup {None}
    BY <2>2
  <2> HIDE DEF d
  <2> QED BY <1>1, <2>1, <2>3, FinishDelivers
<1>11. ASSUME NEW t \in Threads, Step(t) PROVE Delivers
  BY <1>2, <1>5, <1>6, <1>7, <1>8, <1>9, <1>10, <1>11, AwaitDelivers, FinishSyncWaitDelivers DEF Step, FutexWake
<1>12. ASSUME NEW w \in Workers, Take(w) PROVE Delivers
  <2>1. scheduled \subseteq Coroutines
    BY <1>1 DEF TypeOK
  <2> QED BY <1>3, <1>12, <2>1 DEF Take
<1>13. StartRoot => Delivers
  BY <1>3, ProgramAssumption DEF StartRoot
<1>14. LoadValue \/ FutexWait \/ FutexReturns \/ UNCHANGED vars => Delivers
  BY <1>2 DEF LoadValue, FutexWait, FutexReturns, vars
<1> QED BY <1>11, <1>12, <1>13, <1>14 DEF Next, SyncWait, Terminated

-----------------------------------------------------------------------------
(* Outcomes is what its definition says when the awaits are not circular,  *)
(* that is, when no coroutine awaits, through others, itself.              *)

\* d is awaited by c.
AwaitedBy == {x \in Coroutines \X Coroutines : \E i \in DOMAIN Script[x[2]] : x[1] \in ToSet(Script[x[2]][i].on)}
Children(c) == UNION {ToSet(Script[c][i].on) : i \in DOMAIN Script[c]}

\* f says what the coroutines of D, and all they await, end with.
Solves(f, D) ==
    /\ D \subseteq Coroutines /\ \A c \in D : Children(c) \subseteq D
    /\ \A c \in D : f[c] = EndsOf(f, c)

LEMMA ChildrenOf == \A c \in Coroutines : Children(c) \subseteq Coroutines /\ \A d \in Children(c) : <<d, c>> \in AwaitedBy
<1> SUFFICES ASSUME NEW c \in Coroutines, NEW d \in Children(c) PROVE d \in Coroutines /\ <<d, c>> \in AwaitedBy
  OBVIOUS
<1>1. PICK i \in DOMAIN Script[c] : d \in ToSet(Script[c][i].on)
  BY DEF Children
<1>2. d \in Coroutines
  BY <1>1, ScriptLength, AwaitOf
<1> QED BY <1>1, <1>2 DEF AwaitedBy

LEMMA LeastOf == ASSUME NEW S \in SUBSET Nat, S # {} PROVE Min(S) \in S
<1>1. \E m \in S : \A k \in S : <<k, m>> \notin OpToRel(<, Nat)
  BY NatLessThanWellFounded, WFMin
<1>2. \E m \in S : \A k \in S : ~(k < m)
  BY <1>1 DEF OpToRel
<1>3. \E m \in S : \A k \in S : m <= k
  BY <1>2
<1> QED BY <1>3 DEF Min

\* What c ends with depends on those it awaits only.
LEMMA EndsLocal ==
    ASSUME NEW c \in Coroutines, NEW f, NEW g, \A d \in Children(c) : f[d] = g[d]
    PROVE  EndsOf(f, c) = EndsOf(g, c)
<1>1. ASSUME NEW i \in DOMAIN Script[c] PROVE Exceptions(f, c, i) = Exceptions(g, c, i)
  <2>1. \A d \in ToSet(Script[c][i].on) : f[d] = g[d]
    BY DEF Children
  <2>2. {f[d] : d \in ToSet(Script[c][i].on)} = {g[d] : d \in ToSet(Script[c][i].on)}
    BY <2>1
  <2> QED BY <2>2 DEF Exceptions
<1> DEFINE F == {i \in DOMAIN Script[c] : Exceptions(f, c, i) # {}}
           G == {i \in DOMAIN Script[c] : Exceptions(g, c, i) # {}}
<1>2. F = G
  BY <1>1
<1>3. F # {} => Exceptions(f, c, Min(F)) = Exceptions(g, c, Min(F))
  <2>1. F \subseteq Nat
    BY ScriptLength
  <2>2. F # {} => Min(F) \in DOMAIN Script[c]
    BY <2>1, LeastOf
  <2> QED BY <1>1, <2>2
<1> QED BY <1>2, <1>3 DEF EndsOf

LEMMA SolutionsAgree ==
    ASSUME IsWellFoundedOn(AwaitedBy, Coroutines), NEW f, NEW g, NEW D, NEW E, Solves(f, D), Solves(g, E)
    PROVE  \A c \in D \cap E : f[c] = g[c]
<1> DEFINE T == {c \in D \cap E : f[c] # g[c]}
<1> SUFFICES ASSUME T # {} PROVE FALSE
  OBVIOUS
<1>1. T \subseteq Coroutines
  BY DEF Solves
<1>2. PICK c \in T : \A d \in T : <<d, c>> \notin AwaitedBy
  BY <1>1, WFMin
<1>3. \A d \in Children(c) : d \in D \cap E /\ d \notin T
  BY <1>1, <1>2, ChildrenOf DEF Solves
<1>4. EndsOf(f, c) = EndsOf(g, c)
  BY <1>1, <1>2, <1>3, EndsLocal
<1> QED BY <1>2, <1>4 DEF Solves

LEMMA OutcomesDefined == ASSUME IsWellFoundedOn(AwaitedBy, Coroutines) PROVE OutcomesGiven
<1> DEFINE Solved == {c \in Coroutines : \E f : \E D \in SUBSET Coroutines : c \in D /\ Solves(f, D)}
           solution(c) == CHOOSE f : \E D \in SUBSET Coroutines : c \in D /\ Solves(f, D)
           all == [c \in Solved |-> solution(c)[c]]
<1>1. \A c \in Solved : \E D \in SUBSET Coroutines : c \in D /\ Solves(solution(c), D)
  OBVIOUS
<1>2. \A c \in Coroutines : \A f : \A D \in SUBSET Coroutines : c \in D /\ Solves(f, D) => D \subseteq Solved
  BY Zenon
<1>3. Solved \subseteq Coroutines
  OBVIOUS
<1>4. \A c \in Solved : all[c] = solution(c)[c]
  OBVIOUS
<1> HIDE DEF Solved, solution
<1>5. Solves(all, Solved)
  <2>1. ASSUME NEW c \in Solved PROVE Children(c) \subseteq Solved /\ all[c] = EndsOf(all, c)
    <3>1. PICK D \in SUBSET Coroutines : c \in D /\ Solves(solution(c), D)
      BY <1>1
    <3>2. Children(c) \subseteq D /\ D \subseteq Solved /\ solution(c)[c] = EndsOf(solution(c), c)
      BY <1>2, <1>3, <3>1 DEF Solves
    <3>3. ASSUME NEW d \in Children(c) PROVE all[d] = solution(c)[d]
      <4>1. d \in D /\ d \in Solved
        BY <3>2
      <4>2. PICK E \in SUBSET Coroutines : d \in E /\ Solves(solution(d), E)
        BY <1>1, <4>1
      <4>3. solution(d)[d] = solution(c)[d]
        BY <3>1, <4>1, <4>2, SolutionsAgree
      <4> QED BY <1>4, <4>1, <4>3
    <3>4. EndsOf(all, c) = EndsOf(solution(c), c)
      BY <1>3, <3>3, EndsLocal
    <3> QED BY <1>4, <3>2, <3>4
  <2> QED BY <1>3, <2>1 DEF Solves
<1> HIDE DEF all
<1>6. Solved = Coroutines
  <2> SUFFICES ASSUME Coroutines \ Solved # {} PROVE FALSE
    BY <1>3
  <2>1. PICK c \in Coroutines \ Solved : \A d \in Coroutines \ Solved : <<d, c>> \notin AwaitedBy
    <3> DEFINE T == Coroutines \ Solved
    <3>1. T \subseteq Coroutines /\ T # {}
      OBVIOUS
    <3> HIDE DEF T
    <3>2. \E x \in T : \A y \in T : ~(<<y, x>> \in AwaitedBy)
      BY <3>1, WFMin
    <3> QED BY <3>2 DEF T
  <2> DEFINE D == Solved \cup {c}
             f == [x \in D |-> EndsOf(all, x)]
  <2>2. \A x \in D : f[x] = EndsOf(all, x)
    OBVIOUS
  <2>3. \A x \in Solved : f[x] = all[x]
    BY <1>5 DEF Solves
  <2> HIDE DEF f
  <2>4. ASSUME NEW x \in D PROVE x \in Coroutines /\ Children(x) \subseteq Solved
    <3>1. CASE x = c
      BY <2>1, <3>1, ChildrenOf
    <3>2. CASE x \in Solved
      BY <1>3, <1>5, <3>2 DEF Solves
    <3> QED BY <3>1, <3>2
  <2>5. ASSUME NEW x \in D PROVE f[x] = EndsOf(f, x)
    <3>1. EndsOf(f, x) = EndsOf(all, x)
      BY <2>3, <2>4, EndsLocal
    <3> QED BY <2>2, <3>1
  <2>6. Solves(f, D) /\ D \in SUBSET Coroutines /\ c \in D
    BY <2>4, <2>5 DEF Solves
  <2>7. D \subseteq Solved
    BY <1>2, <2>1, <2>6
  <2> QED BY <2>1, <2>7
<1>7. all = [c \in Coroutines |-> EndsOf(all, c)]
  <2>1. all = [c \in Coroutines |-> all[c]]
    BY <1>6 DEF all
  <2>2. \A c \in Coroutines : all[c] = EndsOf(all, c)
    BY <1>5, <1>6 DEF Solves
  <2> QED BY <2>1, <2>2
<1>8. Outcomes = [c \in Coroutines |-> EndsOf(Outcomes, c)]
  BY <1>7 DEF Outcomes
<1> QED BY <1>8 DEF OutcomesGiven

\* If awaits are not circular, every coroutine that ends with an exception ends with
\* its own or with that of the first it awaits that fails, and every other with its
\* value: the promise hands over what was stored, wherever that happens and whoever
\* reads it, and none is read before it is stored.
THEOREM ResultsReachAwaiters ==
    ASSUME IsWellFoundedOn(AwaitedBy, Coroutines)
    PROVE  Spec => []ResultsDelivered
<1>1. OutcomesGiven
  BY OutcomesDefined
<1>2. Init => ThrownOK /\ ResultOK
  <2> SUFFICES ASSUME Init PROVE ThrownOK /\ ResultOK
    OBVIOUS
  <2>1. \A c \in Coroutines : /\ status[c] = "created" /\ step[c] = 1 /\ thrown[c] = None /\ result[c] = "empty"
                              /\ \A i \in DOMAIN Script[c] : ~(i < 1)
    BY ScriptLength DEF Init
  <2> QED BY <2>1 DEF ThrownOK, ResultOK
<1>3. IInv /\ IInv' /\ ThrownOK /\ ResultOK /\ [Next]_vars => ThrownOK' /\ ResultOK'
  BY <1>1, StepDelivers, ResultKept, ThrownKept DEF IInv
<1>4. ResultOK => ResultsDelivered
  BY DEF ResultOK, ResultsDelivered
<1> QED BY <1>2, <1>3, <1>4, Inductive, PTL DEF Spec
=============================================================================
