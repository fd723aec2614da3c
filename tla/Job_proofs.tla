------------------------------ MODULE Job_proofs ------------------------------
(***************************************************************************)
(* Theorems about Job for every set of jobs, attachments and threads.      *)
(***************************************************************************)
EXTENDS Job, FiniteSetTheorems, SequenceTheorems, WellFoundedInduction, TLAPS

-----------------------------------------------------------------------------
(* What the clients keep to: GetMaxDependencyCount parents at most, and no *)
(* SetPriority on a job that others may already work on (Job_priority      *)
(* shows what happens otherwise).                                          *)

Limits ==
    /\ Careful
    /\ \A j \in Jobs : IsFiniteSet(Parents(j)) /\ Cardinality(Parents(j)) <= MaxDependencyCount

-----------------------------------------------------------------------------
(* The calls of all threads, by their places in the stacks.                *)

FrameType == [pc : FramePc, job : Jobs, dep : Jobs \cup {NoJob}, oneTime : BOOLEAN, word : 0 .. WordRange - 1]

Frames == {x \in Threads \X Nat : x[2] \in DOMAIN calls[x[1]]}
FrameAt(x) == calls[x[1]][x[2]]
Below(x) == <<x[1], x[2] - 1>>

\* The parts of ExecuteInternal.
Parts == {"capture", "body", "signal", "delete"}

Acting(j, pcs) == \E x \in Frames : FrameAt(x).pc \in pcs /\ FrameAt(x).job = j

\* A client is attaching c to p, setting the priority of j, or scheduling it.
Counting(c, p) == \E x \in Frames : FrameAt(x).pc = "count" /\ FrameAt(x).job = c /\ FrameAt(x).dep = p
Setting(j) == \E x \in Frames : FrameAt(x).pc = "store" /\ FrameAt(x).job = j
Starting(j) == \E x \in Frames : x[2] = 1 /\ FrameAt(x).pc = "decrement" /\ FrameAt(x).job = j

\* ExecuteInternal of p is decrementing the counter of its dependent.
Signalling(p) == \E x \in Frames : x[2] > 1 /\ FrameAt(x).pc = "decrement" /\ FrameAt(Below(x)).job = p

-----------------------------------------------------------------------------
(* What the counter of j counts: the parents that are attached and have    *)
(* not yet decremented it, and the call that schedules it.                 *)

AttachMade(c, p) == <<"attach", c, p>> \in made
Signalled(p) == p \in finished \/ (Acting(p, {"delete"}) /\ ~Signalling(p))
Owes(p, j) == AttachMade(j, p) /\ ~Counting(j, p) /\ ~(dependent[p] = j /\ Signalled(p))
Owed(j) == {p \in Parents(j) : Owes(p, j)}
Held(j) == ~(Scheduled(j) /\ j \in bound /\ ~Starting(j))
Count(j) == Cardinality(Owed(j)) + (IF Held(j) THEN 1 ELSE 0)

\* Only a carry out of the counter of the job with the highest flags wraps.
Wrap(n) == IF n = WordRange THEN 0 ELSE n
Word(j, n, p) == Wrap(n + p * CountRange + (IF j \in OneTimeJobs THEN 4 * CountRange ELSE 0))

\* The scheduler has j: RunOneTime gave it, or the last decrement.
Submitted == waiting \cup running \cup finished
Settled(j) == Scheduled(j) /\ (j \in bound => ~Starting(j) /\ Owed(j) = {})

-----------------------------------------------------------------------------
(* The inductive invariant.                                                *)

\* A call is on top of its stack, or one that waits for the decrement above it.
StacksOK ==
    \A x \in Frames : x[2] > 1 =>
        /\ Below(x) \in Frames /\ FrameAt(Below(x)).pc = "delete"
        /\ FrameAt(x).pc \in Parts \cup {"decrement"} /\ FrameAt(x).job = FrameAt(Below(x)).dep

\* The calls of the clients are made once, and a job is executed by one thread.
SameCall(x, y) ==
    LET f == FrameAt(x)
        g == FrameAt(y)
    IN  /\ f.job = g.job
        /\ \/ f.pc \in Parts /\ g.pc \in Parts
           \/ f.pc = "count" /\ g.pc = "count" /\ f.dep = g.dep
           \/ f.pc = "decrement" /\ g.pc = "decrement" /\ x[2] = 1 /\ y[2] = 1

OnceOK == \A x, y \in Frames : SameCall(x, y) => x = y

\* What the clients keep to while a call is made, and what its locals hold.
CallOK(x) ==
    LET f == FrameAt(x)
    IN  /\ f.pc = "count" =>
            x[1] \in Clients /\ f.dep \in Jobs /\ AttachMade(f.job, f.dep) /\ ~Scheduled(f.dep) /\ ~Scheduled(f.job)
        /\ f.pc = "store" =>
            /\ x[1] \in Clients /\ Untouched(f.job)
            /\ \E p \in 0 .. 3 : <<"priority", f.job, p>> \in made /\ f.word = Word(f.job, 1, p)
        /\ f.pc = "decrement" /\ x[2] = 1 => Scheduled(f.job) /\ f.job \in bound
        /\ f.pc \in Parts => f.job \in running
        /\ f.pc \in Parts \ {"capture"} => f.dep = dependent[f.job] /\ (f.oneTime <=> f.job \in OneTimeJobs)

CallsOK == \A x \in Frames : CallOK(x)

\* A job is scheduled when it is attached to all its parents, and bound then,
\* unless RunOneTime made it.
MadeOK ==
    \A j \in Jobs :
        /\ Scheduled(j) => \A p \in Parents(j) : AttachMade(j, p)
        /\ Scheduled(j) /\ j \notin bound => j \in OneTimeJobs /\ Parents(j) = {} /\ \A p \in 0 .. 3 : <<j, p>> \notin Priorities
        /\ j \in Operations => j \in bound
        /\ j \in bound => j \in Operations \/ Scheduled(j)
        /\ dependent[j] # NoJob => AttachMade(dependent[j], j)
        /\ dependent[j] = NoJob => \A c \in Jobs : ~AttachMade(c, j)

PoolOK ==
    /\ \A j \in running : Acting(j, Parts)
    /\ waiting \cap running = {} /\ waiting \cap finished = {} /\ running \cap finished = {}
    /\ \A j \in Jobs : submissions[j] = IF j \in Submitted THEN 1 ELSE 0

SettledOK == \A j \in Jobs : j \in Submitted <=> Settled(j)

\* A priority other than one that was set is about to be overwritten.
FlagOK(j) ==
    \E p \in 0 .. 3 : flags[j] = Word(j, Count(j), p) /\ (Setting(j) \/ p \in WantedPriorities(j))

FlagsOK == \A j \in Jobs : FlagOK(j)

\* A job is gone only after Execute.
AliveOK == \A j \in Jobs \ alive : j \in finished \/ Acting(j, {"signal", "delete"})

IInv ==
    /\ TypeOK /\ StacksOK /\ OnceOK /\ CallsOK /\ MadeOK /\ PoolOK /\ SettledOK /\ FlagsOK /\ AliveOK
    /\ accessed = {}

-----------------------------------------------------------------------------
(* The word of flags.                                                      *)

LEMMA Division ==
    ASSUME NEW C \in Nat, C >= 2, NEW b \in Nat, NEW c \in 0 .. C - 1
    PROVE  (b * C + c) % C = c /\ (b * C + c) \div C = b
OBVIOUS

LEMMA Wraps ==
    ASSUME NEW n \in 0 .. WordRange
    PROVE  /\ WordRange \in Nat /\ WordRange = 8 * CountRange /\ WordRange >= 16
           /\ n % WordRange = Wrap(n)
           /\ Wrap(n) \in 0 .. WordRange - 1
           /\ n > 0 => Decremented(Wrap(n)) = Wrap(n - 1)
<1>1. WordRange \in Nat /\ WordRange = 8 * CountRange /\ WordRange >= 16
  BY CountRangeAssumption DEF WordRange
<1>2. n % WordRange = Wrap(n) /\ Wrap(n) \in 0 .. WordRange - 1
  BY <1>1 DEF Wrap
<1>3. ASSUME n > 0 PROVE (Wrap(n) + WordRange - 1) % WordRange = Wrap(n - 1)
  <2>1. CASE n = WordRange
    BY <1>1, <2>1 DEF Wrap
  <2>2. CASE n # WordRange
    <3>1. Wrap(n) = n /\ Wrap(n - 1) = n - 1
      BY <1>1, <2>2 DEF Wrap
    <3>2. n - 1 \in 0 .. WordRange - 1 /\ n + WordRange - 1 = 1 * WordRange + (n - 1)
      BY <1>1, <1>3, <2>2
    <3> QED BY SMTT(30), <1>1, <3>1, <3>2, Division
  <2> QED BY <2>1, <2>2
<1> QED BY <1>1, <1>2, <1>3 DEF Decremented

\* The fields of a word whose counter has not run over.
LEMMA Fields ==
    ASSUME NEW j \in Jobs, NEW n \in 0 .. CountRange - 1, NEW p \in 0 .. 3
    PROVE  LET word == Word(j, n, p)
               high == IF j \in OneTimeJobs THEN 4 * CountRange ELSE 0
           IN  /\ word = n + p * CountRange + high /\ word \in 0 .. WordRange - 1
               /\ CountOf(word) = n
               /\ PriorityOf(word) = p
               /\ IsOneTime(word) <=> j \in OneTimeJobs
<1> DEFINE o == IF j \in OneTimeJobs THEN 1 ELSE 0
           word == n + p * CountRange + 4 * o * CountRange
<1>1. CountRange \in Nat /\ CountRange >= 2 /\ WordRange = 8 * CountRange /\ o \in {0, 1}
  BY CountRangeAssumption DEF WordRange
<1>2. word \in 0 .. WordRange - 1
  <2>1. n + p * CountRange <= 4 * CountRange - 1 /\ n + p * CountRange >= 0
    BY <1>1
  <2>2. 4 * o * CountRange \in {0, 4 * CountRange}
    BY <1>1
  <2> QED BY <1>1, <2>1, <2>2
<1>3. Word(j, n, p) = word
  <2>1. n + p * CountRange + (IF j \in OneTimeJobs THEN 4 * CountRange ELSE 0) = word
    BY <1>1
  <2> QED BY <1>1, <1>2, <2>1 DEF Word, Wrap
<1>4. word = (p + 4 * o) * CountRange + n /\ p + 4 * o \in Nat
  BY <1>1
<1>5. word % CountRange = n /\ word \div CountRange = p + 4 * o
  BY <1>1, <1>4, Division
<1>6. (p + 4 * o) % 4 = p
  BY <1>1
<1>7. word \div (4 * CountRange) = o
  <2>1. word = o * (4 * CountRange) + (n + p * CountRange)
    BY <1>1
  <2>2. n + p * CountRange \in 0 .. 4 * CountRange - 1 /\ 4 * CountRange \in Nat /\ 4 * CountRange >= 2
    BY <1>1
  <2> QED BY <1>1, <2>1, <2>2, Division
<1> HIDE DEF word
<1>8. CountOf(word) = n /\ PriorityOf(word) = p /\ (IsOneTime(word) <=> j \in OneTimeJobs)
  BY <1>5, <1>6, <1>7 DEF CountOf, PriorityOf, IsOneTime
<1>9. word = n + p * CountRange + (IF j \in OneTimeJobs THEN 4 * CountRange ELSE 0)
  BY <1>1 DEF word
<1> QED BY <1>2, <1>3, <1>8, <1>9

\* What the operations do to it.
LEMMA WordSteps ==
    ASSUME NEW j \in Jobs, NEW n \in 0 .. CountRange - 1, NEW p \in 0 .. 3
    PROVE  /\ Incremented(Word(j, n, p)) = Word(j, n + 1, p)
           /\ Decremented(Word(j, n + 1, p)) = Word(j, n, p)
           /\ \A q \in 0 .. 3 : WithPriority(Word(j, n, p), q) = Word(j, n, q)
<1> DEFINE high == IF j \in OneTimeJobs THEN 4 * CountRange ELSE 0
           word == n + p * CountRange + high
<1>1. CountRange \in Nat /\ CountRange >= 2 /\ WordRange = 8 * CountRange /\ high \in {0, 4 * CountRange}
  BY CountRangeAssumption DEF WordRange
<1>2. Word(j, n, p) = word /\ word \in 0 .. WordRange - 1 /\ PriorityOf(word) = p
  BY Fields
<1>3. n + 1 + p * CountRange + high = word + 1 /\ word + 1 \in 1 .. WordRange
  BY <1>1, <1>2
<1>4. Word(j, n + 1, p) = Wrap(word + 1)
  BY <1>3 DEF Word
<1>5. Wrap(word) = word
  BY <1>1, <1>2 DEF Wrap
<1>6. Incremented(word) = Wrap(word + 1) /\ Decremented(Wrap(word + 1)) = word
  <2> HIDE DEF word
  <2>1. (word + 1) - 1 = word /\ word + 1 \in 0 .. WordRange /\ word + 1 > 0
    BY <1>1, <1>2
  <2> QED BY <1>5, <2>1, Wraps DEF Incremented
<1>7. ASSUME NEW q \in 0 .. 3 PROVE WithPriority(word, q) = Word(j, n, q)
  <2>1. Word(j, n, q) = n + q * CountRange + high
    BY Fields
  <2>2. WithPriority(word, q) = word - p * CountRange + q * CountRange
    BY <1>2 DEF WithPriority
  <2>3. p * CountRange \in Int /\ q * CountRange \in Int
    BY <1>1
  <2> QED BY <1>1, <2>1, <2>2, <2>3
<1> QED BY <1>2, <1>4, <1>6, <1>7

LEMMA WordTyped ==
    ASSUME NEW j \in Jobs, NEW n \in 0 .. CountRange, NEW p \in 0 .. 3
    PROVE  Word(j, n, p) \in 0 .. WordRange - 1
<1>1. CountRange \in Nat /\ CountRange >= 2 /\ WordRange = 8 * CountRange
  BY CountRangeAssumption DEF WordRange
<1>2. n + p * CountRange + (IF j \in OneTimeJobs THEN 4 * CountRange ELSE 0) \in 0 .. WordRange
  <2>1. n + p * CountRange \in 0 .. 4 * CountRange
    BY <1>1
  <2> QED BY <1>1, <2>1
<1> QED BY <1>2, Wraps DEF Word

\* A word keeps its width, also one with the bits of a carry in its priority.
LEMMA WordsTyped ==
    ASSUME NEW word \in 0 .. WordRange - 1
    PROVE  /\ Incremented(word) \in 0 .. WordRange - 1
           /\ Decremented(word) \in 0 .. WordRange - 1
           /\ \A p \in 0 .. 3 : WithPriority(word, p) \in 0 .. WordRange - 1
<1>1. CountRange \in Nat /\ CountRange >= 2 /\ WordRange \in Nat /\ WordRange = 8 * CountRange
  BY CountRangeAssumption DEF WordRange
<1>2. Incremented(word) \in 0 .. WordRange - 1 /\ Decremented(word) \in 0 .. WordRange - 1
  BY <1>1 DEF Incremented, Decremented
<1>3. ASSUME NEW p \in 0 .. 3 PROVE WithPriority(word, p) \in 0 .. WordRange - 1
  <2>1. \A C, w, x, y, z, u \in Int : w = (x + y) * C + u => w - y * C + z * C = (x + z) * C + u
    OBVIOUS
  <2>2. \A k \in 0 .. 7 : \A u \in 0 .. CountRange - 1 : k * CountRange + u \in 0 .. WordRange - 1
    BY <1>1
  <2>3. PICK q \in 0 .. 7 : q = word \div CountRange
    BY <1>1
  <2>4. PICK c \in 0 .. CountRange - 1 : word = q * CountRange + c
    BY <1>1, <2>3
  <2>5. \A k \in 0 .. 7 : k % 4 \in 0 .. 3 /\ (k - (k % 4) = 0 \/ k - (k % 4) = 4)
    OBVIOUS
  <2>6. PICK r \in 0 .. 3, b \in {0, 4} : r = q % 4 /\ q = b + r
    BY <2>5
  <2>7. word = (b + r) * CountRange + c
    BY <2>4, <2>6, Zenon
  <2>8. word - r * CountRange + p * CountRange = (b + p) * CountRange + c
    BY <1>1, <2>1, <2>7
  <2>9. (b + p) * CountRange + c \in 0 .. WordRange - 1
    BY <2>2
  <2>10. WithPriority(word, p) = word - r * CountRange + p * CountRange
    BY <2>3, <2>6 DEF WithPriority, PriorityOf
  <2> QED BY <2>8, <2>9, <2>10
<1> QED BY <1>2, <1>3

-----------------------------------------------------------------------------
(* Stacks.                                                                 *)

Place(t) == <<t, Len(calls[t])>>
Above(t) == <<t, Len(calls[t]) + 1>>

\* The call a step leaves in a place of the present stacks.
FrameAfter(x) == calls'[x[1]][x[2]]

CallsTyped == calls \in [Threads -> Seq(FrameType)]

LEMMA FramesTyped ==
    ASSUME CallsTyped
    PROVE  /\ \A x \in Frames : /\ x = <<x[1], x[2]>> /\ x[1] \in Threads /\ x[2] \in 1 .. Len(calls[x[1]])
                                /\ x[2] \in Nat /\ x[2] >= 1 /\ FrameAt(x) \in FrameType
           /\ \A t \in Threads : Idle(t) => \A x \in Frames : x[1] # t
           /\ \A t \in Threads : ~Idle(t) =>
                Place(t) \in Frames /\ FrameAt(Place(t)) = Top(t) /\ Top(t) \in FrameType /\ Above(t) \notin Frames
<1>1. ASSUME NEW t \in Threads
      PROVE  /\ calls[t] \in Seq(FrameType) /\ Len(calls[t]) \in Nat /\ DOMAIN calls[t] = 1 .. Len(calls[t])
             /\ \A i \in 1 .. Len(calls[t]) : calls[t][i] \in FrameType
  BY LenProperties, ElementOfSeq DEF CallsTyped
<1>2. ASSUME NEW x \in Frames
      PROVE  /\ x = <<x[1], x[2]>> /\ x[1] \in Threads /\ x[2] \in 1 .. Len(calls[x[1]])
             /\ x[2] \in Nat /\ x[2] >= 1 /\ FrameAt(x) \in FrameType
  BY <1>1 DEF Frames, FrameAt
<1>3. ASSUME NEW t \in Threads, Idle(t), NEW x \in Frames PROVE x[1] # t
  <2>1. Len(calls[t]) = 0
    BY <1>3, EmptySeq DEF Idle
  <2> QED BY <1>2, <2>1
<1>4. ASSUME NEW t \in Threads, ~Idle(t)
      PROVE  Place(t) \in Frames /\ FrameAt(Place(t)) = Top(t) /\ Top(t) \in FrameType /\ Above(t) \notin Frames
  <2>1. Len(calls[t]) > 0
    BY <1>1, <1>4, EmptySeq DEF Idle
  <2>2. Top(t) = calls[t][Len(calls[t])]
    BY DEF Top, Last
  <2> QED BY <1>1, <1>4, <2>1, <2>2 DEF Frames, FrameAt, Place, Above
<1> QED BY <1>2, <1>3, <1>4

\* What a step does to the stacks: the places of K are as before, those of N are
\* new or have a new call.
Rearranged(K, N) ==
    /\ CallsTyped'
    /\ K \subseteq Frames /\ Frames' = K \cup N
    /\ \A x \in K : FrameAfter(x) = FrameAt(x) /\ (x[2] > 1 => Below(x) \in K)

LEMMA Moved ==
    ASSUME CallsTyped, NEW t \in Threads, NEW n \in 0 .. Len(calls[t]),
           NEW s \in Seq(FrameType), n <= Len(s), \A i \in 1 .. n : s[i] = calls[t][i],
           calls' = [calls EXCEPT ![t] = s]
    PROVE  /\ Rearranged({x \in Frames : x[1] = t => x[2] <= n}, {<<t, i>> : i \in n + 1 .. Len(s)})
           /\ \A i \in n + 1 .. Len(s) : FrameAfter(<<t, i>>) = s[i]
<1> DEFINE K == {x \in Frames : x[1] = t => x[2] <= n}
           N == {<<t, i>> : i \in n + 1 .. Len(s)}
<1>1. /\ Len(s) \in Nat /\ DOMAIN s = 1 .. Len(s)
      /\ \A u \in Threads : Len(calls[u]) \in Nat /\ DOMAIN calls[u] = 1 .. Len(calls[u])
  BY LenProperties DEF CallsTyped
<1>2. /\ calls'[t] = s /\ \A u \in Threads \ {t} : calls'[u] = calls[u]
      /\ CallsTyped'
  BY DEF CallsTyped
<1>3. ASSUME NEW x \in K PROVE x \in Frames' /\ FrameAfter(x) = FrameAt(x)
  <2>1. x \in Frames /\ x[1] \in Threads /\ x \in Threads \X Nat /\ x[2] \in 1 .. Len(calls[x[1]])
    BY FramesTyped DEF Frames
  <2>2. CASE x[1] = t
    <3>1. x[2] \in 1 .. n /\ x[2] \in DOMAIN s
      BY <1>1, <2>1, <2>2
    <3> QED BY <1>2, <2>1, <2>2, <3>1 DEF Frames, FrameAt, FrameAfter
  <2>3. CASE x[1] # t
    BY <1>2, <2>1, <2>3 DEF Frames, FrameAt, FrameAfter
  <2> QED BY <2>2, <2>3
<1>4. ASSUME NEW x \in K, x[2] > 1 PROVE Below(x) \in K
  <2>1. x[1] \in Threads /\ x[2] \in 1 .. Len(calls[x[1]])
    BY FramesTyped
  <2>2. x[2] - 1 \in 1 .. Len(calls[x[1]])
    BY <1>1, <1>4, <2>1
  <2>3. Below(x) \in Frames
    BY <1>1, <2>1, <2>2 DEF Frames, Below
  <2>4. x[1] = t => x[2] - 1 <= n
    BY <2>1
  <2> QED BY <2>3, <2>4 DEF Below
<1>5. ASSUME NEW i \in n + 1 .. Len(s) PROVE <<t, i>> \in Frames' /\ FrameAfter(<<t, i>>) = s[i]
  <2>1. i \in DOMAIN s /\ i \in Nat
    BY <1>1
  <2> QED BY <1>2, <2>1 DEF Frames, FrameAfter
<1>6. ASSUME NEW x \in Frames' PROVE x \in K \cup N
  <2>1. x \in Threads \X Nat /\ x = <<x[1], x[2]>> /\ x[2] \in DOMAIN calls'[x[1]]
    BY <1>6 DEF Frames
  <2>2. CASE x[1] # t
    BY <1>2, <2>1, <2>2 DEF Frames
  <2>3. CASE x[1] = t /\ x[2] <= n
    <3>1. x[2] \in DOMAIN calls[t]
      BY <1>1, <1>2, <2>1, <2>3
    <3> QED BY <2>1, <2>3, <3>1 DEF Frames
  <2>4. CASE x[1] = t /\ ~(x[2] <= n)
    <3>1. x[2] \in n + 1 .. Len(s)
      BY <1>1, <1>2, <2>1, <2>4
    <3> QED BY <2>1, <2>4, <3>1
  <2> QED BY <2>2, <2>3, <2>4
<1>7. Frames' = K \cup N
  BY <1>3, <1>5, <1>6
<1> HIDE DEF K, N
<1>8. Rearranged(K, N)
  <2>1. K \subseteq Frames
    BY DEF K
  <2> QED BY <1>2, <1>3, <1>4, <1>7, <2>1 DEF Rearranged
<1> QED BY <1>5, <1>8 DEF K, N

LEMMA FrontOf ==
    ASSUME NEW s \in Seq(FrameType), s # <<>>
    PROVE  /\ Front(s) \in Seq(FrameType) /\ Len(Front(s)) = Len(s) - 1 /\ Len(s) \in Nat /\ Len(s) > 0
           /\ \A i \in 1 .. Len(s) - 1 : Front(s)[i] = s[i]
<1>1. Len(s) \in Nat /\ Len(s) > 0 /\ \A i \in 1 .. Len(s) : s[i] \in FrameType
  BY LenProperties, EmptySeq, ElementOfSeq
<1>2. 1 \in Int /\ Len(s) - 1 \in Int /\ \A i \in 1 .. Len(s) - 1 : s[i] \in FrameType
  BY <1>1
<1> DEFINE n == Len(s) - 1
<1>3. n \in Int /\ \A i \in 1 .. n : s[i] \in FrameType
  BY <1>2
<1>6. n \in Nat
  BY <1>1
<1> HIDE DEF n
<1>4. /\ SubSeq(s, 1, n) \in Seq(FrameType)
      /\ Len(SubSeq(s, 1, n)) = IF 1 <= n THEN n - 1 + 1 ELSE 0
      /\ \A i \in 1 .. n - 1 + 1 : SubSeq(s, 1, n)[i] = s[1 + i - 1]
  BY <1>3, SubSeqProperties
<1>5. /\ SubSeq(s, 1, n) \in Seq(FrameType) /\ Len(SubSeq(s, 1, n)) = n
      /\ \A i \in 1 .. n : SubSeq(s, 1, n)[i] = s[i]
  BY <1>4, <1>6
<1> QED BY <1>1, <1>5 DEF Front, n

\* A call a thread makes when it is in no other.
LEMMA Pushed ==
    ASSUME CallsTyped, NEW t \in Threads, Idle(t), NEW f \in FrameType, Push(t, f)
    PROVE  Rearranged(Frames, {<<t, 1>>}) /\ <<t, 1>> \notin Frames /\ FrameAfter(<<t, 1>>) = f
<1> DEFINE s == Append(calls[t], f)
<1>1. calls[t] \in Seq(FrameType) /\ Len(calls[t]) = 0
  BY EmptySeq DEF CallsTyped, Idle
<1>2. s \in Seq(FrameType) /\ Len(s) = 1 /\ s[1] = f
  BY <1>1, AppendProperties
<1>3. calls' = [calls EXCEPT ![t] = s]
  BY DEF Push
<1> HIDE DEF s
<1>4. 0 \in 0 .. Len(calls[t]) /\ 0 <= Len(s) /\ \A i \in 1 .. 0 : s[i] = calls[t][i]
  BY <1>1, <1>2
<1>5. /\ Rearranged({x \in Frames : x[1] = t => x[2] <= 0}, {<<t, i>> : i \in 0 + 1 .. Len(s)})
      /\ \A i \in 0 + 1 .. Len(s) : FrameAfter(<<t, i>>) = s[i]
  BY <1>2, <1>3, <1>4, Moved
<1>6. \A x \in Frames : x[1] # t
  BY FramesTyped
<1>7. {x \in Frames : x[1] = t => x[2] <= 0} = Frames
  BY <1>6
<1>8. {<<t, i>> : i \in 0 + 1 .. Len(s)} = {<<t, 1>>}
  BY <1>2
<1>9. FrameAfter(<<t, 1>>) = f
  BY <1>2, <1>5
<1> QED BY <1>5, <1>6, <1>7, <1>8, <1>9

\* A call replaced by those of q: what Return, Replace and Signal do.
LEMMA Changed ==
    ASSUME CallsTyped, NEW t \in Threads, ~Idle(t), NEW q \in Seq(FrameType),
           calls' = [calls EXCEPT ![t] = Front(@) \o q]
    PROVE  /\ Rearranged(Frames \ {Place(t)}, {<<t, Len(calls[t]) - 1 + i>> : i \in 1 .. Len(q)})
           /\ \A i \in 1 .. Len(q) : FrameAfter(<<t, Len(calls[t]) - 1 + i>>) = q[i]
<1> DEFINE n == Len(calls[t]) - 1
           s == Front(calls[t]) \o q
<1>1. /\ calls[t] \in Seq(FrameType) /\ Len(calls[t]) \in Nat /\ Len(calls[t]) > 0
      /\ Front(calls[t]) \in Seq(FrameType) /\ Len(Front(calls[t])) = n
      /\ \A i \in 1 .. n : Front(calls[t])[i] = calls[t][i]
  BY FrontOf DEF CallsTyped, Idle
<1>2. Len(q) \in Nat /\ n \in Nat /\ n \in 0 .. Len(calls[t])
  BY <1>1, LenProperties
<1>3. /\ s \in Seq(FrameType) /\ Len(s) = n + Len(q)
      /\ \A i \in 1 .. n + Len(q) : s[i] = IF i <= n THEN Front(calls[t])[i] ELSE q[i - n]
  <2> DEFINE r == Front(calls[t])
  <2>1. r \in Seq(FrameType) /\ Len(r) = n
    BY <1>1
  <2> HIDE DEF r, n
  <2>2. /\ r \o q \in Seq(FrameType) /\ Len(r \o q) = Len(r) + Len(q)
        /\ \A i \in 1 .. Len(r) + Len(q) : (r \o q)[i] = IF i <= Len(r) THEN r[i] ELSE q[i - Len(r)]
    BY <2>1, ConcatProperties
  <2> QED BY <2>1, <2>2 DEF r
<1>4. calls' = [calls EXCEPT ![t] = s]
  OBVIOUS
<1> HIDE DEF s
<1>5. n <= Len(s) /\ \A i \in 1 .. n : s[i] = calls[t][i]
  <2> HIDE DEF n
  <2> QED BY <1>1, <1>2, <1>3
<1>6. \A i \in 1 .. Len(q) : n + i \in n + 1 .. Len(s) /\ s[n + i] = q[i]
  <2> SUFFICES ASSUME NEW i \in 1 .. Len(q) PROVE n + i \in n + 1 .. Len(s) /\ s[n + i] = q[i]
    OBVIOUS
  <2> HIDE DEF n
  <2> DEFINE k == n + i
  <2>1. k \in n + 1 .. n + Len(q) /\ k \in 1 .. n + Len(q) /\ ~(k <= n) /\ k - n = i
    BY <1>2
  <2> HIDE DEF k
  <2>2. k \in n + 1 .. Len(s) /\ s[k] = q[i]
    BY <1>3, <2>1
  <2> QED BY <2>2 DEF k
<1>7. /\ Rearranged({x \in Frames : x[1] = t => x[2] <= n}, {<<t, i>> : i \in n + 1 .. Len(s)})
      /\ \A i \in n + 1 .. Len(s) : FrameAfter(<<t, i>>) = s[i]
  <2> HIDE DEF n
  <2> QED BY <1>2, <1>3, <1>4, <1>5, Moved
<1>8. {x \in Frames : x[1] = t => x[2] <= n} = Frames \ {Place(t)}
  <2>1. \A x \in Frames : x[1] = t => (x[2] <= n <=> x # Place(t))
    <3> SUFFICES ASSUME NEW x \in Frames, x[1] = t PROVE x[2] <= n <=> x # Place(t)
      OBVIOUS
    <3>1. x = <<t, x[2]>> /\ x[2] \in 1 .. Len(calls[t])
      BY FramesTyped
    <3>2. x[2] <= n <=> x[2] # Len(calls[t])
      BY <1>1, <3>1
    <3> QED BY <3>1, <3>2 DEF Place
  <2>2. \A x \in Frames : x[1] # t => x # Place(t)
    BY DEF Place
  <2> QED BY <2>1, <2>2
<1>9. {<<t, i>> : i \in n + 1 .. Len(s)} = {<<t, n + i>> : i \in 1 .. Len(q)}
  <2> HIDE DEF n
  <2>1. \A i \in n + 1 .. Len(s) : i - n \in 1 .. Len(q) /\ n + (i - n) = i
    BY <1>2, <1>3
  <2> QED BY <1>6, <2>1
<1>10. \A i \in 1 .. Len(q) : FrameAfter(<<t, n + i>>) = q[i]
  <2> HIDE DEF n
  <2> QED BY <1>6, <1>7
<1> QED BY <1>7, <1>8, <1>9, <1>10

LEMMA Popped ==
    ASSUME CallsTyped, NEW t \in Threads, ~Idle(t), Return(t)
    PROVE  Rearranged(Frames \ {Place(t)}, {})
<1> DEFINE q == <<>>
<1>1. q \in Seq(FrameType) /\ Len(q) = 0
  BY EmptySeq
<1>2. Front(calls[t]) \o q = Front(calls[t])
  BY FrontOf, ConcatEmptySeq DEF CallsTyped, Idle
<1>3. calls' = [calls EXCEPT ![t] = Front(@) \o q]
  BY <1>2 DEF Return
<1> HIDE DEF q
<1>4. Rearranged(Frames \ {Place(t)}, {<<t, Len(calls[t]) - 1 + i>> : i \in 1 .. Len(q)})
  BY <1>1, <1>3, Changed
<1>5. {<<t, Len(calls[t]) - 1 + i>> : i \in 1 .. Len(q)} = {}
  BY <1>1
<1> QED BY <1>4, <1>5

LEMMA Replaced ==
    ASSUME CallsTyped, NEW t \in Threads, ~Idle(t), NEW f \in FrameType, Replace(t, f)
    PROVE  Rearranged(Frames \ {Place(t)}, {Place(t)}) /\ FrameAfter(Place(t)) = f
<1> DEFINE q == <<f>>
<1>1. q \in Seq(FrameType) /\ Len(q) = 1 /\ q[1] = f
  OBVIOUS
<1>2. Append(Front(calls[t]), f) = Front(calls[t]) \o q
  BY FrontOf, AppendIsConcat DEF CallsTyped, Idle
<1>3. calls' = [calls EXCEPT ![t] = Front(@) \o q]
  BY <1>2 DEF Replace
<1> HIDE DEF q
<1>4. /\ Rearranged(Frames \ {Place(t)}, {<<t, Len(calls[t]) - 1 + i>> : i \in 1 .. Len(q)})
      /\ \A i \in 1 .. Len(q) : FrameAfter(<<t, Len(calls[t]) - 1 + i>>) = q[i]
  BY <1>1, <1>3, Changed
<1>5. Len(calls[t]) \in Nat /\ Len(calls[t]) - 1 + 1 = Len(calls[t])
  BY LenProperties DEF CallsTyped
<1>6. {<<t, Len(calls[t]) - 1 + i>> : i \in 1 .. Len(q)} = {Place(t)}
  BY <1>1, <1>5 DEF Place
<1>7. FrameAfter(Place(t)) = f
  <2>1. FrameAfter(<<t, Len(calls[t]) - 1 + 1>>) = q[1]
    BY <1>1, <1>4
  <2> QED BY <1>1, <1>5, <2>1 DEF Place
<1> QED BY <1>4, <1>6, <1>7

LEMMA Nested ==
    ASSUME CallsTyped, NEW t \in Threads, ~Idle(t), NEW f \in FrameType, NEW g \in FrameType,
           calls' = [calls EXCEPT ![t] = Front(@) \o <<f, g>>]
    PROVE  /\ Rearranged(Frames \ {Place(t)}, {Place(t), Above(t)})
           /\ FrameAfter(Place(t)) = f /\ FrameAfter(Above(t)) = g
           /\ Above(t)[2] > 1 /\ Below(Above(t)) = Place(t) /\ Above(t) # Place(t)
<1> DEFINE q == <<f, g>>
<1>1. q \in Seq(FrameType) /\ Len(q) = 2 /\ q[1] = f /\ q[2] = g
  OBVIOUS
<1>3. calls' = [calls EXCEPT ![t] = Front(@) \o q]
  OBVIOUS
<1> HIDE DEF q
<1>4. /\ Rearranged(Frames \ {Place(t)}, {<<t, Len(calls[t]) - 1 + i>> : i \in 1 .. Len(q)})
      /\ \A i \in 1 .. Len(q) : FrameAfter(<<t, Len(calls[t]) - 1 + i>>) = q[i]
  BY <1>1, <1>3, Changed
<1>5. /\ Len(calls[t]) \in Nat /\ Len(calls[t]) - 1 + 1 = Len(calls[t]) /\ Len(calls[t]) > 0
      /\ Len(calls[t]) - 1 + 2 = Len(calls[t]) + 1
  BY FrontOf DEF CallsTyped, Idle
<1>6. {<<t, Len(calls[t]) - 1 + i>> : i \in 1 .. Len(q)} = {Place(t), Above(t)}
  BY <1>1, <1>5 DEF Place, Above
<1>7. FrameAfter(Place(t)) = f /\ FrameAfter(Above(t)) = g
  <2>1. FrameAfter(<<t, Len(calls[t]) - 1 + 1>>) = q[1] /\ FrameAfter(<<t, Len(calls[t]) - 1 + 2>>) = q[2]
    BY <1>1, <1>4
  <2> QED BY <1>1, <1>5, <2>1 DEF Place, Above
<1>8. Above(t)[2] > 1 /\ Below(Above(t)) = Place(t) /\ Above(t) # Place(t)
  BY <1>5 DEF Above, Below, Place
<1> QED BY <1>4, <1>6, <1>7, <1>8

-----------------------------------------------------------------------------
(* Types.                                                                  *)

LEMMA TypesOfCalls ==
    /\ TypeOK => CallsTyped
    /\ \A pc \in FramePc : \A j \in Jobs : Frame(pc, j) \in FrameType
    /\ \A a \in Attachments : a[1] \in Jobs /\ a[2] \in Jobs /\ <<"attach", a[1], a[2]>> \in AllCalls
    /\ \A a \in Priorities : a[1] \in Jobs /\ a[2] \in 0 .. 3 /\ <<"priority", a[1], a[2]>> \in AllCalls
    /\ \A j \in Jobs : <<"schedule", j>> \in AllCalls
    /\ \A t \in Clients \cup Workers : t \in Threads
<1>1. TypeOK => CallsTyped
  BY DEF TypeOK, CallsTyped, FrameType
<1>2. 0 \in 0 .. WordRange - 1
  <2>1. 0 \in 0 .. WordRange
    BY CountRangeAssumption DEF WordRange
  <2> QED BY <2>1, Wraps
<1>3. \A pc \in FramePc : \A j \in Jobs : Frame(pc, j) \in FrameType
  BY <1>2 DEF Frame, FrameType
<1>4. \A a \in Attachments : a[1] \in Jobs /\ a[2] \in Jobs
  BY JobsAssumption
<1>5. \A a \in Priorities : a[1] \in Jobs /\ a[2] \in 0 .. 3
  BY JobsAssumption
<1> QED BY <1>1, <1>3, <1>4, <1>5 DEF AllCalls, Threads

LEMMA InitialWord ==
    ASSUME NEW j \in Jobs
    PROVE  InitialFlags(j) = Word(j, 1, InitialPriority[j]) /\ InitialPriority[j] \in 0 .. 3
<1>1. 1 \in 0 .. CountRange - 1 /\ InitialPriority[j] \in 0 .. 3
  BY CountRangeAssumption, JobsAssumption
<1> QED BY <1>1, Fields DEF InitialFlags

LEMMA InitTyped == Init => TypeOK
<1> SUFFICES ASSUME Init PROVE TypeOK
  OBVIOUS
<1>1. \A j \in Jobs : InitialFlags(j) \in 0 .. WordRange - 1
  <2>1. 1 \in 0 .. CountRange
    BY CountRangeAssumption
  <2> QED BY <2>1, InitialWord, WordTyped
<1>2. calls \in [Threads -> Seq(FrameType)]
  BY EmptySeq DEF Init
<1>3. Operations \subseteq Jobs /\ waiting = {} /\ running = {} /\ finished = {}
  BY JobsAssumption DEF Init, Pool!PoolInit
<1> QED BY <1>1, <1>2, <1>3 DEF Init, TypeOK, FrameType

\* What a call that a thread returns to, or is in, may be.
LEMMA TopTyped ==
    ASSUME TypeOK, NEW t \in Threads, ~Idle(t)
    PROVE  /\ Top(t).job \in Jobs /\ Top(t).dep \in Jobs \cup {NoJob}
           /\ Top(t).oneTime \in BOOLEAN /\ Top(t).word \in 0 .. WordRange - 1 /\ Top(t).pc \in FramePc
           /\ flags[Top(t).job] \in 0 .. WordRange - 1
           /\ dependent[Top(t).job] \in Jobs \cup {NoJob}
<1>1. Top(t) \in FrameType
  BY FramesTyped, TypesOfCalls
<1> QED BY <1>1 DEF FrameType, TypeOK

LEMMA TypeStep == TypeOK /\ [Next]_vars => TypeOK'
<1> SUFFICES ASSUME TypeOK, [Next]_vars PROVE TypeOK'
  OBVIOUS
<1> USE DEF Threads
<1>0. CallsTyped /\ (CallsTyped' <=> calls' \in [Threads -> Seq(FrameType)])
  BY TypesOfCalls DEF CallsTyped
<1>1. ASSUME NEW t \in Clients, NEW c \in Jobs, NEW p \in Jobs, <<c, p>> \in Attachments, AttachParent(t, c, p)
      PROVE  TypeOK'
  <2>1. [Frame("count", c) EXCEPT !.dep = p] \in FrameType
    BY TypesOfCalls DEF FrameType, FramePc
  <2>2. CallsTyped'
    BY <1>0, <1>1, <2>1, Pushed DEF AttachParent, Make, Rearranged
  <2>3. <<"attach", c, p>> \in AllCalls
    BY <1>1 DEF AllCalls
  <2> QED BY <1>1, <1>0, <2>2, <2>3 DEF AttachParent, Make, Access, TypeOK, pool, FrameType
<1>2. ASSUME NEW t \in Threads, IncrementDependencyCount(t) PROVE TypeOK'
  <2>1. CallsTyped'
    BY <1>0, <1>2, Popped DEF IncrementDependencyCount, At, Rearranged
  <2>2. Top(t).job \in Jobs /\ Incremented(flags[Top(t).job]) \in 0 .. WordRange - 1
    BY <1>2, TopTyped, WordsTyped DEF IncrementDependencyCount, At
  <2> QED BY <1>2, <1>0, <2>1, <2>2 DEF IncrementDependencyCount, Access, TypeOK, pool, FrameType
<1>3. ASSUME NEW t \in Clients, NEW j \in Jobs, Schedule(t, j) \/ Await(t, j) PROVE TypeOK'
  <2>1. CallsTyped'
    BY <1>0, <1>3, TypesOfCalls, Pushed DEF Schedule, Await, Make, Rearranged, FramePc
  <2>2. <<"schedule", j>> \in AllCalls
    BY TypesOfCalls
  <2> QED BY <1>3, <1>0, <2>1, <2>2 DEF Schedule, Await, Make, Access, TypeOK, pool, history, FrameType
<1>4. ASSUME NEW t \in Clients, NEW j \in Jobs, RunOneTime(t, j) PROVE TypeOK'
  <2>2. <<"schedule", j>> \in AllCalls
    BY TypesOfCalls
  <2>3. CallsTyped' /\ submissions' \in [Jobs -> Nat]
    BY <1>0, <1>4 DEF RunOneTime, CallsTyped, TypeOK
  <2> QED BY <1>4, <1>0, <2>2, <2>3 DEF RunOneTime, Make, TypeOK, FrameType
<1>5. ASSUME NEW t \in Clients, NEW j \in Jobs, NEW p \in 0 .. 3, <<j, p>> \in Priorities, SetPriority(t, j, p)
      PROVE  TypeOK'
  <2>1. WithPriority(flags[j], p) \in 0 .. WordRange - 1
    BY WordsTyped DEF TypeOK
  <2>2. [Frame("store", j) EXCEPT !.word = WithPriority(flags[j], p)] \in FrameType
    BY <2>1, TypesOfCalls DEF FrameType, FramePc
  <2>3. CallsTyped'
    BY <1>0, <1>5, <2>2, Pushed DEF SetPriority, Make, Rearranged
  <2>4. <<"priority", j, p>> \in AllCalls
    BY <1>5 DEF AllCalls
  <2> QED BY <1>5, <1>0, <2>3, <2>4 DEF SetPriority, Make, Access, TypeOK, pool, FrameType
<1>6. ASSUME NEW t \in Threads, StoreFlags(t) PROVE TypeOK'
  <2>1. CallsTyped'
    BY <1>0, <1>6, Popped DEF StoreFlags, At, Rearranged
  <2>2. Top(t).job \in Jobs /\ Top(t).word \in 0 .. WordRange - 1
    BY <1>6, TopTyped DEF StoreFlags, At
  <2> QED BY <1>6, <1>0, <2>1, <2>2 DEF StoreFlags, Access, TypeOK, pool, FrameType
<1>7. ASSUME NEW t \in Threads, DecrementDependencyCount(t) PROVE TypeOK'
  <2> DEFINE j == Top(t).job
  <2>1. ~Idle(t) /\ j \in Jobs /\ Decremented(flags[j]) \in 0 .. WordRange - 1
    BY <1>7, TopTyped, WordsTyped DEF DecrementDependencyCount, At
  <2>2. Frame("capture", j) \in FrameType
    BY <2>1, TypesOfCalls DEF FramePc
  <2> HIDE DEF j
  <2>3. CallsTyped' /\ submissions' \in [Jobs -> Nat] /\ waiting' \subseteq Jobs /\ running' \subseteq Jobs /\ finished' \subseteq Jobs
    <3>1. CASE ReachedZero(Decremented(flags[j]))
      <4>1. ScheduleJob(t, j)
        BY <1>7, <3>1 DEF DecrementDependencyCount, j
      <4>2. CallsTyped'
        BY <1>0, <2>1, <2>2, <4>1, Popped, Replaced DEF ScheduleJob, Rearranged
      <4> QED BY <2>1, <4>1, <4>2 DEF ScheduleJob, TypeOK
    <3>2. CASE ~ReachedZero(Decremented(flags[j]))
      <4>1. Return(t) /\ UNCHANGED <<submissions, pool>>
        BY <1>7, <3>2 DEF DecrementDependencyCount, j
      <4> QED BY <1>0, <2>1, <4>1, Popped DEF Rearranged, TypeOK, pool
    <3> QED BY <3>1, <3>2
  <2>4. flags' = [flags EXCEPT ![j] = Decremented(flags[j])] /\ Access(j) /\ UNCHANGED <<dependent, bound, made, alive>>
    BY <1>7 DEF DecrementDependencyCount, j
  <2> QED BY <1>0, <2>1, <2>3, <2>4 DEF Access, TypeOK, FrameType
<1>8. ASSUME NEW t \in Workers, Take(t) PROVE TypeOK'
  <2>1. PICK j \in waiting : Pool!Take(j) /\ Push(t, Frame("capture", j))
    BY <1>8 DEF Take
  <2>2. CallsTyped'
    BY <1>0, <1>8, <2>1, TypesOfCalls, Pushed DEF Take, Rearranged, FramePc, TypeOK
  <2> QED BY <1>8, <1>0, <2>1, <2>2 DEF Take, Pool!Take, TypeOK, history, FrameType
<1>9. ASSUME NEW t \in Threads, Capture(t) PROVE TypeOK'
  <2> DEFINE j == Top(t).job
             f == [Frame("body", j) EXCEPT !.dep = dependent[j], !.oneTime = IsOneTime(flags[j])]
  <2>1. ~Idle(t) /\ j \in Jobs /\ dependent[j] \in Jobs \cup {NoJob} /\ IsOneTime(flags[j]) \in BOOLEAN
    BY <1>9, TopTyped DEF Capture, At, IsOneTime
  <2>2. f \in FrameType
    <3> DEFINE g == Frame("body", j)
    <3>1. g \in FrameType
      BY <2>1, TypesOfCalls DEF FramePc
    <3> HIDE DEF g, j
    <3>2. [g EXCEPT !.dep = dependent[j], !.oneTime = IsOneTime(flags[j])] \in FrameType
      BY <2>1, <3>1 DEF FrameType
    <3> QED BY <3>2 DEF g
  <2>3. CallsTyped'
    BY <1>0, <1>9, <2>1, <2>2, Replaced DEF Capture, Rearranged
  <2> QED BY <1>9, <1>0, <2>1, <2>3 DEF Capture, Access, TypeOK, pool, FrameType
<1>10. ASSUME NEW t \in Threads, Body(t) PROVE TypeOK'
  <2>1. ~Idle(t) /\ Top(t) \in FrameType
    BY <1>0, <1>10, FramesTyped DEF Body, At
  <2>2. [Top(t) EXCEPT !.pc = "signal"] \in FrameType
    BY <2>1 DEF FrameType, FramePc
  <2>3. CallsTyped'
    BY <1>0, <1>10, <2>1, <2>2, Replaced DEF Body, Rearranged
  <2> QED BY <1>10, <1>0, <2>3 DEF Body, TypeOK, pool, history, FrameType
<1>11. ASSUME NEW t \in Threads, Signal(t) PROVE TypeOK'
  <2> DEFINE tail == [Top(t) EXCEPT !.pc = "delete"]
  <2>1. ~Idle(t) /\ Top(t) \in FrameType /\ Top(t).dep \in Jobs \cup {NoJob}
    BY <1>0, <1>11, FramesTyped, TopTyped DEF Signal, At
  <2>2. tail \in FrameType
    BY <2>1 DEF FrameType, FramePc
  <2>3. Top(t).dep # NoJob => Frame("decrement", Top(t).dep) \in FrameType
    BY <2>1, TypesOfCalls DEF FramePc
  <2> HIDE DEF tail
  <2>4. CallsTyped'
    <3>1. CASE Top(t).dep = NoJob
      <4>1. calls' = [calls EXCEPT ![t] = Front(@) \o <<tail>>] /\ <<tail>> \in Seq(FrameType)
        BY <1>11, <2>2, <3>1 DEF Signal, tail
      <4> QED BY <1>0, <2>1, <4>1, Changed DEF Rearranged
    <3>2. CASE Top(t).dep # NoJob
      <4>1. calls' = [calls EXCEPT ![t] = Front(@) \o <<tail, Frame("decrement", Top(t).dep)>>]
        BY <1>11, <3>2 DEF Signal, tail
      <4> QED BY <1>0, <2>1, <2>2, <2>3, <3>2, <4>1, Nested DEF Rearranged
    <3> QED BY <3>1, <3>2
  <2> QED BY <1>11, <1>0, <2>4 DEF Signal, TypeOK, pool, history, FrameType
<1>12. ASSUME NEW t \in Threads, Delete(t) PROVE TypeOK'
  <2>1. CallsTyped' /\ Top(t).job \in Jobs
    BY <1>0, <1>12, Popped, TopTyped DEF Delete, At, Rearranged
  <2> QED BY <1>12, <1>0, <2>1 DEF Delete, Pool!Done, TypeOK, history, FrameType
<1>13. CASE UNCHANGED vars
  BY <1>13 DEF vars, pool, history, TypeOK
<1>14. ASSUME NEW t \in Clients, Call(t) PROVE TypeOK'
  <2>1. CASE \E a \in Attachments : AttachParent(t, a[1], a[2])
    <3>1. PICK a \in Attachments : AttachParent(t, a[1], a[2])
      BY <2>1
    <3>2. a[1] \in Jobs /\ a[2] \in Jobs /\ a = <<a[1], a[2]>>
      BY JobsAssumption
    <3> QED BY <1>1, <3>1, <3>2
  <2>2. CASE \E a \in Priorities : SetPriority(t, a[1], a[2])
    <3>1. PICK a \in Priorities : SetPriority(t, a[1], a[2])
      BY <2>2
    <3>2. a[1] \in Jobs /\ a[2] \in 0 .. 3 /\ a = <<a[1], a[2]>>
      BY JobsAssumption
    <3> QED BY <1>5, <3>1, <3>2
  <2>3. CASE \E j \in Jobs : Schedule(t, j) \/ Await(t, j) \/ RunOneTime(t, j)
    BY <1>3, <1>4, <2>3
  <2> QED BY <1>14, <2>1, <2>2, <2>3 DEF Call
<1> QED BY <1>2, <1>6, <1>7, <1>8, <1>9, <1>10, <1>11, <1>12, <1>13, <1>14 DEF Next, Step, ExecuteInternal, Terminated

\* The words of flags keep their width, the counter wraps within it: a dependency
\* count over the limit, or a SetPriority at the wrong time, spoils the other fields
\* of m_Flags and never leaves the type.
THEOREM TypeCorrect == Spec => []TypeOK
BY InitTyped, TypeStep, PTL DEF Spec

-----------------------------------------------------------------------------
(* What the invariant says of the calls and the jobs.                      *)

\* The clients' calls are different values.
LEMMA DifferentCalls ==
    ASSUME NEW a, NEW b, NEW c, NEW d, NEW e, NEW f, NEW g, NEW h
    PROVE  /\ <<"attach", a, b>> # <<"priority", c, d>>
           /\ <<"attach", a, b>> # <<"schedule", e>>
           /\ <<"priority", c, d>> # <<"schedule", e>>
           /\ <<"attach", a, b>> = <<"attach", g, h>> => a = g /\ b = h
           /\ <<"priority", a, b>> = <<"priority", g, h>> => a = g /\ b = h
           /\ <<"schedule", e>> = <<"schedule", f>> => e = f
<1>1. \A x, y : x = y => x[1] = y[1] /\ x[2] = y[2] /\ x[3] = y[3]
  OBVIOUS
<1>2. /\ <<"attach", a, b>>[1] = "attach" /\ <<"priority", c, d>>[1] = "priority" /\ <<"schedule", e>>[1] = "schedule"
      /\ <<"attach", a, b>>[2] = a /\ <<"attach", g, h>>[2] = g /\ <<"attach", a, b>>[3] = b /\ <<"attach", g, h>>[3] = h
      /\ <<"priority", a, b>>[2] = a /\ <<"priority", g, h>>[2] = g /\ <<"priority", a, b>>[3] = b /\ <<"priority", g, h>>[3] = h
      /\ <<"schedule", e>>[2] = e /\ <<"schedule", f>>[2] = f
  OBVIOUS
<1> QED BY <1>1, <1>2

LEMMA CallsMade ==
    ASSUME TypeOK
    PROVE  /\ \A c, p : AttachMade(c, p) => <<c, p>> \in Attachments /\ c \in Jobs /\ p \in Jobs /\ p \in Parents(c)
           /\ \A j, p : <<"priority", j, p>> \in made => <<j, p>> \in Priorities
<1>1. made \subseteq AllCalls
  BY DEF TypeOK
<1>2. ASSUME NEW c, NEW p, AttachMade(c, p)
      PROVE  <<c, p>> \in Attachments /\ c \in Jobs /\ p \in Jobs /\ p \in Parents(c)
  <2>1. <<"attach", c, p>> \in AllCalls
    BY <1>1, <1>2 DEF AttachMade
  <2>2. PICK a \in Attachments : <<"attach", c, p>> = <<"attach", a[1], a[2]>>
    BY <2>1, DifferentCalls DEF AllCalls
  <2>3. a \in Jobs \X Jobs
    BY JobsAssumption
  <2>4. c = a[1] /\ p = a[2] /\ a = <<a[1], a[2]>> /\ a[1] \in Jobs /\ a[2] \in Jobs
    BY <2>2, <2>3, DifferentCalls
  <2> QED BY <2>4 DEF Parents
<1>3. ASSUME NEW j, NEW p, <<"priority", j, p>> \in made PROVE <<j, p>> \in Priorities
  <2>1. <<"priority", j, p>> \in AllCalls
    BY <1>1, <1>3
  <2>2. PICK a \in Priorities : <<"priority", j, p>> = <<"priority", a[1], a[2]>>
    BY <2>1, DifferentCalls DEF AllCalls
  <2>3. a \in Jobs \X (0 .. 3)
    BY JobsAssumption
  <2>4. j = a[1] /\ p = a[2] /\ a = <<a[1], a[2]>>
    BY <2>2, <2>3, DifferentCalls
  <2> QED BY <2>4
<1> QED BY <1>2, <1>3

\* Only ExecuteInternal calls on, in its last part.
LEMMA OnTop ==
    ASSUME TypeOK, StacksOK
    PROVE  /\ \A x \in Frames : FrameAt(x).pc # "delete" => x = Place(x[1]) /\ ~Idle(x[1]) /\ FrameAt(x) = Top(x[1])
           /\ \A t \in Threads : ~Idle(t) => \A y \in Frames : y[2] > 1 => Below(y) # Place(t)
<1>1. CallsTyped
  BY TypesOfCalls
<1>2. ASSUME NEW x \in Frames, FrameAt(x).pc # "delete"
      PROVE  x = Place(x[1]) /\ ~Idle(x[1]) /\ FrameAt(x) = Top(x[1])
  <2>1. x = <<x[1], x[2]>> /\ x[1] \in Threads /\ x[2] \in 1 .. Len(calls[x[1]])
    BY <1>1, FramesTyped
  <2>2. ~Idle(x[1])
    BY <1>1, <2>1, FramesTyped
  <2>3. Len(calls[x[1]]) \in Nat /\ DOMAIN calls[x[1]] = 1 .. Len(calls[x[1]])
    BY <1>1, <2>1, LenProperties DEF CallsTyped
  <2>4. CASE x[2] # Len(calls[x[1]])
    <3> DEFINE y == <<x[1], x[2] + 1>>
    <3>1. y \in Frames /\ y[2] > 1 /\ Below(y) = x
      BY <2>1, <2>3, <2>4 DEF Frames, Below
    <3> QED BY <1>2, <3>1 DEF StacksOK
  <2> QED BY <1>1, <2>1, <2>2, <2>4, FramesTyped DEF Place
<1>3. ASSUME NEW t \in Threads, ~Idle(t), NEW y \in Frames, y[2] > 1, Below(y) = Place(t) PROVE FALSE
  <2>1. y = <<y[1], y[2]>> /\ y[2] \in 1 .. Len(calls[y[1]]) /\ y[1] \in Threads
    BY <1>1, FramesTyped
  <2>2. y[1] = t /\ y[2] - 1 = Len(calls[t])
    BY <1>3 DEF Below, Place
  <2> QED BY <1>1, <2>1, <2>2, LenProperties DEF CallsTyped
<1> QED BY <1>2, <1>3

LEMMA Facts ==
    ASSUME IInv
    PROVE  /\ \A p \in Jobs : Acting(p, Parts) => p \in running
           /\ \A p \in Jobs : p \in Submitted => Scheduled(p)
           /\ \A p \in Jobs : Signalled(p) => p \in Submitted /\ Scheduled(p)
           /\ \A c, p \in Jobs : Counting(c, p) => AttachMade(c, p) /\ ~Scheduled(c) /\ ~Scheduled(p)
           /\ \A j \in Jobs : Starting(j) => Scheduled(j) /\ j \in bound
           /\ \A j \in Jobs : Setting(j) => Untouched(j)
           /\ \A j \in Jobs : j \in alive \/ j \in Submitted
           /\ \A j \in Jobs : Untouched(j) => Owed(j) = {} /\ Count(j) = 1
<1> USE DEF IInv
<1>1. \A p \in Jobs : \A pcs : pcs \subseteq Parts /\ Acting(p, pcs) => p \in running
  BY DEF Acting, CallsOK, CallOK
<1>2. \A p \in Jobs : p \in Submitted => Scheduled(p)
  BY DEF SettledOK, Settled
<1>3. \A p \in Jobs : Signalled(p) => p \in Submitted /\ Scheduled(p)
  BY <1>1, <1>2 DEF Signalled, Submitted, Parts
<1>4. \A c, p \in Jobs : Counting(c, p) => AttachMade(c, p) /\ ~Scheduled(c) /\ ~Scheduled(p)
  BY DEF Counting, CallsOK, CallOK
<1>5. \A j \in Jobs : Starting(j) => Scheduled(j) /\ j \in bound
  BY DEF Starting, CallsOK, CallOK
<1>6. \A j \in Jobs : Setting(j) => Untouched(j)
  BY DEF Setting, CallsOK, CallOK
<1>7. \A j \in Jobs : j \in alive \/ j \in Submitted
  BY <1>1 DEF AliveOK, Submitted, Parts
<1>8. ASSUME NEW j \in Jobs, Untouched(j) PROVE Owed(j) = {} /\ Count(j) = 1
  <2>1. Owed(j) = {}
    BY <1>8 DEF Untouched, Owed, Owes, AttachMade, Parents
  <2>2. Cardinality(Owed(j)) = 0
    BY <2>1, FS_EmptySet
  <2> QED BY <1>8, <2>1, <2>2 DEF Count, Held, Untouched
<1> QED BY <1>1, <1>2, <1>3, <1>4, <1>5, <1>6, <1>7, <1>8

\* The counter stays within CountRange, which it reaches with all parents attached.
LEMMA Counts ==
    ASSUME Limits, NEW j \in Jobs, NEW S \in SUBSET Parents(j)
    PROVE  IsFiniteSet(S) /\ Cardinality(S) \in 0 .. CountRange - 1 /\ (Cardinality(S) = 0 <=> S = {})
<1>1. IsFiniteSet(Parents(j)) /\ Cardinality(Parents(j)) <= CountRange - 1
  BY DEF Limits, MaxDependencyCount
<1>2. IsFiniteSet(S) /\ Cardinality(S) <= Cardinality(Parents(j)) /\ Cardinality(S) \in Nat /\ Cardinality(Parents(j)) \in Nat
  BY <1>1, FS_Subset, FS_CardinalityType
<1> QED BY <1>1, <1>2, FS_EmptySet, CountRangeAssumption

LEMMA CountTyped ==
    ASSUME Limits, NEW j \in Jobs
    PROVE  /\ IsFiniteSet(Owed(j)) /\ Count(j) \in 0 .. CountRange
           /\ Count(j) = 0 <=> Owed(j) = {} /\ ~Held(j)
           /\ Owed(j) = {} => Count(j) \in 0 .. CountRange - 1
<1>1. Owed(j) \in SUBSET Parents(j)
  BY DEF Owed
<1>2. IsFiniteSet(Owed(j)) /\ Cardinality(Owed(j)) \in 0 .. CountRange - 1 /\ (Cardinality(Owed(j)) = 0 <=> Owed(j) = {})
  BY <1>1, Counts
<1> QED BY <1>2, CountRangeAssumption DEF Count

-----------------------------------------------------------------------------
(* What the jobs' calls are after a step on one thread.                    *)

LEMMA Views ==
    ASSUME NEW K, NEW N, Rearranged(K, N)
    PROVE  /\ \A j, pcs : Acting(j, pcs)' <=>
                \/ \E x \in K : FrameAt(x).pc \in pcs /\ FrameAt(x).job = j
                \/ \E x \in N : FrameAfter(x).pc \in pcs /\ FrameAfter(x).job = j
           /\ \A c, p : Counting(c, p)' <=>
                \/ \E x \in K : FrameAt(x).pc = "count" /\ FrameAt(x).job = c /\ FrameAt(x).dep = p
                \/ \E x \in N : FrameAfter(x).pc = "count" /\ FrameAfter(x).job = c /\ FrameAfter(x).dep = p
           /\ \A j : Setting(j)' <=>
                \/ \E x \in K : FrameAt(x).pc = "store" /\ FrameAt(x).job = j
                \/ \E x \in N : FrameAfter(x).pc = "store" /\ FrameAfter(x).job = j
           /\ \A j : Starting(j)' <=>
                \/ \E x \in K : x[2] = 1 /\ FrameAt(x).pc = "decrement" /\ FrameAt(x).job = j
                \/ \E x \in N : x[2] = 1 /\ FrameAfter(x).pc = "decrement" /\ FrameAfter(x).job = j
           /\ \A p : Signalling(p)' <=>
                \/ \E x \in K : x[2] > 1 /\ FrameAt(x).pc = "decrement" /\ FrameAt(Below(x)).job = p
                \/ \E x \in N : x[2] > 1 /\ FrameAfter(x).pc = "decrement" /\ FrameAfter(Below(x)).job = p
<1>1. Frames' = K \cup N /\ \A x \in K : FrameAfter(x) = FrameAt(x)
  BY DEF Rearranged
<1>2. \A x \in K : x[2] > 1 => FrameAfter(Below(x)) = FrameAt(Below(x))
  BY DEF Rearranged
<1>3. \A x : FrameAt(x)' = FrameAfter(x)
  BY DEF FrameAt, FrameAfter
<1>4. ASSUME NEW j, NEW pcs
      PROVE  Acting(j, pcs)' <=>
                \/ \E x \in K : FrameAt(x).pc \in pcs /\ FrameAt(x).job = j
                \/ \E x \in N : FrameAfter(x).pc \in pcs /\ FrameAfter(x).job = j
  <2>1. Acting(j, pcs)' <=> \E x \in Frames' : FrameAfter(x).pc \in pcs /\ FrameAfter(x).job = j
    BY DEF Acting, FrameAt, FrameAfter
  <2> QED BY <1>1, <2>1
<1>5. ASSUME NEW c, NEW p
      PROVE  Counting(c, p)' <=>
                \/ \E x \in K : FrameAt(x).pc = "count" /\ FrameAt(x).job = c /\ FrameAt(x).dep = p
                \/ \E x \in N : FrameAfter(x).pc = "count" /\ FrameAfter(x).job = c /\ FrameAfter(x).dep = p
  <2>1. Counting(c, p)' <=>
          \E x \in Frames' : FrameAfter(x).pc = "count" /\ FrameAfter(x).job = c /\ FrameAfter(x).dep = p
    BY DEF Counting, FrameAt, FrameAfter
  <2> QED BY <1>1, <2>1
<1>6. ASSUME NEW j
      PROVE  Setting(j)' <=>
                \/ \E x \in K : FrameAt(x).pc = "store" /\ FrameAt(x).job = j
                \/ \E x \in N : FrameAfter(x).pc = "store" /\ FrameAfter(x).job = j
  <2>1. Setting(j)' <=> \E x \in Frames' : FrameAfter(x).pc = "store" /\ FrameAfter(x).job = j
    BY DEF Setting, FrameAt, FrameAfter
  <2> QED BY <1>1, <2>1
<1>7. ASSUME NEW j
      PROVE  Starting(j)' <=>
                \/ \E x \in K : x[2] = 1 /\ FrameAt(x).pc = "decrement" /\ FrameAt(x).job = j
                \/ \E x \in N : x[2] = 1 /\ FrameAfter(x).pc = "decrement" /\ FrameAfter(x).job = j
  <2>1. Starting(j)' <=> \E x \in Frames' : x[2] = 1 /\ FrameAfter(x).pc = "decrement" /\ FrameAfter(x).job = j
    BY DEF Starting, FrameAt, FrameAfter
  <2> QED BY <1>1, <2>1
<1>8. ASSUME NEW p
      PROVE  Signalling(p)' <=>
                \/ \E x \in K : x[2] > 1 /\ FrameAt(x).pc = "decrement" /\ FrameAt(Below(x)).job = p
                \/ \E x \in N : x[2] > 1 /\ FrameAfter(x).pc = "decrement" /\ FrameAfter(Below(x)).job = p
  <2>1. Signalling(p)' <=>
          \E x \in Frames' : x[2] > 1 /\ FrameAfter(x).pc = "decrement" /\ FrameAfter(Below(x)).job = p
    BY DEF Signalling, FrameAt, FrameAfter
  <2> QED BY <1>1, <1>2, <2>1
<1> QED BY <1>4, <1>5, <1>6, <1>7, <1>8

\* The calls but the one on top of t.
LEMMA WithoutTop ==
    ASSUME IInv, NEW t \in Threads, ~Idle(t)
    PROVE  LET K == Frames \ {Place(t)}
               f == Top(t)
           IN  /\ \A j : \A pcs : pcs \subseteq Parts =>
                    ((\E x \in K : FrameAt(x).pc \in pcs /\ FrameAt(x).job = j)
                      <=> Acting(j, pcs) /\ ~(f.pc \in pcs /\ f.job = j))
               /\ \A c, p : (\E x \in K : FrameAt(x).pc = "count" /\ FrameAt(x).job = c /\ FrameAt(x).dep = p)
                      <=> Counting(c, p) /\ ~(f.pc = "count" /\ f.job = c /\ f.dep = p)
               /\ \A j : f.pc # "store" \/ f.job # j =>
                    ((\E x \in K : FrameAt(x).pc = "store" /\ FrameAt(x).job = j) <=> Setting(j))
               /\ \A j : (\E x \in K : x[2] = 1 /\ FrameAt(x).pc = "decrement" /\ FrameAt(x).job = j)
                      <=> Starting(j) /\ ~(f.pc = "decrement" /\ Place(t)[2] = 1 /\ f.job = j)
               /\ \A p : (\E x \in K : x[2] > 1 /\ FrameAt(x).pc = "decrement" /\ FrameAt(Below(x)).job = p)
                      <=> Signalling(p) /\ ~(f.pc = "decrement" /\ Place(t)[2] > 1 /\ FrameAt(Below(Place(t))).job = p)
<1> DEFINE x0 == Place(t)
           f == Top(t)
           K == Frames \ {x0}
<1>1. x0 \in Frames /\ FrameAt(x0) = f
  BY FramesTyped, TypesOfCalls DEF IInv
<1>2. \A x \in Frames : SameCall(x, x0) => x = x0
  BY <1>1 DEF IInv, OnceOK
<1> HIDE DEF x0, f
<1>3. ASSUME NEW j, NEW pcs, pcs \subseteq Parts
      PROVE  (\E x \in K : FrameAt(x).pc \in pcs /\ FrameAt(x).job = j) <=> Acting(j, pcs) /\ ~(f.pc \in pcs /\ f.job = j)
  BY <1>1, <1>2, <1>3 DEF Acting, SameCall
<1>4. ASSUME NEW c, NEW p
      PROVE  (\E x \in K : FrameAt(x).pc = "count" /\ FrameAt(x).job = c /\ FrameAt(x).dep = p)
               <=> Counting(c, p) /\ ~(f.pc = "count" /\ f.job = c /\ f.dep = p)
  BY <1>1, <1>2 DEF Counting, SameCall
<1>5. ASSUME NEW j, f.pc # "store" \/ f.job # j
      PROVE  (\E x \in K : FrameAt(x).pc = "store" /\ FrameAt(x).job = j) <=> Setting(j)
  BY <1>1, <1>5 DEF Setting
<1>6. ASSUME NEW j
      PROVE  (\E x \in K : x[2] = 1 /\ FrameAt(x).pc = "decrement" /\ FrameAt(x).job = j)
               <=> Starting(j) /\ ~(f.pc = "decrement" /\ x0[2] = 1 /\ f.job = j)
  BY <1>1, <1>2 DEF Starting, SameCall
<1>7. ASSUME NEW p
      PROVE  (\E x \in K : x[2] > 1 /\ FrameAt(x).pc = "decrement" /\ FrameAt(Below(x)).job = p)
               <=> Signalling(p) /\ ~(f.pc = "decrement" /\ x0[2] > 1 /\ FrameAt(Below(x0)).job = p)
  <2>1. ASSUME NEW x \in Frames, x[2] > 1, x0[2] > 1, FrameAt(Below(x)).job = FrameAt(Below(x0)).job PROVE x = x0
    <3>1. /\ Below(x) \in Frames /\ FrameAt(Below(x)).pc = "delete"
          /\ Below(x0) \in Frames /\ FrameAt(Below(x0)).pc = "delete"
      BY <1>1, <2>1 DEF IInv, StacksOK
    <3>2. SameCall(Below(x), Below(x0))
      BY <2>1, <3>1 DEF SameCall, Parts
    <3>3. Below(x) = Below(x0)
      BY <3>1, <3>2 DEF IInv, OnceOK
    <3>4. /\ x = <<x[1], x[2]>> /\ x0 = <<x0[1], x0[2]>> /\ x[2] \in Nat /\ x0[2] \in Nat
      BY <1>1, FramesTyped, TypesOfCalls DEF IInv
    <3>5. x[1] = x0[1] /\ x[2] - 1 = x0[2] - 1
      BY <3>3 DEF Below
    <3> QED BY <3>4, <3>5
  <2>2. ASSUME Signalling(p), ~(f.pc = "decrement" /\ x0[2] > 1 /\ FrameAt(Below(x0)).job = p)
        PROVE  \E x \in K : x[2] > 1 /\ FrameAt(x).pc = "decrement" /\ FrameAt(Below(x)).job = p
    BY <1>1, <2>2 DEF Signalling
  <2>3. ASSUME NEW x \in K, x[2] > 1, FrameAt(x).pc = "decrement", FrameAt(Below(x)).job = p
        PROVE  Signalling(p) /\ ~(f.pc = "decrement" /\ x0[2] > 1 /\ FrameAt(Below(x0)).job = p)
    BY <2>1, <2>3 DEF Signalling
  <2> QED BY <2>2, <2>3
<1> QED BY <1>3, <1>4, <1>5, <1>6, <1>7 DEF x0, f

\* Stacks and calls where some are kept and some are new.
LEMMA StacksStep ==
    ASSUME StacksOK, NEW K, NEW N, Rearranged(K, N),
           \A x \in N : x[2] > 1 =>
                /\ Below(x) \in Frames' /\ FrameAfter(Below(x)).pc = "delete"
                /\ FrameAfter(x).pc \in Parts \cup {"decrement"} /\ FrameAfter(x).job = FrameAfter(Below(x)).dep
    PROVE  StacksOK'
<1>1. K \subseteq Frames /\ Frames' = K \cup N /\ \A x \in K : FrameAfter(x) = FrameAt(x)
  BY DEF Rearranged
<1>2. \A x \in K : x[2] > 1 => Below(x) \in K
  BY DEF Rearranged
<1>3. ASSUME NEW x \in Frames', x[2] > 1
      PROVE  /\ Below(x) \in Frames' /\ FrameAfter(Below(x)).pc = "delete"
             /\ FrameAfter(x).pc \in Parts \cup {"decrement"} /\ FrameAfter(x).job = FrameAfter(Below(x)).dep
  <2>1. CASE x \in K
    <3>1. Below(x) \in K /\ Below(x) \in Frames' /\ x \in Frames
      BY <1>1, <1>2, <1>3, <2>1
    <3>2. FrameAfter(Below(x)) = FrameAt(Below(x)) /\ FrameAfter(x) = FrameAt(x)
      BY <1>1, <2>1, <3>1
    <3> QED BY <1>3, <3>1, <3>2 DEF StacksOK
  <2>2. CASE x \in N
    BY <1>3, <2>2
  <2> QED BY <1>1, <2>1, <2>2
<1>4. StacksOK' <=> \A x \in Frames' : x[2] > 1 =>
        /\ Below(x) \in Frames' /\ FrameAfter(Below(x)).pc = "delete"
        /\ FrameAfter(x).pc \in Parts \cup {"decrement"} /\ FrameAfter(x).job = FrameAfter(Below(x)).dep
  BY DEF StacksOK, FrameAt, FrameAfter
<1> QED BY <1>3, <1>4

SameAfter(x, y) ==
    LET f == FrameAfter(x)
        g == FrameAfter(y)
    IN  /\ f.job = g.job
        /\ \/ f.pc \in Parts /\ g.pc \in Parts
           \/ f.pc = "count" /\ g.pc = "count" /\ f.dep = g.dep
           \/ f.pc = "decrement" /\ g.pc = "decrement" /\ x[2] = 1 /\ y[2] = 1

LEMMA OnceStep ==
    ASSUME OnceOK, NEW K, NEW N, Rearranged(K, N),
           \A x \in N : \A y \in K : ~SameAfter(x, y),
           \A x \in N : \A y \in N : SameAfter(x, y) => x = y
    PROVE  OnceOK'
<1>1. K \subseteq Frames /\ Frames' = K \cup N /\ \A x \in K : FrameAfter(x) = FrameAt(x)
  BY DEF Rearranged
<1>2. \A x, y \in K : SameAfter(x, y) => x = y
  BY <1>1 DEF SameAfter, SameCall, OnceOK
<1>3. \A x, y : SameAfter(x, y) => SameAfter(y, x)
  BY DEF SameAfter
<1>4. \A x, y \in Frames' : SameAfter(x, y) => x = y
  BY <1>1, <1>2, <1>3
<1>5. OnceOK' <=> \A x, y \in Frames' : SameAfter(x, y) => x = y
  BY DEF OnceOK, SameCall, SameAfter, FrameAt, FrameAfter
<1> QED BY <1>4, <1>5

\* What CallOK says after a step.
ScheduledAfter(j) == <<"schedule", j>> \in made'
UntouchedAfter(j) == ~ScheduledAfter(j) /\ \A p \in Jobs : <<"attach", j, p>> \notin made'

LEMMA CallAfter ==
    ASSUME NEW x
    PROVE  LET f == FrameAfter(x)
           IN  CallOK(x)' <=>
                /\ f.pc = "count" =>
                    /\ x[1] \in Clients /\ f.dep \in Jobs /\ <<"attach", f.job, f.dep>> \in made'
                    /\ ~ScheduledAfter(f.dep) /\ ~ScheduledAfter(f.job)
                /\ f.pc = "store" =>
                    /\ x[1] \in Clients /\ UntouchedAfter(f.job)
                    /\ \E p \in 0 .. 3 : <<"priority", f.job, p>> \in made' /\ f.word = Word(f.job, 1, p)
                /\ f.pc = "decrement" /\ x[2] = 1 => ScheduledAfter(f.job) /\ f.job \in bound'
                /\ f.pc \in Parts => f.job \in running'
                /\ f.pc \in Parts \ {"capture"} => f.dep = dependent'[f.job] /\ (f.oneTime <=> f.job \in OneTimeJobs)
<1> DEFINE f == FrameAfter(x)
<1>1. FrameAt(x)' = f
  BY DEF FrameAt, FrameAfter
<1>2. /\ AttachMade(FrameAt(x).job, FrameAt(x).dep)' <=> <<"attach", f.job, f.dep>> \in made'
      /\ Scheduled(FrameAt(x).dep)' <=> ScheduledAfter(f.dep)
      /\ Scheduled(FrameAt(x).job)' <=> ScheduledAfter(f.job)
      /\ Untouched(FrameAt(x).job)' <=> UntouchedAfter(f.job)
  BY <1>1 DEF AttachMade, Scheduled, Untouched, ScheduledAfter, UntouchedAfter
<1> HIDE DEF f
<1> QED BY <1>1, <1>2 DEF CallOK, f

LEMMA CallsStep ==
    ASSUME CallsOK, NEW K, NEW N, Rearranged(K, N),
           made \subseteq made', bound \subseteq bound',
           \A x \in K : FrameAt(x).pc = "count" => ~ScheduledAfter(FrameAt(x).dep) /\ ~ScheduledAfter(FrameAt(x).job),
           \A x \in K : FrameAt(x).pc = "store" => UntouchedAfter(FrameAt(x).job),
           \A x \in K : FrameAt(x).pc \in Parts =>
                FrameAt(x).job \in running' /\ dependent'[FrameAt(x).job] = dependent[FrameAt(x).job],
           \A x \in N : CallOK(x)'
    PROVE  CallsOK'
<1>1. K \subseteq Frames /\ Frames' = K \cup N /\ \A x \in K : FrameAfter(x) = FrameAt(x)
  BY DEF Rearranged
<1>2. ASSUME NEW x \in K PROVE CallOK(x)'
  <2> DEFINE f == FrameAt(x)
  <2>1. CallOK(x) /\ FrameAfter(x) = f
    BY <1>1 DEF CallsOK
  <2>2. f.pc = "count" =>
            /\ x[1] \in Clients /\ f.dep \in Jobs /\ <<"attach", f.job, f.dep>> \in made'
            /\ ~ScheduledAfter(f.dep) /\ ~ScheduledAfter(f.job)
    BY <2>1 DEF CallOK, AttachMade
  <2>3. f.pc = "store" =>
            /\ x[1] \in Clients /\ UntouchedAfter(f.job)
            /\ \E p \in 0 .. 3 : <<"priority", f.job, p>> \in made' /\ f.word = Word(f.job, 1, p)
    BY <2>1 DEF CallOK
  <2>4. f.pc = "decrement" /\ x[2] = 1 => ScheduledAfter(f.job) /\ f.job \in bound'
    BY <2>1 DEF CallOK, Scheduled, ScheduledAfter
  <2>5. /\ f.pc \in Parts => f.job \in running'
        /\ f.pc \in Parts \ {"capture"} => f.dep = dependent'[f.job] /\ (f.oneTime <=> f.job \in OneTimeJobs)
    BY <2>1 DEF CallOK
  <2> HIDE DEF f
  <2> QED BY <2>1, <2>2, <2>3, <2>4, <2>5, CallAfter
<1>3. CallsOK' <=> \A x \in Frames' : CallOK(x)'
  BY DEF CallsOK
<1> QED BY <1>1, <1>2, <1>3

\* The steps of jobs that are scheduled change nothing the clients' calls rely on.
LEMMA CallsKept ==
    ASSUME CallsOK, NEW K, NEW N, Rearranged(K, N), UNCHANGED <<made, bound, dependent>>,
           \A x \in K : FrameAt(x).pc \in Parts => FrameAt(x).job \in running',
           \A x \in N : CallOK(x)'
    PROVE  CallsOK'
<1>1. K \subseteq Frames
  BY DEF Rearranged
<1>2. \A x \in K : FrameAt(x).pc = "count" => ~ScheduledAfter(FrameAt(x).dep) /\ ~ScheduledAfter(FrameAt(x).job)
  BY <1>1 DEF CallsOK, CallOK, Scheduled, ScheduledAfter
<1>3. \A x \in K : FrameAt(x).pc = "store" => UntouchedAfter(FrameAt(x).job)
  BY <1>1 DEF CallsOK, CallOK, Scheduled, ScheduledAfter, Untouched, UntouchedAfter
<1>4. \A x \in K : FrameAt(x).pc \in Parts =>
        FrameAt(x).job \in running' /\ dependent'[FrameAt(x).job] = dependent[FrameAt(x).job]
  OBVIOUS
<1> QED BY <1>2, <1>3, <1>4, CallsStep

-----------------------------------------------------------------------------
(* The three ways in which a step changes a stack.                         *)

LEMMA AfterPush ==
    ASSUME IInv, NEW t \in Threads, Idle(t), NEW f \in FrameType, Push(t, f),
           f.pc \in Parts => ~Acting(f.job, Parts),
           f.pc = "count" => ~Counting(f.job, f.dep),
           f.pc = "decrement" => ~Starting(f.job)
    PROVE  /\ Rearranged(Frames, {<<t, 1>>}) /\ FrameAfter(<<t, 1>>) = f
           /\ \A j, pcs : Acting(j, pcs)' <=> Acting(j, pcs) \/ (f.pc \in pcs /\ f.job = j)
           /\ \A c, p : Counting(c, p)' <=> Counting(c, p) \/ (f.pc = "count" /\ f.job = c /\ f.dep = p)
           /\ \A j : Setting(j)' <=> Setting(j) \/ (f.pc = "store" /\ f.job = j)
           /\ \A j : Starting(j)' <=> Starting(j) \/ (f.pc = "decrement" /\ f.job = j)
           /\ \A p : Signalling(p)' <=> Signalling(p)
           /\ StacksOK' /\ OnceOK'
<1> DEFINE x0 == <<t, 1>>
           N == {x0}
<1>1. Rearranged(Frames, N) /\ FrameAfter(x0) = f /\ x0[2] = 1
  BY Pushed, TypesOfCalls DEF IInv
<1> HIDE DEF x0
<1>2. \A x \in N : FrameAfter(x) = f /\ x[2] = 1
  BY <1>1
<1>3. x0 \in N
  OBVIOUS
<1> HIDE DEF N
<1>4. \A j, pcs : Acting(j, pcs)' <=> Acting(j, pcs) \/ (f.pc \in pcs /\ f.job = j)
  <2>1. \A j, pcs : Acting(j, pcs)' <=>
          \/ \E x \in Frames : FrameAt(x).pc \in pcs /\ FrameAt(x).job = j
          \/ \E x \in N : FrameAfter(x).pc \in pcs /\ FrameAfter(x).job = j
    BY <1>1, Views
  <2> QED BY <1>2, <1>3, <2>1 DEF Acting
<1>5. \A c, p : Counting(c, p)' <=> Counting(c, p) \/ (f.pc = "count" /\ f.job = c /\ f.dep = p)
  BY <1>1, <1>2, <1>3, Views DEF Counting
<1>6. \A j : Setting(j)' <=> Setting(j) \/ (f.pc = "store" /\ f.job = j)
  BY <1>1, <1>2, <1>3, Views DEF Setting
<1>7. \A j : Starting(j)' <=> Starting(j) \/ (f.pc = "decrement" /\ f.job = j)
  BY <1>1, <1>2, <1>3, Views DEF Starting
<1>8. \A p : Signalling(p)' <=> Signalling(p)
  <2>1. \A x \in N : ~(x[2] > 1)
    BY <1>2
  <2> QED BY <1>1, <2>1, Views DEF Signalling
<1>9. StacksOK'
  <2>1. \A x \in N : ~(x[2] > 1)
    BY <1>2
  <2> QED BY <1>1, <2>1, StacksStep DEF IInv
<1>10. OnceOK'
  <2>1. \A x \in Frames : FrameAfter(x) = FrameAt(x)
    BY <1>1 DEF Rearranged
  <2>2. \A x \in N : \A y \in Frames : ~SameAfter(x, y)
    BY <1>2, <2>1 DEF SameAfter, Acting, Counting, Starting
  <2>3. \A x \in N : \A y \in N : SameAfter(x, y) => x = y
    BY <1>3 DEF N
  <2> QED BY <1>1, <2>2, <2>3, OnceStep DEF IInv
<1> QED BY <1>1, <1>4, <1>5, <1>6, <1>7, <1>8, <1>9, <1>10 DEF N, x0

LEMMA AfterReturn ==
    ASSUME IInv, NEW t \in Threads, ~Idle(t), Return(t)
    PROVE  LET f == Top(t)
           IN  /\ Rearranged(Frames \ {Place(t)}, {})
               /\ \A j : \A pcs : pcs \subseteq Parts => (Acting(j, pcs)' <=> Acting(j, pcs) /\ ~(f.pc \in pcs /\ f.job = j))
               /\ \A c, p : Counting(c, p)' <=> Counting(c, p) /\ ~(f.pc = "count" /\ f.job = c /\ f.dep = p)
               /\ \A j : f.pc # "store" \/ f.job # j => (Setting(j)' <=> Setting(j))
               /\ \A j : Starting(j)' <=> Starting(j) /\ ~(f.pc = "decrement" /\ Place(t)[2] = 1 /\ f.job = j)
               /\ \A p : Signalling(p)' <=>
                    Signalling(p) /\ ~(f.pc = "decrement" /\ Place(t)[2] > 1 /\ FrameAt(Below(Place(t))).job = p)
               /\ StacksOK' /\ OnceOK'
<1> DEFINE f == Top(t)
           x0 == Place(t)
           K == Frames \ {x0}
           b == FrameAt(Below(x0))
<1>1. Rearranged(K, {})
  BY Popped, TypesOfCalls DEF IInv
<1>2. StacksOK' /\ OnceOK'
  <2> HIDE DEF x0, K
  <2> QED BY <1>1, StacksStep, OnceStep DEF IInv
<1>3. /\ \A j : \A pcs : pcs \subseteq Parts =>
            ((\E x \in K : FrameAt(x).pc \in pcs /\ FrameAt(x).job = j) <=> Acting(j, pcs) /\ ~(f.pc \in pcs /\ f.job = j))
      /\ \A c, p : (\E x \in K : FrameAt(x).pc = "count" /\ FrameAt(x).job = c /\ FrameAt(x).dep = p)
            <=> Counting(c, p) /\ ~(f.pc = "count" /\ f.job = c /\ f.dep = p)
      /\ \A j : f.pc # "store" \/ f.job # j =>
            ((\E x \in K : FrameAt(x).pc = "store" /\ FrameAt(x).job = j) <=> Setting(j))
      /\ \A j : (\E x \in K : x[2] = 1 /\ FrameAt(x).pc = "decrement" /\ FrameAt(x).job = j)
            <=> Starting(j) /\ ~(f.pc = "decrement" /\ x0[2] = 1 /\ f.job = j)
      /\ \A p : (\E x \in K : x[2] > 1 /\ FrameAt(x).pc = "decrement" /\ FrameAt(Below(x)).job = p)
            <=> Signalling(p) /\ ~(f.pc = "decrement" /\ x0[2] > 1 /\ b.job = p)
  BY WithoutTop
<1> HIDE DEF f, x0, K, b
<1> DEFINE N == {}
<1>4. Rearranged(K, N) /\ \A x \in N : FALSE
  BY <1>1
<1> HIDE DEF N
<1>5. \A j : \A pcs : pcs \subseteq Parts => (Acting(j, pcs)' <=> Acting(j, pcs) /\ ~(f.pc \in pcs /\ f.job = j))
  <2> SUFFICES ASSUME NEW j, NEW pcs, pcs \subseteq Parts
               PROVE  Acting(j, pcs)' <=> Acting(j, pcs) /\ ~(f.pc \in pcs /\ f.job = j)
    OBVIOUS
  <2>1. (\E x \in K : FrameAt(x).pc \in pcs /\ FrameAt(x).job = j) <=> Acting(j, pcs) /\ ~(f.pc \in pcs /\ f.job = j)
    BY <1>3
  <2>2. Acting(j, pcs)' <=>
          \/ \E x \in K : FrameAt(x).pc \in pcs /\ FrameAt(x).job = j
          \/ \E x \in N : FrameAfter(x).pc \in pcs /\ FrameAfter(x).job = j
    BY <1>4, Views
  <2> QED BY <1>4, <2>1, <2>2
<1>6. \A c, p : Counting(c, p)' <=> Counting(c, p) /\ ~(f.pc = "count" /\ f.job = c /\ f.dep = p)
  <2>1. \A c, p : Counting(c, p)' <=> \E x \in K : FrameAt(x).pc = "count" /\ FrameAt(x).job = c /\ FrameAt(x).dep = p
    BY <1>4, Views
  <2> QED BY <1>3, <2>1
<1>7. \A j : f.pc # "store" \/ f.job # j => (Setting(j)' <=> Setting(j))
  <2>1. \A j : Setting(j)' <=> \E x \in K : FrameAt(x).pc = "store" /\ FrameAt(x).job = j
    BY <1>4, Views
  <2> QED BY <1>3, <2>1
<1>8. \A j : Starting(j)' <=> Starting(j) /\ ~(f.pc = "decrement" /\ x0[2] = 1 /\ f.job = j)
  <2>1. \A j : Starting(j)' <=> \E x \in K : x[2] = 1 /\ FrameAt(x).pc = "decrement" /\ FrameAt(x).job = j
    BY <1>4, Views
  <2> QED BY <1>3, <2>1
<1>9. \A p : Signalling(p)' <=> Signalling(p) /\ ~(f.pc = "decrement" /\ x0[2] > 1 /\ b.job = p)
  <2>1. \A p : Signalling(p)' <=> \E x \in K : x[2] > 1 /\ FrameAt(x).pc = "decrement" /\ FrameAt(Below(x)).job = p
    BY <1>4, Views
  <2> QED BY <1>3, <2>1
<1> QED BY <1>1, <1>2, <1>5, <1>6, <1>7, <1>8, <1>9 DEF f, x0, K, b

LEMMA AfterReplace ==
    ASSUME IInv, NEW t \in Threads, ~Idle(t), NEW g \in FrameType, Replace(t, g), g.pc \in Parts, g.job = Top(t).job,
           Top(t).pc \in Parts \/ ~Acting(g.job, Parts)
    PROVE  LET f == Top(t)
           IN  /\ Rearranged(Frames \ {Place(t)}, {Place(t)}) /\ FrameAfter(Place(t)) = g
               /\ \A j : \A pcs : pcs \subseteq Parts =>
                    (Acting(j, pcs)' <=> (Acting(j, pcs) /\ ~(f.pc \in pcs /\ f.job = j)) \/ (g.pc \in pcs /\ g.job = j))
               /\ \A c, p : Counting(c, p)' <=> Counting(c, p) /\ ~(f.pc = "count" /\ f.job = c /\ f.dep = p)
               /\ \A j : f.pc # "store" \/ f.job # j => (Setting(j)' <=> Setting(j))
               /\ \A j : Starting(j)' <=> Starting(j) /\ ~(f.pc = "decrement" /\ Place(t)[2] = 1 /\ f.job = j)
               /\ \A p : Signalling(p)' <=>
                    Signalling(p) /\ ~(f.pc = "decrement" /\ Place(t)[2] > 1 /\ FrameAt(Below(Place(t))).job = p)
               /\ StacksOK' /\ OnceOK'
<1> DEFINE f == Top(t)
           x0 == Place(t)
           K == Frames \ {x0}
           N == {x0}
           b == FrameAt(Below(x0))
<1>1. Rearranged(K, N) /\ FrameAfter(x0) = g
  BY Replaced, TypesOfCalls DEF IInv
<1>2. x0 \in Frames /\ FrameAt(x0) = f
  BY FramesTyped, TypesOfCalls DEF IInv
<1>3. x0 \in N /\ \A x \in N : x = x0 /\ FrameAfter(x) = g
  BY <1>1
<1>4. /\ \A j : \A pcs : pcs \subseteq Parts =>
            ((\E x \in K : FrameAt(x).pc \in pcs /\ FrameAt(x).job = j) <=> Acting(j, pcs) /\ ~(f.pc \in pcs /\ f.job = j))
      /\ \A c, p : (\E x \in K : FrameAt(x).pc = "count" /\ FrameAt(x).job = c /\ FrameAt(x).dep = p)
            <=> Counting(c, p) /\ ~(f.pc = "count" /\ f.job = c /\ f.dep = p)
      /\ \A j : f.pc # "store" \/ f.job # j =>
            ((\E x \in K : FrameAt(x).pc = "store" /\ FrameAt(x).job = j) <=> Setting(j))
      /\ \A j : (\E x \in K : x[2] = 1 /\ FrameAt(x).pc = "decrement" /\ FrameAt(x).job = j)
            <=> Starting(j) /\ ~(f.pc = "decrement" /\ x0[2] = 1 /\ f.job = j)
      /\ \A p : (\E x \in K : x[2] > 1 /\ FrameAt(x).pc = "decrement" /\ FrameAt(Below(x)).job = p)
            <=> Signalling(p) /\ ~(f.pc = "decrement" /\ x0[2] > 1 /\ b.job = p)
  BY WithoutTop
<1>5. Parts \subseteq Parts /\ g.pc \notin {"count", "store", "decrement"}
  BY DEF Parts
<1>6. StacksOK'
  <2>1. ASSUME NEW x \in N, x[2] > 1
        PROVE  /\ Below(x) \in Frames' /\ FrameAfter(Below(x)).pc = "delete"
               /\ FrameAfter(x).pc \in Parts \cup {"decrement"} /\ FrameAfter(x).job = FrameAfter(Below(x)).dep
    <3>1. x = x0 /\ Below(x0) \in Frames /\ b.pc = "delete" /\ f.job = b.dep
      BY <1>2, <1>3, <2>1 DEF IInv, StacksOK
    <3>2. Below(x0) # x0
      <4>1. x0[2] \in Nat
        BY <1>2, FramesTyped, TypesOfCalls DEF IInv
      <4> HIDE DEF x0
      <4>2. Below(x0)[2] = x0[2] - 1
        BY DEF Below
      <4> QED BY <4>1, <4>2
    <3> HIDE DEF x0
    <3>3. Below(x0) \in K /\ Below(x0) \in Frames' /\ FrameAfter(Below(x0)) = b
      BY <1>1, <3>1, <3>2 DEF Rearranged
    <3> QED BY <1>3, <3>1, <3>3
  <2> HIDE DEF N, K
  <2> QED BY <1>1, <2>1, StacksStep DEF IInv
<1> HIDE DEF f, x0, K, b, N
<1>7. OnceOK'
  <2>1. \A x \in K : FrameAfter(x) = FrameAt(x)
    BY <1>1 DEF Rearranged
  <2>2. ~(\E x \in K : FrameAt(x).pc \in Parts /\ FrameAt(x).job = g.job)
    BY <1>4, <1>5 DEF f
  <2>3. \A x \in N : \A y \in K : ~SameAfter(x, y)
    BY <1>3, <1>5, <2>1, <2>2 DEF SameAfter
  <2>4. \A x \in N : \A y \in N : SameAfter(x, y) => x = y
    BY <1>3
  <2> QED BY <1>1, <2>3, <2>4, OnceStep DEF IInv
<1>8. /\ \A j : \A pcs : pcs \subseteq Parts =>
            (Acting(j, pcs)' <=> (Acting(j, pcs) /\ ~(f.pc \in pcs /\ f.job = j)) \/ (g.pc \in pcs /\ g.job = j))
      /\ \A c, p : Counting(c, p)' <=> Counting(c, p) /\ ~(f.pc = "count" /\ f.job = c /\ f.dep = p)
      /\ \A j : f.pc # "store" \/ f.job # j => (Setting(j)' <=> Setting(j))
      /\ \A j : Starting(j)' <=> Starting(j) /\ ~(f.pc = "decrement" /\ x0[2] = 1 /\ f.job = j)
      /\ \A p : Signalling(p)' <=> Signalling(p) /\ ~(f.pc = "decrement" /\ x0[2] > 1 /\ b.job = p)
  <2>1. \A j : \A pcs : pcs \subseteq Parts =>
            (Acting(j, pcs)' <=> (Acting(j, pcs) /\ ~(f.pc \in pcs /\ f.job = j)) \/ (g.pc \in pcs /\ g.job = j))
    BY <1>1, <1>3, <1>4, Views
  <2>2. \A c, p : Counting(c, p)' <=> Counting(c, p) /\ ~(f.pc = "count" /\ f.job = c /\ f.dep = p)
    BY <1>1, <1>3, <1>4, <1>5, Views
  <2>3. \A j : f.pc # "store" \/ f.job # j => (Setting(j)' <=> Setting(j))
    BY <1>1, <1>3, <1>4, <1>5, Views
  <2>4. \A j : Starting(j)' <=> Starting(j) /\ ~(f.pc = "decrement" /\ x0[2] = 1 /\ f.job = j)
    BY <1>1, <1>3, <1>4, <1>5, Views
  <2>5. \A p : Signalling(p)' <=> Signalling(p) /\ ~(f.pc = "decrement" /\ x0[2] > 1 /\ b.job = p)
    BY <1>1, <1>3, <1>4, <1>5, Views
  <2> QED BY <2>1, <2>2, <2>3, <2>4, <2>5
<1> QED BY <1>1, <1>6, <1>7, <1>8 DEF f, x0, K, N, b

\* Signal, when there is a dependent.
LEMMA AfterNested ==
    ASSUME IInv, NEW t \in Threads, ~Idle(t), NEW g \in FrameType, NEW h \in FrameType,
           calls' = [calls EXCEPT ![t] = Front(@) \o <<g, h>>], Top(t).pc \in Parts,
           g.pc = "delete", g.job = Top(t).job, g.dep = Top(t).dep, h.pc = "decrement", h.job = g.dep
    PROVE  LET f == Top(t)
           IN  /\ Rearranged(Frames \ {Place(t)}, {Place(t), Above(t)})
               /\ FrameAfter(Place(t)) = g /\ FrameAfter(Above(t)) = h /\ Above(t)[2] > 1
               /\ \A j : \A pcs : pcs \subseteq Parts =>
                    (Acting(j, pcs)' <=> (Acting(j, pcs) /\ ~(f.pc \in pcs /\ f.job = j)) \/ (g.pc \in pcs /\ g.job = j))
               /\ \A c, p : Counting(c, p)' <=> Counting(c, p)
               /\ \A j : Setting(j)' <=> Setting(j)
               /\ \A j : Starting(j)' <=> Starting(j)
               /\ \A p : Signalling(p)' <=> Signalling(p) \/ g.job = p
               /\ StacksOK' /\ OnceOK'
<1> DEFINE f == Top(t)
           x0 == Place(t)
           x1 == Above(t)
           K == Frames \ {x0}
           N == {x0, x1}
           b == FrameAt(Below(x0))
<1>1. /\ Rearranged(K, N) /\ FrameAfter(x0) = g /\ FrameAfter(x1) = h
      /\ x1[2] > 1 /\ Below(x1) = x0 /\ x1 # x0
  BY Nested, TypesOfCalls DEF IInv
<1>2. x0 \in Frames /\ FrameAt(x0) = f /\ x0[2] \in Nat
  BY FramesTyped, TypesOfCalls DEF IInv
<1>3. x0 \in N /\ x1 \in N /\ \A x \in N : x = x0 \/ x = x1
  OBVIOUS
<1>4. /\ \A j : \A pcs : pcs \subseteq Parts =>
            ((\E x \in K : FrameAt(x).pc \in pcs /\ FrameAt(x).job = j) <=> Acting(j, pcs) /\ ~(f.pc \in pcs /\ f.job = j))
      /\ \A c, p : (\E x \in K : FrameAt(x).pc = "count" /\ FrameAt(x).job = c /\ FrameAt(x).dep = p)
            <=> Counting(c, p) /\ ~(f.pc = "count" /\ f.job = c /\ f.dep = p)
      /\ \A j : f.pc # "store" \/ f.job # j =>
            ((\E x \in K : FrameAt(x).pc = "store" /\ FrameAt(x).job = j) <=> Setting(j))
      /\ \A j : (\E x \in K : x[2] = 1 /\ FrameAt(x).pc = "decrement" /\ FrameAt(x).job = j)
            <=> Starting(j) /\ ~(f.pc = "decrement" /\ x0[2] = 1 /\ f.job = j)
      /\ \A p : (\E x \in K : x[2] > 1 /\ FrameAt(x).pc = "decrement" /\ FrameAt(Below(x)).job = p)
            <=> Signalling(p) /\ ~(f.pc = "decrement" /\ x0[2] > 1 /\ b.job = p)
  BY WithoutTop
<1>5. Parts \subseteq Parts /\ f.pc \notin {"count", "store", "decrement"} /\ g.pc \in Parts /\ h.pc \notin Parts
  BY DEF Parts
<1>6. StacksOK'
  <2>1. ASSUME x0[2] > 1
        PROVE  /\ Below(x0) \in Frames' /\ FrameAfter(Below(x0)).pc = "delete"
               /\ g.pc \in Parts \cup {"decrement"} /\ g.job = FrameAfter(Below(x0)).dep
    <3>1. Below(x0) \in Frames /\ b.pc = "delete" /\ f.job = b.dep
      BY <1>2, <2>1 DEF IInv, StacksOK
    <3>2. Below(x0) # x0
      <4> HIDE DEF x0
      <4>2. Below(x0)[2] = x0[2] - 1
        BY DEF Below
      <4> QED BY <1>2, <4>2
    <3> HIDE DEF x0
    <3>3. Below(x0) \in K /\ Below(x0) \in Frames' /\ FrameAfter(Below(x0)) = b
      BY <1>1, <3>1, <3>2 DEF Rearranged
    <3> QED BY <1>5, <3>1, <3>3
  <2>2. x0 \in Frames'
    BY <1>1, <1>3 DEF Rearranged
  <2> HIDE DEF N, K, x0, x1
  <2>3. ASSUME NEW x \in N, x[2] > 1
        PROVE  /\ Below(x) \in Frames' /\ FrameAfter(Below(x)).pc = "delete"
               /\ FrameAfter(x).pc \in Parts \cup {"decrement"} /\ FrameAfter(x).job = FrameAfter(Below(x)).dep
    BY <1>1, <1>3, <2>1, <2>2, <2>3
  <2> QED BY <1>1, <2>3, StacksStep DEF IInv
<1> HIDE DEF f, x0, x1, K, b, N
<1>7. OnceOK'
  <2>1. \A x \in K : FrameAfter(x) = FrameAt(x)
    BY <1>1 DEF Rearranged
  <2>2. ~(\E x \in K : FrameAt(x).pc \in Parts /\ FrameAt(x).job = g.job)
    BY <1>4, <1>5 DEF f
  <2>3. \A y \in K : ~SameAfter(x0, y)
    BY <1>1, <1>5, <2>1, <2>2 DEF SameAfter
  <2>4. \A y \in K : ~SameAfter(x1, y)
    BY <1>1, <1>5, <2>1 DEF SameAfter
  <2>5. ~SameAfter(x0, x1) /\ ~SameAfter(x1, x0)
    BY <1>1, <1>5 DEF SameAfter
  <2>6. \A x \in N : \A y \in K : ~SameAfter(x, y)
    BY <1>3, <2>3, <2>4
  <2>7. \A x \in N : \A y \in N : SameAfter(x, y) => x = y
    BY <1>3, <2>5
  <2> QED BY <1>1, <2>6, <2>7, OnceStep DEF IInv
<1>8. \A j : \A pcs : pcs \subseteq Parts =>
            (Acting(j, pcs)' <=> (Acting(j, pcs) /\ ~(f.pc \in pcs /\ f.job = j)) \/ (g.pc \in pcs /\ g.job = j))
  <2> SUFFICES ASSUME NEW j, NEW pcs, pcs \subseteq Parts
               PROVE  Acting(j, pcs)' <=> (Acting(j, pcs) /\ ~(f.pc \in pcs /\ f.job = j)) \/ (g.pc \in pcs /\ g.job = j)
    OBVIOUS
  <2>1. Acting(j, pcs)' <=>
          \/ \E x \in K : FrameAt(x).pc \in pcs /\ FrameAt(x).job = j
          \/ \E x \in N : FrameAfter(x).pc \in pcs /\ FrameAfter(x).job = j
    BY <1>1, Views
  <2>2. h.pc \notin pcs
    BY <1>5
  <2>3. (\E x \in N : FrameAfter(x).pc \in pcs /\ FrameAfter(x).job = j) <=> g.pc \in pcs /\ g.job = j
    BY <1>1, <1>3, <2>2
  <2>4. (\E x \in K : FrameAt(x).pc \in pcs /\ FrameAt(x).job = j) <=> Acting(j, pcs) /\ ~(f.pc \in pcs /\ f.job = j)
    BY <1>4
  <2> QED BY <2>1, <2>3, <2>4
<1>9. \A c, p : Counting(c, p)' <=> Counting(c, p)
  <2>1. \A x \in N : FrameAfter(x).pc # "count"
    BY <1>1, <1>3
  <2>2. \A c, p : Counting(c, p)' <=> \E x \in K : FrameAt(x).pc = "count" /\ FrameAt(x).job = c /\ FrameAt(x).dep = p
    BY <1>1, <2>1, Views
  <2> QED BY <1>4, <1>5, <2>2
<1>10. \A j : Setting(j)' <=> Setting(j)
  <2>1. \A x \in N : FrameAfter(x).pc # "store"
    BY <1>1, <1>3
  <2>2. \A j : Setting(j)' <=> \E x \in K : FrameAt(x).pc = "store" /\ FrameAt(x).job = j
    BY <1>1, <2>1, Views
  <2> QED BY <1>4, <1>5, <2>2
<1>11. \A j : Starting(j)' <=> Starting(j)
  <2>1. \A x \in N : ~(x[2] = 1 /\ FrameAfter(x).pc = "decrement")
    BY <1>1, <1>3
  <2>2. \A j : Starting(j)' <=> \E x \in K : x[2] = 1 /\ FrameAt(x).pc = "decrement" /\ FrameAt(x).job = j
    BY <1>1, <2>1, Views
  <2> QED BY <1>4, <1>5, <2>2
<1>12. \A p : Signalling(p)' <=> Signalling(p) \/ g.job = p
  <2>1. \A p : (\E x \in N : x[2] > 1 /\ FrameAfter(x).pc = "decrement" /\ FrameAfter(Below(x)).job = p) <=> g.job = p
    BY <1>1, <1>3
  <2>2. \A p : Signalling(p)' <=>
          \/ \E x \in K : x[2] > 1 /\ FrameAt(x).pc = "decrement" /\ FrameAt(Below(x)).job = p
          \/ g.job = p
    BY SMTT(30), <1>1, <2>1, Views
  <2> QED BY <1>4, <1>5, <2>2
<1> QED BY <1>1, <1>6, <1>7, <1>8, <1>9, <1>10, <1>11, <1>12 DEF f, x0, x1, K, N, b

-----------------------------------------------------------------------------
(* What the counters are after a step.                                     *)

LEMMA CountSame ==
    ASSUME NEW j \in Jobs, \A p \in Jobs : Owes(p, j)' <=> Owes(p, j), Held(j)' <=> Held(j)
    PROVE  Owed(j)' = Owed(j) /\ Count(j)' = Count(j)
<1>1. Owed(j)' = Owed(j)
  <2>1. Owed(j)' = {p \in Parents(j) : Owes(p, j)'}
    BY DEF Owed, Parents
  <2>2. Parents(j) \subseteq Jobs
    BY DEF Parents
  <2> QED BY <2>1, <2>2 DEF Owed
<1>2. Count(j)' = Cardinality(Owed(j)') + (IF Held(j)' THEN 1 ELSE 0)
  BY DEF Count
<1> QED BY <1>1, <1>2 DEF Count

LEMMA FlagAfter ==
    ASSUME NEW j \in Jobs
    PROVE  FlagOK(j)' <=>
            \E p \in 0 .. 3 : flags'[j] = Word(j, Count(j)', p) /\ (Setting(j)' \/ p \in WantedPriorities(j)')
BY DEF FlagOK, Word, Wrap

LEMMA FlagKept ==
    ASSUME NEW j \in Jobs, FlagOK(j), flags'[j] = flags[j], Count(j)' = Count(j), Setting(j) => Setting(j)',
           \A p \in 0 .. 3 : <<"priority", j, p>> \in made' <=> <<"priority", j, p>> \in made
    PROVE  FlagOK(j)'
<1>1. WantedPriorities(j)' = WantedPriorities(j)
  BY DEF WantedPriorities
<1>2. PICK p \in 0 .. 3 : flags[j] = Word(j, Count(j), p) /\ (Setting(j) \/ p \in WantedPriorities(j))
  BY DEF FlagOK
<1> QED BY <1>1, <1>2, FlagAfter

\* A job that the scheduler has: its counter is zero, or one after RunOneTime.
LEMMA SettledWord ==
    ASSUME Limits, IInv, NEW j \in Jobs, j \in Submitted
    PROVE  /\ Count(j) \in 0 .. CountRange - 1
           /\ \A p \in Parents(j) : j \in bound /\ AttachMade(j, p) /\ dependent[p] = j /\ Signalled(p)
           /\ IsOneTime(flags[j]) <=> j \in OneTimeJobs
           /\ PriorityOf(flags[j]) \in WantedPriorities(j)
<1>1. Settled(j) /\ Scheduled(j) /\ ~Setting(j) /\ \A p \in Jobs : ~Counting(j, p)
  BY Facts DEF IInv, SettledOK, Settled, Untouched
<1>2. Owed(j) = {}
  <2>1. CASE j \in bound
    BY <1>1, <2>1 DEF Settled
  <2>2. CASE j \notin bound
    BY <1>1, <2>2 DEF IInv, MadeOK, Owed
  <2> QED BY <2>1, <2>2
<1>3. Count(j) \in 0 .. CountRange - 1
  BY <1>2, CountTyped
<1>4. ASSUME NEW p \in Parents(j) PROVE j \in bound /\ AttachMade(j, p) /\ dependent[p] = j /\ Signalled(p)
  <2>1. p \in Jobs /\ j \in bound /\ AttachMade(j, p)
    BY <1>1 DEF IInv, MadeOK, Parents
  <2>2. ~Owes(p, j) /\ ~Counting(j, p)
    BY <1>1, <1>2, <2>1 DEF Owed
  <2> QED BY <2>1, <2>2 DEF Owes
<1>5. PICK p \in 0 .. 3 : flags[j] = Word(j, Count(j), p) /\ p \in WantedPriorities(j)
  BY <1>1 DEF IInv, FlagsOK, FlagOK
<1> QED BY <1>3, <1>4, <1>5, Fields

\* A step inside the scheduler leaves counters and words alone.
LEMMA InnerStep ==
    ASSUME IInv, UNCHANGED <<flags, dependent, bound, made, submissions>>, Submitted' = Submitted,
           \A c, p : Counting(c, p)' <=> Counting(c, p),
           \A j : Setting(j)' <=> Setting(j),
           \A j : Starting(j)' <=> Starting(j),
           \A p \in Jobs : dependent[p] # NoJob => (Signalled(p)' <=> Signalled(p))
    PROVE  /\ MadeOK' /\ SettledOK' /\ FlagsOK'
           /\ \A j \in Jobs : submissions'[j] = IF j \in Submitted' THEN 1 ELSE 0
<1>1. ASSUME NEW j \in Jobs PROVE Owed(j)' = Owed(j) /\ Count(j)' = Count(j)
  <2>1. \A p \in Jobs : Owes(p, j)' <=> Owes(p, j)
    <3> SUFFICES ASSUME NEW p \in Jobs PROVE Owes(p, j)' <=> Owes(p, j)
      OBVIOUS
    <3>1. AttachMade(j, p)' <=> AttachMade(j, p)
      BY DEF AttachMade
    <3>2. dependent'[p] = j /\ Signalled(p)' <=> dependent[p] = j /\ Signalled(p)
      BY JobsAssumption
    <3> QED BY <3>1, <3>2 DEF Owes
  <2>2. Held(j)' <=> Held(j)
    BY DEF Held, Scheduled
  <2> QED BY <2>1, <2>2, CountSame
<1>2. MadeOK'
  BY DEF IInv, MadeOK, Scheduled, AttachMade
<1>3. SettledOK'
  <2>1. \A j \in Jobs : Settled(j)' <=> Settled(j)
    BY <1>1 DEF Settled, Scheduled
  <2>2. SettledOK' <=> \A j \in Jobs : j \in Submitted' <=> Settled(j)'
    BY DEF SettledOK
  <2> QED BY <2>1, <2>2 DEF IInv, SettledOK
<1>4. FlagsOK'
  <2>1. \A j \in Jobs : \A p \in 0 .. 3 : <<"priority", j, p>> \in made' <=> <<"priority", j, p>> \in made
    OBVIOUS
  <2> QED BY <1>1, <2>1, FlagKept DEF IInv, FlagsOK
<1> QED BY <1>2, <1>3, <1>4 DEF IInv, PoolOK

Consistent == StacksOK /\ OnceOK /\ CallsOK /\ MadeOK /\ PoolOK /\ SettledOK /\ FlagsOK /\ AliveOK /\ accessed = {}

LEMMA TakeStep ==
    ASSUME IInv, NEW t \in Workers, Take(t)
    PROVE  Consistent'
<1>1. PICK j \in waiting : Pool!Take(j) /\ Push(t, Frame("capture", j))
  BY DEF Take
<1> DEFINE f == Frame("capture", j)
<1>2. /\ Idle(t) /\ t \in Threads /\ j \in Jobs /\ f \in FrameType /\ f.pc = "capture" /\ f.job = j
      /\ UNCHANGED <<flags, dependent, bound, made, alive, accessed, submissions>>
  BY <1>1, TypesOfCalls DEF Take, IInv, TypeOK, FramePc, Frame, history, Threads
<1>3. waiting' = waiting \ {j} /\ running' = running \cup {j} /\ finished' = finished
  BY <1>1 DEF Pool!Take
<1>4. j \notin running /\ j \notin finished /\ ~Acting(j, Parts)
  BY <1>2, Facts DEF IInv, PoolOK
<1> HIDE DEF f
<1>5. /\ Rearranged(Frames, {<<t, 1>>}) /\ FrameAfter(<<t, 1>>) = f
      /\ \A k, pcs : Acting(k, pcs)' <=> Acting(k, pcs) \/ (f.pc \in pcs /\ f.job = k)
      /\ \A c, p : Counting(c, p)' <=> Counting(c, p) \/ (f.pc = "count" /\ f.job = c /\ f.dep = p)
      /\ \A k : Setting(k)' <=> Setting(k) \/ (f.pc = "store" /\ f.job = k)
      /\ \A k : Starting(k)' <=> Starting(k) \/ (f.pc = "decrement" /\ f.job = k)
      /\ \A p : Signalling(p)' <=> Signalling(p)
      /\ StacksOK' /\ OnceOK'
  BY <1>1, <1>2, <1>4, AfterPush DEF f
<1>6. Submitted' = Submitted
  BY <1>1, <1>3 DEF Submitted
<1>7. \A p \in Jobs : Signalled(p)' <=> Signalled(p)
  BY <1>2, <1>3, <1>5 DEF Signalled
<1>8. /\ MadeOK' /\ SettledOK' /\ FlagsOK'
      /\ \A k \in Jobs : submissions'[k] = IF k \in Submitted' THEN 1 ELSE 0
  BY <1>2, <1>5, <1>6, <1>7, InnerStep
<1>9. CallsOK'
  <2>1. \A x \in Frames : FrameAt(x).pc \in Parts => FrameAt(x).job \in running'
    BY <1>3 DEF IInv, CallsOK, CallOK
  <2>2. \A x \in {<<t, 1>>} : CallOK(x)'
    <3> DEFINE x == <<t, 1>>
    <3>1. FrameAfter(x) = f /\ f.pc = "capture" /\ f.job \in running'
      BY <1>2, <1>3, <1>5
    <3> HIDE DEF x
    <3>2. CallOK(x)'
      BY <3>1, CallAfter
    <3> QED BY <3>2 DEF x
  <2> QED BY <1>2, <1>5, <2>1, <2>2, CallsKept DEF IInv
<1>10. PoolOK'
  <2>1. \A k \in running' : Acting(k, Parts)'
    BY <1>2, <1>3, <1>5 DEF IInv, PoolOK, Parts
  <2> QED BY <1>1, <1>3, <1>4, <1>8, <2>1 DEF IInv, PoolOK
<1>11. AliveOK'
  BY <1>2, <1>3, <1>5 DEF IInv, AliveOK
<1> QED BY <1>2, <1>5, <1>8, <1>9, <1>10, <1>11 DEF Consistent, IInv

\* The job that a thread executes.
LEMMA Executing ==
    ASSUME IInv, NEW t \in Threads, ~Idle(t), Top(t).pc \in Parts
    PROVE  LET j == Top(t).job
           IN  /\ Place(t) \in Frames /\ FrameAt(Place(t)) = Top(t) /\ Top(t) \in FrameType /\ CallOK(Place(t))
               /\ j \in Jobs /\ j \in running /\ j \in Submitted /\ j \notin finished /\ j \notin waiting
               /\ \A pcs : pcs \subseteq Parts /\ Top(t).pc \notin pcs => ~Acting(j, pcs)
               /\ \A x \in Frames \ {Place(t)} : FrameAt(x).pc \in Parts => FrameAt(x).job # j /\ FrameAt(x).job \in running
<1> DEFINE f == Top(t)
           x0 == Place(t)
<1>1. x0 \in Frames /\ FrameAt(x0) = f /\ f \in FrameType
  BY FramesTyped, TypesOfCalls DEF IInv
<1>2. CallOK(x0)
  BY <1>1 DEF IInv, CallsOK
<1>3. f.job \in Jobs /\ f.job \in running
  BY <1>1, <1>2 DEF CallOK, FrameType
<1>4. f.job \in Submitted /\ f.job \notin finished /\ f.job \notin waiting
  BY <1>3 DEF Submitted, IInv, PoolOK
<1>5. ASSUME NEW x \in Frames \ {x0}, FrameAt(x).pc \in Parts PROVE FrameAt(x).job # f.job /\ FrameAt(x).job \in running
  <2>1. ~SameCall(x, x0)
    BY <1>1 DEF IInv, OnceOK
  <2> QED BY <1>1, <1>5, <2>1 DEF SameCall, IInv, CallsOK, CallOK
<1>6. ASSUME NEW pcs, pcs \subseteq Parts, f.pc \notin pcs PROVE ~Acting(f.job, pcs)
  <2> HIDE DEF f, x0
  <2> QED BY <1>1, <1>5, <1>6 DEF Acting
<1> QED BY <1>1, <1>2, <1>3, <1>4, <1>5, <1>6

LEMMA CaptureStep ==
    ASSUME Limits, IInv, NEW t \in Threads, Capture(t)
    PROVE  Consistent'
<1> DEFINE j == Top(t).job
           f == Top(t)
           g == [Frame("body", j) EXCEPT !.dep = dependent[j], !.oneTime = IsOneTime(flags[j])]
<1>1. /\ ~Idle(t) /\ f.pc = "capture" /\ Access(j) /\ Replace(t, g)
      /\ UNCHANGED <<flags, dependent, bound, made, alive, submissions, waiting, running, finished>>
  BY DEF Capture, At, pool
<1>2. /\ Place(t) \in Frames /\ j \in Jobs /\ j \in running /\ j \in Submitted /\ j \notin finished
      /\ \A pcs : pcs \subseteq Parts /\ f.pc \notin pcs => ~Acting(j, pcs)
      /\ \A x \in Frames \ {Place(t)} : FrameAt(x).pc \in Parts => FrameAt(x).job \in running
  BY <1>1, Executing DEF Parts
<1>3. IsOneTime(flags[j]) <=> j \in OneTimeJobs
  BY <1>2, SettledWord
<1>4. /\ g \in FrameType /\ g.pc = "body" /\ g.job = j /\ g.dep = dependent[j] /\ (g.oneTime <=> j \in OneTimeJobs)
  <2>1. dependent[j] \in Jobs \cup {NoJob} /\ IsOneTime(flags[j]) \in BOOLEAN
    BY <1>2 DEF IInv, TypeOK, IsOneTime
  <2> DEFINE h == Frame("body", j)
  <2>2. h \in FrameType /\ h.pc = "body" /\ h.job = j
    BY <1>2, TypesOfCalls DEF FramePc, Frame
  <2> HIDE DEF h, j
  <2>3. LET k == [h EXCEPT !.dep = dependent[j], !.oneTime = IsOneTime(flags[j])]
        IN  k \in FrameType /\ k.pc = "body" /\ k.job = j /\ k.dep = dependent[j] /\ k.oneTime = IsOneTime(flags[j])
    BY <2>1, <2>2 DEF FrameType
  <2> QED BY <1>3, <2>3 DEF h
<1>5. f.pc \in Parts /\ g.pc \in Parts
  BY <1>1, <1>4 DEF Parts
<1> HIDE DEF g
<1>6. /\ Rearranged(Frames \ {Place(t)}, {Place(t)}) /\ FrameAfter(Place(t)) = g
      /\ \A k : \A pcs : pcs \subseteq Parts =>
            (Acting(k, pcs)' <=> (Acting(k, pcs) /\ ~(f.pc \in pcs /\ f.job = k)) \/ (g.pc \in pcs /\ g.job = k))
      /\ \A c, p : Counting(c, p)' <=> Counting(c, p) /\ ~(f.pc = "count" /\ f.job = c /\ f.dep = p)
      /\ \A k : f.pc # "store" \/ f.job # k => (Setting(k)' <=> Setting(k))
      /\ \A k : Starting(k)' <=> Starting(k) /\ ~(f.pc = "decrement" /\ Place(t)[2] = 1 /\ f.job = k)
      /\ \A p : Signalling(p)' <=>
            Signalling(p) /\ ~(f.pc = "decrement" /\ Place(t)[2] > 1 /\ FrameAt(Below(Place(t))).job = p)
      /\ StacksOK' /\ OnceOK'
  BY <1>1, <1>4, <1>5, AfterReplace
<1>7. Submitted' = Submitted
  BY <1>1 DEF Submitted
<1>8. {"delete"} \subseteq Parts /\ {"signal", "delete"} \subseteq Parts /\ Parts \subseteq Parts
  BY DEF Parts
<1>9. \A p \in Jobs : Signalled(p)' <=> Signalled(p)
  <2>1. \A p : Acting(p, {"delete"})' <=> Acting(p, {"delete"})
    BY <1>1, <1>4, <1>6, <1>8
  <2>2. \A p : Signalling(p)' <=> Signalling(p)
    BY <1>1, <1>6
  <2> QED BY <1>1, <2>1, <2>2 DEF Signalled
<1>10. /\ MadeOK' /\ SettledOK' /\ FlagsOK'
       /\ \A k \in Jobs : submissions'[k] = IF k \in Submitted' THEN 1 ELSE 0
  BY <1>1, <1>6, <1>7, <1>9, InnerStep
<1>11. CallsOK'
  <2>1. \A x \in {Place(t)} : CallOK(x)'
    <3> SUFFICES ASSUME NEW x \in {Place(t)} PROVE CallOK(x)'
      OBVIOUS
    <3>1. /\ FrameAfter(x) = g /\ g.pc = "body" /\ g.job \in running' /\ g.dep = dependent'[g.job]
          /\ (g.oneTime <=> g.job \in OneTimeJobs)
      BY <1>1, <1>2, <1>4, <1>6
    <3> QED BY <3>1, CallAfter
  <2>2. \A x \in Frames \ {Place(t)} : FrameAt(x).pc \in Parts => FrameAt(x).job \in running'
    BY <1>1, <1>2
  <2> QED BY <1>1, <1>6, <2>1, <2>2, CallsKept DEF IInv
<1>12. PoolOK'
  <2>1. \A k \in running' : Acting(k, Parts)'
    BY <1>1, <1>4, <1>5, <1>6, <1>8 DEF IInv, PoolOK
  <2> QED BY <1>1, <1>10, <2>1 DEF IInv, PoolOK
<1>13. AliveOK'
  <2>1. \A k : Acting(k, {"signal", "delete"})' <=> Acting(k, {"signal", "delete"})
    BY <1>1, <1>4, <1>6, <1>8
  <2> QED BY <1>1, <2>1 DEF IInv, AliveOK
<1>14. accessed' = {}
  <2>1. j \in alive
    BY <1>1, <1>2, <1>8 DEF IInv, AliveOK
  <2> QED BY <1>1, <2>1 DEF IInv, Access
<1> QED BY <1>6, <1>10, <1>11, <1>12, <1>13, <1>14 DEF Consistent

LEMMA BodyStep ==
    ASSUME IInv, NEW t \in Threads, Body(t)
    PROVE  Consistent'
<1> DEFINE j == Top(t).job
           f == Top(t)
           g == [f EXCEPT !.pc = "signal"]
<1>1. /\ ~Idle(t) /\ f.pc = "body" /\ Replace(t, g) /\ alive' = IF j \in Operations THEN alive \ {j} ELSE alive
      /\ UNCHANGED <<flags, dependent, bound, made, accessed, submissions, waiting, running, finished>>
  BY DEF Body, At, pool, history
<1>2. /\ Place(t) \in Frames /\ FrameAt(Place(t)) = f /\ f \in FrameType /\ CallOK(Place(t)) /\ j \in Jobs /\ j \in running
      /\ \A pcs : pcs \subseteq Parts /\ f.pc \notin pcs => ~Acting(j, pcs)
      /\ \A x \in Frames \ {Place(t)} : FrameAt(x).pc \in Parts => FrameAt(x).job \in running
  BY <1>1, Executing DEF Parts
<1>3. f.dep = dependent[j] /\ (f.oneTime <=> j \in OneTimeJobs)
  BY <1>1, <1>2 DEF CallOK, Parts
<1>4. /\ g \in FrameType /\ g.pc = "signal" /\ g.job = j /\ g.dep = dependent[j] /\ (g.oneTime <=> j \in OneTimeJobs)
  BY <1>2, <1>3 DEF FrameType, FramePc
<1>5. f.pc \in Parts /\ g.pc \in Parts
  BY <1>1, <1>4 DEF Parts
<1> HIDE DEF g
<1>6. /\ Rearranged(Frames \ {Place(t)}, {Place(t)}) /\ FrameAfter(Place(t)) = g
      /\ \A k : \A pcs : pcs \subseteq Parts =>
            (Acting(k, pcs)' <=> (Acting(k, pcs) /\ ~(f.pc \in pcs /\ f.job = k)) \/ (g.pc \in pcs /\ g.job = k))
      /\ \A c, p : Counting(c, p)' <=> Counting(c, p) /\ ~(f.pc = "count" /\ f.job = c /\ f.dep = p)
      /\ \A k : f.pc # "store" \/ f.job # k => (Setting(k)' <=> Setting(k))
      /\ \A k : Starting(k)' <=> Starting(k) /\ ~(f.pc = "decrement" /\ Place(t)[2] = 1 /\ f.job = k)
      /\ \A p : Signalling(p)' <=>
            Signalling(p) /\ ~(f.pc = "decrement" /\ Place(t)[2] > 1 /\ FrameAt(Below(Place(t))).job = p)
      /\ StacksOK' /\ OnceOK'
  BY <1>1, <1>4, <1>5, AfterReplace
<1>7. Submitted' = Submitted
  BY <1>1 DEF Submitted
<1>8. {"delete"} \subseteq Parts /\ {"signal", "delete"} \subseteq Parts /\ Parts \subseteq Parts
  BY DEF Parts
<1>9. \A p \in Jobs : Signalled(p)' <=> Signalled(p)
  <2>1. \A p : Acting(p, {"delete"})' <=> Acting(p, {"delete"})
    BY <1>1, <1>4, <1>6, <1>8
  <2>2. \A p : Signalling(p)' <=> Signalling(p)
    BY <1>1, <1>6
  <2> QED BY <1>1, <2>1, <2>2 DEF Signalled
<1>10. /\ MadeOK' /\ SettledOK' /\ FlagsOK'
       /\ \A k \in Jobs : submissions'[k] = IF k \in Submitted' THEN 1 ELSE 0
  BY <1>1, <1>6, <1>7, <1>9, InnerStep
<1>11. CallsOK'
  <2>1. \A x \in {Place(t)} : CallOK(x)'
    <3> SUFFICES ASSUME NEW x \in {Place(t)} PROVE CallOK(x)'
      OBVIOUS
    <3>1. /\ FrameAfter(x) = g /\ g.pc = "signal" /\ g.job \in running' /\ g.dep = dependent'[g.job]
          /\ (g.oneTime <=> g.job \in OneTimeJobs)
      BY <1>1, <1>2, <1>4, <1>6
    <3> QED BY <3>1, CallAfter
  <2>2. \A x \in Frames \ {Place(t)} : FrameAt(x).pc \in Parts => FrameAt(x).job \in running'
    BY <1>1, <1>2
  <2> QED BY <1>1, <1>6, <2>1, <2>2, CallsKept DEF IInv
<1>12. PoolOK'
  <2>1. \A k \in running' : Acting(k, Parts)'
    BY <1>1, <1>4, <1>5, <1>6, <1>8 DEF IInv, PoolOK
  <2> QED BY <1>1, <1>10, <2>1 DEF IInv, PoolOK
<1>13. AliveOK'
  <2>1. \A k : Acting(k, {"signal", "delete"})' <=> Acting(k, {"signal", "delete"}) \/ k = j
    BY <1>1, <1>4, <1>6, <1>8
  <2> QED BY <1>1, <2>1 DEF IInv, AliveOK
<1> QED BY <1>1, <1>6, <1>10, <1>11, <1>12, <1>13 DEF Consistent, IInv

LEMMA SignalStep ==
    ASSUME IInv, NEW t \in Threads, Signal(t)
    PROVE  Consistent'
<1> DEFINE j == Top(t).job
           f == Top(t)
           g == [f EXCEPT !.pc = "delete"]
           h == Frame("decrement", f.dep)
           N == IF f.dep = NoJob THEN {Place(t)} ELSE {Place(t), Above(t)}
<1>1. /\ ~Idle(t) /\ f.pc = "signal"
      /\ calls' = [calls EXCEPT ![t] = Front(@) \o (IF f.dep = NoJob THEN <<g>> ELSE <<g, h>>)]
      /\ UNCHANGED <<flags, dependent, bound, made, alive, accessed, submissions, waiting, running, finished>>
  BY DEF Signal, At, pool, history
<1>2. /\ Place(t) \in Frames /\ FrameAt(Place(t)) = f /\ f \in FrameType /\ CallOK(Place(t))
      /\ j \in Jobs /\ j \in running /\ j \notin finished
      /\ \A pcs : pcs \subseteq Parts /\ f.pc \notin pcs => ~Acting(j, pcs)
      /\ \A x \in Frames \ {Place(t)} : FrameAt(x).pc \in Parts => FrameAt(x).job \in running
  BY <1>1, Executing DEF Parts
<1>3. f.dep = dependent[j] /\ (f.oneTime <=> j \in OneTimeJobs) /\ f.dep \in Jobs \cup {NoJob}
  BY <1>1, <1>2 DEF CallOK, Parts, FrameType
<1>4. /\ g \in FrameType /\ g.pc = "delete" /\ g.job = j /\ g.dep = f.dep /\ (g.oneTime <=> j \in OneTimeJobs)
  BY <1>2, <1>3 DEF FrameType, FramePc
<1>5. f.pc \in Parts /\ g.pc \in Parts /\ {"delete"} \subseteq Parts /\ {"signal", "delete"} \subseteq Parts /\ Parts \subseteq Parts
  BY <1>1, <1>4 DEF Parts
<1>6. f.dep # NoJob => h \in FrameType /\ h.pc = "decrement" /\ h.job = f.dep
  BY <1>3, TypesOfCalls DEF FramePc, Frame
<1> HIDE DEF g, h
<1>7. /\ Rearranged(Frames \ {Place(t)}, N) /\ FrameAfter(Place(t)) = g
      /\ f.dep # NoJob => FrameAfter(Above(t)) = h /\ Above(t)[2] > 1
      /\ \A k : \A pcs : pcs \subseteq Parts =>
            (Acting(k, pcs)' <=> (Acting(k, pcs) /\ ~(f.pc \in pcs /\ f.job = k)) \/ (g.pc \in pcs /\ g.job = k))
      /\ \A c, p : Counting(c, p)' <=> Counting(c, p)
      /\ \A k : Setting(k)' <=> Setting(k)
      /\ \A k : Starting(k)' <=> Starting(k)
      /\ \A p : Signalling(p)' <=> Signalling(p) \/ (f.dep # NoJob /\ g.job = p)
      /\ StacksOK' /\ OnceOK'
  <2>1. CASE f.dep = NoJob
    <3>1. Replace(t, g)
      <4>1. Front(calls[t]) \in Seq(FrameType)
        BY <1>1, FrontOf, TypesOfCalls DEF IInv, CallsTyped, Idle
      <4>2. Append(Front(calls[t]), g) = Front(calls[t]) \o <<g>>
        BY <1>4, <4>1, AppendIsConcat
      <4> QED BY <1>1, <2>1, <4>2 DEF Replace
    <3>2. /\ Rearranged(Frames \ {Place(t)}, {Place(t)}) /\ FrameAfter(Place(t)) = g
          /\ \A k : \A pcs : pcs \subseteq Parts =>
                (Acting(k, pcs)' <=> (Acting(k, pcs) /\ ~(f.pc \in pcs /\ f.job = k)) \/ (g.pc \in pcs /\ g.job = k))
          /\ \A c, p : Counting(c, p)' <=> Counting(c, p) /\ ~(f.pc = "count" /\ f.job = c /\ f.dep = p)
          /\ \A k : f.pc # "store" \/ f.job # k => (Setting(k)' <=> Setting(k))
          /\ \A k : Starting(k)' <=> Starting(k) /\ ~(f.pc = "decrement" /\ Place(t)[2] = 1 /\ f.job = k)
          /\ \A p : Signalling(p)' <=>
                Signalling(p) /\ ~(f.pc = "decrement" /\ Place(t)[2] > 1 /\ FrameAt(Below(Place(t))).job = p)
          /\ StacksOK' /\ OnceOK'
      BY <1>1, <1>4, <1>5, <3>1, AfterReplace
    <3>3. \A c, p : Counting(c, p)' <=> Counting(c, p)
      BY <1>1, <3>2
    <3>4. \A k : Setting(k)' <=> Setting(k)
      BY <1>1, <3>2
    <3>5. \A k : Starting(k)' <=> Starting(k)
      BY <1>1, <3>2
    <3>6. \A p : Signalling(p)' <=> Signalling(p)
      BY <1>1, <3>2
    <3> QED BY <2>1, <3>2, <3>3, <3>4, <3>5, <3>6
  <2>2. CASE f.dep # NoJob
    <3>1. calls' = [calls EXCEPT ![t] = Front(@) \o <<g, h>>]
      BY <1>1, <2>2
    <3>2. /\ Rearranged(Frames \ {Place(t)}, {Place(t), Above(t)})
          /\ FrameAfter(Place(t)) = g /\ FrameAfter(Above(t)) = h /\ Above(t)[2] > 1
          /\ \A k : \A pcs : pcs \subseteq Parts =>
                (Acting(k, pcs)' <=> (Acting(k, pcs) /\ ~(f.pc \in pcs /\ f.job = k)) \/ (g.pc \in pcs /\ g.job = k))
          /\ \A c, p : Counting(c, p)' <=> Counting(c, p)
          /\ \A k : Setting(k)' <=> Setting(k)
          /\ \A k : Starting(k)' <=> Starting(k)
          /\ \A p : Signalling(p)' <=> Signalling(p) \/ g.job = p
          /\ StacksOK' /\ OnceOK'
      BY <1>1, <1>4, <1>5, <1>6, <2>2, <3>1, AfterNested
    <3> QED BY <2>2, <3>2
  <2> QED BY <2>1, <2>2
<1>8. Submitted' = Submitted
  BY <1>1 DEF Submitted
<1>9. ASSUME NEW p \in Jobs, dependent[p] # NoJob PROVE Signalled(p)' <=> Signalled(p)
  <2>1. CASE p = j
    <3>1. Signalling(p)' /\ p \notin finished'
      BY <1>1, <1>2, <1>3, <1>4, <1>7, <1>9, <2>1
    <3>2. ~Acting(p, {"delete"}) /\ p \notin finished
      BY <1>1, <1>2, <1>5, <2>1
    <3> QED BY <3>1, <3>2 DEF Signalled
  <2>2. CASE p # j
    <3>1. Acting(p, {"delete"})' <=> Acting(p, {"delete"})
      BY <1>4, <1>5, <1>7, <2>2
    <3>2. Signalling(p)' <=> Signalling(p)
      BY <1>4, <1>7, <2>2
    <3> QED BY <1>1, <3>1, <3>2 DEF Signalled
  <2> QED BY <2>1, <2>2
<1>10. /\ MadeOK' /\ SettledOK' /\ FlagsOK'
       /\ \A k \in Jobs : submissions'[k] = IF k \in Submitted' THEN 1 ELSE 0
  BY <1>1, <1>7, <1>8, <1>9, InnerStep
<1>11. CallsOK'
  <2>1. ASSUME NEW x \in N PROVE CallOK(x)'
    <3>1. CASE x = Place(t)
      <4>1. /\ FrameAfter(x) = g /\ g.pc = "delete" /\ g.job \in running' /\ g.dep = dependent'[g.job]
            /\ (g.oneTime <=> g.job \in OneTimeJobs)
        BY <1>1, <1>2, <1>3, <1>4, <1>7, <3>1
      <4> QED BY <4>1, CallAfter
    <3>2. CASE x # Place(t)
      <4>1. FrameAfter(x) = h /\ h.pc = "decrement" /\ h.pc \notin Parts /\ x[2] # 1
        BY <1>6, <1>7, <2>1, <3>2 DEF Parts
      <4> QED BY <4>1, CallAfter DEF Parts
    <3> QED BY <3>1, <3>2
  <2>2. \A x \in Frames \ {Place(t)} : FrameAt(x).pc \in Parts => FrameAt(x).job \in running'
    BY <1>1, <1>2
  <2> HIDE DEF N
  <2> QED BY <1>1, <1>7, <2>1, <2>2, CallsKept DEF IInv
<1>12. PoolOK'
  <2>1. \A k \in running' : Acting(k, Parts)'
    BY <1>1, <1>4, <1>5, <1>7 DEF IInv, PoolOK
  <2> QED BY <1>1, <1>10, <2>1 DEF IInv, PoolOK
<1>13. AliveOK'
  <2>1. \A k : Acting(k, {"signal", "delete"})' <=> Acting(k, {"signal", "delete"})
    <3>1. Acting(j, {"signal", "delete"})
      BY <1>1, <1>2 DEF Acting
    <3> QED BY <1>1, <1>4, <1>5, <1>7, <3>1
  <2> QED BY <1>1, <2>1 DEF IInv, AliveOK
<1> QED BY <1>1, <1>7, <1>10, <1>11, <1>12, <1>13 DEF Consistent, IInv

LEMMA DeleteStep ==
    ASSUME IInv, NEW t \in Threads, Delete(t)
    PROVE  Consistent'
<1> DEFINE j == Top(t).job
           f == Top(t)
<1>1. /\ ~Idle(t) /\ f.pc = "delete" /\ Return(t) /\ alive' = IF f.oneTime THEN alive \ {j} ELSE alive
      /\ UNCHANGED <<flags, dependent, bound, made, accessed, submissions>>
      /\ running' = running \ {j} /\ finished' = finished \cup {j} /\ waiting' = waiting
  BY DEF Delete, At, history, Pool!Done
<1>2. /\ Place(t) \in Frames /\ FrameAt(Place(t)) = f
      /\ j \in Jobs /\ j \in running /\ j \notin finished /\ j \notin waiting
      /\ \A x \in Frames \ {Place(t)} : FrameAt(x).pc \in Parts => FrameAt(x).job # j /\ FrameAt(x).job \in running
  BY <1>1, Executing DEF Parts
<1>3. f.pc \in Parts /\ {"delete"} \subseteq Parts /\ {"signal", "delete"} \subseteq Parts /\ Parts \subseteq Parts
  BY <1>1 DEF Parts
<1>4. ~Signalling(j) /\ Acting(j, {"delete"})
  <2>1. ASSUME NEW x \in Frames, x[2] > 1, FrameAt(Below(x)).job = j PROVE FALSE
    <3>1. Below(x) \in Frames /\ FrameAt(Below(x)).pc = "delete"
      BY <2>1 DEF IInv, StacksOK
    <3>2. Below(x) = Place(t)
      BY <1>2, <1>3, <2>1, <3>1
    <3> QED BY <1>1, <2>1, <3>2, OnTop DEF IInv
  <2> QED BY <1>1, <1>2, <2>1 DEF Signalling, Acting
<1>5. /\ Rearranged(Frames \ {Place(t)}, {})
      /\ \A k : \A pcs : pcs \subseteq Parts => (Acting(k, pcs)' <=> Acting(k, pcs) /\ ~(f.pc \in pcs /\ f.job = k))
      /\ \A c, p : Counting(c, p)' <=> Counting(c, p) /\ ~(f.pc = "count" /\ f.job = c /\ f.dep = p)
      /\ \A k : f.pc # "store" \/ f.job # k => (Setting(k)' <=> Setting(k))
      /\ \A k : Starting(k)' <=> Starting(k) /\ ~(f.pc = "decrement" /\ Place(t)[2] = 1 /\ f.job = k)
      /\ \A p : Signalling(p)' <=>
            Signalling(p) /\ ~(f.pc = "decrement" /\ Place(t)[2] > 1 /\ FrameAt(Below(Place(t))).job = p)
      /\ StacksOK' /\ OnceOK'
  BY <1>1, AfterReturn
<1>6. Submitted' = Submitted
  BY <1>1, <1>2 DEF Submitted
<1>7. ASSUME NEW p \in Jobs PROVE Signalled(p)' <=> Signalled(p)
  <2>1. CASE p = j
    BY <1>1, <1>4, <2>1 DEF Signalled
  <2>2. CASE p # j
    <3>1. Acting(p, {"delete"})' <=> Acting(p, {"delete"})
      BY <1>3, <1>5, <2>2
    <3>2. Signalling(p)' <=> Signalling(p)
      BY <1>1, <1>5
    <3>3. p \in finished' <=> p \in finished
      BY <1>1, <2>2
    <3> QED BY <3>1, <3>2, <3>3 DEF Signalled
  <2> QED BY <2>1, <2>2
<1>8. /\ MadeOK' /\ SettledOK' /\ FlagsOK'
      /\ \A k \in Jobs : submissions'[k] = IF k \in Submitted' THEN 1 ELSE 0
  BY <1>1, <1>5, <1>6, <1>7, InnerStep
<1>9. CallsOK'
  <2>1. \A x \in Frames \ {Place(t)} : FrameAt(x).pc \in Parts => FrameAt(x).job \in running'
    BY <1>1, <1>2
  <2> QED BY <1>1, <1>5, <2>1, CallsKept DEF IInv
<1>10. PoolOK'
  <2>1. \A k \in running' : Acting(k, Parts)'
    BY <1>1, <1>3, <1>5 DEF IInv, PoolOK
  <2> QED BY <1>1, <1>2, <1>8, <2>1 DEF IInv, PoolOK
<1>11. AliveOK'
  <2>1. \A k : k # j => (Acting(k, {"signal", "delete"})' <=> Acting(k, {"signal", "delete"}))
    BY <1>3, <1>5
  <2> QED BY <1>1, <2>1 DEF IInv, AliveOK
<1> QED BY <1>1, <1>5, <1>8, <1>9, <1>10, <1>11 DEF Consistent, IInv

-----------------------------------------------------------------------------
(* The steps of the clients.                                               *)

\* A client's call is on top of its stack, where the others' guards see it.
LEMMA Seen ==
    ASSUME IInv
    PROVE  /\ \A j \in Jobs : Setting(j) => BeingSet(j)
           /\ \A c, p \in Jobs : Attached(c, p) => AttachMade(c, p) /\ ~Counting(c, p)
<1>1. \A x \in Frames : FrameAt(x).pc # "delete" => ~Idle(x[1]) /\ FrameAt(x) = Top(x[1])
  BY OnTop DEF IInv
<1>2. \A x \in Frames : FrameAt(x).pc \in {"count", "store"} => x[1] \in Clients
  BY DEF IInv, CallsOK, CallOK
<1>3. ASSUME NEW j \in Jobs, Setting(j) PROVE BeingSet(j)
  <2>1. PICK x \in Frames : FrameAt(x).pc = "store" /\ FrameAt(x).job = j
    BY <1>3 DEF Setting
  <2> QED BY <1>1, <1>2, <2>1 DEF BeingSet, At
<1>4. ASSUME NEW c \in Jobs, NEW p \in Jobs, Attached(c, p) PROVE AttachMade(c, p) /\ ~Counting(c, p)
  <2>1. ASSUME NEW x \in Frames, FrameAt(x).pc = "count", FrameAt(x).job = c, FrameAt(x).dep = p PROVE FALSE
    BY <1>1, <1>2, <1>4, <2>1 DEF Attached, At
  <2> QED BY <1>4, <2>1 DEF Attached, AttachMade, Counting
<1> QED BY <1>3, <1>4

\* Submitted jobs are where they were.
LEMMA PoolKept ==
    ASSUME PoolOK, UNCHANGED <<submissions, waiting, running, finished>>,
           \A k \in Jobs : Acting(k, Parts) => Acting(k, Parts)',
           running \subseteq Jobs
    PROVE  PoolOK' /\ Submitted' = Submitted
<1>1. Submitted' = Submitted
  BY DEF Submitted
<1> QED BY <1>1 DEF PoolOK

LEMMA AttachStep ==
    ASSUME Limits, IInv, NEW t \in Clients, NEW c \in Jobs, NEW p \in Jobs, AttachParent(t, c, p)
    PROVE  Consistent'
<1> DEFINE f == [Frame("count", c) EXCEPT !.dep = p]
           x0 == <<t, 1>>
<1>1. /\ ~Scheduled(c) /\ ~Scheduled(p) /\ ~BeingSet(c) /\ Idle(t) /\ Push(t, f) /\ Access(p)
      /\ <<"attach", c, p>> \notin made /\ made' = made \cup {<<"attach", c, p>>}
      /\ dependent' = [dependent EXCEPT ![p] = c]
      /\ UNCHANGED <<flags, bound, alive, submissions, waiting, running, finished>>
  BY DEF AttachParent, Make, pool, Limits
<1>2. f \in FrameType /\ f.pc = "count" /\ f.job = c /\ f.dep = p /\ t \in Threads
  BY TypesOfCalls DEF FrameType, FramePc, Frame
<1>3. ~Setting(c) /\ ~Counting(c, p) /\ p \notin Submitted /\ ~Signalled(p) /\ p \in alive /\ ~AttachMade(c, p)
  BY <1>1, Seen, Facts DEF AttachMade
<1>4. f.pc \notin Parts /\ Parts \subseteq Parts
  BY <1>2 DEF Parts
<1> HIDE DEF f
<1>5. /\ Rearranged(Frames, {x0}) /\ FrameAfter(x0) = f
      /\ \A k, pcs : Acting(k, pcs)' <=> Acting(k, pcs) \/ (f.pc \in pcs /\ f.job = k)
      /\ \A k, q : Counting(k, q)' <=> Counting(k, q) \/ (f.pc = "count" /\ f.job = k /\ f.dep = q)
      /\ \A k : Setting(k)' <=> Setting(k) \/ (f.pc = "store" /\ f.job = k)
      /\ \A k : Starting(k)' <=> Starting(k) \/ (f.pc = "decrement" /\ f.job = k)
      /\ \A q : Signalling(q)' <=> Signalling(q)
      /\ StacksOK' /\ OnceOK'
  BY <1>1, <1>2, <1>3, <1>4, AfterPush
<1> HIDE DEF x0
<1>6. /\ \A k, q : <<"attach", k, q>> \in made' <=> <<"attach", k, q>> \in made \/ (k = c /\ q = p)
      /\ \A k : <<"schedule", k>> \in made' <=> <<"schedule", k>> \in made
      /\ \A k, q : <<"priority", k, q>> \in made' <=> <<"priority", k, q>> \in made
  BY <1>1, DifferentCalls
<1>7. \A q \in Jobs : Signalled(q)' <=> Signalled(q)
  <2>1. \A q \in Jobs : Acting(q, {"delete"})' <=> Acting(q, {"delete"})
    BY <1>2, <1>5
  <2> QED BY <1>1, <1>5, <2>1 DEF Signalled
<1>8. \A q \in Jobs : dependent'[q] = IF q = p THEN c ELSE dependent[q]
  BY <1>1 DEF IInv, TypeOK
<1>9. ASSUME NEW k \in Jobs PROVE Owed(k)' = Owed(k) /\ Count(k)' = Count(k)
  <2>1. ASSUME NEW q \in Jobs PROVE Owes(q, k)' <=> Owes(q, k)
    <3>1. AttachMade(k, q)' <=> AttachMade(k, q) \/ (k = c /\ q = p)
      BY <1>6 DEF AttachMade
    <3>2. Counting(k, q)' <=> Counting(k, q) \/ (k = c /\ q = p)
      BY <1>2, <1>5
    <3>3. Signalled(q)' <=> Signalled(q)
      BY <1>7
    <3>4. CASE q = p
      BY <1>3, <3>1, <3>2, <3>3, <3>4 DEF Owes
    <3>5. CASE q # p
      <4>1. dependent'[q] = dependent[q]
        BY <1>8, <3>5
      <4> QED BY <3>1, <3>2, <3>3, <3>5, <4>1 DEF Owes
    <3> QED BY <3>4, <3>5
  <2>2. Held(k)' <=> Held(k)
    <3>1. Starting(k)' <=> Starting(k)
      BY <1>2, <1>5
    <3> QED BY <1>1, <1>6, <3>1 DEF Held, Scheduled
  <2> QED BY <2>1, <2>2, CountSame
<1>10. CallsOK'
  <2>1. \A x \in Frames : FrameAt(x).pc = "count" => ~ScheduledAfter(FrameAt(x).dep) /\ ~ScheduledAfter(FrameAt(x).job)
    BY <1>6 DEF IInv, CallsOK, CallOK, Scheduled, ScheduledAfter
  <2>2. ASSUME NEW x \in Frames, FrameAt(x).pc = "store" PROVE UntouchedAfter(FrameAt(x).job)
    <3>1. Untouched(FrameAt(x).job)
      BY <2>2 DEF IInv, CallsOK, CallOK
    <3>2. FrameAt(x).job # c
      BY <1>3, <2>2 DEF Setting
    <3> QED BY <1>6, <3>1, <3>2 DEF Untouched, UntouchedAfter, Scheduled, ScheduledAfter
  <2>3. ASSUME NEW x \in Frames, FrameAt(x).pc \in Parts
        PROVE  FrameAt(x).job \in running' /\ dependent'[FrameAt(x).job] = dependent[FrameAt(x).job]
    <3>1. FrameAt(x).job \in running /\ FrameAt(x).job \in Jobs
      BY <2>3 DEF IInv, CallsOK, CallOK, TypeOK
    <3>2. FrameAt(x).job # p
      BY <1>3, <3>1 DEF Submitted
    <3> QED BY <1>1, <1>8, <3>1, <3>2
  <2>4. ASSUME NEW x \in {x0} PROVE CallOK(x)'
    <3>1. FrameAfter(x) = f /\ x[1] \in Clients
      BY <1>5 DEF x0
    <3>2. <<"attach", f.job, f.dep>> \in made' /\ ~ScheduledAfter(f.dep) /\ ~ScheduledAfter(f.job)
      BY <1>1, <1>2, <1>6 DEF Scheduled, ScheduledAfter
    <3> QED BY <1>2, <1>4, <3>1, <3>2, CallAfter
  <2>5. made \subseteq made' /\ bound \subseteq bound'
    BY <1>1
  <2> QED BY <1>5, <2>1, <2>2, <2>3, <2>4, <2>5, CallsStep DEF IInv
<1>11. MadeOK'
  <2>1. c # NoJob
    BY JobsAssumption
  <2>2. /\ \A j \in Jobs : Scheduled(j)' <=> Scheduled(j)
        /\ \A k, q \in Jobs : AttachMade(k, q)' <=> AttachMade(k, q) \/ (k = c /\ q = p)
    BY <1>1, <1>6 DEF Scheduled, AttachMade
  <2>3. ASSUME NEW j \in Jobs
        PROVE  /\ Scheduled(j) => \A q \in Parents(j) : AttachMade(j, q)'
               /\ dependent'[j] # NoJob => AttachMade(dependent[j], j)'
               /\ dependent'[j] = NoJob => \A k \in Jobs : ~AttachMade(k, j)'
    <3>1. Scheduled(j) => \A q \in Parents(j) : AttachMade(j, q)'
      BY <2>2 DEF IInv, MadeOK, Parents
    <3>2. dependent'[j] # NoJob => AttachMade(dependent[j], j)'
      <4>1. dependent[j] # NoJob => dependent[j] \in Jobs /\ AttachMade(dependent[j], j)
        BY DEF IInv, MadeOK, TypeOK
      <4> QED BY <1>8, <2>2, <4>1
    <3>3. dependent'[j] = NoJob => \A k \in Jobs : ~AttachMade(k, j)'
      <4>1. dependent[j] = NoJob => \A k \in Jobs : ~AttachMade(k, j)
        BY DEF IInv, MadeOK
      <4> QED BY <1>8, <2>1, <2>2, <4>1
    <3> QED BY <3>1, <3>2, <3>3
  <2>4. ASSUME NEW j \in Jobs
        PROVE  /\ Scheduled(j) /\ j \notin bound
                   => j \in OneTimeJobs /\ Parents(j) = {} /\ \A n \in 0 .. 3 : <<j, n>> \notin Priorities
               /\ j \in Operations => j \in bound
               /\ j \in bound => j \in Operations \/ Scheduled(j)
    BY DEF IInv, MadeOK
  <2>5. bound' = bound
    BY <1>1
  <2> QED BY <2>2, <2>3, <2>4, <2>5 DEF MadeOK
<1>12. PoolOK' /\ Submitted' = Submitted
  BY <1>1, <1>5, PoolKept DEF IInv, TypeOK
<1>13. SettledOK'
  <2>1. \A k \in Jobs : Settled(k)' <=> Settled(k)
    BY <1>1, <1>2, <1>5, <1>6, <1>9 DEF Settled, Scheduled
  <2> QED BY <1>12, <2>1 DEF IInv, SettledOK
<1>14. FlagsOK'
  <2>1. \A k \in Jobs : FlagOK(k)'
    BY <1>1, <1>5, <1>6, <1>9, FlagKept DEF IInv, FlagsOK
  <2> QED BY <2>1 DEF FlagsOK
<1>15. AliveOK'
  BY <1>1, <1>5 DEF IInv, AliveOK
<1>16. accessed' = {}
  BY <1>1, <1>3 DEF IInv, Access
<1> QED BY <1>5, <1>10, <1>11, <1>12, <1>13, <1>14, <1>15, <1>16 DEF Consistent

LEMMA TopCall ==
    ASSUME IInv, NEW t \in Threads, ~Idle(t)
    PROVE  /\ Place(t) \in Frames /\ FrameAt(Place(t)) = Top(t) /\ Top(t) \in FrameType /\ CallOK(Place(t))
           /\ Place(t)[1] = t /\ Place(t)[2] \in Nat /\ Place(t)[2] >= 1
<1>1. Place(t) \in Frames /\ FrameAt(Place(t)) = Top(t) /\ Top(t) \in FrameType
  BY FramesTyped, TypesOfCalls DEF IInv
<1>2. Place(t)[1] = t
  BY DEF Place
<1> QED BY <1>1, <1>2, FramesTyped, TypesOfCalls DEF IInv, CallsOK

LEMMA CountStep ==
    ASSUME Limits, IInv, NEW t \in Threads, IncrementDependencyCount(t)
    PROVE  Consistent'
<1> DEFINE f == Top(t)
           x0 == Place(t)
<1>1. /\ ~Idle(t) /\ f.pc = "count" /\ flags' = [flags EXCEPT ![f.job] = Incremented(@)] /\ Access(f.job) /\ Return(t)
      /\ UNCHANGED <<dependent, bound, made, alive, submissions, waiting, running, finished>>
  BY DEF IncrementDependencyCount, At, pool
<1>2. x0 \in Frames /\ FrameAt(x0) = f /\ f \in FrameType /\ CallOK(x0)
  BY <1>1, TopCall
<1>3. PICK c \in Jobs, p \in Jobs : c = f.job /\ p = f.dep
  BY <1>1, <1>2 DEF CallOK, FrameType
<1>4. AttachMade(c, p) /\ ~Scheduled(c) /\ ~Scheduled(p) /\ Counting(c, p)
  BY <1>1, <1>2, <1>3 DEF CallOK, Counting
<1>5. p \in Parents(c) /\ c \in alive /\ ~Signalled(p) /\ ~Setting(c)
  BY <1>4, CallsMade, Facts DEF IInv, Untouched, AttachMade
<1>6. f.pc \notin Parts /\ Parts \subseteq Parts /\ {"delete"} \subseteq Parts /\ {"signal", "delete"} \subseteq Parts
  BY <1>1 DEF Parts
<1>7. /\ Rearranged(Frames \ {Place(t)}, {})
      /\ \A k : \A pcs : pcs \subseteq Parts => (Acting(k, pcs)' <=> Acting(k, pcs) /\ ~(f.pc \in pcs /\ f.job = k))
      /\ \A k, q : Counting(k, q)' <=> Counting(k, q) /\ ~(f.pc = "count" /\ f.job = k /\ f.dep = q)
      /\ \A k : f.pc # "store" \/ f.job # k => (Setting(k)' <=> Setting(k))
      /\ \A k : Starting(k)' <=> Starting(k) /\ ~(f.pc = "decrement" /\ Place(t)[2] = 1 /\ f.job = k)
      /\ \A q : Signalling(q)' <=>
            Signalling(q) /\ ~(f.pc = "decrement" /\ Place(t)[2] > 1 /\ FrameAt(Below(Place(t))).job = q)
      /\ StacksOK' /\ OnceOK'
  BY <1>1, AfterReturn
<1>8. /\ \A k : \A pcs : pcs \subseteq Parts => (Acting(k, pcs)' <=> Acting(k, pcs))
      /\ \A k, q : Counting(k, q)' <=> Counting(k, q) /\ ~(c = k /\ p = q)
      /\ \A k : Setting(k)' <=> Setting(k)
      /\ \A k : Starting(k)' <=> Starting(k)
      /\ \A q : Signalling(q)' <=> Signalling(q)
  <2>1. \A k : \A pcs : pcs \subseteq Parts => (Acting(k, pcs)' <=> Acting(k, pcs))
    BY <1>6, <1>7
  <2>2. \A k, q : Counting(k, q)' <=> Counting(k, q) /\ ~(c = k /\ p = q)
    BY <1>1, <1>3, <1>7
  <2>3. \A k : Setting(k)' <=> Setting(k)
    BY <1>1, <1>7
  <2>4. \A k : Starting(k)' <=> Starting(k)
    BY <1>1, <1>7
  <2>5. \A q : Signalling(q)' <=> Signalling(q)
    BY <1>1, <1>7
  <2> QED BY <2>1, <2>2, <2>3, <2>4, <2>5
<1>9. \A q \in Jobs : Signalled(q)' <=> Signalled(q)
  BY <1>1, <1>6, <1>8 DEF Signalled
<1>10. \A k, q \in Jobs : Owes(q, k)' <=> Owes(q, k) \/ (k = c /\ q = p)
  <2> SUFFICES ASSUME NEW k \in Jobs, NEW q \in Jobs PROVE Owes(q, k)' <=> Owes(q, k) \/ (k = c /\ q = p)
    OBVIOUS
  <2>1. AttachMade(k, q)' <=> AttachMade(k, q)
    BY <1>1 DEF AttachMade
  <2>2. Counting(k, q)' <=> Counting(k, q) /\ ~(c = k /\ p = q)
    BY <1>8
  <2>3. (dependent'[q] = k /\ Signalled(q)') <=> (dependent[q] = k /\ Signalled(q))
    BY <1>1, <1>9
  <2>4. CASE k = c /\ q = p
    BY <1>4, <1>5, <2>1, <2>2, <2>3, <2>4 DEF Owes
  <2>5. CASE ~(k = c /\ q = p)
    BY <2>1, <2>2, <2>3, <2>5 DEF Owes
  <2> QED BY <2>4, <2>5
<1>11. \A k \in Jobs : Held(k)' <=> Held(k)
  BY <1>1, <1>8 DEF Held, Scheduled
<1>12. \A k \in Jobs : k # c => Owed(k)' = Owed(k) /\ Count(k)' = Count(k)
  BY <1>10, <1>11, CountSame
<1>13. Count(c)' = Count(c) + 1 /\ Count(c) \in 0 .. CountRange - 1
  <2>1. Owed(c)' = Owed(c) \cup {p}
    <3>1. Owed(c)' = {q \in Parents(c) : Owes(q, c)'}
      BY DEF Owed, Parents
    <3>2. Parents(c) \subseteq Jobs
      BY DEF Parents
    <3> QED BY <1>5, <1>10, <3>1, <3>2 DEF Owed
  <2>2. p \notin Owed(c)
    BY <1>4 DEF Owed, Owes
  <2>3. Owed(c) \cup {p} \in SUBSET Parents(c) /\ Owed(c) \in SUBSET Parents(c)
    BY <1>5 DEF Owed
  <2>4. IsFiniteSet(Owed(c)) /\ Cardinality(Owed(c) \cup {p}) \in 0 .. CountRange - 1 /\ Cardinality(Owed(c)) \in Nat
    BY <2>3, Counts, CountRangeAssumption
  <2>5. Cardinality(Owed(c) \cup {p}) = Cardinality(Owed(c)) + 1
    BY <2>2, <2>4, FS_AddElement
  <2>6. Held(c) /\ Held(c)'
    BY <1>1, <1>4 DEF Held, Scheduled
  <2>7. Count(c) = Cardinality(Owed(c)) + 1
    BY <2>6 DEF Count
  <2>8. Count(c)' = Cardinality(Owed(c) \cup {p}) + 1
    <3>1. Count(c)' = Cardinality(Owed(c)') + (IF Held(c)' THEN 1 ELSE 0)
      BY DEF Count
    <3> QED BY <2>1, <2>6, <3>1
  <2> QED BY <2>4, <2>5, <2>7, <2>8, CountRangeAssumption
<1>14. CallsOK'
  <2>1. \A x \in Frames \ {Place(t)} : FrameAt(x).pc \in Parts => FrameAt(x).job \in running'
    BY <1>1 DEF IInv, CallsOK, CallOK
  <2> QED BY <1>1, <1>7, <2>1, CallsKept DEF IInv
<1>15. MadeOK'
  BY <1>1 DEF IInv, MadeOK, Scheduled, AttachMade
<1>16. PoolOK' /\ Submitted' = Submitted
  BY <1>1, <1>6, <1>8, PoolKept DEF IInv, TypeOK
<1>17. SettledOK'
  <2>1. \A k \in Jobs : Settled(k)' <=> Settled(k)
    BY <1>1, <1>4, <1>8, <1>12 DEF Settled, Scheduled
  <2> QED BY <1>16, <2>1 DEF IInv, SettledOK
<1>18. FlagsOK'
  <2>1. ASSUME NEW k \in Jobs, k # c PROVE FlagOK(k)'
    <3>1. flags'[k] = flags[k]
      BY <1>1, <1>3, <2>1 DEF IInv, TypeOK
    <3> QED BY <1>1, <1>8, <1>12, <2>1, <3>1, FlagKept DEF IInv, FlagsOK
  <2>2. FlagOK(c)'
    <3>1. PICK r \in 0 .. 3 : flags[c] = Word(c, Count(c), r) /\ r \in WantedPriorities(c)
      BY <1>5 DEF IInv, FlagsOK, FlagOK
    <3>2. flags'[c] = Incremented(flags[c])
      BY <1>1, <1>3 DEF IInv, TypeOK
    <3>3. flags'[c] = Word(c, Count(c)', r)
      BY <1>13, <3>1, <3>2, WordSteps
    <3>4. WantedPriorities(c)' = WantedPriorities(c)
      BY <1>1 DEF WantedPriorities
    <3> QED BY <3>1, <3>3, <3>4, FlagAfter
  <2> QED BY <2>1, <2>2 DEF FlagsOK
<1>19. AliveOK'
  BY <1>1, <1>6, <1>8 DEF IInv, AliveOK
<1>20. accessed' = {}
  BY <1>1, <1>3, <1>5 DEF IInv, Access
<1> QED BY <1>7, <1>14, <1>15, <1>16, <1>17, <1>18, <1>19, <1>20 DEF Consistent

\* Schedule assigns m_pScheduler, which an operation has from its constructor.
LEMMA ScheduleStep ==
    ASSUME Limits, IInv, NEW t \in Clients, NEW j \in Jobs, Schedule(t, j) \/ Await(t, j)
    PROVE  Consistent'
<1> DEFINE f == Frame("decrement", j)
           x0 == <<t, 1>>
<1>1. /\ MaySchedule(j) /\ Idle(t) /\ Push(t, f) /\ accessed' \subseteq accessed \cup ({j} \ alive)
      /\ <<"schedule", j>> \notin made /\ made' = made \cup {<<"schedule", j>>} /\ bound' = bound \cup {j}
      /\ UNCHANGED <<flags, dependent, alive, submissions, waiting, running, finished>>
  <2>1. CASE Schedule(t, j)
    BY <2>1 DEF Schedule, Make, pool, Access
  <2>2. CASE Await(t, j)
    <3>1. j \in bound
      BY <2>2 DEF Await, IInv, MadeOK
    <3> QED BY <2>2, <3>1 DEF Await, Make, pool, history
  <2> QED BY <2>1, <2>2
<1>2. f \in FrameType /\ f.pc = "decrement" /\ f.job = j /\ t \in Threads
  BY TypesOfCalls DEF FramePc, Frame
<1>3. ~Scheduled(j) /\ ~Starting(j) /\ j \notin Submitted /\ j \in alive
  BY <1>1, Facts DEF Scheduled
<1>4. /\ ~Setting(j)
      /\ \A p \in Parents(j) : AttachMade(j, p) /\ ~Counting(j, p)
      /\ \A c \in Children(j) : AttachMade(c, j) /\ ~Counting(c, j)
  BY <1>1, Seen DEF MaySchedule, Limits, Parents, Children
<1>5. \A k \in Jobs : ~Counting(j, k) /\ ~Counting(k, j)
  <2>1. \A k \in Jobs : Counting(j, k) => k \in Parents(j)
    BY Facts, CallsMade DEF IInv
  <2>2. \A k \in Jobs : Counting(k, j) => k \in Children(j)
    BY Facts, CallsMade DEF IInv, Children
  <2> QED BY <1>4, <2>1, <2>2
<1>6. f.pc \notin Parts /\ Parts \subseteq Parts
  BY <1>2 DEF Parts
<1> HIDE DEF f
<1>7. /\ Rearranged(Frames, {x0}) /\ FrameAfter(x0) = f
      /\ \A k, pcs : Acting(k, pcs)' <=> Acting(k, pcs) \/ (f.pc \in pcs /\ f.job = k)
      /\ \A k, q : Counting(k, q)' <=> Counting(k, q) \/ (f.pc = "count" /\ f.job = k /\ f.dep = q)
      /\ \A k : Setting(k)' <=> Setting(k) \/ (f.pc = "store" /\ f.job = k)
      /\ \A k : Starting(k)' <=> Starting(k) \/ (f.pc = "decrement" /\ f.job = k)
      /\ \A q : Signalling(q)' <=> Signalling(q)
      /\ StacksOK' /\ OnceOK'
  BY <1>1, <1>2, <1>3, <1>6, AfterPush
<1> HIDE DEF x0
<1>8. /\ \A k, q : <<"attach", k, q>> \in made' <=> <<"attach", k, q>> \in made
      /\ \A k : <<"schedule", k>> \in made' <=> <<"schedule", k>> \in made \/ k = j
      /\ \A k, q : <<"priority", k, q>> \in made' <=> <<"priority", k, q>> \in made
  BY <1>1, DifferentCalls
<1>9. \A q \in Jobs : Signalled(q)' <=> Signalled(q)
  <2>1. \A q \in Jobs : Acting(q, {"delete"})' <=> Acting(q, {"delete"})
    BY <1>2, <1>7
  <2> QED BY <1>1, <1>7, <2>1 DEF Signalled
<1>10. \A k : Starting(k)' <=> Starting(k) \/ k = j
  BY <1>2, <1>7
<1>11. ASSUME NEW k \in Jobs PROVE Owed(k)' = Owed(k) /\ Count(k)' = Count(k)
  <2>1. ASSUME NEW q \in Jobs PROVE Owes(q, k)' <=> Owes(q, k)
    <3>1. AttachMade(k, q)' <=> AttachMade(k, q)
      BY <1>8 DEF AttachMade
    <3>2. Counting(k, q)' <=> Counting(k, q)
      BY <1>2, <1>7
    <3> QED BY <1>1, <1>9, <3>1, <3>2 DEF Owes
  <2>2. Held(k)' <=> Held(k)
    <3>1. CASE k = j
      BY <1>3, <1>10, <3>1 DEF Held
    <3>2. CASE k # j
      BY <1>1, <1>8, <1>10, <3>2 DEF Held, Scheduled
    <3> QED BY <3>1, <3>2
  <2> QED BY <2>1, <2>2, CountSame
<1>12. CallsOK'
  <2>1. ASSUME NEW x \in Frames, FrameAt(x).pc = "count"
        PROVE  ~ScheduledAfter(FrameAt(x).dep) /\ ~ScheduledAfter(FrameAt(x).job)
    <3>1. CallOK(x) /\ FrameAt(x) \in FrameType
      BY FramesTyped, TypesOfCalls DEF IInv, CallsOK
    <3>2. /\ ~Scheduled(FrameAt(x).dep) /\ ~Scheduled(FrameAt(x).job) /\ FrameAt(x).dep \in Jobs /\ FrameAt(x).job \in Jobs
          /\ Counting(FrameAt(x).job, FrameAt(x).dep)
      BY <2>1, <3>1 DEF CallOK, FrameType, Counting
    <3>3. FrameAt(x).dep # j /\ FrameAt(x).job # j
      BY <1>5, <3>2
    <3> QED BY <1>8, <3>2, <3>3 DEF Scheduled, ScheduledAfter
  <2>2. ASSUME NEW x \in Frames, FrameAt(x).pc = "store" PROVE UntouchedAfter(FrameAt(x).job)
    <3>1. Untouched(FrameAt(x).job)
      BY <2>2 DEF IInv, CallsOK, CallOK
    <3>2. FrameAt(x).job # j
      BY <1>4, <2>2 DEF Setting
    <3> QED BY <1>8, <3>1, <3>2 DEF Untouched, UntouchedAfter, Scheduled, ScheduledAfter
  <2>3. \A x \in Frames : FrameAt(x).pc \in Parts =>
            FrameAt(x).job \in running' /\ dependent'[FrameAt(x).job] = dependent[FrameAt(x).job]
    BY <1>1 DEF IInv, CallsOK, CallOK
  <2>4. ASSUME NEW x \in {x0} PROVE CallOK(x)'
    <3>1. FrameAfter(x) = f
      BY <1>7
    <3>2. ScheduledAfter(f.job) /\ f.job \in bound'
      BY <1>1, <1>2, <1>8 DEF ScheduledAfter
    <3> QED BY <1>2, <1>6, <3>1, <3>2, CallAfter
  <2>5. made \subseteq made' /\ bound \subseteq bound'
    BY <1>1
  <2> QED BY <1>7, <2>1, <2>2, <2>3, <2>4, <2>5, CallsStep DEF IInv
<1>13. MadeOK'
  BY <1>1, <1>4, <1>8 DEF IInv, MadeOK, Scheduled, AttachMade
<1>14. PoolOK' /\ Submitted' = Submitted
  BY <1>1, <1>7, PoolKept DEF IInv, TypeOK
<1>15. SettledOK'
  <2>1. ASSUME NEW k \in Jobs PROVE Settled(k)' <=> Settled(k)
    <3>1. CASE k = j
      BY <1>1, <1>3, <1>10, <3>1 DEF Settled
    <3>2. CASE k # j
      BY <1>1, <1>8, <1>10, <1>11, <3>2 DEF Settled, Scheduled
    <3> QED BY <3>1, <3>2
  <2> QED BY <1>14, <2>1 DEF IInv, SettledOK
<1>16. FlagsOK'
  <2>1. \A k \in Jobs : FlagOK(k)'
    BY <1>1, <1>7, <1>8, <1>11, FlagKept DEF IInv, FlagsOK
  <2> QED BY <2>1 DEF FlagsOK
<1>17. AliveOK'
  BY <1>1, <1>7 DEF IInv, AliveOK
<1>18. accessed' = {}
  BY <1>1, <1>3 DEF IInv
<1> QED BY <1>7, <1>12, <1>13, <1>14, <1>15, <1>16, <1>17, <1>18 DEF Consistent

LEMMA RunOneTimeStep ==
    ASSUME IInv, NEW t \in Clients, NEW j \in Jobs, RunOneTime(t, j)
    PROVE  Consistent'
<1>1. /\ j \in OneTimeJobs /\ Parents(j) = {} /\ Children(j) = {} /\ \A p \in 0 .. 3 : <<j, p>> \notin Priorities
      /\ <<"schedule", j>> \notin made /\ made' = made \cup {<<"schedule", j>>}
      /\ waiting' = waiting \cup {j} /\ submissions' = [submissions EXCEPT ![j] = @ + 1]
      /\ UNCHANGED <<flags, dependent, bound, calls, alive, accessed, running, finished>>
  BY DEF RunOneTime, Make
<1>2. ~Scheduled(j) /\ j \notin Submitted /\ j \notin bound
  BY <1>1, Facts, JobsAssumption DEF Scheduled, IInv, MadeOK
<1>3. /\ Frames' = Frames /\ (StacksOK' <=> StacksOK) /\ (OnceOK' <=> OnceOK)
      /\ \A x : FrameAfter(x) = FrameAt(x)
      /\ \A k, pcs : Acting(k, pcs)' <=> Acting(k, pcs)
      /\ \A k, q : Counting(k, q)' <=> Counting(k, q)
      /\ \A k : Setting(k)' <=> Setting(k)
      /\ \A k : Starting(k)' <=> Starting(k)
      /\ \A q : Signalling(q)' <=> Signalling(q)
  BY <1>1 DEF Frames, StacksOK, OnceOK, SameCall, FrameAfter, FrameAt, Acting, Counting, Setting, Starting, Signalling
<1>4. CallsTyped /\ CallsTyped'
  BY <1>1, TypesOfCalls DEF IInv, CallsTyped
<1>5. Rearranged(Frames, {})
  <2>1. \A x \in Frames : x[2] > 1 => Below(x) \in Frames
    BY DEF IInv, StacksOK
  <2> QED BY <1>3, <1>4, <2>1 DEF Rearranged
<1>6. /\ \A k, q : <<"attach", k, q>> \in made' <=> <<"attach", k, q>> \in made
      /\ \A k : <<"schedule", k>> \in made' <=> <<"schedule", k>> \in made \/ k = j
      /\ \A k, q : <<"priority", k, q>> \in made' <=> <<"priority", k, q>> \in made
  BY <1>1, DifferentCalls
<1>7. \A q \in Jobs : Signalled(q)' <=> Signalled(q)
  BY <1>1, <1>3 DEF Signalled
<1>8. ASSUME NEW k \in Jobs PROVE Owed(k)' = Owed(k) /\ Count(k)' = Count(k)
  <2>1. ASSUME NEW q \in Jobs PROVE Owes(q, k)' <=> Owes(q, k)
    BY <1>1, <1>3, <1>6, <1>7 DEF Owes, AttachMade
  <2>2. Held(k)' <=> Held(k)
    BY <1>1, <1>2, <1>3, <1>6 DEF Held, Scheduled
  <2> QED BY <2>1, <2>2, CountSame
<1>9. CallsOK'
  <2>1. ASSUME NEW x \in Frames, FrameAt(x).pc = "count"
        PROVE  ~ScheduledAfter(FrameAt(x).dep) /\ ~ScheduledAfter(FrameAt(x).job)
    <3>1. CallOK(x)
      BY DEF IInv, CallsOK
    <3>2. ~Scheduled(FrameAt(x).dep) /\ ~Scheduled(FrameAt(x).job) /\ AttachMade(FrameAt(x).job, FrameAt(x).dep)
      BY <2>1, <3>1 DEF CallOK
    <3>3. FrameAt(x).dep # j /\ FrameAt(x).job # j
      BY <1>1, <3>2, CallsMade DEF IInv, Parents, Children
    <3> QED BY <1>6, <3>2, <3>3 DEF Scheduled, ScheduledAfter
  <2>2. ASSUME NEW x \in Frames, FrameAt(x).pc = "store" PROVE UntouchedAfter(FrameAt(x).job)
    <3>1. Untouched(FrameAt(x).job) /\ \E p \in 0 .. 3 : <<"priority", FrameAt(x).job, p>> \in made
      BY <2>2 DEF IInv, CallsOK, CallOK
    <3>2. FrameAt(x).job # j
      BY <1>1, <3>1, CallsMade DEF IInv
    <3> QED BY <1>6, <3>1, <3>2 DEF Untouched, UntouchedAfter, Scheduled, ScheduledAfter
  <2>3. \A x \in Frames : FrameAt(x).pc \in Parts =>
            FrameAt(x).job \in running' /\ dependent'[FrameAt(x).job] = dependent[FrameAt(x).job]
    BY <1>1 DEF IInv, CallsOK, CallOK
  <2>4. made \subseteq made' /\ bound \subseteq bound'
    BY <1>1
  <2>5. \A x \in {} : CallOK(x)'
    OBVIOUS
  <2> QED BY <1>5, <2>1, <2>2, <2>3, <2>4, <2>5, CallsStep DEF IInv
<1>10. MadeOK'
  BY <1>1, <1>6 DEF IInv, MadeOK, Scheduled, AttachMade
<1>11. Submitted' = Submitted \cup {j}
  BY <1>1 DEF Submitted
<1>12. PoolOK'
  <2>1. \A k \in running' : Acting(k, Parts)'
    BY <1>1, <1>3 DEF IInv, PoolOK
  <2>2. /\ waiting' \cap running' = {} /\ waiting' \cap finished' = {} /\ running' \cap finished' = {}
    BY <1>1, <1>2 DEF IInv, PoolOK, Submitted
  <2>3. \A k \in Jobs : submissions'[k] = IF k \in Submitted' THEN 1 ELSE 0
    BY <1>1, <1>2, <1>11 DEF IInv, PoolOK, TypeOK
  <2> QED BY <2>1, <2>2, <2>3 DEF PoolOK
<1>13. SettledOK'
  <2>1. ASSUME NEW k \in Jobs PROVE Settled(k)' <=> Settled(k) \/ k = j
    <3>1. CASE k = j
      BY <1>1, <1>2, <1>6, <3>1 DEF Settled, Scheduled
    <3>2. CASE k # j
      BY <1>1, <1>3, <1>6, <1>8, <3>2 DEF Settled, Scheduled
    <3> QED BY <3>1, <3>2
  <2> QED BY <1>11, <2>1 DEF IInv, SettledOK
<1>14. FlagsOK'
  <2>1. \A k \in Jobs : FlagOK(k)'
    BY <1>1, <1>3, <1>6, <1>8, FlagKept DEF IInv, FlagsOK
  <2> QED BY <2>1 DEF FlagsOK
<1>15. AliveOK'
  BY <1>1, <1>3 DEF IInv, AliveOK
<1> QED BY <1>1, <1>3, <1>9, <1>10, <1>12, <1>13, <1>14, <1>15 DEF Consistent, IInv

LEMMA SetPriorityStep ==
    ASSUME Limits, IInv, NEW t \in Clients, NEW j \in Jobs, NEW p \in 0 .. 3, SetPriority(t, j, p)
    PROVE  Consistent'
<1> DEFINE f == [Frame("store", j) EXCEPT !.word = WithPriority(flags[j], p)]
           x0 == <<t, 1>>
<1>1. /\ Untouched(j) /\ Idle(t) /\ Push(t, f) /\ Access(j) /\ made' = made \cup {<<"priority", j, p>>}
      /\ UNCHANGED <<flags, dependent, bound, alive, submissions, waiting, running, finished>>
  BY DEF SetPriority, Make, pool, Limits
<1>2. ~Scheduled(j) /\ Owed(j) = {} /\ Count(j) = 1 /\ j \in alive
  BY <1>1, Facts DEF Untouched
<1>3. PICK r \in 0 .. 3 : flags[j] = Word(j, 1, r)
  BY <1>2 DEF IInv, FlagsOK, FlagOK
<1>4. 1 \in 0 .. CountRange - 1
  BY CountRangeAssumption
<1>5. WithPriority(flags[j], p) = Word(j, 1, p)
  BY <1>3, <1>4, WordSteps
<1>6. Word(j, 1, p) \in 0 .. WordRange - 1
  BY <1>4, CountRangeAssumption, WordTyped
<1>7. f \in FrameType /\ f.pc = "store" /\ f.job = j /\ f.word = Word(j, 1, p) /\ t \in Threads
  BY <1>5, <1>6, TypesOfCalls DEF FrameType, FramePc, Frame
<1>8. f.pc \notin Parts /\ Parts \subseteq Parts
  BY <1>7 DEF Parts
<1> HIDE DEF f
<1>9. /\ Rearranged(Frames, {x0}) /\ FrameAfter(x0) = f
      /\ \A k, pcs : Acting(k, pcs)' <=> Acting(k, pcs) \/ (f.pc \in pcs /\ f.job = k)
      /\ \A k, q : Counting(k, q)' <=> Counting(k, q) \/ (f.pc = "count" /\ f.job = k /\ f.dep = q)
      /\ \A k : Setting(k)' <=> Setting(k) \/ (f.pc = "store" /\ f.job = k)
      /\ \A k : Starting(k)' <=> Starting(k) \/ (f.pc = "decrement" /\ f.job = k)
      /\ \A q : Signalling(q)' <=> Signalling(q)
      /\ StacksOK' /\ OnceOK'
  BY <1>1, <1>7, <1>8, AfterPush
<1> HIDE DEF x0
<1>10. /\ \A k, q : <<"attach", k, q>> \in made' <=> <<"attach", k, q>> \in made
       /\ \A k : <<"schedule", k>> \in made' <=> <<"schedule", k>> \in made
       /\ \A k, q : <<"priority", k, q>> \in made' <=> <<"priority", k, q>> \in made \/ (k = j /\ q = p)
  BY <1>1, DifferentCalls
<1>11. \A q \in Jobs : Signalled(q)' <=> Signalled(q)
  <2>1. \A q \in Jobs : Acting(q, {"delete"})' <=> Acting(q, {"delete"})
    BY <1>7, <1>9
  <2> QED BY <1>1, <1>9, <2>1 DEF Signalled
<1>12. /\ \A k : Starting(k)' <=> Starting(k)
       /\ \A k, q : Counting(k, q)' <=> Counting(k, q)
       /\ \A k : Setting(k)' <=> Setting(k) \/ k = j
  BY <1>7, <1>9
<1>13. ASSUME NEW k \in Jobs PROVE Owed(k)' = Owed(k) /\ Count(k)' = Count(k)
  <2>1. ASSUME NEW q \in Jobs PROVE Owes(q, k)' <=> Owes(q, k)
    BY <1>1, <1>10, <1>11, <1>12 DEF Owes, AttachMade
  <2>2. Held(k)' <=> Held(k)
    BY <1>1, <1>10, <1>12 DEF Held, Scheduled
  <2> QED BY <2>1, <2>2, CountSame
<1>14. CallsOK'
  <2>1. \A x \in Frames : FrameAt(x).pc = "count" => ~ScheduledAfter(FrameAt(x).dep) /\ ~ScheduledAfter(FrameAt(x).job)
    BY <1>10 DEF IInv, CallsOK, CallOK, Scheduled, ScheduledAfter
  <2>2. \A x \in Frames : FrameAt(x).pc = "store" => UntouchedAfter(FrameAt(x).job)
    BY <1>10 DEF IInv, CallsOK, CallOK, Scheduled, ScheduledAfter, Untouched, UntouchedAfter
  <2>3. \A x \in Frames : FrameAt(x).pc \in Parts =>
            FrameAt(x).job \in running' /\ dependent'[FrameAt(x).job] = dependent[FrameAt(x).job]
    BY <1>1 DEF IInv, CallsOK, CallOK
  <2>4. ASSUME NEW x \in {x0} PROVE CallOK(x)'
    <3>1. FrameAfter(x) = f /\ x[1] \in Clients
      BY <1>9 DEF x0
    <3>2. UntouchedAfter(f.job) /\ <<"priority", f.job, p>> \in made'
      BY <1>1, <1>7, <1>10 DEF Scheduled, ScheduledAfter, Untouched, UntouchedAfter
    <3> QED BY <1>7, <1>8, <3>1, <3>2, CallAfter
  <2>5. made \subseteq made' /\ bound \subseteq bound'
    BY <1>1
  <2> QED BY <1>9, <2>1, <2>2, <2>3, <2>4, <2>5, CallsStep DEF IInv
<1>15. MadeOK'
  BY <1>1, <1>10 DEF IInv, MadeOK, Scheduled, AttachMade
<1>16. PoolOK' /\ Submitted' = Submitted
  BY <1>1, <1>9, PoolKept DEF IInv, TypeOK
<1>17. SettledOK'
  <2>1. \A k \in Jobs : Settled(k)' <=> Settled(k)
    BY <1>1, <1>10, <1>12, <1>13 DEF Settled, Scheduled
  <2> QED BY <1>16, <2>1 DEF IInv, SettledOK
<1>18. FlagsOK'
  <2>1. ASSUME NEW k \in Jobs, k # j PROVE FlagOK(k)'
    BY <1>1, <1>10, <1>12, <1>13, <2>1, FlagKept DEF IInv, FlagsOK
  <2>2. FlagOK(j)'
    BY <1>1, <1>2, <1>3, <1>12, <1>13, FlagAfter
  <2> QED BY <2>1, <2>2 DEF FlagsOK
<1>19. AliveOK'
  BY <1>1, <1>9 DEF IInv, AliveOK
<1>20. accessed' = {}
  BY <1>1, <1>2 DEF IInv, Access
<1> QED BY <1>9, <1>14, <1>15, <1>16, <1>17, <1>18, <1>19, <1>20 DEF Consistent

LEMMA StoreStep ==
    ASSUME IInv, NEW t \in Threads, StoreFlags(t)
    PROVE  Consistent'
<1> DEFINE f == Top(t)
           x0 == Place(t)
<1>1. /\ ~Idle(t) /\ f.pc = "store" /\ flags' = [flags EXCEPT ![f.job] = f.word] /\ Access(f.job) /\ Return(t)
      /\ UNCHANGED <<dependent, bound, made, alive, submissions, waiting, running, finished>>
  BY DEF StoreFlags, At, pool
<1>2. x0 \in Frames /\ FrameAt(x0) = f /\ f \in FrameType /\ CallOK(x0)
  BY <1>1, TopCall
<1>3. PICK j \in Jobs : j = f.job
  BY <1>2 DEF FrameType
<1>4. Untouched(j)
  BY <1>1, <1>2, <1>3 DEF CallOK
<1>5. PICK p \in 0 .. 3 : <<"priority", j, p>> \in made /\ f.word = Word(j, 1, p)
  BY <1>1, <1>2, <1>3 DEF CallOK
<1>6. Count(j) = 1 /\ j \in alive
  BY <1>4, Facts DEF Untouched
<1>7. f.pc \notin Parts /\ Parts \subseteq Parts /\ {"delete"} \subseteq Parts /\ {"signal", "delete"} \subseteq Parts
  BY <1>1 DEF Parts
<1>8. /\ Rearranged(Frames \ {Place(t)}, {})
      /\ \A k : \A pcs : pcs \subseteq Parts => (Acting(k, pcs)' <=> Acting(k, pcs) /\ ~(f.pc \in pcs /\ f.job = k))
      /\ \A k, q : Counting(k, q)' <=> Counting(k, q) /\ ~(f.pc = "count" /\ f.job = k /\ f.dep = q)
      /\ \A k : f.pc # "store" \/ f.job # k => (Setting(k)' <=> Setting(k))
      /\ \A k : Starting(k)' <=> Starting(k) /\ ~(f.pc = "decrement" /\ Place(t)[2] = 1 /\ f.job = k)
      /\ \A q : Signalling(q)' <=>
            Signalling(q) /\ ~(f.pc = "decrement" /\ Place(t)[2] > 1 /\ FrameAt(Below(Place(t))).job = q)
      /\ StacksOK' /\ OnceOK'
  BY <1>1, AfterReturn
<1>9. /\ \A k : \A pcs : pcs \subseteq Parts => (Acting(k, pcs)' <=> Acting(k, pcs))
      /\ \A k, q : Counting(k, q)' <=> Counting(k, q)
      /\ \A k : k # j => (Setting(k)' <=> Setting(k))
      /\ \A k : Starting(k)' <=> Starting(k)
      /\ \A q : Signalling(q)' <=> Signalling(q)
  <2>1. \A k : \A pcs : pcs \subseteq Parts => (Acting(k, pcs)' <=> Acting(k, pcs))
    BY <1>7, <1>8
  <2>2. \A k, q : Counting(k, q)' <=> Counting(k, q)
    BY <1>1, <1>8
  <2>3. \A k : k # j => (Setting(k)' <=> Setting(k))
    BY <1>3, <1>8
  <2>4. \A k : Starting(k)' <=> Starting(k)
    BY <1>1, <1>8
  <2>5. \A q : Signalling(q)' <=> Signalling(q)
    BY <1>1, <1>8
  <2> QED BY <2>1, <2>2, <2>3, <2>4, <2>5
<1>10. \A q \in Jobs : Signalled(q)' <=> Signalled(q)
  BY <1>1, <1>7, <1>9 DEF Signalled
<1>11. ASSUME NEW k \in Jobs PROVE Owed(k)' = Owed(k) /\ Count(k)' = Count(k)
  <2>1. \A q \in Jobs : Owes(q, k)' <=> Owes(q, k)
    BY <1>1, <1>9, <1>10 DEF Owes, AttachMade
  <2>2. Held(k)' <=> Held(k)
    BY <1>1, <1>9 DEF Held, Scheduled
  <2> QED BY <2>1, <2>2, CountSame
<1>12. CallsOK'
  <2>1. \A x \in Frames \ {Place(t)} : FrameAt(x).pc \in Parts => FrameAt(x).job \in running'
    BY <1>1 DEF IInv, CallsOK, CallOK
  <2> QED BY <1>1, <1>8, <2>1, CallsKept DEF IInv
<1>13. MadeOK'
  BY <1>1 DEF IInv, MadeOK, Scheduled, AttachMade
<1>14. PoolOK' /\ Submitted' = Submitted
  BY <1>1, <1>7, <1>9, PoolKept DEF IInv, TypeOK
<1>15. SettledOK'
  <2>1. \A k \in Jobs : Settled(k)' <=> Settled(k)
    BY <1>1, <1>9, <1>11 DEF Settled, Scheduled
  <2> QED BY <1>14, <2>1 DEF IInv, SettledOK
<1>16. FlagsOK'
  <2>1. ASSUME NEW k \in Jobs, k # j PROVE FlagOK(k)'
    <3>1. flags'[k] = flags[k]
      BY <1>1, <1>3, <2>1 DEF IInv, TypeOK
    <3> QED BY <1>1, <1>9, <1>11, <2>1, <3>1, FlagKept DEF IInv, FlagsOK
  <2>2. FlagOK(j)'
    <3>1. flags'[j] = Word(j, Count(j)', p)
      BY <1>1, <1>3, <1>5, <1>6, <1>11 DEF IInv, TypeOK
    <3>2. p \in WantedPriorities(j)'
      BY <1>1, <1>5 DEF WantedPriorities
    <3> QED BY <3>1, <3>2, FlagAfter
  <2> QED BY <2>1, <2>2 DEF FlagsOK
<1>17. AliveOK'
  BY <1>1, <1>7, <1>9 DEF IInv, AliveOK
<1>18. accessed' = {}
  BY <1>1, <1>3, <1>6 DEF IInv, Access
<1> QED BY <1>8, <1>12, <1>13, <1>14, <1>15, <1>16, <1>17, <1>18 DEF Consistent

\* A decrement is the last thing its call does, or goes on to execute an empty job.
LEMMA AfterDecrement ==
    ASSUME IInv, NEW t \in Threads, ~Idle(t), Top(t).pc = "decrement", NEW j \in Jobs, j = Top(t).job,
           Return(t) \/ (Replace(t, Frame("capture", j)) /\ ~Acting(j, Parts))
    PROVE  /\ \E N : Rearranged(Frames \ {Place(t)}, N) /\ \A x \in N : FrameAfter(x) = Frame("capture", j) /\ ~Return(t)
           /\ \A k : \A pcs : pcs \subseteq Parts \ {"capture"} => (Acting(k, pcs)' <=> Acting(k, pcs))
           /\ \A k : Acting(k, Parts) => Acting(k, Parts)'
           /\ Return(t) \/ Acting(j, Parts)'
           /\ \A k, q : Counting(k, q)' <=> Counting(k, q)
           /\ \A k : Setting(k)' <=> Setting(k)
           /\ \A k : Starting(k)' <=> Starting(k) /\ ~(Place(t)[2] = 1 /\ k = j)
           /\ \A q : Signalling(q)' <=> Signalling(q) /\ ~(Place(t)[2] > 1 /\ FrameAt(Below(Place(t))).job = q)
           /\ StacksOK' /\ OnceOK'
<1> DEFINE f == Top(t)
           g == Frame("capture", j)
           x0 == Place(t)
           b == FrameAt(Below(x0))
<1>1. f.pc = "decrement" /\ f.job = j /\ f.pc \notin Parts /\ Parts \subseteq Parts
  BY DEF Parts
<1>2. CASE Return(t)
  <2>1. /\ Rearranged(Frames \ {x0}, {})
        /\ \A k : \A pcs : pcs \subseteq Parts => (Acting(k, pcs)' <=> Acting(k, pcs) /\ ~(f.pc \in pcs /\ f.job = k))
        /\ \A k, q : Counting(k, q)' <=> Counting(k, q) /\ ~(f.pc = "count" /\ f.job = k /\ f.dep = q)
        /\ \A k : f.pc # "store" \/ f.job # k => (Setting(k)' <=> Setting(k))
        /\ \A k : Starting(k)' <=> Starting(k) /\ ~(f.pc = "decrement" /\ x0[2] = 1 /\ f.job = k)
        /\ \A q : Signalling(q)' <=> Signalling(q) /\ ~(f.pc = "decrement" /\ x0[2] > 1 /\ b.job = q)
        /\ StacksOK' /\ OnceOK'
    BY <1>2, AfterReturn
  <2> HIDE DEF f, x0, b, g
  <2>2. \E N : Rearranged(Frames \ {x0}, N) /\ \A x \in N : FrameAfter(x) = g /\ ~Return(t)
    BY <2>1
  <2>3. \A k : \A pcs : pcs \subseteq Parts => (Acting(k, pcs)' <=> Acting(k, pcs))
    BY <1>1, <2>1
  <2>4. \A k : \A pcs : pcs \subseteq Parts \ {"capture"} => (Acting(k, pcs)' <=> Acting(k, pcs))
    BY <2>3
  <2>5. \A k : Acting(k, Parts) => Acting(k, Parts)'
    BY <2>3
  <2>6. /\ \A k, q : Counting(k, q)' <=> Counting(k, q)
        /\ \A k : Setting(k)' <=> Setting(k)
    BY <1>1, <2>1
  <2>7. /\ \A k : Starting(k)' <=> Starting(k) /\ ~(x0[2] = 1 /\ k = j)
        /\ \A q : Signalling(q)' <=> Signalling(q) /\ ~(x0[2] > 1 /\ b.job = q)
    BY <1>1, <2>1
  <2> QED BY <1>2, <2>1, <2>2, <2>4, <2>5, <2>6, <2>7 DEF x0, b, g
<1>3. CASE ~Return(t)
  <2>1. Replace(t, g) /\ g \in FrameType /\ g.pc = "capture" /\ g.job = j /\ g.pc \in Parts /\ ~Acting(g.job, Parts)
    BY <1>3, TypesOfCalls DEF Frame, Parts, FramePc
  <2> HIDE DEF g
  <2>2. /\ Rearranged(Frames \ {x0}, {x0}) /\ FrameAfter(x0) = g
        /\ \A k : \A pcs : pcs \subseteq Parts =>
            (Acting(k, pcs)' <=> (Acting(k, pcs) /\ ~(f.pc \in pcs /\ f.job = k)) \/ (g.pc \in pcs /\ g.job = k))
        /\ \A k, q : Counting(k, q)' <=> Counting(k, q) /\ ~(f.pc = "count" /\ f.job = k /\ f.dep = q)
        /\ \A k : f.pc # "store" \/ f.job # k => (Setting(k)' <=> Setting(k))
        /\ \A k : Starting(k)' <=> Starting(k) /\ ~(f.pc = "decrement" /\ x0[2] = 1 /\ f.job = k)
        /\ \A q : Signalling(q)' <=> Signalling(q) /\ ~(f.pc = "decrement" /\ x0[2] > 1 /\ b.job = q)
        /\ StacksOK' /\ OnceOK'
    BY <1>1, <2>1, AfterReplace
  <2> HIDE DEF f, x0, b
  <2>3. \E N : Rearranged(Frames \ {x0}, N) /\ \A x \in N : FrameAfter(x) = g /\ ~Return(t)
    BY <1>3, <2>2
  <2>4. \A k : \A pcs : pcs \subseteq Parts => (Acting(k, pcs)' <=> Acting(k, pcs) \/ (g.pc \in pcs /\ j = k))
    BY <1>1, <2>1, <2>2
  <2>5. \A k : \A pcs : pcs \subseteq Parts \ {"capture"} => (Acting(k, pcs)' <=> Acting(k, pcs))
    BY <2>1, <2>4
  <2>6. (\A k : Acting(k, Parts) => Acting(k, Parts)') /\ Acting(j, Parts)'
    BY <1>1, <2>1, <2>4
  <2>7. /\ \A k, q : Counting(k, q)' <=> Counting(k, q)
        /\ \A k : Setting(k)' <=> Setting(k)
    BY <1>1, <2>2
  <2>8. /\ \A k : Starting(k)' <=> Starting(k) /\ ~(x0[2] = 1 /\ k = j)
        /\ \A q : Signalling(q)' <=> Signalling(q) /\ ~(x0[2] > 1 /\ b.job = q)
    BY <1>1, <2>2
  <2> QED BY <2>2, <2>3, <2>5, <2>6, <2>7, <2>8 DEF x0, b, g
<1> QED BY <1>2, <1>3

\* Whether it is the call that schedules j or a parent that completes, the counter
\* of j counts it.
LEMMA Decrementing ==
    ASSUME IInv, NEW t \in Threads, ~Idle(t), Top(t).pc = "decrement", NEW j \in Jobs, j = Top(t).job
    PROVE  /\ Place(t)[2] \in Nat /\ Place(t)[2] >= 1
           /\ ~Untouched(j) /\ ~Settled(j) /\ (Scheduled(j) => j \in bound)
           /\ Place(t)[2] = 1 => Starting(j) /\ Scheduled(j)
           /\ Place(t)[2] > 1 => \E p \in Owed(j) :
                /\ p \in Jobs /\ p = FrameAt(Below(Place(t))).job /\ dependent[p] = j
                /\ ~Signalled(p) /\ Acting(p, {"delete"})
<1> DEFINE x0 == Place(t)
           b == FrameAt(Below(x0))
<1>1. x0 \in Frames /\ FrameAt(x0) = Top(t) /\ CallOK(x0) /\ x0[2] \in Nat /\ x0[2] >= 1
  BY TopCall
<1> HIDE DEF x0
<1>2. CASE x0[2] = 1
  <2>1. Starting(j) /\ Scheduled(j) /\ j \in bound
    BY <1>1, <1>2 DEF CallOK, Starting
  <2>2. ~Untouched(j) /\ ~Settled(j)
    BY <2>1 DEF Untouched, Settled
  <2> QED BY <1>1, <1>2, <2>1, <2>2 DEF x0
<1>3. CASE x0[2] > 1
  <2>1. Below(x0) \in Frames /\ b.pc = "delete" /\ b.dep = j /\ b \in FrameType /\ CallOK(Below(x0))
    BY <1>1, <1>3, FramesTyped, TypesOfCalls DEF IInv, StacksOK, CallsOK
  <2>2. PICK p \in Jobs : p = b.job
    BY <2>1 DEF FrameType
  <2>3. p \in running /\ dependent[p] = j
    BY <2>1, <2>2 DEF CallOK, Parts
  <2>4. AttachMade(j, p) /\ p \in Parents(j)
    <3>1. AttachMade(dependent[p], p)
      BY <2>3, JobsAssumption DEF IInv, MadeOK
    <3>2. AttachMade(j, p)
      BY <2>3, <3>1
    <3> QED BY <3>2, CallsMade DEF IInv
  <2>5. p \notin finished /\ ~Counting(j, p)
    BY <2>3, Facts DEF IInv, PoolOK, Submitted
  <2>6. Signalling(p) /\ Acting(p, {"delete"})
    BY <1>1, <1>3, <2>1, <2>2 DEF Signalling, Acting
  <2>7. ~Signalled(p)
    BY <2>5, <2>6 DEF Signalled
  <2>8. p \in Owed(j)
    BY <2>4, <2>5, <2>7 DEF Owed, Owes
  <2>9. Scheduled(j) => j \in bound
    BY <2>4 DEF IInv, MadeOK
  <2>10. ~Untouched(j) /\ ~Settled(j)
    BY <2>4, <2>8, <2>9 DEF Untouched, Settled, AttachMade
  <2> QED BY <1>1, <1>3, <2>2, <2>3, <2>6, <2>7, <2>8, <2>9, <2>10 DEF x0
<1> QED BY <1>1, <1>2, <1>3

\* It reaches zero when there is no other.
LEMMA CountDown ==
    ASSUME Limits, IInv, NEW t \in Threads, ~Idle(t), Top(t).pc = "decrement", NEW j \in Jobs, j = Top(t).job,
           UNCHANGED <<dependent, bound, made, finished>>,
           \A k : Acting(k, {"delete"})' <=> Acting(k, {"delete"}),
           \A k, q : Counting(k, q)' <=> Counting(k, q),
           \A k : Starting(k)' <=> Starting(k) /\ ~(Place(t)[2] = 1 /\ k = j),
           \A q : Signalling(q)' <=> Signalling(q) /\ ~(Place(t)[2] > 1 /\ FrameAt(Below(Place(t))).job = q)
    PROVE  /\ Count(j)' \in 0 .. CountRange - 1 /\ Count(j) = Count(j)' + 1
           /\ Settled(j)' <=> Count(j)' = 0
           /\ \A k \in Jobs : k # j => Count(k)' = Count(k) /\ (Settled(k)' <=> Settled(k))
<1> DEFINE x0 == Place(t)
           b == FrameAt(Below(x0))
<1>1. /\ x0[2] \in Nat /\ x0[2] >= 1 /\ (Scheduled(j) => j \in bound)
      /\ x0[2] = 1 => Starting(j) /\ Scheduled(j)
      /\ x0[2] > 1 => \E p \in Owed(j) : p \in Jobs /\ p = b.job /\ dependent[p] = j /\ ~Signalled(p) /\ Acting(p, {"delete"})
  BY Decrementing
<1>2. /\ \A k : Starting(k)' <=> Starting(k) /\ ~(x0[2] = 1 /\ k = j)
      /\ \A q : Signalling(q)' <=> Signalling(q) /\ ~(x0[2] > 1 /\ b.job = q)
  OBVIOUS
<1> HIDE DEF x0, b
<1>3. /\ \A k, q : AttachMade(k, q)' <=> AttachMade(k, q)
      /\ \A k : Scheduled(k)' <=> Scheduled(k)
  BY DEF AttachMade, Scheduled
<1>4. \A k \in Jobs : /\ IsFiniteSet(Owed(k)) /\ Cardinality(Owed(k)) \in 0 .. CountRange - 1
                      /\ Cardinality(Owed(k)') \in 0 .. CountRange - 1
                      /\ Cardinality(Owed(k)') = 0 <=> Owed(k)' = {}
                      /\ Count(k)' = Cardinality(Owed(k)') + (IF Held(k)' THEN 1 ELSE 0)
  <2> SUFFICES ASSUME NEW k \in Jobs
               PROVE  /\ IsFiniteSet(Owed(k)) /\ Cardinality(Owed(k)) \in 0 .. CountRange - 1
                      /\ Cardinality(Owed(k)') \in 0 .. CountRange - 1
                      /\ Cardinality(Owed(k)') = 0 <=> Owed(k)' = {}
                      /\ Count(k)' = Cardinality(Owed(k)') + (IF Held(k)' THEN 1 ELSE 0)
    OBVIOUS
  <2>1. Owed(k) \in SUBSET Parents(k) /\ Owed(k)' \in SUBSET Parents(k)
    BY DEF Owed, Parents
  <2>2. Count(k)' = Cardinality(Owed(k)') + (IF Held(k)' THEN 1 ELSE 0)
    BY DEF Count
  <2> QED BY <2>1, <2>2, Counts
<1>5. \A k \in Jobs : Owed(k)' = {q \in Parents(k) : Owes(q, k)'} /\ Parents(k) \subseteq Jobs
  BY DEF Owed, Parents
<1>6. \A k \in Jobs : k # j => (Starting(k)' <=> Starting(k)) /\ (Held(k)' <=> Held(k))
  BY <1>2, <1>3 DEF Held
<1>7. \A k \in Jobs : k # j /\ Owed(k)' = Owed(k) => Count(k)' = Count(k) /\ (Settled(k)' <=> Settled(k))
  BY <1>3, <1>4, <1>6 DEF Count, Settled
<1>8. Settled(j)' <=> Count(j)' = 0
  <2>1. Count(j)' = 0 <=> Owed(j)' = {} /\ ~Held(j)'
    BY <1>4, CountRangeAssumption
  <2>2. Held(j)' <=> ~(Scheduled(j) /\ j \in bound /\ ~Starting(j)')
    BY <1>3 DEF Held
  <2>3. Settled(j)' <=> Scheduled(j) /\ (j \in bound => ~Starting(j)' /\ Owed(j)' = {})
    BY <1>3 DEF Settled
  <2> QED BY <1>1, <2>1, <2>2, <2>3
<1>9. CASE x0[2] = 1
  <2>1. Starting(j) /\ ~Starting(j)' /\ Scheduled(j) /\ j \in bound
    BY <1>1, <1>2, <1>9
  <2>2. \A q \in Jobs : Signalled(q)' <=> Signalled(q)
    BY <1>2, <1>9 DEF Signalled
  <2>3. \A k, q \in Jobs : Owes(q, k)' <=> Owes(q, k)
    BY <1>3, <2>2 DEF Owes
  <2>4. \A k \in Jobs : Owed(k)' = Owed(k)
    BY <1>5, <2>3 DEF Owed
  <2>5. Held(j) /\ ~Held(j)'
    BY <1>3, <2>1 DEF Held
  <2>6. Count(j) = Cardinality(Owed(j)) + 1 /\ Count(j)' = Cardinality(Owed(j))
    BY <1>4, <2>4, <2>5, CountRangeAssumption DEF Count
  <2> QED BY <1>4, <1>7, <1>8, <2>4, <2>6
<1>10. CASE x0[2] > 1
  <2>1. PICK p \in Owed(j) : p \in Jobs /\ p = b.job /\ dependent[p] = j /\ ~Signalled(p) /\ Acting(p, {"delete"})
    BY <1>1, <1>10
  <2>2. Signalled(p)' /\ \A q \in Jobs : q # p => (Signalled(q)' <=> Signalled(q))
    BY <1>2, <1>10, <2>1 DEF Signalled
  <2>3. \A k, q \in Jobs : Owes(q, k)' <=> Owes(q, k) /\ ~(k = j /\ q = p)
    <3> SUFFICES ASSUME NEW k \in Jobs, NEW q \in Jobs PROVE Owes(q, k)' <=> Owes(q, k) /\ ~(k = j /\ q = p)
      OBVIOUS
    <3>1. CASE q = p
      BY <1>3, <2>1, <2>2, <3>1 DEF Owes
    <3>2. CASE q # p
      BY <1>3, <2>2, <3>2 DEF Owes
    <3> QED BY <3>1, <3>2
  <2>4. Owed(j)' = Owed(j) \ {p} /\ \A k \in Jobs : k # j => Owed(k)' = Owed(k)
    BY <1>5, <2>3 DEF Owed
  <2>5. Cardinality(Owed(j)') = Cardinality(Owed(j)) - 1
    BY ZenonT(30), <1>4, <2>1, <2>4, FS_RemoveElement
  <2>6. Held(j)' <=> Held(j)
    BY <1>2, <1>3, <1>10 DEF Held
  <2>7. Count(j)' \in 0 .. CountRange - 1 /\ Count(j) = Count(j)' + 1
    BY <1>4, <2>5, <2>6, CountRangeAssumption DEF Count
  <2> QED BY <1>7, <1>8, <2>4, <2>7
<1> QED BY <1>1, <1>9, <1>10

LEMMA DecrementStep ==
    ASSUME Limits, IInv, NEW t \in Threads, DecrementDependencyCount(t)
    PROVE  Consistent'
<1>1. ~Idle(t) /\ Top(t).pc = "decrement" /\ UNCHANGED <<dependent, bound, made, alive>>
  BY DEF DecrementDependencyCount, At
<1>2. PICK j \in Jobs : j = Top(t).job
  <2>1. Top(t) \in FrameType
    BY <1>1, TopCall
  <2> QED BY <2>1 DEF FrameType
<1> DEFINE word == Decremented(flags[j])
           g == Frame("capture", j)
           K == Frames \ {Place(t)}
<1>3. /\ flags' = [flags EXCEPT ![j] = word] /\ Access(j)
      /\ IF ReachedZero(word) THEN ScheduleJob(t, j) ELSE Return(t) /\ UNCHANGED <<submissions, waiting, running, finished>>
  BY <1>2 DEF DecrementDependencyCount, pool
<1>4. ~Untouched(j) /\ ~Settled(j)
  BY <1>1, <1>2, Decrementing
<1>5. j \notin Submitted /\ ~Acting(j, Parts) /\ submissions[j] = 0 /\ j \in alive /\ ~Setting(j)
  BY <1>4, Facts DEF Submitted, IInv, PoolOK, SettledOK
<1>6. /\ ReachedZero(word) => submissions' = [submissions EXCEPT ![j] = @ + 1] /\ waiting' \cup running' = waiting \cup running \cup {j}
      /\ ~ReachedZero(word) => UNCHANGED <<submissions, waiting, running>>
      /\ waiting \subseteq waiting' /\ running \subseteq running' /\ UNCHANGED finished
      /\ Return(t) \/ (Replace(t, g) /\ ~Acting(j, Parts))
      /\ Return(t) => running' = running
      /\ ~Return(t) => j \in running' /\ running' = running \cup {j}
      /\ waiting' \cap running' = waiting \cap running
  <2>1. CASE ~ReachedZero(word)
    BY <1>3, <2>1 DEF ScheduleJob, Return, Replace
  <2>2. CASE ReachedZero(word)
    <3> HIDE DEF word, g
    <3>1. /\ submissions' = [submissions EXCEPT ![j] = @ + 1] /\ UNCHANGED finished
          /\ IF j \in EmptyJobs
             THEN running' = running \cup {j} /\ Replace(t, g) /\ UNCHANGED waiting
             ELSE waiting' = waiting \cup {j} /\ Return(t) /\ UNCHANGED running
      BY <1>3, <2>2 DEF ScheduleJob, g
    <3>2. j \notin waiting /\ j \notin running
      BY <1>5 DEF Submitted
    <3>3. ~(Replace(t, g) /\ Return(t))
      <4>1. ASSUME Replace(t, g), Return(t) PROVE FALSE
        <5>1. t \in DOMAIN calls /\ Front(calls[t]) = Append(Front(calls[t]), g)
          BY <1>1, <4>1, TypesOfCalls DEF Replace, Return, IInv, CallsTyped
        <5>2. Front(calls[t]) \in Seq(FrameType)
          BY <1>1, TypesOfCalls, FrontOf DEF IInv, CallsTyped, Idle
        <5>3. Len(Append(Front(calls[t]), g)) = Len(Front(calls[t])) + 1
          BY <5>2
        <5> QED BY <5>1, <5>2, <5>3, LenProperties
      <4> QED BY <4>1
    <3>4. CASE j \in EmptyJobs
      BY <1>5, <2>2, <3>1, <3>2, <3>3, <3>4
    <3>5. CASE j \notin EmptyJobs
      BY <1>5, <2>2, <3>1, <3>2, <3>5
    <3> QED BY <3>4, <3>5
  <2> QED BY <2>1, <2>2
<1> HIDE DEF word, g
<1>7. PICK N : Rearranged(K, N) /\ \A x \in N : FrameAfter(x) = g /\ ~Return(t)
  <2>1. Return(t) \/ (Replace(t, Frame("capture", j)) /\ ~Acting(j, Parts))
    BY <1>6 DEF g
  <2>2. \E N : Rearranged(Frames \ {Place(t)}, N) /\ \A x \in N : FrameAfter(x) = Frame("capture", j) /\ ~Return(t)
    BY Zenon, <1>1, <1>2, <2>1, AfterDecrement
  <2> QED BY Zenon, <2>2 DEF g
<1>8. /\ \A k : \A pcs : pcs \subseteq Parts \ {"capture"} => (Acting(k, pcs)' <=> Acting(k, pcs))
      /\ \A k : Acting(k, Parts) => Acting(k, Parts)'
      /\ Return(t) \/ Acting(j, Parts)'
      /\ \A k, q : Counting(k, q)' <=> Counting(k, q)
      /\ \A k : Setting(k)' <=> Setting(k)
      /\ \A k : Starting(k)' <=> Starting(k) /\ ~(Place(t)[2] = 1 /\ k = j)
      /\ \A q : Signalling(q)' <=> Signalling(q) /\ ~(Place(t)[2] > 1 /\ FrameAt(Below(Place(t))).job = q)
      /\ StacksOK' /\ OnceOK'
  BY <1>1, <1>2, <1>6, AfterDecrement DEF g
<1>9. {"delete"} \subseteq Parts \ {"capture"} /\ {"signal", "delete"} \subseteq Parts \ {"capture"}
  BY DEF Parts
<1>10. \A k : /\ Acting(k, {"delete"})' <=> Acting(k, {"delete"})
              /\ Acting(k, {"signal", "delete"})' <=> Acting(k, {"signal", "delete"})
  BY <1>8, <1>9
<1>11. /\ Count(j)' \in 0 .. CountRange - 1 /\ Count(j) = Count(j)' + 1
       /\ Settled(j)' <=> Count(j)' = 0
       /\ \A k \in Jobs : k # j => Count(k)' = Count(k) /\ (Settled(k)' <=> Settled(k))
  BY <1>1, <1>2, <1>6, <1>8, <1>10, CountDown
<1>12. PICK r \in 0 .. 3 : flags[j] = Word(j, Count(j), r) /\ r \in WantedPriorities(j)
  BY <1>5 DEF IInv, FlagsOK, FlagOK
<1>13. word = Word(j, Count(j)', r)
  BY <1>11, <1>12, WordSteps DEF word
<1>14. ReachedZero(word) <=> Settled(j)'
  BY <1>11, <1>13, Fields DEF ReachedZero
<1>15. Submitted' = IF ReachedZero(word) THEN Submitted \cup {j} ELSE Submitted
  BY <1>6 DEF Submitted
<1>16. CallsOK'
  <2>1. \A x \in K : FrameAt(x).pc \in Parts => FrameAt(x).job \in running'
    BY <1>6 DEF IInv, CallsOK, CallOK
  <2>2. ASSUME NEW x \in N PROVE CallOK(x)'
    <3>1. FrameAfter(x) = g /\ g.job \in running' /\ g.pc = "capture"
      BY <1>6, <1>7 DEF g, Frame
    <3> QED BY <3>1, CallAfter
  <2> QED BY <1>1, <1>7, <2>1, <2>2, CallsKept DEF IInv
<1>17. MadeOK'
  BY <1>1 DEF IInv, MadeOK, Scheduled, AttachMade
<1>18. PoolOK'
  <2>1. \A k \in running' : Acting(k, Parts)'
    BY <1>6, <1>8 DEF IInv, PoolOK
  <2>2. waiting' \cap running' = {} /\ waiting' \cap finished' = {} /\ running' \cap finished' = {}
    BY <1>5, <1>6 DEF IInv, PoolOK, Submitted
  <2>3. \A k \in Jobs : submissions'[k] = IF k \in Submitted' THEN 1 ELSE 0
    BY <1>5, <1>6, <1>15 DEF IInv, PoolOK, TypeOK
  <2> QED BY <2>1, <2>2, <2>3 DEF PoolOK
<1>19. SettledOK'
  <2>1. \A k \in Jobs : k \in Submitted' <=> Settled(k)'
    BY <1>4, <1>5, <1>11, <1>14, <1>15 DEF IInv, SettledOK
  <2> QED BY <2>1 DEF SettledOK
<1>20. FlagsOK'
  <2>1. ASSUME NEW k \in Jobs, k # j PROVE FlagOK(k)'
    <3>1. flags'[k] = flags[k]
      BY <1>3, <2>1 DEF IInv, TypeOK
    <3> QED BY <1>1, <1>8, <1>11, <2>1, <3>1, FlagKept DEF IInv, FlagsOK
  <2>2. FlagOK(j)'
    <3>1. flags'[j] = Word(j, Count(j)', r)
      BY <1>3, <1>13 DEF IInv, TypeOK
    <3>2. r \in WantedPriorities(j)'
      BY <1>1, <1>12 DEF WantedPriorities
    <3> QED BY <3>1, <3>2, FlagAfter
  <2> QED BY <2>1, <2>2 DEF FlagsOK
<1>21. AliveOK'
  BY <1>1, <1>6, <1>10 DEF IInv, AliveOK
<1>22. accessed' = {}
  BY <1>3, <1>5 DEF IInv, Access
<1> QED BY <1>8, <1>16, <1>17, <1>18, <1>19, <1>20, <1>21, <1>22 DEF Consistent

-----------------------------------------------------------------------------
(* The theorems.                                                           *)

LEMMA InitConsistent == Limits /\ Init => Consistent
<1> SUFFICES ASSUME Limits, Init PROVE Consistent
  OBVIOUS
<1>1. /\ dependent = [j \in Jobs |-> NoJob] /\ bound = Operations /\ made = {} /\ alive = Jobs /\ accessed = {}
      /\ submissions = [j \in Jobs |-> 0] /\ waiting = {} /\ running = {} /\ finished = {}
      /\ flags = [j \in Jobs |-> InitialFlags(j)]
  BY DEF Init, Pool!PoolInit
<1>2. Frames = {}
  <2>1. \A t \in Threads : DOMAIN calls[t] = {}
    BY DEF Init
  <2> QED BY <2>1 DEF Frames
<1>3. StacksOK /\ OnceOK /\ CallsOK
  BY <1>2 DEF StacksOK, OnceOK, CallsOK
<1>4. \A j \in Jobs : ~Scheduled(j) /\ ~Setting(j) /\ \A c \in Jobs : ~AttachMade(j, c) /\ ~AttachMade(c, j)
  BY <1>1, <1>2 DEF Scheduled, Setting, AttachMade
<1>5. MadeOK
  BY <1>1, <1>4 DEF MadeOK
<1>6. PoolOK /\ SettledOK
  BY <1>1, <1>4 DEF PoolOK, SettledOK, Settled, Submitted
<1>7. FlagsOK
  <2>1. ASSUME NEW j \in Jobs PROVE FlagOK(j)
    <3>1. Owed(j) = {} /\ Held(j)
      BY <1>4 DEF Owed, Owes, Held, Parents
    <3>2. Count(j) = 1
      BY <3>1, FS_EmptySet DEF Count
    <3>3. flags[j] = Word(j, 1, InitialPriority[j]) /\ InitialPriority[j] \in 0 .. 3
      BY <1>1, InitialWord, JobsAssumption
    <3>4. InitialPriority[j] \in WantedPriorities(j)
      BY <1>1 DEF WantedPriorities
    <3> QED BY <3>2, <3>3, <3>4 DEF FlagOK
  <2> QED BY <2>1 DEF FlagsOK
<1>8. AliveOK
  BY <1>1 DEF AliveOK
<1> QED BY <1>1, <1>3, <1>5, <1>6, <1>7, <1>8 DEF Consistent

LEMMA ConsistentStep == Limits /\ IInv /\ [Next]_vars => Consistent'
<1> SUFFICES ASSUME Limits, IInv, [Next]_vars PROVE Consistent'
  OBVIOUS
<1>1. ASSUME NEW t \in Clients, Call(t) PROVE Consistent'
  <2>1. ASSUME NEW a \in Attachments, AttachParent(t, a[1], a[2]) PROVE Consistent'
    <3>1. a[1] \in Jobs /\ a[2] \in Jobs
      BY JobsAssumption
    <3> QED BY <2>1, <3>1, AttachStep
  <2>2. ASSUME NEW a \in Priorities, SetPriority(t, a[1], a[2]) PROVE Consistent'
    <3>1. a[1] \in Jobs /\ a[2] \in 0 .. 3
      BY JobsAssumption
    <3> QED BY <2>2, <3>1, SetPriorityStep
  <2>3. ASSUME NEW j \in Jobs, Schedule(t, j) \/ Await(t, j) PROVE Consistent'
    BY <2>3, ScheduleStep
  <2>4. ASSUME NEW j \in Jobs, RunOneTime(t, j) PROVE Consistent'
    BY <2>4, RunOneTimeStep
  <2> QED BY <1>1, <2>1, <2>2, <2>3, <2>4 DEF Call
<1>2. ASSUME NEW w \in Workers, Take(w) PROVE Consistent'
  BY <1>2, TakeStep
<1>3. ASSUME NEW t \in Threads, Step(t) PROVE Consistent'
  <2>1. CASE IncrementDependencyCount(t)
    BY <2>1, CountStep
  <2>2. CASE StoreFlags(t)
    BY <2>2, StoreStep
  <2>3. CASE DecrementDependencyCount(t)
    BY <2>3, DecrementStep
  <2>4. CASE ExecuteInternal(t)
    BY <2>4, CaptureStep, BodyStep, SignalStep, DeleteStep DEF ExecuteInternal
  <2> QED BY <1>3, <2>1, <2>2, <2>3, <2>4 DEF Step
<1>4. CASE UNCHANGED vars
  <2>1. /\ Frames' = Frames /\ (StacksOK' <=> StacksOK) /\ (OnceOK' <=> OnceOK) /\ (CallsOK' <=> CallsOK)
        /\ (MadeOK' <=> MadeOK) /\ (AliveOK' <=> AliveOK) /\ accessed' = accessed
        /\ \A j, pcs : Acting(j, pcs)' <=> Acting(j, pcs)
        /\ \A k, q : Counting(k, q)' <=> Counting(k, q)
        /\ \A j : Setting(j)' <=> Setting(j)
        /\ \A j : Starting(j)' <=> Starting(j)
        /\ \A q : Signalling(q)' <=> Signalling(q)
    BY <1>4 DEF vars, pool, history, Frames, StacksOK, OnceOK, SameCall, CallsOK, CallOK, MadeOK, AliveOK, Untouched, Scheduled,
                AttachMade, FrameAt, Acting, Counting, Setting, Starting, Signalling
  <2>2. \A q \in Jobs : Signalled(q)' <=> Signalled(q)
    BY <1>4, <2>1 DEF vars, pool, Signalled
  <2>3. UNCHANGED <<flags, dependent, bound, made, submissions>> /\ Submitted' = Submitted
    BY <1>4 DEF vars, pool, history, Submitted
  <2>4. SettledOK' /\ FlagsOK'
    BY <2>1, <2>2, <2>3, InnerStep
  <2>5. PoolOK' <=> PoolOK
    BY <1>4, <2>1 DEF vars, pool, history, PoolOK, Submitted
  <2> QED BY <2>1, <2>4, <2>5 DEF IInv, Consistent
<1> QED BY <1>1, <1>2, <1>3, <1>4 DEF Next, Terminated

\* The invariant the results below rest on: what the counter of each job counts, who is
\* in which call, and what the scheduler has of the jobs.
THEOREM Inductive ==
    ASSUME Limits
    PROVE  Spec => []IInv
<1>1. Init => IInv
  BY InitTyped, InitConsistent DEF IInv, Consistent
<1>2. IInv /\ [Next]_vars => IInv'
  <2>1. IInv /\ [Next]_vars => TypeOK'
    BY TypeStep DEF IInv
  <2>2. IInv /\ [Next]_vars => Consistent'
    BY ConsistentStep
  <2>3. TypeOK' /\ Consistent' => IInv'
    BY DEF IInv, Consistent
  <2> QED BY <2>1, <2>2, <2>3
<1> QED BY <1>1, <1>2, PTL DEF Spec

\* DecrementDependencyCount (Job.h:76-80): of the threads that decrement the counter of
\* a job, its parents' and the one that schedules it, one at most hands it to the
\* scheduler, whatever the number of parents up to GetMaxDependencyCount.
THEOREM SubmittedByOne ==
    ASSUME Limits
    PROVE  Spec => []SubmittedOnce
<1>1. IInv => SubmittedOnce
  BY DEF IInv, PoolOK, SubmittedOnce
<1> QED BY <1>1, Inductive, PTL

\* A job reaches the scheduler only after the call that schedules it, with m_pScheduler
\* assigned, and after Execute of each of its parents has returned.
THEOREM AfterParents ==
    ASSUME Limits
    PROVE  Spec => []StartsAfterParents
<1>1. ASSUME IInv, NEW j \in Jobs, submissions[j] > 0
      PROVE  Scheduled(j) /\ j \in bound \cup OneTimeJobs /\ \A p \in Parents(j) : Executed(p)
  <2>1. j \in Submitted /\ Scheduled(j)
    BY <1>1, Facts DEF IInv, PoolOK
  <2>2. j \in bound \cup OneTimeJobs
    BY <1>1, <2>1 DEF IInv, MadeOK
  <2>3. ASSUME NEW p \in Parents(j) PROVE Executed(p)
    <3>1. Signalled(p)
      BY <1>1, <2>1, SettledWord
    <3>2. CASE p \in finished
      BY <3>2 DEF Executed
    <3>3. CASE Acting(p, {"delete"})
      <4>1. PICK x \in Frames : FrameAt(x).pc = "delete" /\ FrameAt(x).job = p
        BY <3>3 DEF Acting
      <4> QED BY <4>1 DEF Executed, Frames, FrameAt
    <3> QED BY <3>1, <3>2, <3>3 DEF Signalled
  <2> QED BY <2>1, <2>2, <2>3
<1>2. IInv => StartsAfterParents
  BY <1>1 DEF StartsAfterParents
<1> QED BY <1>2, Inductive, PTL

\* ExecuteInternal reads m_Dependent and the one-time bit before Execute and touches the
\* job no more: no thread uses a job that was deleted or destroyed by its Execute, and
\* neither a parent that completes nor the thread that awaits an operation is late.
THEOREM NoneTouchedAfter ==
    ASSUME Limits
    PROVE  Spec => []NoUseAfterDestroy
<1>1. IInv => NoUseAfterDestroy
  BY DEF IInv, NoUseAfterDestroy
<1> QED BY <1>1, Inductive, PTL

\* The counter shares m_Flags with the priority, and with as many parents as
\* GetMaxDependencyCount allows it runs over into its bits, which are back when the job
\* is queued: its priority is then one that was set, or that of the constructor.
THEOREM PriorityKept ==
    ASSUME Limits
    PROVE  Spec => []QueuedPriorityIntact
<1>1. ASSUME IInv, NEW j \in waiting PROVE PriorityOf(flags[j]) \in WantedPriorities(j)
  <2>1. j \in Jobs /\ j \in Submitted
    BY <1>1 DEF IInv, TypeOK, Submitted
  <2> QED BY <1>1, <2>1, SettledWord
<1>2. IInv => QueuedPriorityIntact
  BY <1>1 DEF QueuedPriorityIntact
<1> QED BY <1>2, Inductive, PTL

\* Pairs of a job and one of its children.
ParentOf == {x \in Jobs \X Jobs : x[1] \in Parents(x[2])}

\* No job is stranded when everything was scheduled and is done, if a job is parent of
\* one other at most (m_Dependent holds one: Job_children shows what happens otherwise)
\* and the attachments are not circular.
THEOREM NoneStranded ==
    ASSUME Limits, \A p \in Jobs : \A c, d \in Children(p) : c = d, IsWellFoundedOn(ParentOf, Jobs)
    PROVE  Spec => []AllRan
<1>1. ASSUME IInv, Quiet PROVE finished = Jobs
  <2>1. Frames = {} /\ waiting = {} /\ \A j \in Jobs : Scheduled(j)
    BY <1>1, FramesTyped, TypesOfCalls DEF Quiet, IInv
  <2>2. running = {}
    BY <1>1, <2>1 DEF IInv, PoolOK, Acting
  <2>3. Submitted = finished /\ finished \subseteq Jobs
    BY <1>1, <2>1, <2>2 DEF Submitted, IInv, TypeOK
  <2> DEFINE rest == Jobs \ finished
  <2>4. ASSUME rest # {} PROVE FALSE
    <3>1. rest \subseteq Jobs
      OBVIOUS
    <3> HIDE DEF rest
    <3>2. PICK j \in rest : \A p \in rest : <<p, j>> \notin ParentOf
      BY <2>4, <3>1, WFMin
    <3>3. j \in Jobs /\ j \notin finished /\ \A p \in Parents(j) : p \in Jobs /\ p \in finished
      BY <3>2 DEF rest, ParentOf, Parents
    <3>4. ASSUME NEW p \in Parents(j) PROVE ~Owes(p, j)
      <4>1. AttachMade(j, p) /\ p \in Jobs
        BY <1>1, <2>1, <3>3, <3>4 DEF IInv, MadeOK
      <4>2. AttachMade(dependent[p], p)
        BY <1>1, <3>3, <4>1 DEF IInv, MadeOK
      <4>3. dependent[p] \in Children(p) /\ j \in Children(p)
        BY <1>1, <4>1, <4>2, CallsMade DEF IInv, Children
      <4> QED BY <3>3, <3>4, <4>1, <4>3 DEF Owes, Signalled
    <3>5. Settled(j)
      BY <2>1, <3>3, <3>4 DEF Settled, Owed, Starting
    <3> QED BY <1>1, <2>3, <3>3, <3>5 DEF IInv, SettledOK
  <2> QED BY <2>3, <2>4
<1>2. IInv => AllRan
  BY <1>1 DEF AllRan
<1> QED BY <1>2, Inductive, PTL

\* Job keeps to what JobPool asks of the users of a scheduler: it hands over a job
\* that the scheduler does not know, and executes what the scheduler gave it.
THEOREM UsesPool ==
    ASSUME Limits
    PROVE  Spec => Pool!PoolSpec
<1>1. Init => Pool!PoolInit
  BY DEF Init
<1>2. ASSUME IInv, [Next]_vars PROVE [Pool!PoolNext]_(Pool!poolVars)
  <2> USE DEF Pool!poolVars, Pool!PoolNext, Pool!Known, Submitted
  <2>1. ASSUME NEW t \in Clients, NEW j \in Jobs, RunOneTime(t, j) PROVE Pool!Submit(j)
    <3>1. ~Scheduled(j) /\ waiting' = waiting \cup {j} /\ UNCHANGED <<running, finished>>
      BY <2>1 DEF RunOneTime, Make, Scheduled
    <3>2. j \notin waiting \cup running \cup finished
      BY <1>2, <3>1, Facts
    <3> QED BY <3>1, <3>2 DEF Pool!Submit
  <2>2. ASSUME NEW t \in Clients, Call(t) PROVE [Pool!PoolNext]_(Pool!poolVars)
    BY <2>1, <2>2 DEF Call, AttachParent, SetPriority, Schedule, Await, pool
  <2>3. ASSUME NEW w \in Workers, Take(w) PROVE [Pool!PoolNext]_(Pool!poolVars)
    BY <1>2, <2>3 DEF Take, IInv, TypeOK
  <2>4. ASSUME NEW t \in Threads, DecrementDependencyCount(t) PROVE [Pool!PoolNext]_(Pool!poolVars)
    <3>1. ~Idle(t) /\ Top(t).pc = "decrement"
      BY <2>4 DEF DecrementDependencyCount, At
    <3>2. PICK j \in Jobs : j = Top(t).job
      BY <1>2, <3>1, TopCall DEF FrameType
    <3>3. j \notin waiting \cup running \cup finished
      BY <1>2, <3>1, <3>2, Decrementing DEF IInv, SettledOK
    <3>4. ScheduleJob(t, j) \/ UNCHANGED <<waiting, running, finished>>
      BY <2>4, <3>2 DEF DecrementDependencyCount, pool
    <3>5. ScheduleJob(t, j) => Pool!Submit(j) \/ Pool!RunInline(j)
      BY <3>3 DEF ScheduleJob, Pool!Submit, Pool!RunInline
    <3> QED BY <3>4, <3>5
  <2>5. ASSUME NEW t \in Threads, ExecuteInternal(t) PROVE [Pool!PoolNext]_(Pool!poolVars)
    <3>1. CASE Delete(t)
      <4>1. ~Idle(t) /\ Pool!Done(Top(t).job)
        BY <3>1 DEF Delete, At
      <4>2. Top(t).job \in Jobs
        BY <1>2, <4>1, TopCall DEF FrameType
      <4> QED BY <4>1, <4>2
    <3>2. CASE Capture(t) \/ Body(t) \/ Signal(t)
      BY <3>2 DEF Capture, Body, Signal, pool
    <3> QED BY <2>5, <3>1, <3>2 DEF ExecuteInternal
  <2>6. ASSUME NEW t \in Threads, IncrementDependencyCount(t) \/ StoreFlags(t) PROVE [Pool!PoolNext]_(Pool!poolVars)
    BY <2>6 DEF IncrementDependencyCount, StoreFlags, pool
  <2>7. CASE UNCHANGED vars
    BY <2>7 DEF vars, pool
  <2> QED BY <1>2, <2>2, <2>3, <2>4, <2>5, <2>6, <2>7 DEF Next, Step, Terminated
<1> QED BY <1>1, <1>2, Inductive, PTL DEF Spec, Pool!PoolSpec
=============================================================================
